------------------------------ MODULE HttpServer ------------------------------
(***************************************************************************)
(* The HTTP server (http.c 28-136, 1188-1331): one thread accepts a        *)
(* connection, reads from it once, routes the request, writes the answer   *)
(* in two pieces, closes, and accepts the next.                            *)
(*                                                                         *)
(* A request is sent in parts, in order and in as many segments as TCP     *)
(* likes: 1 the first of the header, 2 the rest of it, 3 the body.  Six    *)
(* operations stand for all routes: a query that runs a program, the test  *)
(* of forwarding, which may talk to a mail server instead (522-530), a     *)
(* login and a change of password (116-136, 896-911), a change that takes  *)
(* its fields from the body (scheduled-reboot, for which a missing field   *)
(* has a default), and one of the settings, the timeout among them.        *)
(***************************************************************************)
EXTENDS Integers, SequencesExt

CONSTANTS Clients,    \* connections, each made again and again
          Ops,        \* the operations they ask for
          Editors,    \* bound: the clients that ask for more than reading and login
          Words,      \* passwords, one of them in force at first
          Segments,   \* whether a request may arrive in several segments
          HangUps,    \* whether a client may leave without its answer
          Auth,       \* auth_enabled
          Backlog,    \* connections the kernel keeps waiting
          MaxBoots    \* bound on the number of starts

Nobody == "nobody"

ASSUME ConstantsOK ==
  /\ Nobody \notin Clients /\ Editors \subseteq Clients
  /\ Ops \subseteq {"query", "test", "plan", "settings", "login", "password"}
  /\ Ops # {} /\ Words # {}
  /\ {Segments, HangUps, Auth} \subseteq BOOLEAN
  /\ Backlog \in Nat \ {0} /\ MaxBoots \in Nat \ {0}

VARIABLES
  queue,     \* connections waiting to be accepted
  conn,      \* client -> "idle", "open" or "left"
  op, word,  \* what it asks, and the password in the body
  session,   \* the boot its session token comes from, 0 for none
  arrived,   \* the parts of its request that have arrived
  serving,   \* the accepted connection, or Nobody
  phase,     \* what the thread is at: see Phases
  body,      \* whether the body was read
  answer,    \* what is being written
  plan,      \* the schedule: "asked" for, or "default"
  pass,      \* the password in force
  timed,     \* whether at_timeout_ms is positive
  boot,      \* which start of the daemon this is: its session token
  proven     \* history: who gave the password in force during this boot

client == <<conn, op, word, session, arrived>>
server == <<queue, serving, phase, body, answer>>
system == <<plan, pass, timed, boot, proven>>
vars   == <<client, server, system>>

Parts(o) == IF o = "query" THEN 2 ELSE 3

FirstWord == CHOOSE w \in Words : TRUE
FirstOp   == CHOOSE o \in Ops : TRUE      \* of an idle client
Answers   == {"ok", "data", "token", "failed", "unauthorized", "bad"}
Phases    == {"accept", "read", "route", "query", "head", "tail", "full", "dead"}

TypeOK ==
  /\ queue \in Seq(Clients) /\ IsInjective(queue) /\ Len(queue) <= Backlog
  /\ conn \in [Clients -> {"idle", "open", "left"}]
  /\ op \in [Clients -> Ops] /\ word \in [Clients -> Words] /\ session \in [Clients -> 0..boot]
  /\ \A c \in Clients : arrived[c] \in 0..Parts(op[c])
  /\ phase \in Phases
  /\ serving \in Clients \cup {Nobody} /\ (serving = Nobody <=> phase \in {"accept", "dead"})
  /\ serving \notin ToSet(queue)
  /\ body \in BOOLEAN /\ answer \in Answers \cup {"none"}
  /\ plan \in {"asked", "default"} /\ pass \in Words /\ timed \in BOOLEAN
  /\ boot \in 1..MaxBoots /\ proven \subseteq Clients

Init ==
  /\ queue = <<>> /\ conn = [c \in Clients |-> "idle"]
  /\ op = [c \in Clients |-> FirstOp] /\ word = [c \in Clients |-> FirstWord]
  /\ session = [c \in Clients |-> 0] /\ arrived = [c \in Clients |-> 0]
  /\ serving = Nobody /\ phase = "accept" /\ body = FALSE /\ answer = "none"
  /\ plan = "default" /\ pass = FirstWord /\ timed = TRUE /\ boot = 1 /\ proven = {}

-----------------------------------------------------------------------------
(* Clients and the kernel.                                                 *)

\* listen(srv, 16).
Room_OneMore == Len(queue) <= Backlog
Room == Len(queue) < Backlog

\* With a full queue, or no listener, the connection is not made.  A request
\* carries the token the client has, which may be one of an earlier boot.
Connect(c, o) ==
  /\ conn[c] = "idle" /\ phase # "dead" /\ Room
  /\ c \in Editors \/ o \in {"query", "test", "login"}
  /\ conn' = [conn EXCEPT ![c] = "open"] /\ op' = [op EXCEPT ![c] = o]
  /\ queue' = Append(queue, c)
  /\ UNCHANGED <<word, session, arrived, serving, phase, body, answer, system>>

\* A body carries a password if it is one of a login or a change of password.
\* What arrives after the one read is not looked at.
Send(c, w) ==
  /\ conn[c] = "open" /\ (c = serving => phase = "read")
  /\ \E n \in arrived[c] + 1 .. Parts(op[c]) :
       /\ Segments \/ n = Parts(op[c])
       /\ arrived' = [arrived EXCEPT ![c] = n]
       /\ (n = 3 /\ op[c] \in {"login", "password"}) \/ w = FirstWord
  /\ word' = [word EXCEPT ![c] = w]
  /\ UNCHANGED <<conn, op, session, server, system>>

HangUp(c) ==
  /\ HangUps /\ conn[c] = "open"
  /\ conn' = [conn EXCEPT ![c] = "left"]
  /\ UNCHANGED <<op, word, session, arrived, server, system>>

\* The client reads, and an answer that did not fit in the buffers of the
\* connection is written to its end.  One that stays need never do so.
TakeRest(c) ==
  /\ c = serving /\ conn[c] = "open" /\ phase = "full"
  /\ phase' = "tail"
  /\ UNCHANGED <<client, queue, serving, body, answer, system>>

\* Nothing is left of a request once it is answered or given up.
Fresh(c) ==
  /\ op' = [op EXCEPT ![c] = FirstOp] /\ word' = [word EXCEPT ![c] = FirstWord]
  /\ arrived' = [arrived EXCEPT ![c] = 0]

-----------------------------------------------------------------------------
(* http_serve, parse_request and route_request.                            *)

Accept ==
  /\ phase = "accept" /\ queue # <<>>
  /\ serving' = Head(queue) /\ queue' = Tail(queue)
  /\ phase' = "read" /\ body' = FALSE
  /\ UNCHANGED <<client, answer, system>>

Goes(p) == phase' = p /\ UNCHANGED <<client, serving, queue>>

\* One read: it waits for the first segment or the end, and takes what is there.
Ready_Whole(c) == arrived[c] = Parts(op[c]) \/ conn[c] = "left"
Ready(c) == arrived[c] > 0 \/ conn[c] = "left"

Read ==
  /\ phase = "read" /\ Ready(serving) /\ arrived[serving] >= 2
  /\ phase' = "route" /\ body' = (arrived[serving] = 3)
  /\ arrived' = [arrived EXCEPT ![serving] = 0]
  /\ UNCHANGED <<conn, op, word, session, serving, queue, answer, system>>

\* From here on the request is its answer.
Answer(a) ==
  /\ phase' = "head" /\ answer' = a /\ body' = FALSE /\ Fresh(serving)
  /\ UNCHANGED <<conn, session, serving, queue, boot>>

ReadPart ==
  /\ phase = "read" /\ Ready(serving) /\ arrived[serving] < 2
  /\ Answer("bad") /\ UNCHANGED <<plan, pass, timed, proven>>

Open(c) == op[c] = "login"          \* the five paths that need no session
Authorized_Known(c) == ~Auth \/ Open(c) \/ session[c] > 0
Authorized(c) == ~Auth \/ Open(c) \/ session[c] = boot

Unauthorized ==
  /\ phase = "route" /\ ~Authorized(serving)
  /\ Answer("unauthorized") /\ UNCHANGED <<plan, pass, timed, proven>>

\* A body that was read lies in a local buffer of parse_request, which has
\* returned: it may be intact or overwritten, and is then like one not read.
Intact == IF body THEN BOOLEAN ELSE {FALSE}

Routes(o) == phase = "route" /\ Authorized(serving) /\ op[serving] = o

StartQuery ==
  /\ Routes("query") \/ Routes("test")
  /\ Goes("query") /\ UNCHANGED <<body, answer, system>>

\* api_system_scheduled_reboot: missing fields get their defaults.
SetPlan ==
  /\ Routes("plan")
  /\ \E intact \in Intact : plan' = IF intact THEN "asked" ELSE "default"
  /\ Answer("ok") /\ UNCHANGED <<pass, timed, proven>>

\* api_system_settings_save: any number is taken for the timeout, and a missing
\* one leaves it.
SetSettings ==
  /\ Routes("settings")
  /\ \E intact \in Intact : timed' \in IF intact THEN BOOLEAN ELSE {timed}
  /\ Answer("ok") /\ UNCHANGED <<plan, pass, proven>>

\* api_auth_login.
Login ==
  /\ Routes("login")
  /\ \E intact \in Intact :
       IF intact /\ word[serving] = pass
         THEN Answer("token") /\ proven' = proven \cup {serving}
         ELSE Answer("failed") /\ UNCHANGED proven
  /\ UNCHANGED <<plan, pass, timed>>

\* api_system_password: the token stays as it is.
SetPassword ==
  /\ Routes("password")
  /\ \E intact \in Intact :
       IF intact THEN Answer("ok") /\ pass' = word[serving] ELSE Answer("failed") /\ UNCHANGED pass
  /\ UNCHANGED <<plan, timed, proven>>

\* Its output may be long, and so may the log of a mail server.
QueryEnds == phase = "query" /\ Answer("data") /\ UNCHANGED <<plan, pass, timed, proven>>

\* A mail server is waited for on a socket without a timeout; without
\* at_timeout_ms so is a program.
MayHang == op[serving] = "test" \/ ~timed

\* response_raw: dprintf of the header, which the empty buffer of a connection
\* takes at once, then write of the body, which waits when the buffers are full.
WriteHead ==
  /\ phase = "head"
  /\ Goes("tail") \/ (answer = "data" /\ Goes("full"))
  /\ UNCHANGED <<body, answer, system>>

\* The body is out, or the write failed and nobody looks.  The client of a login
\* keeps the token it is answered with.
WriteTail ==
  /\ phase = "tail" \/ (phase = "full" /\ conn[serving] = "left")
  /\ phase' = "accept" /\ serving' = Nobody /\ body' = FALSE /\ answer' = "none"
  /\ conn' = [conn EXCEPT ![serving] = "idle"]
  /\ session' = IF answer = "token" /\ conn[serving] = "open"
                  THEN [session EXCEPT ![serving] = boot] ELSE session
  /\ UNCHANGED <<op, word, arrived, queue, system>>

\* The second write to a connection that was reset raises SIGPIPE, for which
\* the daemon has no handler; every waiting connection is reset with it.
Killed ==
  /\ phase \in {"tail", "full"} /\ conn[serving] = "left"
  /\ phase' = "dead" /\ serving' = Nobody /\ queue' = <<>>
  /\ conn' = [c \in Clients |-> "idle"] /\ arrived' = [c \in Clients |-> 0]
  /\ op' = [c \in Clients |-> FirstOp] /\ word' = [c \in Clients |-> FirstWord]
  /\ body' = FALSE /\ answer' = "none"
  /\ UNCHANGED <<session, system>>

\* The init system starts it again; what was saved comes back from the database.
Restart ==
  /\ phase = "dead" /\ boot < MaxBoots
  /\ boot' = boot + 1 /\ phase' = "accept" /\ proven' = {}
  /\ UNCHANGED <<client, queue, serving, body, answer, plan, pass, timed>>

Handler == Unauthorized \/ StartQuery \/ SetPlan \/ SetSettings \/ Login \/ SetPassword
Server  == \/ Accept \/ Read \/ ReadPart \/ Handler \/ WriteHead \/ WriteTail \/ Killed
           \/ (QueryEnds /\ ~MayHang)

Next ==
  \/ \E c \in Clients : \/ \E o \in Ops : Connect(c, o)
                        \/ \E w \in Words : Send(c, w)
                        \/ HangUp(c) \/ TakeRest(c)
  \/ Accept \/ Read \/ ReadPart \/ Handler \/ QueryEnds \/ WriteHead \/ WriteTail \/ Killed \/ Restart

Spec == Init /\ [][Next]_vars

\* The server's thread runs on and a program with a timeout ends; of clients
\* nothing is asked, neither that they send nor that they read nor that they
\* leave, and nothing of a mail server.
FairSpec == Spec /\ WF_vars(Server)

-----------------------------------------------------------------------------
(* Properties.                                                             *)

\* What the thread may wait for without end: a request from the client it
\* accepted, the mail server or a program without a timeout, and the client that
\* does not read a long answer.
Silent == phase = "read" /\ conn[serving] = "open" /\ arrived[serving] = 0
Hung   == phase = "query" /\ MayHang
Unread == phase = "full" /\ conn[serving] = "open"

\* Each client that connects is answered in the end, also for half a request,
\* however the others come back, send theirs or leave, unless it leaves first or
\* the daemon dies and resets it.  Others keep it waiting for ever in three ways
\* only: by staying silent, by not reading a long answer, and by a request that
\* waits for a mail server or, once at_timeout_ms was saved as 0 or less, for any
\* program (http.c 29-104, 522-530, 860, 1316-1330).
ConnectedIsServed ==
  \A c \in Clients : (conn[c] = "open") ~> (conn[c] # "open" \/ [](Silent \/ Hung \/ Unread))

\* With sessions on, a request changes the plan, the password or the timeout only
\* for a client that gave the password during this start of the daemon, however
\* long the request waited, whoever was served before and whatever token it kept
\* from an earlier start (http.c 106-136, 840-911, main.c 38).
OnlyThisSession ==
  [][plan' # plan \/ pass' # pass \/ timed' # timed => ~Auth \/ serving \in proven]_vars
===============================================================================
