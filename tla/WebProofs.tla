------------------------------ MODULE WebProofs -------------------------------
(***************************************************************************)
(* The guarantees of what serves the browser: of HttpServer for any        *)
(* clients, operations and passwords, any queue, any segmentation of       *)
(* requests and any number of starts, and of the network page for any      *)
(* replies of the modem and any profiles.                                  *)
(***************************************************************************)
EXTENDS HttpServer, Network, FiniteSetTheorems, WellFoundedInduction, SequenceTheorems, TLAPS

LEMMA FirstsExist == FirstWord \in Words /\ FirstOp \in Ops
BY ConstantsOK DEF FirstWord, FirstOp

\* A function stays one of its type when one value is replaced.
LEMMA ExceptType ==
  ASSUME NEW S, NEW T, NEW f \in [S -> T], NEW x, NEW v \in T
  PROVE  [f EXCEPT ![x] = v] \in [S -> T]
OBVIOUS

\* A queue without repetitions stays one when a newcomer joins it.
LEMMA QueueJoin ==
  ASSUME NEW S, NEW q \in Seq(S), IsInjective(q), NEW c \in S, \A i \in DOMAIN q : q[i] # c
  PROVE  /\ Append(q, c) \in Seq(S) /\ IsInjective(Append(q, c))
         /\ Len(Append(q, c)) = Len(q) + 1
         /\ ToSet(Append(q, c)) = ToSet(q) \cup {c}
         /\ \A i \in DOMAIN Append(q, c) : Append(q, c)[i] = c \/ \E j \in DOMAIN q : q[j] = Append(q, c)[i]
<1> DEFINE a == Append(q, c)
<1>1. /\ a \in Seq(S) /\ Len(a) = Len(q) + 1 /\ DOMAIN a = 1..Len(q) + 1 /\ DOMAIN q = 1..Len(q)
      /\ Len(q) \in Nat /\ a[Len(q) + 1] = c /\ \A i \in 1..Len(q) : a[i] = q[i]
  OBVIOUS
<1> HIDE DEF a
<1>2. IsInjective(a)
  BY <1>1 DEF IsInjective
<1>3. \A x : x \in ToSet(a) <=> x \in ToSet(q) \cup {c}
  BY <1>1 DEF ToSet
<1>4. \A i \in DOMAIN a : a[i] = c \/ \E j \in DOMAIN q : q[j] = a[i]
  BY <1>1
<1> QED BY <1>1, <1>2, <1>3, <1>4 DEF a

\* And when its head leaves it, who is then not in it any more.
LEMMA QueueLeave ==
  ASSUME NEW S, NEW q \in Seq(S), IsInjective(q), q # <<>>
  PROVE  /\ Tail(q) \in Seq(S) /\ IsInjective(Tail(q)) /\ Len(Tail(q)) = Len(q) - 1
         /\ Head(q) \in S /\ 1 \in DOMAIN q /\ Head(q) = q[1]
         /\ Head(q) \notin ToSet(Tail(q))
         /\ \A i \in DOMAIN Tail(q) : i + 1 \in DOMAIN q /\ Tail(q)[i] = q[i + 1]
<1> DEFINE t == Tail(q)
<1>1. /\ t \in Seq(S) /\ Len(t) = Len(q) - 1 /\ DOMAIN t = 1..Len(q) - 1 /\ DOMAIN q = 1..Len(q)
      /\ Len(q) \in Nat /\ Len(q) > 0 /\ \A i \in 1..Len(q) - 1 : t[i] = q[i + 1]
  OBVIOUS
<1>2. Head(q) = q[1] /\ q[1] \in S
  OBVIOUS
<1> HIDE DEF t
<1>3. IsInjective(t)
  <2>1. ASSUME NEW i \in 1..Len(q) - 1, NEW j \in 1..Len(q) - 1, t[i] = t[j]
        PROVE  i = j
    <3>1. i + 1 \in DOMAIN q /\ j + 1 \in DOMAIN q /\ q[i + 1] = q[j + 1]
      BY <1>1, <2>1
    <3>2. i + 1 = j + 1
      BY <3>1 DEF IsInjective
    <3> QED BY <1>1, <3>2
  <2> QED BY <1>1, <2>1 DEF IsInjective
<1>4. \A i \in DOMAIN t : i + 1 \in DOMAIN q /\ i + 1 # 1 /\ t[i] = q[i + 1]
  BY <1>1
<1>5. q[1] \notin ToSet(t)
  BY <1>1, <1>4 DEF ToSet, IsInjective
<1> QED BY <1>1, <1>2, <1>3, <1>4, <1>5 DEF t

-----------------------------------------------------------------------------

(* The type invariant, in four parts, with what makes it inductive: who waits *)
(* or is served has a connection, and nothing is written but an answer.       *)

ClientsOK ==
  /\ conn \in [Clients -> {"idle", "open", "left"}]
  /\ op \in [Clients -> Ops] /\ word \in [Clients -> Words] /\ arrived \in [Clients -> 0..3]
  /\ \A c \in Clients : arrived[c] \in 0..Parts(op[c]) /\ (conn[c] = "idle" => arrived[c] = 0)
QueueOK ==
  /\ queue \in Seq(Clients) /\ IsInjective(queue) /\ Len(queue) <= Backlog
  /\ serving \notin ToSet(queue)
  /\ \A i \in DOMAIN queue : conn[queue[i]] # "idle"
ServingOK ==
  /\ phase \in Phases
  /\ serving \in Clients \cup {Nobody} /\ (serving = Nobody <=> phase \in {"accept", "dead"})
  /\ serving # Nobody => conn[serving] # "idle" /\ (phase # "read" => arrived[serving] = 0)
  /\ body \in BOOLEAN /\ answer \in Answers \cup {"none"}
  /\ phase \notin {"head", "tail", "full"} => answer = "none"
SystemOK ==
  /\ session \in [Clients -> 0..boot] /\ boot \in 1..MaxBoots
  /\ plan \in {"asked", "default"} /\ pass \in Words /\ timed \in BOOLEAN /\ proven \subseteq Clients

TypeInv == ClientsOK /\ QueueOK /\ ServingOK /\ SystemOK

LEMMA TypeInit == Init => TypeInv
<1> SUFFICES ASSUME Init PROVE TypeInv
  OBVIOUS
<1>1. QueueOK
  <2>1. queue = <<>> /\ serving = Nobody
    BY DEF Init
  <2>2. queue \in Seq(Clients) /\ IsInjective(queue) /\ Len(queue) = 0 /\ ToSet(queue) = {} /\ DOMAIN queue = {}
    BY <2>1 DEF IsInjective, ToSet
  <2> QED BY <2>2, ConstantsOK DEF QueueOK
<1>2. ClientsOK
  BY FirstsExist DEF Init, Parts, ClientsOK
<1>3. ServingOK
  BY DEF Init, ServingOK, Answers, Phases
<1>4. SystemOK
  BY FirstsExist, ConstantsOK DEF Init, SystemOK
<1> QED BY <1>1, <1>2, <1>3, <1>4 DEF TypeInv

LEMMA PartsType == \A o : Parts(o) \in {2, 3}
BY DEF Parts

LEMMA ClientsStep == TypeInv /\ [Next]_vars => ClientsOK'
<1> SUFFICES ASSUME ClientsOK, ServingOK, [Next]_vars PROVE ClientsOK'
  BY DEF TypeInv
<1> USE FirstsExist, PartsType DEF ClientsOK
<1>1. ASSUME NEW c \in Clients, NEW o \in Ops, Connect(c, o) PROVE ClientsOK'
  <2>1. /\ conn' = [conn EXCEPT ![c] = "open"] /\ op' = [op EXCEPT ![c] = o]
        /\ word' = word /\ arrived' = arrived /\ arrived[c] = 0
    BY <1>1 DEF Connect
  <2>2. \A d \in Clients : arrived'[d] \in 0..Parts(op'[d]) /\ (conn'[d] = "idle" => arrived'[d] = 0)
    BY <2>1
  <2> QED BY <2>1, <2>2
<1>2. ASSUME NEW c \in Clients, NEW w \in Words, Send(c, w) PROVE ClientsOK'
  BY <1>2 DEF Send
<1>3. ASSUME NEW c \in Clients, HangUp(c) PROVE ClientsOK'
  BY <1>3 DEF HangUp
<1>4. CASE UNCHANGED <<conn, op, word, arrived>>
  BY <1>4
<1>5. CASE Read
  <2>1. /\ arrived' = [arrived EXCEPT ![serving] = 0] /\ conn' = conn /\ op' = op /\ word' = word
    BY <1>5 DEF Read
  <2>2. \A d \in Clients : arrived'[d] \in {0, arrived[d]}
    BY <2>1
  <2>3. arrived' \in [Clients -> 0..3]
    BY <2>1, 0 \in 0..3, ExceptType
  <2> QED BY <2>1, <2>2, <2>3
<1>6. ASSUME NEW a, Answer(a) PROVE ClientsOK'
  <2>1. /\ arrived' = [arrived EXCEPT ![serving] = 0] /\ op' = [op EXCEPT ![serving] = FirstOp]
        /\ word' = [word EXCEPT ![serving] = FirstWord] /\ conn' = conn
    BY <1>6 DEF Answer, Fresh
  <2>2. \A d \in Clients : arrived'[d] = 0 \/ (arrived'[d] = arrived[d] /\ op'[d] = op[d])
    BY <2>1
  <2>3. arrived' \in [Clients -> 0..3] /\ op' \in [Clients -> Ops] /\ word' \in [Clients -> Words]
    BY <2>1, 0 \in 0..3, ExceptType
  <2> QED BY <2>1, <2>2, <2>3
<1>7. CASE WriteTail
  <2>1. /\ conn' = [conn EXCEPT ![serving] = "idle"] /\ op' = op /\ word' = word /\ arrived' = arrived
        /\ serving \in Clients => arrived[serving] = 0
    BY <1>7, ConstantsOK DEF WriteTail, ServingOK
  <2> QED BY <2>1
<1>8. CASE Killed
  BY <1>8 DEF Killed
<1> QED BY <1>1, <1>2, <1>3, <1>4, <1>5, <1>6, <1>7, <1>8
     DEF Next, Handler, vars, client, TakeRest, Accept, ReadPart, Unauthorized, StartQuery, Goes, QueryEnds, SetPlan,
         SetSettings, Login, SetPassword, WriteHead, Restart

LEMMA QueueStep == TypeInv /\ [Next]_vars => QueueOK'
<1> SUFFICES ASSUME ClientsOK, QueueOK, ServingOK, [Next]_vars PROVE QueueOK'
  BY DEF TypeInv
<1> USE DEF QueueOK
<1>1. ASSUME NEW c \in Clients, NEW o \in Ops, Connect(c, o) PROVE QueueOK'
  <2>1. /\ conn[c] = "idle" /\ conn' = [conn EXCEPT ![c] = "open"] /\ serving' = serving
        /\ Len(queue) < Backlog /\ queue' = Append(queue, c)
    BY <1>1 DEF Connect, Room
  <2>2. serving # c /\ \A i \in DOMAIN queue : queue[i] # c
    BY <2>1, ConstantsOK DEF ServingOK
  <2>3. /\ queue' \in Seq(Clients) /\ IsInjective(queue') /\ Len(queue') = Len(queue) + 1
        /\ ToSet(queue') = ToSet(queue) \cup {c}
        /\ \A i \in DOMAIN queue' : queue'[i] = c \/ \E j \in DOMAIN queue : queue[j] = queue'[i]
    BY <2>1, <2>2, QueueJoin
  <2>4. \A d \in Clients : conn'[d] = "idle" => d # c /\ conn[d] = "idle"
    BY <2>1 DEF ClientsOK
  <2>5. \A i \in DOMAIN queue' : conn'[queue'[i]] # "idle"
    <3>1. \A i \in DOMAIN queue' : queue'[i] \in Clients
      BY <2>3
    <3> QED BY <2>3, <2>4, <3>1
  <2>6. Len(queue') <= Backlog /\ serving' \notin ToSet(queue')
    <3>1. Len(queue) \in Nat
      OBVIOUS
    <3> QED BY <2>1, <2>2, <2>3, <3>1, ConstantsOK
  <2> QED BY <2>3, <2>5, <2>6
<1>2. CASE UNCHANGED <<queue, serving, conn>>
  BY <1>2 DEF ToSet, IsInjective
<1>3. ASSUME NEW c \in Clients, HangUp(c) PROVE QueueOK'
  <2>1. conn' = [conn EXCEPT ![c] = "left"] /\ queue' = queue /\ serving' = serving
    BY <1>3 DEF HangUp, server
  <2>2. \A d \in Clients : conn'[d] = "idle" => conn[d] = "idle"
    BY <2>1 DEF ClientsOK
  <2>3. \A i \in DOMAIN queue : queue[i] \in Clients
    OBVIOUS
  <2> QED BY <2>1, <2>2, <2>3
<1>4. CASE Accept
  <2>1. queue # <<>> /\ serving' = Head(queue) /\ queue' = Tail(queue) /\ conn' = conn
    BY <1>4 DEF Accept, client
  <2>2. /\ Tail(queue) \in Seq(Clients) /\ IsInjective(Tail(queue)) /\ Len(Tail(queue)) = Len(queue) - 1
        /\ Head(queue) \notin ToSet(Tail(queue))
        /\ \A i \in DOMAIN Tail(queue) : i + 1 \in DOMAIN queue /\ Tail(queue)[i] = queue[i + 1]
    BY <2>1, QueueLeave
  <2>3. Len(queue) \in Nat
    OBVIOUS
  <2> QED BY <2>1, <2>2, <2>3, ConstantsOK
<1>5. CASE WriteTail
  <2>1. /\ conn' = [conn EXCEPT ![serving] = "idle"] /\ queue' = queue /\ serving' = Nobody
    BY <1>5 DEF WriteTail
  <2>2. \A i \in DOMAIN queue : queue[i] \in Clients /\ queue[i] # serving /\ queue[i] # Nobody
    BY ConstantsOK DEF ToSet
  <2>3. Nobody \notin ToSet(queue)
    BY <2>2 DEF ToSet
  <2>4. \A i \in DOMAIN queue : conn'[queue[i]] # "idle"
    BY <2>1, <2>2 DEF ClientsOK
  <2> QED BY <2>1, <2>3, <2>4
<1>6. CASE Killed
  <2>1. queue' = <<>>
    BY <1>6 DEF Killed
  <2>2. queue' \in Seq(Clients) /\ IsInjective(queue') /\ Len(queue') = 0 /\ ToSet(queue') = {} /\ DOMAIN queue' = {}
    BY <2>1 DEF IsInjective, ToSet
  <2> QED BY <2>2, ConstantsOK
<1>7. ASSUME NEW c \in Clients, NEW w \in Words, Send(c, w) PROVE UNCHANGED <<queue, serving, conn>>
  BY <1>7 DEF Send, server
<1> QED BY <1>1, <1>2, <1>3, <1>4, <1>5, <1>6, <1>7
     DEF Next, Handler, vars, client, server, TakeRest, Read, ReadPart, Answer, Unauthorized, StartQuery, Goes, QueryEnds,
         SetPlan, SetSettings, Login, SetPassword, WriteHead, Restart

LEMMA ServingStep == TypeInv /\ [Next]_vars => ServingOK'
<1> SUFFICES ASSUME ClientsOK, QueueOK, ServingOK, [Next]_vars PROVE ServingOK'
  BY DEF TypeInv
<1> USE ConstantsOK DEF ServingOK, Answers, Phases
<1>1. ASSUME NEW c \in Clients, NEW o \in Ops, Connect(c, o) PROVE ServingOK'
  BY <1>1 DEF Connect, ClientsOK
<1>2. ASSUME NEW c \in Clients, NEW w \in Words, Send(c, w) PROVE ServingOK'
  <2>1. /\ UNCHANGED <<conn, serving, phase, body, answer>> /\ (c = serving => phase = "read")
        /\ \E n : arrived' = [arrived EXCEPT ![c] = n]
    BY <1>2 DEF Send, server
  <2> QED BY <2>1 DEF ClientsOK
<1>3. ASSUME NEW c \in Clients, HangUp(c) PROVE ServingOK'
  BY <1>3 DEF HangUp, server, ClientsOK
<1>4. CASE Accept
  <2>1. /\ queue # <<>> /\ serving' = Head(queue) /\ phase = "accept" /\ phase' = "read" /\ body' = FALSE
        /\ answer' = answer /\ conn' = conn /\ arrived' = arrived
    BY <1>4 DEF Accept, client
  <2>2. Head(queue) \in Clients /\ conn[Head(queue)] # "idle"
    BY <2>1, QueueLeave DEF QueueOK
  <2> QED BY <2>1, <2>2
<1>5. CASE Read
  BY <1>5 DEF Read, ClientsOK
<1>6. ASSUME NEW a \in Answers, Answer(a), phase \in {"read", "route", "query"} PROVE ServingOK'
  BY <1>6 DEF Answer, Fresh, ClientsOK
<1>7. CASE StartQuery \/ WriteHead \/ \E c \in Clients : TakeRest(c)
  BY <1>7 DEF StartQuery, Routes, WriteHead, TakeRest, Goes, client
<1>8. CASE WriteTail \/ Killed \/ Restart
  BY <1>8 DEF WriteTail, Killed, Restart
<1>9. CASE UNCHANGED vars
  BY <1>9 DEF vars, client, server
<1>10. CASE ReadPart \/ Unauthorized \/ QueryEnds \/ SetPlan \/ SetSettings \/ Login \/ SetPassword
  BY <1>10, <1>6 DEF ReadPart, Unauthorized, QueryEnds, SetPlan, SetSettings, Login, SetPassword, Routes
<1> QED BY <1>1, <1>2, <1>3, <1>4, <1>5, <1>7, <1>8, <1>9, <1>10 DEF Next, Handler

LEMMA SystemStep == TypeInv /\ [Next]_vars => SystemOK'
<1> SUFFICES ASSUME ClientsOK, ServingOK, SystemOK, [Next]_vars PROVE SystemOK'
  BY DEF TypeInv
<1> USE ConstantsOK DEF SystemOK
<1>1. CASE UNCHANGED <<session, system>>
  BY <1>1 DEF system
<1>2. CASE WriteTail
  <2>1. boot' = boot /\ (session' = session \/ session' = [session EXCEPT ![serving] = boot]) /\ UNCHANGED system
    BY <1>2 DEF WriteTail, system
  <2>2. session' \in [Clients -> 0..boot]
    BY <2>1, boot \in 0..boot, ExceptType
  <2> QED BY <2>1, <2>2 DEF system
<1>3. CASE Restart
  BY <1>3 DEF Restart, client
<1>4. ASSUME NEW a, Answer(a) PROVE session' = session /\ boot' = boot
  BY <1>4 DEF Answer
<1>5. CASE SetPlan
  BY <1>5, <1>4 DEF SetPlan
<1>6. CASE Login
  BY <1>6, <1>4 DEF Login, Routes, ServingOK
<1>7. CASE SetPassword
  <2>1. word[serving] \in Words
    BY <1>7 DEF SetPassword, Routes, ServingOK, ClientsOK
  <2> QED BY <1>7, <1>4, <2>1 DEF SetPassword
<1>8. CASE ReadPart \/ Unauthorized \/ QueryEnds
  BY <1>8, <1>4 DEF ReadPart, Unauthorized, QueryEnds
<1>9. CASE SetSettings
  <2>1. session' = session /\ boot' = boot /\ UNCHANGED <<plan, pass, proven>>
    BY <1>9, <1>4 DEF SetSettings
  <2>2. timed' \in BOOLEAN
    BY <1>9, Zenon DEF SetSettings
  <2> QED BY <2>1, <2>2
<1> QED BY <1>1, <1>2, <1>3, <1>5, <1>6, <1>7, <1>8, <1>9
     DEF Next, Handler, vars, client, system, Connect, Send, HangUp, TakeRest, Accept, Read, StartQuery, Goes,
         WriteHead, Killed, server

LEMMA TypeStep == TypeInv /\ [Next]_vars => TypeInv'
BY ClientsStep, QueueStep, ServingStep, SystemStep DEF TypeInv

\* Every state of the server has its type: the thread serves exactly one
\* connection between an accept and its answer, the one it took from the queue
\* of those that wait, each there once and never more than the backlog.
THEOREM TypeCorrect == Spec => []TypeOK
<1>1. TypeInv => TypeOK
  BY DEF TypeInv, ClientsOK, QueueOK, ServingOK, SystemOK, TypeOK
<1> QED BY <1>1, TypeInit, TypeStep, PTL DEF Spec

-----------------------------------------------------------------------------

(* A token is on its way only to a client that gave the password since the    *)
(* daemon started, and the clients that have the token in force are of those. *)

SessionInv ==
  /\ answer = "token" => serving \in proven
  /\ \A c \in Clients : session[c] = boot => c \in proven

LEMMA SessionInit == Init => SessionInv
BY DEF Init, SessionInv

LEMMA SessionStep == TypeInv /\ SessionInv /\ [Next]_vars => SessionInv'
<1> SUFFICES ASSUME ServingOK, SystemOK, SessionInv, [Next]_vars PROVE SessionInv'
  BY DEF TypeInv
<1> USE DEF SessionInv
<1>1. CASE UNCHANGED <<session, boot, proven, serving, answer>>
  BY <1>1
<1>2. CASE Accept
  BY <1>2 DEF Accept, client, system, ServingOK
<1>3. ASSUME NEW a \in Answers \ {"token"}, Answer(a), UNCHANGED proven PROVE SessionInv'
  BY <1>3 DEF Answer
<1>4. CASE Login
  BY <1>4 DEF Login, Answer
<1>5. CASE WriteTail
  BY <1>5 DEF WriteTail, system, SystemOK
<1>6. CASE Killed
  BY <1>6 DEF Killed, system
<1>7. CASE Restart
  BY <1>7 DEF Restart, client, SystemOK, ServingOK
<1>8. CASE ReadPart \/ Unauthorized \/ QueryEnds \/ SetPlan \/ SetSettings \/ SetPassword
  BY <1>8, <1>3 DEF ReadPart, Unauthorized, QueryEnds, SetPlan, SetSettings, SetPassword, Answers
<1> QED BY <1>1, <1>2, <1>4, <1>5, <1>6, <1>7, <1>8
     DEF Next, Handler, vars, client, server, system, Connect, Send, HangUp, TakeRest, Read, StartQuery, Goes,
         WriteHead

\* With sessions on, plan, password and timeout change only for a client that gave
\* the password since the daemon started, for any number of clients and starts.
THEOREM SessionCorrect == Spec => OnlyThisSession
<1>1. TypeInv /\ SessionInv /\ [Next]_vars => 
         [plan' # plan \/ pass' # pass \/ timed' # timed => ~Auth \/ serving \in proven]_vars
  <2> SUFFICES ASSUME ServingOK, SessionInv, Next, plan' # plan \/ pass' # pass \/ timed' # timed, Auth
               PROVE  serving \in proven
    BY DEF TypeInv
  <2>1. SetPlan \/ SetPassword \/ SetSettings
    BY DEF Next, Connect, Send, HangUp, TakeRest, Accept, Read, ReadPart, Handler, Unauthorized, StartQuery, Goes, QueryEnds,
           Login, WriteHead, WriteTail, Killed, Restart, system
  <2>2. serving \in Clients /\ session[serving] = boot
    BY <2>1 DEF SetPlan, SetPassword, SetSettings, Routes, Authorized, Open, ServingOK
  <2> QED BY <2>2 DEF SessionInv
<1> QED BY <1>1, TypeInit, TypeStep, SessionInit, SessionStep, PTL DEF Spec, OnlyThisSession

-----------------------------------------------------------------------------
(* Induction, and functions defined by it.                                  *)

\* A set of naturals that is not empty has a least member.
LEMMA Less ==
  ASSUME NEW T \in SUBSET Nat, T # {}
  PROVE  \E x \in T : \A y \in T : x <= y
<1> DEFINE R == OpToRel(<, Nat)
<1>1. IsWellFoundedOn(R, Nat)
  BY NatLessThanWellFounded
<1>2. \A y \in Nat, x \in Nat : y < x => <<y, x>> \in R
  BY DEF OpToRel
<1> HIDE DEF R
<1>3. \E x \in T : \A y \in T : ~ (<<y, x>> \in R)
  BY <1>1, WFMin
<1>4. PICK x \in T : \A y \in T : ~ (<<y, x>> \in R)
  BY <1>3
<1>5. ASSUME NEW y \in T PROVE x <= y
  <2>1. ~ (y < x)
    BY <1>2, <1>4
  <2>2. x \in Nat /\ y \in Nat
    OBVIOUS
  <2> QED BY <2>1, <2>2
<1> QED BY <1>5

\* What holds of 0, and of i whenever it holds of i - 1, holds up to n.
LEMMA Steps ==
  ASSUME NEW n \in Nat, NEW P, P \subseteq Nat, 0 \in P,
         \A i \in 1..n : i - 1 \in P => i \in P
  PROVE  0..n \subseteq P
<1> SUFFICES ASSUME ~ (0..n \subseteq P) PROVE FALSE
  OBVIOUS
<1> DEFINE T == {i \in 0..n : i \notin P}
<1>1. T \in SUBSET Nat /\ T # {}
  OBVIOUS
<1> HIDE DEF T
<1>2. PICK x \in T : \A y \in T : x <= y
  BY <1>1, Less
<1> USE DEF T
<1>3. x \in 0..n /\ x \notin P /\ x # 0
  OBVIOUS
<1>4. x - 1 \in 0..n /\ x \in 1..n
  BY <1>3
<1>5. x - 1 \notin T
  <2>1. ~ (x <= x - 1)
    BY <1>4
  <2> HIDE DEF T
  <2> QED BY <2>1, <1>2
<1>6. x - 1 \in P
  BY <1>4, <1>5
<1> QED BY <1>3, <1>4, <1>6

\* A function that starts in S, and never leaves it in a step, stays in it.
LEMMA Stays ==
  ASSUME NEW n \in Nat, NEW S, NEW f, f[0] \in S,
         \A i \in 1..n : f[i - 1] \in S => f[i] \in S
  PROVE  \A i \in 0..n : f[i] \in S
<1> DEFINE P == {i \in 0..n : f[i] \in S}
<1>1. P \subseteq Nat /\ 0 \in P /\ \A i \in 1..n : i - 1 \in P => i \in P
  OBVIOUS
<1> HIDE DEF P
<1>2. 0..n \subseteq P
  BY <1>1, Steps
<1> USE DEF P
<1> QED BY <1>2

\* f starts with a and continues with the n functions of g in turn.
Runs(f, n, S, a, g) ==
  f \in [0..n -> S] /\ f[0] = a /\ \A i \in 1..n : f[i] = g[i][f[i - 1]]

\* There is such a function.
LEMMA Recursion ==
  ASSUME NEW n, n \in Nat, NEW S, NEW a, a \in S, NEW g, g \in [1..n -> [S -> S]]
  PROVE  \E f : Runs(f, n, S, a, g)
<1> DEFINE Good(k, f) == f[0] = a /\ \A i \in 1..k : f[i] = g[i][f[i - 1]]
           P == {k \in 0..n : \E f \in [0..k -> S] : Good(k, f)}
<1>1. 0 \in P
  <2>1. [i \in 0..0 |-> a] \in [0..0 -> S]
    OBVIOUS
  <2>2. Good(0, [i \in 0..0 |-> a])
    OBVIOUS
  <2> HIDE DEF Good
  <2> QED BY <2>1, <2>2
<1>2. ASSUME NEW k \in 1..n, k - 1 \in P PROVE k \in P
  <2>1. PICK f \in [0..(k - 1) -> S] : Good(k - 1, f)
    BY <1>2
  <2> DEFINE h == [i \in 0..k |-> IF i = k THEN g[k][f[k - 1]] ELSE f[i]]
  <2>2. \A i \in 0..k : h[i] = IF i = k THEN g[k][f[k - 1]] ELSE f[i]
    OBVIOUS
  <2>3. f[k - 1] \in S /\ g[k] \in [S -> S]
    OBVIOUS
  <2>4. g[k][f[k - 1]] \in S
    BY <2>3
  <2>5. h \in [0..k -> S]
    BY <2>4
  <2> HIDE DEF h
  <2>6. h[0] = a
    BY <2>1, <2>2
  <2>7. ASSUME NEW i \in 1..k PROVE h[i] = g[i][h[i - 1]]
    <3>1. h[i - 1] = f[i - 1]
      <4>1. i - 1 \in 0..k /\ i - 1 # k
        OBVIOUS
      <4> QED BY <4>1, <2>2
    <3>2. CASE i = k
      BY <3>1, <3>2, <2>2
    <3>3. CASE i # k
      <4>1. i \in 1..(k - 1) /\ i \in 0..k
        BY <3>3
      <4>2. f[i] = g[i][f[i - 1]]
        BY <4>1, <2>1
      <4> QED BY <4>1, <4>2, <3>1, <3>3, <2>2
    <3> QED BY <3>2, <3>3
  <2>8. Good(k, h)
    BY <2>6, <2>7
  <2> HIDE DEF Good
  <2> QED BY <2>5, <2>8
<1>3. P \subseteq Nat
  OBVIOUS
<1> HIDE DEF P
<1>4. 0..n \subseteq P
  BY <1>1, <1>2, <1>3, Steps
<1>5. n \in P
  BY <1>4
<1> USE DEF P
<1> QED BY <1>5 DEF Runs

-----------------------------------------------------------------------------
(* The band panel: what the two passes make of any reply, by induction over *)
(* its entries.                                                             *)

\* A row whose code is that of its RAT and band.
CodedRows == {row \in [rat : {"LTE", "NR", "WCDMA"}, code : Nat, band : Nat] : row.code = B!NameCode(row.rat, row.band)}

\* What a scan may have found: rows of R, and codes only of rows it has.
Scans(R) ==
  {s \in [rows : Seq(R), seen : Seq(Nat)] :
     \A j \in DOMAIN s.seen : \E i \in DOMAIN s.rows : s.rows[i].code = s.seen[j]}

\* The bands that rows show.
Shown(rs) == {<<rs[i].rat, rs[i].band>> : i \in DOMAIN rs}

Blank == [rows |-> <<>>, seen |-> <<>>]

LEMMA BlankScan == ASSUME NEW R PROVE Blank \in Scans(R) /\ Shown(Blank.rows) = {}
<1>1. Blank \in [rows : Seq(R), seen : Seq(Nat)] /\ DOMAIN Blank.seen = {} /\ DOMAIN Blank.rows = {}
  BY DEF Blank
<1> QED BY <1>1 DEF Scans, Shown

\* What Append does, without sequences.
LEMMA AppendIs ==
  ASSUME NEW S, NEW q \in Seq(S), NEW x \in S, NEW a, a = Append(q, x)
  PROVE  /\ a \in Seq(S) /\ Len(q) \in Nat /\ Len(a) = Len(q) + 1 /\ DOMAIN q = 1..Len(q)
         /\ DOMAIN a = DOMAIN q \cup {Len(q) + 1} /\ a[Len(q) + 1] = x
         /\ \A i \in DOMAIN q : a[i] = q[i]
OBVIOUS

\* A row that is noted is shown, and the codes noted stay those of rows.
LEMMA NotingIs ==
  ASSUME NEW R, R \subseteq CodedRows, NEW s \in Scans(R), NEW row \in R
  PROVE  /\ B!Noting(s, row) \in Scans(R)
         /\ Shown(B!Noting(s, row).rows) = Shown(s.rows) \cup {<<row.rat, row.band>>}
<1> DEFINE n  == B!Noting(s, row)
           rs == Append(s.rows, row)
           d  == B!Noted(s.seen, row.code)
<1>1. s.rows \in Seq(R) /\ s.seen \in Seq(Nat)
  BY DEF Scans
<1>2. \A j \in DOMAIN s.seen : \E i \in DOMAIN s.rows : s.rows[i].code = s.seen[j]
  BY DEF Scans
<1>3. row.code \in Nat
  BY DEF CodedRows
<1>4. n = [rows |-> rs, seen |-> d] /\ (d = s.seen \/ d = Append(s.seen, row.code))
  BY DEF B!Noting, B!Noted
<1>5. /\ rs \in Seq(R) /\ DOMAIN rs = DOMAIN s.rows \cup {Len(s.rows) + 1} /\ rs[Len(s.rows) + 1] = row
      /\ \A i \in DOMAIN s.rows : rs[i] = s.rows[i]
  BY <1>1, AppendIs
<1> HIDE DEF rs, d, n
<1>6. d \in Seq(Nat) /\ \A j \in DOMAIN d : d[j] = row.code \/ \E i \in DOMAIN s.seen : d[j] = s.seen[i]
  <2>1. CASE d = s.seen
    BY <1>1, <2>1
  <2>2. CASE d = Append(s.seen, row.code)
    <3>1. /\ d \in Seq(Nat) /\ DOMAIN d = DOMAIN s.seen \cup {Len(s.seen) + 1} /\ d[Len(s.seen) + 1] = row.code
          /\ \A i \in DOMAIN s.seen : d[i] = s.seen[i]
      BY <2>2, <1>1, <1>3, AppendIs
    <3> QED BY <3>1
  <2> QED BY <1>4, <2>1, <2>2
<1>7. ASSUME NEW j \in DOMAIN d PROVE \E i \in DOMAIN rs : rs[i].code = d[j]
  <2>1. CASE d[j] = row.code
    BY <2>1, <1>5, Zenon
  <2>2. ASSUME NEW i \in DOMAIN s.seen, d[j] = s.seen[i] PROVE \E k \in DOMAIN rs : rs[k].code = d[j]
    <3>1. PICK k \in DOMAIN s.rows : s.rows[k].code = s.seen[i]
      BY <1>2
    <3> QED BY <3>1, <2>2, <1>5, Zenon
  <2> QED BY <1>6, <2>1, <2>2, Zenon
<1>8. Shown(rs) = Shown(s.rows) \cup {<<row.rat, row.band>>}
  BY <1>5 DEF Shown
<1>9. n \in Scans(R)
  <2>1. n \in [rows : Seq(R), seen : Seq(Nat)] /\ n.rows = rs /\ n.seen = d
    BY <1>4, <1>5, <1>6
  <2> QED BY <2>1, <1>7 DEF Scans
<1>10. Shown(n.rows) = Shown(rs)
  BY <1>4
<1> QED BY <1>8, <1>9, <1>10 DEF n

\* What the first pass notes of an entry.
Named(t) == B!Row(t.rat, B!NameCode(t.rat, t.band), t.band)

\* The first pass shows the names.
LEMMA FirstPassIs ==
  ASSUME NEW r, Len(r) \in Nat, NEW R, R \subseteq CodedRows,
         \A i \in 1..Len(r) : r[i].rat # "none" => Named(r[i]) \in R
  PROVE  /\ B!FirstPass(r)[Len(r)] \in Scans(R)
         /\ Shown(B!FirstPass(r)[Len(r)].rows) =
              {<<r[i].rat, r[i].band>> : i \in {j \in 1..Len(r) : r[j].rat # "none"}}
<1> DEFINE a == Blank
           n == Len(r)
           S == Scans(R)
           g == [i \in 1..n |-> [x \in S |-> B!ScanName(x, r[i])]]
           F(f) == [i \in 0..n |-> IF i = 0 THEN a ELSE B!ScanName(f[i - 1], r[i])]
<1>1. ASSUME NEW x \in S, NEW i \in 1..n
      PROVE  /\ B!ScanName(x, r[i]) \in S
             /\ Shown(B!ScanName(x, r[i]).rows) =
                  IF r[i].rat = "none" THEN Shown(x.rows) ELSE Shown(x.rows) \cup {<<r[i].rat, r[i].band>>}
  <2>1. CASE r[i].rat = "none"
    BY <2>1 DEF B!ScanName
  <2>2. CASE r[i].rat # "none"
    <3>1. Named(r[i]) \in R /\ Named(r[i]).rat = r[i].rat /\ Named(r[i]).band = r[i].band
      BY <2>2 DEF Named, B!Row
    <3>2. B!ScanName(x, r[i]) = B!Noting(x, Named(r[i]))
      BY <2>2 DEF B!ScanName, Named
    <3> HIDE DEF S
    <3>3. x \in Scans(R)
      BY DEF S
    <3>4. B!Noting(x, Named(r[i])) \in Scans(R) /\ Shown(B!Noting(x, Named(r[i])).rows) = Shown(x.rows) \cup {<<Named(r[i]).rat, Named(r[i]).band>>}
      BY <3>1, <3>3, NotingIs
    <3> QED BY <2>2, <3>1, <3>2, <3>4 DEF S
  <2> QED BY <2>1, <2>2
<1>2. g \in [1..n -> [S -> S]] /\ \A x \in S, i \in 1..n : g[i][x] = B!ScanName(x, r[i])
  BY <1>1
<1>3. a \in S /\ n \in Nat /\ Shown(a.rows) = {}
  BY BlankScan
<1>4. B!FirstPass(r) = CHOOSE h : h = F(h)
  BY DEF B!FirstPass, Blank
<1>5. \A f : F(f) = [i \in 0..n |-> IF i = 0 THEN a ELSE B!ScanName(f[i - 1], r[i])]
  OBVIOUS
<1> HIDE DEF a, n, S, g, F
<1>6. PICK f : Runs(f, n, S, a, g)
  BY <1>2, <1>3, Recursion
<1>7. f \in [0..n -> S] /\ f[0] = a /\ \A i \in 1..n : f[i] = g[i][f[i - 1]]
  BY <1>6 DEF Runs
<1>8. \A i \in 0..n : f[i] = IF i = 0 THEN a ELSE B!ScanName(f[i - 1], r[i])
  <2> TAKE i \in 0..n
  <2>1. CASE i # 0
    <3>1. i \in 1..n /\ f[i - 1] \in S
      BY <2>1, <1>3, <1>7
    <3> QED BY <3>1, <2>1, <1>2, <1>7
  <2> QED BY <2>1, <1>7
<1>9. f = F(f)
  BY <1>5, <1>7, <1>8
<1> DEFINE h == B!FirstPass(r)
<1>10. h = F(h)
  BY <1>4, <1>9
<1> HIDE DEF h
<1>11. h[0] = a /\ \A i \in 1..n : h[i] = B!ScanName(h[i - 1], r[i])
  BY <1>3, <1>5, <1>10
<1>12. \A i \in 1..n : h[i - 1] \in S => h[i] \in S
  BY <1>1, <1>11
<1>13. \A i \in 0..n : h[i] \in S
  BY <1>3, <1>11, <1>12, Stays
<1> DEFINE Names1(k) == {<<r[i].rat, r[i].band>> : i \in {j \in 1..k : r[j].rat # "none"}}
           P == {k \in 0..n : Shown(h[k].rows) = Names1(k)}
<1>14. 0 \in P /\ P \subseteq Nat
  BY <1>3, <1>11
<1>15. ASSUME NEW k \in 1..n, k - 1 \in P PROVE k \in P
  <2>1. k - 1 \in 0..n /\ h[k - 1] \in S /\ Shown(h[k - 1].rows) = Names1(k - 1)
    BY <1>3, <1>13, <1>15
  <2>2. 1..k = 1..(k - 1) \cup {k}
    BY <1>3
  <2>3. Shown(h[k].rows) = IF r[k].rat = "none" THEN Names1(k - 1) ELSE Names1(k - 1) \cup {<<r[k].rat, r[k].band>>}
    <3> HIDE DEF Names1
    <3> QED BY <1>1, <1>11, <2>1
  <2>4. Names1(k) = IF r[k].rat = "none" THEN Names1(k - 1) ELSE Names1(k - 1) \cup {<<r[k].rat, r[k].band>>}
    BY <2>2
  <2> QED BY <1>3, <2>3, <2>4
<1> HIDE DEF P
<1>16. n \in P
  <2>1. \A k \in 1..n : k - 1 \in P => k \in P
    BY <1>15
  <2>2. 0..n \subseteq P
    BY <1>3, <1>14, <2>1, Steps
  <2> QED BY <1>3, <2>2
<1>17. Shown(h[n].rows) = Names1(n)
  <2> HIDE DEF Names1
  <2> QED BY <1>16 DEF P
<1>18. h[n] \in S
  BY <1>3, <1>13
<1> QED BY <1>17, <1>18 DEF h, S, n

\* The second pass shows what the numbers stand for, Reads[i] for the i-th entry,
\* if that is what it takes an entry for, or has shown when it passes it over.
\* What each entry of the reply adds: nothing that is not shown yet when it is
\* passed over, and otherwise at most its row.
Reading(r, R, Reads) ==
  \A i \in 1..Len(r), s \in Scans(R) :
    IF B!Skips(s, r[i].band) THEN Reads[i] \subseteq Shown(s.rows)
    ELSE /\ B!NumberRow(r[i].band) \in R
         /\ Reads[i] \subseteq {<<B!NumberRow(r[i].band).rat, B!NumberRow(r[i].band).band>>}

LEMMA SecondPassIs ==
  ASSUME NEW r, Len(r) \in Nat, NEW R, R \subseteq CodedRows, NEW start \in Scans(R),
         NEW Reads, Reading(r, R, Reads)
  PROVE  /\ B!SecondPass(start, r)[Len(r)] \in Scans(R)
         /\ Shown(start.rows) \cup UNION {Reads[i] : i \in 1..Len(r)} \subseteq Shown(B!SecondPass(start, r)[Len(r)].rows)
<1> DEFINE a == start
           n == Len(r)
           S == Scans(R)
           g == [i \in 1..n |-> [x \in S |-> B!ScanNumber(x, r[i])]]
           F(f) == [i \in 0..n |-> IF i = 0 THEN a ELSE B!ScanNumber(f[i - 1], r[i])]
<1>1. ASSUME NEW x \in S, NEW i \in 1..n
      PROVE  B!ScanNumber(x, r[i]) \in S /\ Shown(x.rows) \cup Reads[i] \subseteq Shown(B!ScanNumber(x, r[i]).rows)
  <2> DEFINE row == B!NumberRow(r[i].band)
  <2>0. IF B!Skips(x, r[i].band) THEN Reads[i] \subseteq Shown(x.rows)
        ELSE row \in R /\ Reads[i] \subseteq {<<row.rat, row.band>>}
    BY DEF Reading
  <2>1. B!ScanNumber(x, r[i]) = IF B!Skips(x, r[i].band) THEN x ELSE B!Noting(x, row)
    BY DEF B!ScanNumber
  <2> HIDE DEF row
  <2>2. CASE B!Skips(x, r[i].band)
    BY <2>0, <2>1, <2>2
  <2>3. CASE ~ B!Skips(x, r[i].band)
    <3> HIDE DEF S
    <3>1. x \in Scans(R) /\ row \in R
      BY <2>0, <2>3 DEF S
    <3>2. B!Noting(x, row) \in Scans(R) /\ Shown(B!Noting(x, row).rows) = Shown(x.rows) \cup {<<row.rat, row.band>>}
      BY <3>1, NotingIs
    <3> QED BY <2>0, <2>1, <2>3, <3>2 DEF S
  <2> QED BY <2>2, <2>3
<1>2. g \in [1..n -> [S -> S]] /\ \A x \in S, i \in 1..n : g[i][x] = B!ScanNumber(x, r[i])
  BY <1>1
<1>3. a \in S /\ n \in Nat
  OBVIOUS
<1>4. B!SecondPass(start, r) = CHOOSE h : h = F(h)
  BY DEF B!SecondPass
<1>5. \A f : F(f) = [i \in 0..n |-> IF i = 0 THEN a ELSE B!ScanNumber(f[i - 1], r[i])]
  OBVIOUS
<1> HIDE DEF a, n, S, g, F
<1>6. PICK f : Runs(f, n, S, a, g)
  BY <1>2, <1>3, Recursion
<1>7. f \in [0..n -> S] /\ f[0] = a /\ \A i \in 1..n : f[i] = g[i][f[i - 1]]
  BY <1>6 DEF Runs
<1>8. \A i \in 0..n : f[i] = IF i = 0 THEN a ELSE B!ScanNumber(f[i - 1], r[i])
  <2> TAKE i \in 0..n
  <2>1. CASE i # 0
    <3>1. i \in 1..n /\ f[i - 1] \in S
      BY <2>1, <1>3, <1>7
    <3> QED BY <3>1, <2>1, <1>2, <1>7
  <2> QED BY <2>1, <1>7
<1>9. f = F(f)
  BY <1>5, <1>7, <1>8
<1> DEFINE h == B!SecondPass(start, r)
<1>10. h = F(h)
  BY <1>4, <1>9
<1> HIDE DEF h
<1>11. h[0] = a /\ \A i \in 1..n : h[i] = B!ScanNumber(h[i - 1], r[i])
  BY <1>3, <1>5, <1>10
<1>12. \A i \in 1..n : h[i - 1] \in S => h[i] \in S
  BY <1>1, <1>11
<1>13. \A i \in 0..n : h[i] \in S
  BY <1>3, <1>11, <1>12, Stays
<1> DEFINE Seen(k) == Shown(a.rows) \cup UNION {Reads[i] : i \in 1..k}
           P == {k \in 0..n : Seen(k) \subseteq Shown(h[k].rows)}
<1>14. 0 \in P /\ P \subseteq Nat
  BY <1>3, <1>11
<1>15. \A k \in 1..n : k - 1 \in P => k \in P
  <2> SUFFICES ASSUME NEW k \in 1..n, k - 1 \in P PROVE k \in P
    OBVIOUS
  <2>1. k - 1 \in 0..n /\ h[k - 1] \in S /\ Seen(k - 1) \subseteq Shown(h[k - 1].rows) /\ k \in 0..n
    BY <1>3, <1>13
  <2>2. 1..k = 1..(k - 1) \cup {k}
    BY <1>3
  <2>3. Seen(k - 1) \cup Reads[k] \subseteq Shown(h[k].rows)
    <3> HIDE DEF Seen
    <3> QED BY <1>1, <1>11, <2>1
  <2>4. Seen(k) = Seen(k - 1) \cup Reads[k]
    BY <2>2
  <2> HIDE DEF Seen
  <2> QED BY <2>1, <2>3, <2>4
<1> HIDE DEF P
<1>16. n \in P
  <2>1. 0..n \subseteq P
    BY <1>3, <1>14, <1>15, Steps
  <2> QED BY <1>3, <2>1
<1>17. Seen(n) \subseteq Shown(h[n].rows)
  <2> HIDE DEF Seen
  <2> QED BY <1>16 DEF P
<1>18. h[n] \in S
  BY <1>3, <1>13
<1> QED BY <1>17, <1>18 DEF h, S, n, a

-----------------------------------------------------------------------------
(* Rows and codes.                                                          *)

IsReply(r) == r \in Seq(B!Tokens)

LEMMA SameSet == \A q : B!ToSet(q) = ToSet(q)
BY DEF B!ToSet, ToSet

LEMMA ReplyType ==
  ASSUME NEW r, IsReply(r)
  PROVE  /\ Len(r) \in Nat /\ DOMAIN r = 1..Len(r)
         /\ \A i \in 1..Len(r) : r[i].rat \in {"none", "LTE", "NR", "WCDMA"} /\ r[i].band \in Nat
         /\ \A t : t \in ToSet(r) <=> \E i \in 1..Len(r) : t = r[i]
<1>1. \A t \in B!Tokens : t.rat \in {"none", "LTE", "NR", "WCDMA"} /\ t.band \in Nat
  BY NetConstantsOK DEF B!Tokens
<1>2. Len(r) \in Nat /\ DOMAIN r = 1..Len(r) /\ \A i \in 1..Len(r) : r[i] \in B!Tokens
  BY DEF IsReply
<1>3. \A t : t \in ToSet(r) <=> \E i \in 1..Len(r) : t = r[i]
  BY <1>2 DEF ToSet
<1> QED BY <1>1, <1>2, <1>3

\* The code of a name, and the band of a code, belong together.
LEMMA NameRow ==
  ASSUME NEW t, t.rat \in {"LTE", "NR", "WCDMA"}, t.band \in Nat
  PROVE  Named(t) \in CodedRows /\ Named(t).rat = t.rat /\ Named(t).band = t.band
                                /\ Named(t).code = B!NameCode(t.rat, t.band)
<1>1. B!NameCode(t.rat, t.band) \in Nat
  BY DEF B!NameCode
<1> QED BY <1>1 DEF Named, B!Row, CodedRows

LEMMA CodeRow ==
  ASSUME NEW n \in Nat, n >= 100
  PROVE  B!NumberRow(n) \in CodedRows
BY DEF B!NumberRow, B!Row, CodedRows, B!NameCode

LEMMA CodeBand ==
  ASSUME NEW n \in Nat, n >= 100
  PROVE  <<B!NumberRow(n).rat, B!NumberRow(n).band>> = IF n >= 5000 THEN <<"NR", n - 5000>> ELSE <<"LTE", n - 100>>
BY DEF B!NumberRow, B!Row

\* Any reply makes rows whose codes belong to their bands.
LEMMA ItemsAreCoded ==
  ASSUME NEW r, IsReply(r)
  PROVE  B!BandItems(r) \in Seq(CodedRows)
<1> DEFINE first == B!FirstPass(r)[Len(r)]
           Reads == [i \in 1..Len(r) |-> {}]
<1>1. \A i \in 1..Len(r) : r[i].rat # "none" => Named(r[i]) \in CodedRows
  BY ReplyType, NameRow
<1>2. first \in Scans(CodedRows)
  BY <1>1, ReplyType, FirstPassIs
<1> HIDE DEF first
<1>3. ASSUME NEW i \in 1..Len(r), NEW s \in Scans(CodedRows)
      PROVE  IF B!Skips(s, r[i].band) THEN Reads[i] \subseteq Shown(s.rows)
             ELSE /\ B!NumberRow(r[i].band) \in CodedRows
                  /\ Reads[i] \subseteq {<<B!NumberRow(r[i].band).rat, B!NumberRow(r[i].band).band>>}
  <2>1. r[i].band \in Nat
    BY ReplyType
  <2>2. ~ B!Skips(s, r[i].band) => r[i].band >= 100
    BY <2>1 DEF B!Skips
  <2>3. CASE ~ B!Skips(s, r[i].band)
    <3>1. B!NumberRow(r[i].band) \in CodedRows
      BY <2>1, <2>2, <2>3, CodeRow
    <3> QED BY <2>3, <3>1
  <2> QED BY <2>3
<1> HIDE DEF Reads
<1>4. B!SecondPass(first, r)[Len(r)] \in Scans(CodedRows)
  <2>1. Reading(r, CodedRows, Reads)
    BY <1>3 DEF Reading
  <2>2. Len(r) \in Nat
    BY ReplyType
  <2> QED BY <1>2, <2>1, <2>2, SecondPassIs
<1> QED BY <1>4 DEF first, B!BandItems, Scans

-----------------------------------------------------------------------------
(* A clear reply: the rows are what it lists.                               *)

ListedIn(r) == {B!Listed(t) : t \in {u \in ToSet(r) : u.rat # "none" \/ u.band >= 100}}

\* The rows a clear reply may have.
GoodRows(r) ==
  {row \in CodedRows :
     /\ <<row.rat, row.band>> \in ListedIn(r)
     /\ row.rat = "LTE" => row.band <= 399
     /\ row.rat = "WCDMA" => \A u \in ToSet(r) : u.rat = "none" => u.band # row.code}

\* What the code of the offsets means.
LEMMA MeaningIs ==
  ASSUME NEW n \in B!OffsetCodes
  PROVE  /\ n \in Nat /\ n >= 100 /\ (n < 5000 => n <= 499)
         /\ B!Meaning(n) = IF n >= 5000 THEN <<"NR", n - 5000>> ELSE <<"LTE", n - 100>>
<1>1. n \in 100..499 \/ n \in 5010..5999
  BY DEF B!OffsetCodes
<1>2. CASE n \in 100..499
  <2>1. ~ (n >= 5000) /\ n \in Nat /\ n >= 100 /\ n <= 499
    BY <1>2
  <2>2. B!Meaning(n) = <<"LTE", n - 100>>
    BY <1>2, <2>1 DEF B!Meaning
  <2> QED BY <2>1, <2>2
<1>3. CASE n \in 5010..5999
  <2>1. n \notin 100..499 /\ n \notin 501..509 /\ n >= 5000 /\ n \in Nat
    BY <1>3
  <2>2. B!Meaning(n) = <<"NR", n - 5000>>
    BY <1>3, <2>1 DEF B!Meaning
  <2> QED BY <2>1, <2>2
<1> QED BY <1>1, <1>2, <1>3

\* What is said of an entry of a clear reply.
ClearEntry(r, i) ==
  /\ r[i].rat = "none" => r[i].band < 100 \/ r[i].band \in B!OffsetCodes
  /\ r[i].rat # "none" => r[i].band < 100
  /\ r[i].rat = "WCDMA" => \A u \in ToSet(r) : u.rat = "none" => u.band # B!NameCode(r[i].rat, r[i].band)
  /\ r[i].rat # "none" => <<r[i].rat, r[i].band>> \in ListedIn(r)
  /\ r[i].rat = "none" /\ r[i].band >= 100 => B!Meaning(r[i].band) \in ListedIn(r)

LEMMA ClearIs ==
  ASSUME NEW r, IsReply(r), B!Clear(r), NEW i \in 1..Len(r)
  PROVE  ClearEntry(r, i)
<1>1. r[i] \in ToSet(r)
  BY ReplyType
<1>2. r[i].rat # "none" \/ r[i].band >= 100 => B!Listed(r[i]) \in ListedIn(r)
  BY <1>1 DEF ListedIn
<1>3. B!Listed(r[i]) = IF r[i].rat = "none" THEN B!Meaning(r[i].band) ELSE <<r[i].rat, r[i].band>>
  BY DEF B!Listed
<1>4. IF r[i].rat = "none" THEN r[i].band < 100 \/ r[i].band \in B!OffsetCodes
      ELSE /\ r[i].band < 100
           /\ r[i].rat = "WCDMA" => \A u \in ToSet(r) : u.rat = "none" => u.band # B!NameCode(r[i].rat, r[i].band)
  BY <1>1, SameSet DEF B!Clear
<1> QED BY <1>2, <1>3, <1>4 DEF ClearEntry

\* A name makes such a row,
LEMMA NameIsGood ==
  ASSUME NEW r, IsReply(r), B!Clear(r), NEW i \in 1..Len(r), r[i].rat # "none"
  PROVE  Named(r[i]) \in GoodRows(r)
<1>1. /\ Named(r[i]) \in CodedRows /\ Named(r[i]).rat = r[i].rat /\ Named(r[i]).band = r[i].band
      /\ Named(r[i]).code = B!NameCode(r[i].rat, r[i].band) /\ r[i].band \in Nat
  BY ReplyType, NameRow
<1>2. /\ r[i].band < 100 /\ <<r[i].rat, r[i].band>> \in ListedIn(r)
      /\ r[i].rat = "WCDMA" => \A u \in ToSet(r) : u.rat = "none" => u.band # B!NameCode(r[i].rat, r[i].band)
  BY ClearIs DEF ClearEntry
<1>3. r[i].band <= 399
  BY <1>1, <1>2
<1> QED BY <1>1, <1>2, <1>3 DEF GoodRows

\* and so does a code, which means the band of the row.
LEMMA CodeIsGood ==
  ASSUME NEW r, IsReply(r), B!Clear(r), NEW i \in 1..Len(r), r[i].rat = "none", r[i].band >= 100
  PROVE  /\ B!NumberRow(r[i].band) \in GoodRows(r)
         /\ <<B!NumberRow(r[i].band).rat, B!NumberRow(r[i].band).band>> = B!Meaning(r[i].band)
<1> DEFINE n == r[i].band
           row == B!NumberRow(n)
<1>1. n \in Nat
  BY ReplyType
<1>2. n \in B!OffsetCodes /\ B!Meaning(n) \in ListedIn(r)
  <2>1. ClearEntry(r, i)
    BY ClearIs
  <2> QED BY <1>1, <2>1 DEF ClearEntry
<1> HIDE DEF n
<1>3. /\ (n < 5000 => n <= 499)
      /\ B!Meaning(n) = IF n >= 5000 THEN <<"NR", n - 5000>> ELSE <<"LTE", n - 100>>
  BY <1>2, MeaningIs
<1>4. /\ row \in CodedRows
      /\ <<row.rat, row.band>> = IF n >= 5000 THEN <<"NR", n - 5000>> ELSE <<"LTE", n - 100>>
  BY <1>1, CodeRow, CodeBand DEF n
<1> HIDE DEF row
<1>5. <<row.rat, row.band>> = B!Meaning(n)
  BY <1>3, <1>4
<1>6. row.rat # "WCDMA" /\ (row.rat = "LTE" => row.band <= 399)
  BY <1>1, <1>3, <1>4
<1> QED BY <1>2, <1>4, <1>5, <1>6 DEF GoodRows, row, n

\* A row whose code is passed over shows the band that the code means.
LEMMA CodeTells ==
  ASSUME NEW r, IsReply(r), B!Clear(r), NEW i \in 1..Len(r), r[i].rat = "none", r[i].band >= 100,
         NEW row \in GoodRows(r), row.code = r[i].band
  PROVE  <<row.rat, row.band>> = B!Meaning(r[i].band)
<1> DEFINE n == r[i].band
<1>1. n \in Nat
  BY ReplyType
<1>2. n \in B!OffsetCodes
  <2>1. ClearEntry(r, i)
    BY ClearIs
  <2> QED BY <1>1, <2>1 DEF ClearEntry
<1>3. /\ (n < 5000 => n <= 499)
      /\ B!Meaning(n) = IF n >= 5000 THEN <<"NR", n - 5000>> ELSE <<"LTE", n - 100>>
  BY <1>2, MeaningIs
<1>4. row.rat # "WCDMA"
  BY ReplyType DEF GoodRows
<1>5. /\ row.rat \in {"LTE", "NR", "WCDMA"} /\ row.band \in Nat /\ (row.rat = "LTE" => row.band <= 399)
      /\ n = IF row.rat = "NR" THEN 5000 + row.band ELSE 100 + row.band
  BY DEF GoodRows, CodedRows, B!NameCode
<1> HIDE DEF n
<1>6. ASSUME row.rat = "NR" PROVE <<row.rat, row.band>> = B!Meaning(n)
  BY <1>1, <1>3, <1>5, <1>6
<1>7. ASSUME row.rat = "LTE" PROVE <<row.rat, row.band>> = B!Meaning(n)
  BY <1>1, <1>3, <1>5, <1>7
<1> QED BY <1>4, <1>5, <1>6, <1>7 DEF n

LEMMA ItemsAreListed ==
  ASSUME NEW r, IsReply(r), B!Clear(r)
  PROVE  Shown(B!BandItems(r)) = ListedIn(r)
<1> DEFINE first == B!FirstPass(r)[Len(r)]
           last  == B!SecondPass(first, r)[Len(r)]
           IsCode(i) == r[i].rat = "none" /\ r[i].band >= 100
           Reads == [i \in 1..Len(r) |-> IF IsCode(i) THEN {B!Meaning(r[i].band)} ELSE {}]
<1>1. GoodRows(r) \subseteq CodedRows
  BY DEF GoodRows
<1>2. first \in Scans(GoodRows(r))
      /\ Shown(first.rows) = {<<r[i].rat, r[i].band>> : i \in {j \in 1..Len(r) : r[j].rat # "none"}}
  BY <1>1, ReplyType, NameIsGood, FirstPassIs
<1> HIDE DEF first
<1>3. ASSUME NEW i \in 1..Len(r), NEW s \in Scans(GoodRows(r))
      PROVE  IF B!Skips(s, r[i].band) THEN Reads[i] \subseteq Shown(s.rows)
             ELSE /\ B!NumberRow(r[i].band) \in GoodRows(r)
                  /\ Reads[i] \subseteq {<<B!NumberRow(r[i].band).rat, B!NumberRow(r[i].band).band>>}
  <2>1. r[i].band \in Nat /\ Reads[i] = IF IsCode(i) THEN {B!Meaning(r[i].band)} ELSE {}
    BY ReplyType
  <2>2. B!Skips(s, r[i].band) <=> r[i].band < 100 \/ \E j \in DOMAIN s.seen : s.seen[j] = r[i].band
    BY SameSet DEF B!Skips, ToSet
  <2>3. CASE ~ IsCode(i)
    <3>1. r[i].band < 100
      <4>1. ClearEntry(r, i)
        BY ClearIs
      <4> QED BY <2>1, <2>3, <4>1 DEF ClearEntry
    <3> QED BY <2>1, <2>2, <2>3, <3>1
  <2>4. CASE IsCode(i) /\ ~ B!Skips(s, r[i].band)
    BY <2>1, <2>4, CodeIsGood
  <2>5. CASE IsCode(i) /\ B!Skips(s, r[i].band)
    <3>1. PICK j \in DOMAIN s.seen : s.seen[j] = r[i].band
      BY <2>1, <2>2, <2>5
    <3>2. PICK k \in DOMAIN s.rows : s.rows[k].code = r[i].band
      BY <3>1 DEF Scans
    <3>3. s.rows[k] \in GoodRows(r)
      BY <3>2 DEF Scans
    <3>4. <<s.rows[k].rat, s.rows[k].band>> = B!Meaning(r[i].band)
      BY <2>5, <3>2, <3>3, CodeTells
    <3>5. B!Meaning(r[i].band) \in Shown(s.rows)
      BY <3>2, <3>4 DEF Shown
    <3> QED BY <2>1, <2>5, <3>5
  <2> QED BY <2>3, <2>4, <2>5
<1>4. last \in Scans(GoodRows(r)) /\ Shown(first.rows) \cup UNION {Reads[i] : i \in 1..Len(r)} \subseteq Shown(last.rows)
  <2> HIDE DEF Reads
  <2>1. \A i \in 1..Len(r), s \in Scans(GoodRows(r)) :
          IF B!Skips(s, r[i].band) THEN Reads[i] \subseteq Shown(s.rows)
          ELSE /\ B!NumberRow(r[i].band) \in GoodRows(r)
               /\ Reads[i] \subseteq {<<B!NumberRow(r[i].band).rat, B!NumberRow(r[i].band).band>>}
    BY <1>3
  <2>2. Len(r) \in Nat
    BY ReplyType
  <2> DEFINE R == GoodRows(r)
  <2>3. R \subseteq CodedRows /\ first \in Scans(R)
    BY <1>1, <1>2
  <2>4. Reading(r, R, Reads)
    BY <2>1 DEF Reading
  <2> HIDE DEF R
  <2>5. /\ B!SecondPass(first, r)[Len(r)] \in Scans(R)
        /\ Shown(first.rows) \cup UNION {Reads[i] : i \in 1..Len(r)} \subseteq Shown(B!SecondPass(first, r)[Len(r)].rows)
    BY <2>2, <2>3, <2>4, SecondPassIs
  <2> QED BY <2>5 DEF R
<1>5. Shown(last.rows) \subseteq ListedIn(r)
  BY <1>4 DEF Scans, Shown, GoodRows
<1> HIDE DEF last
<1>6. ASSUME NEW t \in ToSet(r), t.rat # "none" \/ t.band >= 100 PROVE B!Listed(t) \in Shown(last.rows)
  <2>1. PICK i \in 1..Len(r) : t = r[i]
    BY ReplyType
  <2>2. CASE t.rat # "none"
    <3>1. B!Listed(t) = <<r[i].rat, r[i].band>>
      BY <2>1, <2>2 DEF B!Listed
    <3> QED BY <1>2, <1>4, <2>1, <2>2, <3>1
  <2>3. CASE t.rat = "none"
    <3>1. B!Listed(t) = B!Meaning(r[i].band) /\ IsCode(i)
      BY <1>6, <2>1, <2>3 DEF B!Listed
    <3>2. B!Listed(t) \in Reads[i]
      BY <3>1
    <3> HIDE DEF Reads
    <3> QED BY <1>4, <3>2
  <2> QED BY <2>2, <2>3
<1>7. ListedIn(r) \subseteq Shown(last.rows)
  BY <1>6 DEF ListedIn
<1> QED BY <1>5, <1>7 DEF last, first, B!BandItems

-----------------------------------------------------------------------------
(* The cell panel: the fields of a line and the rows of a reply, by         *)
(* induction over the fields and the lines.                                 *)

\* None of the first m fields of a line is empty, and those of them that are among
\* the first i have their places.
UpTo(f, m) == \A k \in 1..m : k <= Len(f) => f[k] # C!Empty
InPlace(t, f, i, m) ==
  /\ t \in Seq(Int) /\ Len(t) <= i
  /\ UpTo(f, m) => \A k \in 1..m : k <= i => k <= Len(t) /\ t[k] = f[k]

LEMMA FieldStep ==
  ASSUME NEW f \in Seq(Int), NEW i \in 1..Len(f), NEW t, NEW m \in Nat, InPlace(t, f, i - 1, m)
  PROVE  InPlace(IF f[i] = C!Empty THEN t ELSE Append(t, f[i]), f, i, m)
<1>1. i \in Nat /\ i >= 1 /\ f[i] \in Int
  OBVIOUS
<1>2. t \in Seq(Int) /\ Len(t) \in Nat /\ Len(t) <= i - 1
  BY DEF InPlace
<1>3. UpTo(f, m) => \A k \in 1..m : k <= i - 1 => k <= Len(t) /\ t[k] = f[k]
  BY DEF InPlace
<1>4. CASE f[i] = C!Empty
  <2>1. UpTo(f, m) => ~ (i \in 1..m)
    BY <1>4 DEF UpTo
  <2>2. UpTo(f, m) => \A k \in 1..m : k <= i => k <= i - 1
    BY <1>1, <2>1
  <2>3. UpTo(f, m) => \A k \in 1..m : k <= i => k <= Len(t) /\ t[k] = f[k]
    BY <1>3, <2>2
  <2>4. Len(t) <= i
    BY <1>1, <1>2
  <2> QED BY <1>2, <1>4, <2>3, <2>4 DEF InPlace
<1>5. CASE f[i] # C!Empty
  <2> DEFINE a == Append(t, f[i])
  <2>1. /\ a \in Seq(Int) /\ Len(a) = Len(t) + 1 /\ a[Len(t) + 1] = f[i]
        /\ \A k \in 1..Len(t) : a[k] = t[k]
    BY <1>1, <1>2, AppendIs
  <2> HIDE DEF a
  <2>2. Len(a) <= i
    BY <1>1, <1>2, <2>1
  <2>3. ASSUME UpTo(f, m), NEW k \in 1..m, k <= i PROVE k <= Len(a) /\ a[k] = f[k]
    <3>1. CASE k <= i - 1
      <4>1. k <= Len(t) /\ t[k] = f[k]
        BY <1>3, <2>3, <3>1
      <4>2. k \in 1..Len(t) /\ k <= Len(a)
        BY <1>2, <2>1, <4>1
      <4> QED BY <2>1, <4>1, <4>2
    <3>2. CASE ~ (k <= i - 1)
      <4>1. k = i
        BY <1>1, <2>3, <3>2
      <4>2. Len(t) = i - 1
        <5>1. CASE i = 1
          BY <1>2, <5>1
        <5>2. CASE i # 1
          <6>1. i - 1 \in 1..m /\ i - 1 <= i - 1
            BY <1>1, <4>1, <5>2
          <6>2. i - 1 <= Len(t)
            BY <1>3, <2>3, <6>1
          <6> QED BY <1>1, <1>2, <6>2
        <5> QED BY <5>1, <5>2
      <4> QED BY <1>1, <2>1, <4>1, <4>2
    <3> QED BY <3>1, <3>2
  <2> QED BY <1>5, <2>1, <2>2, <2>3 DEF InPlace, a
<1> QED BY <1>4, <1>5

\* The first fields of a line are those between the commas, as far as none is empty.
LEMMA FieldsAre ==
  ASSUME NEW line, line.fields \in Seq(Int), NEW m \in Nat
  PROVE  InPlace(C!Fields(line), line.fields, Len(line.fields), m)
<1> DEFINE ff == line.fields
           n == Len(ff)
           S == Seq(Int)
           g == [i \in 1..n |-> [x \in S |-> IF ff[i] = C!Empty THEN x ELSE Append(x, ff[i])]]
           F(f) == [i \in 0..n |-> IF i = 0 THEN <<>> ELSE IF ff[i] = C!Empty THEN f[i - 1] ELSE Append(f[i - 1], ff[i])]
<1>1. n \in Nat /\ <<>> \in S /\ ff \in Seq(Int) /\ \A i \in 1..n : ff[i] \in Int
  OBVIOUS
<1>2. \A x \in S, i \in 1..n : (IF ff[i] = C!Empty THEN x ELSE Append(x, ff[i])) \in S
  BY <1>1, AppendIs
<1> HIDE DEF S, ff
<1>3. g \in [1..n -> [S -> S]] /\ \A x \in S, i \in 1..n : g[i][x] = IF ff[i] = C!Empty THEN x ELSE Append(x, ff[i])
  BY <1>2
<1>4. C!Tokens(ff) = CHOOSE h : h = F(h)
  BY DEF C!Tokens
<1>5. \A f : F(f) = [i \in 0..n |-> IF i = 0 THEN <<>> ELSE IF ff[i] = C!Empty THEN f[i - 1] ELSE Append(f[i - 1], ff[i])]
  OBVIOUS
<1> HIDE DEF n, g, F
<1>6. PICK f : Runs(f, n, S, <<>>, g)
  BY <1>1, <1>3, Recursion
<1>7. f \in [0..n -> S] /\ f[0] = <<>> /\ \A i \in 1..n : f[i] = g[i][f[i - 1]]
  BY <1>6 DEF Runs
<1>8. \A i \in 0..n : f[i] = IF i = 0 THEN <<>> ELSE IF ff[i] = C!Empty THEN f[i - 1] ELSE Append(f[i - 1], ff[i])
  <2> TAKE i \in 0..n
  <2>1. CASE i # 0
    <3>1. i \in 1..n /\ f[i - 1] \in S
      BY <2>1, <1>1, <1>7
    <3> QED BY <3>1, <2>1, <1>3, <1>7
  <2> QED BY <2>1, <1>7
<1>9. f = F(f)
  BY <1>5, <1>7, <1>8
<1> DEFINE h == C!Tokens(ff)
<1>10. h = F(h)
  BY <1>4, <1>9
<1> HIDE DEF h
<1>11. h[0] = <<>> /\ \A i \in 1..n : h[i] = IF ff[i] = C!Empty THEN h[i - 1] ELSE Append(h[i - 1], ff[i])
  <2>1. h = [i \in 0..n |-> IF i = 0 THEN <<>> ELSE IF ff[i] = C!Empty THEN h[i - 1] ELSE Append(h[i - 1], ff[i])]
    BY <1>5, <1>10, Zenon
  <2>2. h[0] = <<>>
    BY <1>1, <2>1
  <2>3. ASSUME NEW i \in 1..n
        PROVE  h[i] = IF ff[i] = C!Empty THEN h[i - 1] ELSE Append(h[i - 1], ff[i])
    <3>1. i \in 0..n /\ i # 0
      BY <1>1
    <3> QED BY <2>1, <3>1
  <2> QED BY <2>2, <2>3
<1> DEFINE P == {k \in 0..n : InPlace(h[k], ff, k, m)}
<1>12. 0 \in P /\ P \subseteq Nat
  <2>1. InPlace(<<>>, ff, 0, m)
    BY DEF InPlace
  <2> QED BY <1>1, <1>11, <2>1
<1>13. \A k \in 1..n : k - 1 \in P => k \in P
  <2> SUFFICES ASSUME NEW k \in 1..n, InPlace(h[k - 1], ff, k - 1, m) PROVE InPlace(h[k], ff, k, m)
    BY <1>1
  <2>1. k \in 1..Len(ff)
    BY DEF n
  <2>2. InPlace(IF ff[k] = C!Empty THEN h[k - 1] ELSE Append(h[k - 1], ff[k]), ff, k, m)
    BY <1>1, <2>1, FieldStep
  <2> QED BY <1>11, <2>2
<1> HIDE DEF P
<1>14. n \in P
  <2>1. 0..n \subseteq P
    BY <1>1, <1>12, <1>13, Steps
  <2> QED BY <1>1, <2>1
<1>15. InPlace(h[n], ff, n, m)
  BY <1>14 DEF P
<1> QED BY <1>15 DEF h, ff, n, C!Fields

-----------------------------------------------------------------------------
(* Lines and rows.                                                          *)

LEMMA LineType == \A l \in Lines : l.titled \in BOOLEAN /\ l.fields \in Seq(Int)
BY NetConstantsOK

\* A line that has a row, and the row it has.
HasRow(line, row) == line \in Lines /\ C!IsRow(line) /\ row = C!CellRow(line)

TableRows == {C!CellRow(l) : l \in {x \in Lines : C!IsRow(x)}}

LEMMA TableRowIs == ASSUME NEW row \in TableRows PROVE \E line : HasRow(line, row)
BY DEF TableRows, HasRow

LEMMA AtoIType == \A n \in Int : C!AtoI(n) \in Nat /\ (n \in Nat => C!AtoI(n) = n)
BY DEF C!AtoI

\* Its channel and PCI are numbers, and if the line is whole those between the
\* sixth comma and the eighth.
LEMMA RowIs ==
  ASSUME NEW line, NEW row, HasRow(line, row)
  PROVE  /\ row.earfcn \in Nat /\ row.pci \in Nat /\ row.line = line.fields /\ C!IsCell(line)
         /\ C!Whole(line.fields) => row.earfcn = line.fields[7] /\ row.pci = line.fields[8]
         /\ C!Whole(line.fields) /\ (Len(line.fields) > 8 => line.fields[9] # C!Empty) =>
              row.band = C!Band(line.fields)
<1> DEFINE t == C!Fields(line)
           f == line.fields
<1>1. f \in Seq(Int) /\ C!IsRow(line) /\ row = C!CellRow(line)
  BY LineType DEF HasRow
<1>2. /\ t \in Seq(Int) /\ Len(t) <= Len(f)
      /\ \A m \in Nat : UpTo(f, m) => \A k \in 1..m : k <= Len(f) => k <= Len(t) /\ t[k] = f[k]
  BY <1>1, FieldsAre DEF InPlace
<1>3. /\ Len(t) >= 8 /\ row.earfcn = C!AtoI(t[7]) /\ row.pci = C!AtoI(t[8]) /\ row.line = f
      /\ row.band = IF Len(t) > 8 THEN t[9] ELSE C!Empty
  BY <1>1 DEF C!IsRow, C!CellRow
<1>4. C!Whole(f) => f[7] \in Nat /\ f[8] \in Nat /\ UpTo(f, 8)
  BY DEF C!Whole, UpTo
<1> HIDE DEF t, f
<1>5. Len(t) \in Nat /\ Len(f) \in Nat /\ Len(f) >= 8
  BY <1>1, <1>2, <1>3
<1>6. t[7] \in Int /\ t[8] \in Int
  BY <1>2, <1>3
<1>7. row.earfcn \in Nat /\ row.pci \in Nat
  BY <1>3, <1>6, AtoIType
<1>8. ASSUME C!Whole(f) PROVE row.earfcn = f[7] /\ row.pci = f[8]
  <2>1. t[7] = f[7] /\ t[8] = f[8]
    BY <1>2, <1>4, <1>5, <1>8
  <2> QED BY <1>3, <1>4, <1>6, <1>8, <2>1, AtoIType
<1>9. C!IsCell(line)
  BY <1>5 DEF C!IsCell, f
<1>10. ASSUME C!Whole(f), Len(f) > 8 => f[9] # C!Empty PROVE row.band = C!Band(f)
  <2>1. CASE Len(f) > 8
    <3>1. UpTo(f, 9)
      <4>1. \A k \in 1..8 : f[k] # C!Empty
        BY <1>10 DEF C!Whole
      <4>2. \A k \in 1..9 : k \in 1..8 \/ k = 9
        OBVIOUS
      <4> QED BY <1>10, <2>1, <4>1, <4>2 DEF UpTo
    <3>2. 9 <= Len(t) /\ t[9] = f[9]
      <4>1. 9 \in Nat /\ 9 \in 1..9 /\ 9 <= Len(f)
        BY <1>5, <2>1
      <4> QED BY <1>2, <3>1, <4>1
    <3>3. Len(t) > 8
      BY <1>5, <3>2
    <3> QED BY <1>3, <2>1, <3>2, <3>3 DEF C!Band
  <2>2. CASE ~ (Len(f) > 8)
    <3>1. ~ (Len(t) > 8)
      BY <1>2, <1>5, <2>2
    <3> QED BY <1>3, <2>2, <3>1 DEF C!Band
  <2> QED BY <2>1, <2>2
<1> QED BY <1>3, <1>7, <1>8, <1>9, <1>10 DEF f

\* A cell whose line is whole has a row.
LEMMA CellHasRow ==
  ASSUME NEW line \in Lines, C!IsCell(line), C!Whole(line.fields), ~ line.titled
  PROVE  C!IsRow(line)
<1> DEFINE t == C!Fields(line)
           f == line.fields
<1>1. f \in Seq(Int) /\ Len(f) >= 8 /\ C!Whole(f)
  BY LineType DEF C!IsCell
<1>2. t \in Seq(Int) /\ (UpTo(f, 8) => \A k \in 1..8 : k <= Len(f) => k <= Len(t))
  BY <1>1, FieldsAre DEF InPlace
<1>4. UpTo(f, 8)
  BY <1>1 DEF C!Whole, UpTo
<1> HIDE DEF t, f
<1>3. Len(t) >= 8 /\ Len(t) \in Nat
  BY <1>1, <1>2, <1>4
<1> QED BY <1>3 DEF C!IsRow, t

LEMMA SameNumber == \A S : C!Cardinality(S) = Cardinality(S)
BY DEF C!Cardinality, Cardinality, C!IsFiniteSet, IsFiniteSet

\* The count of the cells, line by line.
LEMMA CellsInIs ==
  ASSUME NEW r
  PROVE  /\ C!CellsIn(r, 0) = 0
         /\ \A n \in Nat : /\ C!CellsIn(r, n) \in Nat
                           /\ C!CellsIn(r, n + 1) = C!CellsIn(r, n) + IF C!IsCell(r[n + 1]) THEN 1 ELSE 0
<1> DEFINE At(n) == {i \in 1..n : C!IsCell(r[i])}
<1>1. \A n \in Nat : C!CellsIn(r, n) = Cardinality(At(n))
  BY SameNumber DEF C!CellsIn
<1>2. ASSUME NEW n \in Nat PROVE IsFiniteSet(At(n)) /\ Cardinality(At(n)) \in Nat
  <2>1. IsFiniteSet(1..n)
    BY FS_Interval
  <2>2. At(n) \in SUBSET (1..n)
    OBVIOUS
  <2> HIDE DEF At
  <2>3. IsFiniteSet(At(n))
    BY <2>1, <2>2, FS_Subset
  <2> QED BY <2>3, FS_CardinalityType
<1>3. ASSUME NEW n \in Nat
      PROVE  Cardinality(At(n + 1)) = Cardinality(At(n)) + IF C!IsCell(r[n + 1]) THEN 1 ELSE 0
  <2>1. 1..(n + 1) = 1..n \cup {n + 1} /\ n + 1 \notin 1..n
    OBVIOUS
  <2>2. CASE C!IsCell(r[n + 1])
    <3>1. At(n + 1) = At(n) \cup {n + 1} /\ n + 1 \notin At(n)
      BY <2>1, <2>2
    <3> HIDE DEF At
    <3>2. Cardinality(At(n) \cup {n + 1}) = Cardinality(At(n)) + 1
      BY <3>1, <1>2, FS_AddElement
    <3> QED BY <2>2, <3>1, <3>2
  <2>3. CASE ~ C!IsCell(r[n + 1])
    <3>1. At(n + 1) = At(n)
      BY <2>1, <2>3
    <3> HIDE DEF At
    <3> QED BY <2>3, <3>1, <1>2
  <2> QED BY <2>2, <2>3
<1>4. Cardinality(At(0)) = 0
  <2>1. At(0) = {}
    OBVIOUS
  <2> HIDE DEF At
  <2> QED BY <2>1, FS_EmptySet
<1> HIDE DEF At
<1> QED BY <1>1, <1>2, <1>3, <1>4

\* Every cell of the first n lines has a row, and nothing else has.
RowsOfCells(r, n) == \A k \in 1..n : C!IsCell(r[k]) <=> C!IsRow(r[k])

\* The rows of the first i lines: under RowsOfCells, the row of a cell has the
\* number of that cell.
Numbered(rs, r, i) ==
  /\ rs \in Seq(TableRows) /\ Len(rs) <= i
  /\ RowsOfCells(r, i) =>
       /\ Len(rs) = C!CellsIn(r, i)
       /\ \A k \in 1..i : C!IsCell(r[k]) => /\ C!CellsIn(r, k) \in 1..Len(rs)
                                            /\ rs[C!CellsIn(r, k)] = C!CellRow(r[k])

LEMMA LineStep ==
  ASSUME NEW r \in Seq(Lines), NEW i \in 1..Len(r), NEW rs, Numbered(rs, r, i - 1)
  PROVE  Numbered(IF C!IsRow(r[i]) THEN Append(rs, C!CellRow(r[i])) ELSE rs, r, i)
<1> DEFINE j == i - 1
           Count(k) == C!CellsIn(r, k)
<1>1. i \in Nat /\ j \in Nat /\ i = j + 1 /\ j <= i /\ r[i] \in Lines
  OBVIOUS
<1>2. Count(j) \in Nat /\ Count(i) = Count(j) + IF C!IsCell(r[i]) THEN 1 ELSE 0
  BY <1>1, CellsInIs
<1> HIDE DEF Count
<1>3. rs \in Seq(TableRows) /\ Len(rs) <= j /\ Len(rs) \in Nat
  BY DEF Numbered
<1>4. RowsOfCells(r, i) => RowsOfCells(r, j) /\ (C!IsCell(r[i]) <=> C!IsRow(r[i]))
  BY <1>1 DEF RowsOfCells
<1>5. RowsOfCells(r, j) =>
        /\ Len(rs) = Count(j)
        /\ \A k \in 1..j : C!IsCell(r[k]) => Count(k) \in 1..Len(rs) /\ rs[Count(k)] = C!CellRow(r[k])
  BY DEF Numbered, Count
<1> HIDE DEF j
<1>6. \A k \in 1..i : k \in 1..j \/ k = i
  BY <1>1
<1>7. CASE ~ C!IsRow(r[i])
  <2>1. ASSUME RowsOfCells(r, i)
        PROVE  /\ Len(rs) = Count(i)
               /\ \A k \in 1..i : C!IsCell(r[k]) => Count(k) \in 1..Len(rs) /\ rs[Count(k)] = C!CellRow(r[k])
    <3>1. ~ C!IsCell(r[i]) /\ RowsOfCells(r, j)
      BY <1>4, <1>7, <2>1
    <3>2. Count(i) = Count(j)
      BY <1>2, <3>1
    <3> QED BY <1>5, <1>6, <3>1, <3>2
  <2>2. Len(rs) <= i
    BY <1>1, <1>3
  <2> QED BY <1>3, <1>7, <2>1, <2>2 DEF Numbered, Count
<1>8. CASE C!IsRow(r[i])
  <2> DEFINE row == C!CellRow(r[i])
             a == Append(rs, row)
  <2>1. row \in TableRows
    BY <1>1, <1>8 DEF TableRows
  <2> HIDE DEF row
  <2>2. /\ a \in Seq(TableRows) /\ Len(a) = Len(rs) + 1 /\ a[Len(rs) + 1] = row
        /\ \A k \in 1..Len(rs) : a[k] = rs[k]
    BY <1>3, <2>1, AppendIs
  <2> HIDE DEF a
  <2>3. Len(a) <= i
    BY <1>1, <1>3, <2>2
  <2>4. ASSUME RowsOfCells(r, i)
        PROVE  /\ Len(a) = Count(i)
               /\ \A k \in 1..i : C!IsCell(r[k]) => Count(k) \in 1..Len(a) /\ a[Count(k)] = C!CellRow(r[k])
    <3>1. C!IsCell(r[i]) /\ RowsOfCells(r, j)
      BY <1>4, <1>8, <2>4
    <3>2. Count(i) = Len(rs) + 1 /\ Len(a) = Count(i)
      BY <1>2, <1>5, <2>2, <3>1
    <3>3. ASSUME NEW k \in 1..i, C!IsCell(r[k]) PROVE Count(k) \in 1..Len(a) /\ a[Count(k)] = C!CellRow(r[k])
      <4>1. CASE k = i
        BY <1>3, <2>2, <3>2, <4>1 DEF row
      <4>2. CASE k \in 1..j
        <5>1. Count(k) \in 1..Len(rs) /\ rs[Count(k)] = C!CellRow(r[k])
          BY <1>5, <3>1, <3>3, <4>2
        <5>2. Count(k) \in 1..Len(a)
          BY <1>3, <2>2, <5>1
        <5> QED BY <2>2, <5>1, <5>2
      <4> QED BY <1>6, <4>1, <4>2
    <3> QED BY <3>2, <3>3
  <2> QED BY <1>8, <2>2, <2>3, <2>4 DEF Numbered, Count, a, row
<1> QED BY <1>7, <1>8

LEMMA ItemsAre ==
  ASSUME NEW r \in Seq(Lines)
  PROVE  Numbered(C!CellItems(r), r, Len(r))
<1> DEFINE n == Len(r)
           S == Seq(TableRows)
           g == [i \in 1..n |-> [x \in S |-> IF C!IsRow(r[i]) THEN Append(x, C!CellRow(r[i])) ELSE x]]
           F(f) == [i \in 0..n |-> IF i = 0 THEN <<>> ELSE IF C!IsRow(r[i]) THEN Append(f[i - 1], C!CellRow(r[i])) ELSE f[i - 1]]
<1>1. n \in Nat /\ <<>> \in S /\ \A i \in 1..n : r[i] \in Lines
  OBVIOUS
<1>2. \A x \in S, i \in 1..n : (IF C!IsRow(r[i]) THEN Append(x, C!CellRow(r[i])) ELSE x) \in S
  <2>1. \A i \in 1..n : C!IsRow(r[i]) => C!CellRow(r[i]) \in TableRows
    BY <1>1 DEF TableRows
  <2> QED BY <2>1, AppendIs
<1> HIDE DEF S
<1>3. g \in [1..n -> [S -> S]] /\ \A x \in S, i \in 1..n : g[i][x] = IF C!IsRow(r[i]) THEN Append(x, C!CellRow(r[i])) ELSE x
  BY <1>2
<1>4. C!ItemsAt(r) = CHOOSE h : h = F(h)
  BY DEF C!ItemsAt
<1>5. \A f : F(f) = [i \in 0..n |-> IF i = 0 THEN <<>> ELSE IF C!IsRow(r[i]) THEN Append(f[i - 1], C!CellRow(r[i])) ELSE f[i - 1]]
  OBVIOUS
<1> HIDE DEF n, g, F
<1>6. PICK f : Runs(f, n, S, <<>>, g)
  BY <1>1, <1>3, Recursion
<1>7. f \in [0..n -> S] /\ f[0] = <<>> /\ \A i \in 1..n : f[i] = g[i][f[i - 1]]
  BY <1>6 DEF Runs
<1>8. \A i \in 0..n : f[i] = IF i = 0 THEN <<>> ELSE IF C!IsRow(r[i]) THEN Append(f[i - 1], C!CellRow(r[i])) ELSE f[i - 1]
  <2> TAKE i \in 0..n
  <2>1. CASE i # 0
    <3>1. i \in 1..n /\ f[i - 1] \in S
      BY <2>1, <1>1, <1>7
    <3> QED BY <3>1, <2>1, <1>3, <1>7
  <2> QED BY <2>1, <1>7
<1>9. f = F(f)
  BY <1>5, <1>7, <1>8
<1> DEFINE h == C!ItemsAt(r)
<1>10. h = F(h)
  BY <1>4, <1>9
<1> HIDE DEF h
<1>11. h[0] = <<>> /\ \A i \in 1..n : h[i] = IF C!IsRow(r[i]) THEN Append(h[i - 1], C!CellRow(r[i])) ELSE h[i - 1]
  <2>1. h = [i \in 0..n |-> IF i = 0 THEN <<>> ELSE IF C!IsRow(r[i]) THEN Append(h[i - 1], C!CellRow(r[i])) ELSE h[i - 1]]
    BY <1>5, <1>10, Zenon
  <2>2. h[0] = <<>>
    BY <1>1, <2>1
  <2>3. ASSUME NEW i \in 1..n
        PROVE  h[i] = IF C!IsRow(r[i]) THEN Append(h[i - 1], C!CellRow(r[i])) ELSE h[i - 1]
    <3>1. i \in 0..n /\ i # 0
      BY <1>1
    <3> QED BY <2>1, <3>1
  <2> QED BY <2>2, <2>3
<1> DEFINE P == {k \in 0..n : Numbered(h[k], r, k)}
<1>12. 0 \in P /\ P \subseteq Nat
  <2>1. Numbered(<<>>, r, 0)
    <3>1. <<>> \in Seq(TableRows) /\ Len(<<>>) = 0 /\ C!CellsIn(r, 0) = 0 /\ 1..0 = {}
      BY CellsInIs
    <3> QED BY <3>1 DEF Numbered
  <2> QED BY <1>1, <1>11, <2>1
<1>13. \A k \in 1..n : k - 1 \in P => k \in P
  <2> SUFFICES ASSUME NEW k \in 1..n, Numbered(h[k - 1], r, k - 1) PROVE Numbered(h[k], r, k)
    BY <1>1
  <2>1. k \in 1..Len(r)
    BY DEF n
  <2>2. Numbered(IF C!IsRow(r[k]) THEN Append(h[k - 1], C!CellRow(r[k])) ELSE h[k - 1], r, k)
    BY <2>1, LineStep
  <2> QED BY <1>11, <2>2
<1> HIDE DEF P
<1>14. n \in P
  <2>1. 0..n \subseteq P
    BY <1>1, <1>12, <1>13, Steps
  <2> QED BY <1>1, <2>1
<1>15. Numbered(h[n], r, n)
  BY <1>14 DEF P
<1> QED BY <1>15 DEF h, n, C!CellItems

-----------------------------------------------------------------------------
(* Profiles: where a search of the text finds what the document says.       *)

LEMMA LeastIs ==
  ASSUME NEW I, I \subseteq Nat, I # {}, NEW m, m = Min(I)
  PROVE  m \in I /\ \A y \in I : m <= y
<1>1. \E x \in I : \A y \in I : x <= y
  BY Less
<1> QED BY <1>1 DEF Min

LEMMA TokensDiffer == \A s, m : Str(s) # Mark(m)
BY DEF Str, Mark

LEMMA BracesDiffer == Mark("{") # Mark("}") /\ Mark(":") # Mark("{")
BY DEF Mark

Brace(t) == t = Mark("{")

LEMMA DocumentIs ==
  ASSUME NEW doc, IsDocument(doc)
  PROVE  Len(doc) \in Nat /\ DOMAIN doc = 1..Len(doc)
BY DEF IsDocument

\* Documents of the same tokens are the same.
LEMMA SameDocument ==
  ASSUME NEW d, NEW e, IsDocument(d), IsDocument(e), Len(d) = Len(e), \A i \in 1..Len(d) : d[i] = e[i]
  PROVE  d = e
BY SeqEqual DEF IsDocument

\* A part of a document.
IsPart(part, doc, a, e) == a \in Nat /\ e \in Nat /\ 1 <= a /\ a <= e /\ e <= Len(doc) /\ part = SubSeq(doc, a, e)

LEMMA PartIs ==
  ASSUME NEW doc, IsDocument(doc), NEW part, NEW a, NEW e, IsPart(part, doc, a, e)
  PROVE  /\ IsDocument(part) /\ Len(part) = e - a + 1 /\ Len(part) >= 1
         /\ \A i \in 1..Len(part) : i + a - 1 \in 1..Len(doc) /\ part[i] = doc[i + a - 1]
<1>1. a \in Nat /\ e \in Nat /\ 1 <= a /\ a <= e /\ e <= Len(doc) /\ part = SubSeq(doc, a, e)
  BY DEF IsPart
<1>2. IsDocument(part) /\ Len(part) = e - a + 1 /\ \A i \in 1..(e - a + 1) : part[i] = doc[a + i - 1]
  <2>1. doc \in Seq(Token)
    BY DEF IsDocument
  <2>2. part \in Seq(Token) /\ Len(part) = e - a + 1 /\ \A i \in 1..(e - a + 1) : part[i] = doc[a + i - 1]
    BY <1>1, <2>1
  <2> QED BY <2>2 DEF IsDocument
<1>3. Len(doc) \in Nat
  BY DocumentIs
<1>4. \A i \in 1..(e - a + 1) : a + i - 1 = i + a - 1 /\ i + a - 1 \in 1..Len(doc)
  BY <1>1, <1>3
<1>5. e - a + 1 >= 1
  BY <1>1
<1> QED BY <1>2, <1>4, <1>5

\* A part of a part is one of the document.
LEMMA PartOfPart ==
  ASSUME NEW doc, IsDocument(doc), NEW part, NEW a, NEW e, IsPart(part, doc, a, e),
         NEW p, NEW x, NEW b, IsPart(p, part, x, b)
  PROVE  IsPart(p, doc, x + a - 1, b + a - 1)
<1> DEFINE q == SubSeq(doc, x + a - 1, b + a - 1)
<1>1. IsDocument(part) /\ Len(part) = e - a + 1 /\ a \in Nat /\ e \in Nat /\ 1 <= a /\ e <= Len(doc) /\ Len(doc) \in Nat
  <2>1. IsDocument(part) /\ Len(part) = e - a + 1
    BY PartIs
  <2>2. a \in Nat /\ e \in Nat /\ 1 <= a /\ e <= Len(doc)
    BY DEF IsPart
  <2> QED BY <2>1, <2>2, DocumentIs
<1>2. x \in Nat /\ b \in Nat /\ 1 <= x /\ x <= b /\ b <= Len(part)
  BY DEF IsPart
<1>3. /\ x + a - 1 \in Nat /\ b + a - 1 \in Nat /\ 1 <= x + a - 1 /\ x + a - 1 <= b + a - 1 /\ b + a - 1 <= Len(doc)
      /\ b - x + 1 = (b + a - 1) - (x + a - 1) + 1
  <2>1. b <= e - a + 1
    BY <1>1, <1>2
  <2>2. x + a - 1 \in Nat /\ b + a - 1 \in Nat /\ 1 <= x + a - 1 /\ x + a - 1 <= b + a - 1
    BY <1>1, <1>2
  <2>3. b + a - 1 <= Len(doc)
    BY <1>1, <1>2, <2>1
  <2>4. b - x + 1 = (b + a - 1) - (x + a - 1) + 1
    BY <1>1, <1>2
  <2> QED BY <2>2, <2>3, <2>4
<1>4. IsPart(q, doc, x + a - 1, b + a - 1)
  BY <1>3 DEF IsPart
<1>5. /\ IsDocument(q) /\ Len(q) = b - x + 1
      /\ \A i \in 1..Len(q) : q[i] = doc[i + (x + a - 1) - 1]
  BY <1>3, <1>4, PartIs
<1>6. /\ IsDocument(p) /\ Len(p) = b - x + 1
      /\ \A i \in 1..Len(p) : i + x - 1 \in 1..Len(part) /\ p[i] = part[i + x - 1]
  BY <1>1, PartIs
<1>7. \A j \in 1..Len(part) : part[j] = doc[j + a - 1]
  BY PartIs
<1> HIDE DEF q
<1>8. ASSUME NEW i \in 1..Len(p) PROVE p[i] = q[i]
  <2>1. p[i] = doc[(i + x - 1) + a - 1] /\ q[i] = doc[i + (x + a - 1) - 1]
    BY <1>5, <1>6, <1>7
  <2>2. (i + x - 1) + a - 1 = i + (x + a - 1) - 1
    BY <1>1, <1>2
  <2> QED BY <2>1, <2>2
<1>9. p = q
  BY <1>5, <1>6, <1>8, SameDocument
<1> QED BY <1>4, <1>9

\* Moving a set of numbers keeps its size.
LEMMA Moved ==
  ASSUME NEW S, NEW T, NEW x \in Int, NEW y \in Int, NEW k \in Int, S \subseteq x..y,
         \A j : j \in T <=> j - k \in S /\ j \in Int
  PROVE  Cardinality(T) = Cardinality(S)
<1> DEFINE f == [i \in S |-> i + k]
<1>1. IsFiniteSet(S)
  <2>1. IsFiniteSet(x..y) /\ S \in SUBSET (x..y)
    BY FS_Interval
  <2> QED BY <2>1, FS_Subset
<1>2. \A i \in S : i \in Int /\ i + k \in Int /\ (i + k) - k = i
  OBVIOUS
<1>3. f \in [S -> T]
  BY <1>2
<1>4. IsInjective(f)
  BY <1>2 DEF IsInjective
<1>5. ASSUME NEW t \in T PROVE \E i \in S : f[i] = t
  <2>1. t - k \in S /\ t \in Int /\ (t - k) + k = t
    OBVIOUS
  <2> QED BY <2>1
<1> HIDE DEF f
<1>6. f \in Bijection(S, T)
  BY <1>3, <1>4, <1>5 DEF Bijection, Injection, Surjection
<1>7. ExistsBijection(S, T)
  BY <1>6 DEF ExistsBijection
<1> QED BY <1>1, <1>7, FS_Bijection

LEMMA DepthMoves ==
  ASSUME NEW doc, IsDocument(doc), NEW part, NEW a, NEW e, IsPart(part, doc, a, e),
         NEW x, NEW y, x \in Nat, y \in Nat, 1 <= x, y <= Len(part)
  PROVE  Depth(part, x, y) = Depth(doc, x + a - 1, y + a - 1)
<1>1. a \in Nat /\ Len(part) \in Nat /\ \A i \in 1..Len(part) : part[i] = doc[i + a - 1]
  BY PartIs, DocumentIs DEF IsPart
<1>2. ASSUME NEW m
      PROVE  Cardinality({i \in x + a - 1..y + a - 1 : doc[i] = m}) = Cardinality({i \in x..y : part[i] = m})
  <2> DEFINE S == {i \in x..y : part[i] = m}
             T == {i \in x + a - 1..y + a - 1 : doc[i] = m}
  <2>1. ASSUME NEW j PROVE j \in T <=> j - (a - 1) \in S /\ j \in Int
    <3>1. CASE j \notin Int
      BY <3>1, <1>1
    <3>2. CASE j \in Int
      <4>1. j \in x + a - 1..y + a - 1 <=> j - (a - 1) \in x..y
        BY <1>1, <3>2
      <4>2. ASSUME j - (a - 1) \in x..y PROVE part[j - (a - 1)] = doc[j]
        <5>1. j - (a - 1) \in 1..Len(part) /\ (j - (a - 1)) + a - 1 = j
          BY <1>1, <3>2, <4>2
        <5> QED BY <1>1, <5>1
      <4> QED BY <3>2, <4>1, <4>2
    <3> QED BY <3>1, <3>2
  <2>2. S \subseteq x..y /\ x \in Int /\ y \in Int /\ a - 1 \in Int
    BY <1>1
  <2> HIDE DEF S, T
  <2>3. Cardinality(T) = Cardinality(S)
    BY <2>1, <2>2, Moved
  <2> QED BY <2>3 DEF S, T
<1>3. \A m : Cardinality({i \in x + a - 1..y + a - 1 : doc[i] = m}) = Cardinality({i \in x..y : part[i] = m})
  BY <1>2
<1>4. /\ Cardinality({i \in x + a - 1..y + a - 1 : doc[i] = Mark("{")}) = Cardinality({i \in x..y : part[i] = Mark("{")})
      /\ Cardinality({i \in x + a - 1..y + a - 1 : doc[i] = Mark("}")}) = Cardinality({i \in x..y : part[i] = Mark("}")})
  BY <1>3, Zenon
<1> QED BY <1>4, Zenon DEF Depth

\* e is where the brace at a is closed.
EndOf(doc, a, e) ==
  /\ a \in 1..Len(doc) /\ e \in Nat /\ a <= e /\ e <= Len(doc) /\ Depth(doc, a, e) = 0
  /\ \A i \in a..Len(doc) : Depth(doc, a, i) = 0 => e <= i

LEMMA BlockEndIs ==
  ASSUME NEW doc, IsDocument(doc), NEW a \in 1..Len(doc), NEW b, b = BlockEnd(doc, a)
  PROVE  /\ b = 0 \/ EndOf(doc, a, b)
         /\ \A e : EndOf(doc, a, e) => b = e
<1> DEFINE I == {i \in a..Len(doc) : [j \in DOMAIN doc |-> Depth(doc, a, j)][i] = 0}
           J == {i \in a..Len(doc) : Depth(doc, a, i) = 0}
<1>1. Len(doc) \in Nat /\ DOMAIN doc = 1..Len(doc)
  BY DocumentIs
<1>2. I = J /\ J \subseteq Nat
  BY <1>1
<1>3. b = IF I # {} THEN Min(I) ELSE 0
  BY DEF BlockEnd, SelectInSubSeq
<1> HIDE DEF I
<1>4. CASE J = {}
  <2>1. \A e : ~ EndOf(doc, a, e)
    BY <1>1, <1>4 DEF EndOf
  <2> QED BY <1>2, <1>3, <1>4, <2>1
<1>5. CASE J # {}
  <2>1. b = Min(J)
    BY <1>2, <1>3, <1>5
  <2> HIDE DEF J
  <2>2. b \in J /\ \A y \in J : b <= y
    BY <1>2, <1>5, <2>1, LeastIs
  <2> USE DEF J
  <2>3. EndOf(doc, a, b)
    BY <1>1, <2>2 DEF EndOf
  <2>4. ASSUME NEW e, EndOf(doc, a, e) PROVE b = e
    <3>1. e \in J /\ e <= b /\ e \in Nat /\ b \in Nat
      BY <1>1, <2>2, <2>4 DEF EndOf
    <3> HIDE DEF J
    <3>2. b <= e
      BY <2>2, <3>1
    <3> QED BY <3>1, <3>2
  <2> QED BY <2>3, <2>4
<1> QED BY <1>4, <1>5

\* A brace of a part is closed in the document where it is closed in the part.
LEMMA EndMoves ==
  ASSUME NEW doc, IsDocument(doc), NEW part, NEW a, NEW e, IsPart(part, doc, a, e),
         NEW x, NEW b, EndOf(part, x, b)
  PROVE  EndOf(doc, x + a - 1, b + a - 1)
<1>1. a \in Nat /\ 1 <= a /\ e \in Nat /\ e <= Len(doc) /\ Len(doc) \in Nat
  BY DocumentIs DEF IsPart
<1>2. Len(part) = e - a + 1
  BY PartIs
<1>3. /\ x \in 1..Len(part) /\ b \in Nat /\ x <= b /\ b <= Len(part) /\ Depth(part, x, b) = 0
      /\ \A i \in x..Len(part) : Depth(part, x, i) = 0 => b <= i
  BY DEF EndOf
<1>4. \A y \in Nat : y <= Len(part) => Depth(part, x, y) = Depth(doc, x + a - 1, y + a - 1)
  <2>1. x \in Nat /\ 1 <= x
    BY <1>3
  <2> QED BY <2>1, DepthMoves
<1>5. x + a - 1 \in 1..Len(doc) /\ b + a - 1 \in Nat /\ x + a - 1 <= b + a - 1 /\ b + a - 1 <= Len(doc)
  BY <1>1, <1>2, <1>3
<1>6. Depth(doc, x + a - 1, b + a - 1) = 0
  BY <1>3, <1>4
<1>7. ASSUME NEW i \in x + a - 1..Len(doc), Depth(doc, x + a - 1, i) = 0 PROVE b + a - 1 <= i
  <2>1. i - a + 1 \in Nat /\ i - a + 1 >= x /\ (i - a + 1) + a - 1 = i
    BY <1>1, <1>3
  <2>2. CASE i - a + 1 <= Len(part)
    <3>1. Depth(part, x, i - a + 1) = 0
      BY <1>4, <1>7, <2>1, <2>2
    <3>2. i - a + 1 \in x..Len(part)
      BY <1>1, <1>2, <1>3, <2>1, <2>2
    <3>3. b <= i - a + 1
      BY <1>3, <3>1, <3>2
    <3> QED BY <1>1, <1>3, <3>3
  <2>3. CASE ~ (i - a + 1 <= Len(part))
    BY <1>1, <1>2, <1>3, <2>3
  <2> QED BY <2>2, <2>3
<1> QED BY <1>5, <1>6, <1>7 DEF EndOf

\* The key at i, and the value at v.
KeyAt(doc, key, i) == i \in 1..Len(doc) - 2 /\ doc[i] = Str(key) /\ doc[i + 1] = Mark(":")
ValueAt(doc, v) == IF doc[v] = Mark("{") THEN SubSeq(doc, v, BlockEnd(doc, v)) ELSE <<doc[v]>>

\* A member has the value of its key, the first at its depth.
LEMMA MemberIs ==
  ASSUME NEW doc, IsDocument(doc), NEW key
  PROVE  Member(doc, key) = <<>> \/ \E i : KeyAt(doc, key, i) /\ Member(doc, key) = ValueAt(doc, i + 2)
<1> DEFINE at == {i \in 1..Len(doc) - 2 : doc[i] = Str(key) /\ doc[i + 1] = Mark(":") /\ Depth(doc, 1, i) = 1}
           c  == CHOOSE j \in at : \A k \in at : j <= k
<1>1. at \subseteq Nat /\ \A i \in at : KeyAt(doc, key, i)
  <2>1. \A i \in at : KeyAt(doc, key, i)
    BY DEF KeyAt
  <2>2. Len(doc) \in Nat /\ at \subseteq 1..Len(doc) - 2
    BY DocumentIs
  <2> HIDE DEF at
  <2>3. at \subseteq Nat
    BY <2>2
  <2> QED BY <2>1, <2>3
<1>2. Member(doc, key) = IF at = {} THEN <<>> ELSE ValueAt(doc, c + 2)
  BY Zenon DEF Member, ValueAt
<1> HIDE DEF at
<1>3. CASE at # {}
  <2>1. \E j \in at : \A k \in at : j <= k
    BY <1>1, <1>3, Less
  <2>2. c \in at
    BY <2>1
  <2> HIDE DEF c
  <2> QED BY <1>1, <1>2, <1>3, <2>2
<1> QED BY <1>2, <1>3

\* A value is a token that is no brace, a part that starts with one, or nothing.
LEMMA ValueIs ==
  ASSUME NEW doc, IsDocument(doc), NEW v \in 1..Len(doc)
  PROVE  IF doc[v] # Mark("{") THEN ValueAt(doc, v) = <<doc[v]>>
         ELSE \/ ValueAt(doc, v) = <<>>
              \/ /\ EndOf(doc, v, BlockEnd(doc, v)) /\ IsPart(ValueAt(doc, v), doc, v, BlockEnd(doc, v))
                 /\ Len(ValueAt(doc, v)) >= 1 /\ ValueAt(doc, v)[1] = Mark("{")
<1>1. CASE doc[v] # Mark("{")
  BY <1>1 DEF ValueAt
<1>2. CASE doc[v] = Mark("{")
  <2> DEFINE b == BlockEnd(doc, v)
             p == SubSeq(doc, v, b)
  <2>1. ValueAt(doc, v) = p
    BY <1>2 DEF ValueAt
  <2>2. b = 0 \/ EndOf(doc, v, b)
    BY BlockEndIs
  <2> HIDE DEF b
  <2>3. Len(doc) \in Nat /\ v \in Nat /\ v >= 1
    BY DocumentIs
  <2>4. CASE b = 0
    <3>1. p = <<>>
      BY <2>3, <2>4, SubSeqEmpty
    <3> QED BY <1>2, <2>1, <3>1
  <2>5. CASE EndOf(doc, v, b)
    <3>1. IsPart(p, doc, v, b)
      BY <2>3, <2>5 DEF EndOf, IsPart
    <3> HIDE DEF p
    <3>2. Len(p) >= 1 /\ Len(p) \in Nat /\ \A i \in 1..Len(p) : p[i] = doc[i + v - 1]
      BY <3>1, PartIs, DocumentIs
    <3>3. p[1] = doc[1 + v - 1] /\ 1 + v - 1 = v
      BY <2>3, <3>2
    <3> QED BY <1>2, <2>1, <2>5, <3>1, <3>2, <3>3 DEF b
  <2> QED BY <2>2, <2>4, <2>5
<1> QED BY <1>1, <1>2

-----------------------------------------------------------------------------
(* Names that stand once.                                                   *)

\* m is the object that is the member with its key at i.
ObjectAt(doc, key, i, m) ==
  /\ KeyAt(doc, key, i) /\ Brace(doc[i + 2])
  /\ EndOf(doc, i + 2, BlockEnd(doc, i + 2)) /\ IsPart(m, doc, i + 2, BlockEnd(doc, i + 2))

LEMMA ObjectIs ==
  ASSUME NEW doc, IsDocument(doc), NEW key, NEW m, m = Member(doc, key), m # <<>>,
         Len(m) >= 2 \/ Brace(m[1])
  PROVE  \E i : ObjectAt(doc, key, i, m)
<1>1. PICK i : KeyAt(doc, key, i) /\ m = ValueAt(doc, i + 2)
  BY MemberIs
<1> DEFINE v == i + 2
<1>2. v \in 1..Len(doc)
  BY <1>1, DocumentIs DEF KeyAt
<1>3. Brace(doc[v])
  <2> SUFFICES ASSUME ~ Brace(doc[v]) PROVE FALSE
    OBVIOUS
  <2>1. m = <<doc[v]>>
    BY <1>1, <1>2, ValueIs DEF Brace
  <2> HIDE DEF v
  <2>2. Len(m) = 1 /\ m[1] = doc[v]
    BY <2>1
  <2> QED BY <2>2
<1> HIDE DEF v
<1>4. EndOf(doc, v, BlockEnd(doc, v)) /\ IsPart(ValueAt(doc, v), doc, v, BlockEnd(doc, v))
  <2>1. ValueAt(doc, v) # <<>>
    BY <1>1 DEF v
  <2> QED BY <1>2, <1>3, <2>1, ValueIs DEF Brace
<1> QED BY <1>1, <1>3, <1>4 DEF ObjectAt, v

LEMMA PlacesAre ==
  ASSUME NEW doc, IsDocument(doc), NEW name
  PROVE  /\ Places(doc, name) = {i \in 1..Len(doc) : doc[i] = Str(name)}
         /\ IsFiniteSet(Places(doc, name)) /\ Places(doc, name) \subseteq Nat
<1>1. Len(doc) \in Nat /\ DOMAIN doc = 1..Len(doc)
  BY DocumentIs
<1>2. Places(doc, name) = {i \in 1..Len(doc) : doc[i] = Str(name)}
  BY <1>1 DEF Places
<1>3. IsFiniteSet(1..Len(doc))
  BY <1>1, FS_Interval
<1>4. Places(doc, name) \in SUBSET (1..Len(doc))
  BY <1>2
<1>5. IsFiniteSet(Places(doc, name))
  BY <1>3, <1>4, FS_Subset
<1> QED BY <1>1, <1>2, <1>4, <1>5

\* The searches, for a name that stands nowhere and for one that stands at p.
LEMMA FindNothing ==
  ASSUME NEW doc, IsDocument(doc), NEW name, Places(doc, name) = {}
  PROVE  FindBlock(doc, name) = <<>> /\ FindKeyValue(doc, name) = 0
<1>1. {i \in 1..Len(doc) : doc[i] = Str(name)} = {}
  BY PlacesAre
<1>2. SelectInSeq(doc, LAMBDA t : t = Str(name)) = 0
  BY <1>1 DEF SelectInSeq
<1> QED BY <1>2 DEF FindBlock, FindKeyValue

LEMMA FindPlace ==
  ASSUME NEW doc, IsDocument(doc), NEW name, NEW p, Places(doc, name) = {p}
  PROVE  SelectInSeq(doc, LAMBDA t : t = Str(name)) = p /\ p \in Nat /\ p # 0
<1> DEFINE I == {i \in 1..Len(doc) : doc[i] = Str(name)}
<1>1. I = {p} /\ I \subseteq Nat /\ p \in 1..Len(doc)
  BY PlacesAre
<1>2. SelectInSeq(doc, LAMBDA t : t = Str(name)) = Min(I)
  BY <1>1 DEF SelectInSeq
<1> HIDE DEF I
<1>3. Min(I) \in I
  BY <1>1, LeastIs
<1> QED BY <1>1, <1>2, <1>3

LEMMA FindKey ==
  ASSUME NEW doc, IsDocument(doc), NEW name, NEW p, Places(doc, name) = {p}, KeyAt(doc, name, p)
  PROVE  FindKeyValue(doc, name) = p + 2
<1>1. SelectInSeq(doc, LAMBDA t : t = Str(name)) = p /\ p \in Nat /\ p # 0
  BY FindPlace
<1>2. p + 1 < Len(doc) /\ doc[p + 1] = Mark(":")
  BY DocumentIs DEF KeyAt
<1> QED BY <1>1, <1>2 DEF FindKeyValue

LEMMA FindObject ==
  ASSUME NEW doc, IsDocument(doc), NEW name, NEW p, Places(doc, name) = {p},
         KeyAt(doc, name, p), Brace(doc[p + 2])
  PROVE  FindBlock(doc, name) = SubSeq(doc, p + 2, BlockEnd(doc, p + 2))
<1> DEFINE I == {i \in p..Len(doc) : Brace(doc[i])}
           a == SelectInSubSeq(doc, p, Len(doc), LAMBDA t : t = Mark("{"))
<1>1. SelectInSeq(doc, LAMBDA t : t = Str(name)) = p /\ p \in Nat /\ p # 0
  BY FindPlace
<1>2. Len(doc) \in Nat /\ p + 2 <= Len(doc)
  BY DocumentIs DEF KeyAt
<1>3. a = IF I # {} THEN Min(I) ELSE 0
  BY DEF SelectInSubSeq, Brace
<1>4. p + 2 \in I /\ I \subseteq Nat
  BY <1>1, <1>2
<1>5. p \notin I /\ p + 1 \notin I /\ \A y \in I : y \in Nat /\ y >= p
  <2>1. ~ Brace(doc[p]) /\ ~ Brace(doc[p + 1])
    BY TokensDiffer, BracesDiffer DEF KeyAt, Brace
  <2> QED BY <1>1, <1>2, <2>1
<1> HIDE DEF I
<1>6. Min(I) \in I /\ \A y \in I : Min(I) <= y
  BY <1>4, LeastIs
<1> HIDE DEF a
<1>7. a = Min(I)
  BY <1>3, <1>4
<1>8. a = p + 2 /\ a # 0
  <2>1. a \in Nat /\ a >= p /\ a # p /\ a # p + 1 /\ a <= p + 2
    BY <1>4, <1>5, <1>6, <1>7
  <2> QED BY <1>1, <2>1
<1>9. FindBlock(doc, name) = IF a = 0 THEN <<>> ELSE SubSeq(doc, a, BlockEnd(doc, a))
  BY <1>1 DEF FindBlock, a
<1> QED BY <1>8, <1>9

\* What is said of an object's name that stands once, if at all.
OnceAt(object, name, p) ==
  /\ Places(object, name) = {p} /\ KeyAt(object, name, p)
  /\ Member(object, name) = ValueAt(object, p + 2) /\ Member(object, name) # <<>>

LEMMA OnceIs ==
  ASSUME NEW object, IsDocument(object), NEW name, Once(object, name)
  PROVE  \/ Places(object, name) = {} /\ Member(object, name) = <<>>
         \/ \E p : OnceAt(object, name, p)
<1>1. ASSUME NEW i, KeyAt(object, name, i) PROVE i \in Places(object, name)
  <2>1. i \in 1..Len(object) /\ object[i] = Str(name)
    BY <1>1, DocumentIs DEF KeyAt
  <2> QED BY <2>1, PlacesAre
<1>2. CASE Places(object, name) = {}
  BY <1>1, <1>2, MemberIs
<1>3. CASE Places(object, name) # {}
  <2>1. Cardinality(Places(object, name)) = 1 /\ Member(object, name) # <<>>
    BY <1>3 DEF Once
  <2>2. PICK p : Places(object, name) = {p}
    BY <2>1, PlacesAre, FS_Singleton
  <2>3. PICK i : KeyAt(object, name, i) /\ Member(object, name) = ValueAt(object, i + 2)
    BY <2>1, MemberIs
  <2>4. i = p
    BY <1>1, <2>2, <2>3
  <2> QED BY <2>1, <2>2, <2>3, <2>4 DEF OnceAt
<1> QED BY <1>2, <1>3

\* Its value, read as a string, as a number and as an object.
LEMMA ValueOfKey ==
  ASSUME NEW object, IsDocument(object), NEW name, NEW p, OnceAt(object, name, p),
         NEW v, v = p + 2
  PROVE  /\ v \in 1..Len(object) /\ v # 0 /\ FindKeyValue(object, name) = v
         /\ Brace(object[v]) => /\ Len(Member(object, name)) >= 1 /\ Brace(Member(object, name)[1])
                                /\ IsDocument(Member(object, name))
         /\ ~ Brace(object[v]) => Member(object, name) = <<object[v]>>
<1>1. KeyAt(object, name, p) /\ Places(object, name) = {p} /\ Member(object, name) = ValueAt(object, v) /\ Member(object, name) # <<>>
  BY DEF OnceAt
<1>2. v \in 1..Len(object) /\ v # 0
  BY <1>1, DocumentIs DEF KeyAt
<1>3. FindKeyValue(object, name) = v
  BY <1>1, FindKey
<1>4. ASSUME Brace(object[v])
      PROVE  /\ Len(ValueAt(object, v)) >= 1 /\ Brace(ValueAt(object, v)[1]) /\ IsDocument(ValueAt(object, v))
  <2>1. /\ IsPart(ValueAt(object, v), object, v, BlockEnd(object, v))
        /\ Len(ValueAt(object, v)) >= 1 /\ ValueAt(object, v)[1] = Mark("{")
    BY <1>1, <1>2, <1>4, ValueIs DEF Brace
  <2>2. IsDocument(ValueAt(object, v))
    BY <2>1, PartIs
  <2> QED BY <2>1, <2>2 DEF Brace
<1>5. ASSUME ~ Brace(object[v]) PROVE ValueAt(object, v) = <<object[v]>>
  BY <1>2, <1>5, ValueIs DEF Brace
<1> QED BY <1>1, <1>2, <1>3, <1>4, <1>5

LEMMA BraceKind == \A t : Brace(t) => t.kind # "string" /\ t.kind # "escaped" /\ t.kind # "number"
<1>1. \A m : Mark(m).kind = "mark"
  BY DEF Mark
<1> QED BY <1>1, Zenon DEF Brace

LEMMA StringIs ==
  ASSUME NEW object, IsDocument(object), NEW name, Once(object, name), ~ IsEscaped(Member(object, name))
  PROVE  GetString(object, name) = Text(Member(object, name))
<1>1. CASE Places(object, name) = {} /\ Member(object, name) = <<>>
  <2>1. GetString(object, name) = None
    BY <1>1, FindNothing DEF GetString
  <2>2. Text(<<>>) = None
    BY DEF Text
  <2> QED BY <1>1, <2>1, <2>2
<1>2. ASSUME NEW p, OnceAt(object, name, p) PROVE GetString(object, name) = Text(Member(object, name))
  <2> DEFINE v == p + 2
             m == Member(object, name)
  <2>1. /\ v # 0 /\ FindKeyValue(object, name) = v
        /\ Brace(object[v]) => Brace(m[1])
        /\ ~ Brace(object[v]) => m = <<object[v]>>
    BY <1>2, ValueOfKey
  <2> HIDE DEF v, m
  <2>2. GetString(object, name) = StringOf(object[v])
    BY <2>1 DEF GetString
  <2>3. CASE Brace(object[v])
    <3>1. /\ m[1].kind # "string" /\ object[v].kind # "string"
          /\ m[1].kind # "escaped" /\ object[v].kind # "escaped"
      BY <2>1, <2>3, BraceKind
    <3> QED BY <2>2, <3>1 DEF StringOf, Text, m
  <2>4. CASE ~ Brace(object[v])
    <3>1. Len(m) = 1 /\ m[1] = object[v]
      BY <2>1, <2>4
    <3>2. object[v].kind # "escaped"
      BY <3>1 DEF IsEscaped, m
    <3> QED BY <2>2, <3>1, <3>2 DEF StringOf, Text, m
  <2> QED BY <2>3, <2>4
<1> QED BY <1>1, <1>2, OnceIs

LEMMA IntIs ==
  ASSUME NEW object, IsDocument(object), NEW name, Once(object, name), NEW fallback
  PROVE  LET m == Member(object, name)
         IN  GetInt(object, name, fallback) = IF m = <<>> THEN fallback ELSE IF m[1].kind = "number" THEN m[1].text ELSE "0"
<1> DEFINE m == Member(object, name)
           i == IF m = <<>> THEN fallback ELSE IF m[1].kind = "number" THEN m[1].text ELSE "0"
<1>1. CASE Places(object, name) = {} /\ m = <<>>
  BY <1>1, FindNothing DEF GetInt
<1>2. ASSUME NEW p, OnceAt(object, name, p) PROVE GetInt(object, name, fallback) = i
  <2> DEFINE v == p + 2
  <2>1. /\ v # 0 /\ FindKeyValue(object, name) = v
        /\ Brace(object[v]) => Brace(m[1])
        /\ ~ Brace(object[v]) => m = <<object[v]>>
    BY <1>2, ValueOfKey
  <2>2. m # <<>>
    BY <1>2 DEF OnceAt
  <2> HIDE DEF v, m
  <2>3. GetInt(object, name, fallback) = IF object[v].kind = "number" THEN object[v].text ELSE "0"
    BY <2>1 DEF GetInt
  <2>4. CASE Brace(object[v])
    <3>1. m[1].kind # "number" /\ object[v].kind # "number"
      BY <2>1, <2>4, BraceKind
    <3> QED BY <2>2, <2>3, <3>1
  <2>5. CASE ~ Brace(object[v])
    <3>1. m[1] = object[v]
      BY <2>1, <2>5
    <3> QED BY <2>2, <2>3, <3>1
  <2> QED BY <2>4, <2>5
<1> QED BY <1>1, <1>2, OnceIs

\* An object in the object, or nothing.
LEMMA InnerIs ==
  ASSUME NEW object, IsDocument(object), NEW name, Once(object, name), NEW m, m = Member(object, name),
         m = <<>> \/ Brace(m[1])
  PROVE  FindBlock(object, name) = m /\ IsDocument(m)
<1>0. IsDocument(<<>>)
  BY DEF IsDocument
<1>1. CASE Places(object, name) = {} /\ m = <<>>
  BY <1>0, <1>1, FindNothing
<1>2. ASSUME NEW p, OnceAt(object, name, p) PROVE FindBlock(object, name) = m /\ IsDocument(m)
  <2> DEFINE v == p + 2
  <2>1. /\ Places(object, name) = {p} /\ KeyAt(object, name, p) /\ m = ValueAt(object, v) /\ m # <<>>
    BY <1>2 DEF OnceAt
  <2>2. /\ Brace(object[v]) => IsDocument(m)
        /\ ~ Brace(object[v]) => m = <<object[v]>>
    BY <1>2, ValueOfKey
  <2> HIDE DEF v
  <2>3. Brace(object[v])
    <3> SUFFICES ASSUME ~ Brace(object[v]) PROVE FALSE
      OBVIOUS
    <3>1. m[1] = object[v]
      BY <2>2
    <3> QED BY <2>1, <3>1
  <2>4. ValueAt(object, v) = SubSeq(object, v, BlockEnd(object, v))
    BY <2>3 DEF ValueAt, Brace
  <2>5. FindBlock(object, name) = SubSeq(object, v, BlockEnd(object, v))
    BY <2>1, <2>3, FindObject DEF v
  <2> QED BY <2>1, <2>2, <2>3, <2>4, <2>5
<1> QED BY <1>1, <1>2, OnceIs

LEMMA MemberType ==
  ASSUME NEW doc, IsDocument(doc), NEW key
  PROVE  IsDocument(Member(doc, key))
<1>1. IsDocument(<<>>)
  BY DEF IsDocument
<1>2. ASSUME NEW v \in 1..Len(doc) PROVE IsDocument(ValueAt(doc, v))
  <2>1. CASE Brace(doc[v])
    <3>1. ValueAt(doc, v) = <<>> \/ IsPart(ValueAt(doc, v), doc, v, BlockEnd(doc, v))
      BY <2>1, ValueIs DEF Brace
    <3> QED BY <1>1, <3>1, PartIs
  <2>2. CASE ~ Brace(doc[v])
    <3>1. ValueAt(doc, v) = <<doc[v]>>
      BY <2>2, ValueIs DEF Brace
    <3>2. IsDocument(<<doc[v]>>)
      <4>1. doc \in Seq(Token)
        BY DEF IsDocument
      <4>2. <<doc[v]>> \in Seq(Token)
        BY <4>1
      <4> QED BY <4>2 DEF IsDocument
    <3> QED BY <3>1, <3>2
  <2> QED BY <2>1, <2>2
<1>3. ASSUME NEW i, KeyAt(doc, key, i) PROVE i + 2 \in 1..Len(doc)
  BY <1>3, DocumentIs DEF KeyAt
<1> QED BY <1>1, <1>2, <1>3, MemberIs

\* The search finds the object of a capability whose name stands once.
LEMMA CapabilityIs ==
  ASSUME NEW doc, IsDocument(doc), NEW cap, Cardinality(Places(doc, cap)) = 1,
         NEW block, block = Member(Member(doc, "capabilities"), cap), IsObject(block)
  PROVE  FindBlock(doc, cap) = block /\ IsDocument(block) /\ block # <<>>
<1> DEFINE caps == Member(doc, "capabilities")
<1>1. block # <<>> /\ Brace(block[1])
  BY DEF IsObject, Brace
<1>2. IsDocument(caps) /\ IsDocument(block) /\ block = Member(caps, cap)
  BY MemberType
<1> DEFINE b(j) == BlockEnd(caps, j + 2)
<1>3. PICK j : ObjectAt(caps, cap, j, block)
  <2> HIDE DEF caps
  <2> QED BY <1>1, <1>2, ObjectIs
<1>4. /\ j \in 1..Len(caps) - 2 /\ caps[j] = Str(cap) /\ caps[j + 1] = Mark(":") /\ Brace(caps[j + 2])
      /\ EndOf(caps, j + 2, b(j)) /\ IsPart(block, caps, j + 2, b(j))
  BY <1>3 DEF ObjectAt, KeyAt
<1>5. Len(caps) \in Nat /\ Len(caps) >= 2 /\ caps # <<>>
  <2> HIDE DEF caps, b
  <2>1. Len(caps) \in Nat
    BY <1>2, DocumentIs
  <2>2. Len(caps) >= 3
    BY <1>4, <2>1
  <2> QED BY <2>1, <2>2
<1>6. PICK i : ObjectAt(doc, "capabilities", i, caps)
  <2>1. \A m : m = caps /\ m # <<>> /\ Len(m) >= 2 => \E i : ObjectAt(doc, "capabilities", i, m)
    BY ObjectIs
  <2> HIDE DEF caps
  <2> QED BY <1>5, <2>1
<1> DEFINE a == i + 2
           e == BlockEnd(doc, a)
           p == j + a - 1
           q == BlockEnd(caps, j + 2) + a - 1
<1>7. IsPart(caps, doc, a, e)
  BY <1>6 DEF ObjectAt
<1>8. i \in Nat
  BY <1>6, DocumentIs DEF ObjectAt, KeyAt
<1> HIDE DEF caps, b
<1>9. /\ a \in Nat /\ j \in Nat /\ (j + 2) + a - 1 = p + 2 /\ (j + 1) + a - 1 = p + 1 /\ p \in Int
  BY <1>4, <1>5, <1>8
<1>10. \A k \in 1..Len(caps) : k + a - 1 \in 1..Len(doc) /\ caps[k] = doc[k + a - 1]
  BY <1>7, PartIs
<1>11. j \in 1..Len(caps) /\ j + 1 \in 1..Len(caps) /\ j + 2 \in 1..Len(caps)
  BY <1>4, <1>5
<1> HIDE DEF a, e
<1>12. /\ doc[p] = Str(cap) /\ doc[p + 1] = Mark(":") /\ Brace(doc[p + 2])
       /\ p \in 1..Len(doc) /\ p + 2 \in 1..Len(doc)
  <2>1. caps[j] = doc[j + a - 1] /\ caps[j + 1] = doc[(j + 1) + a - 1] /\ caps[j + 2] = doc[(j + 2) + a - 1]
        /\ j + a - 1 \in 1..Len(doc) /\ (j + 2) + a - 1 \in 1..Len(doc)
    BY <1>10, <1>11
  <2>2. p = j + a - 1
    OBVIOUS
  <2> HIDE DEF p
  <2> QED BY <1>4, <1>9, <2>1, <2>2, Zenon
<1> HIDE DEF p
<1>13. KeyAt(doc, cap, p)
  <2>1. p \in 1..Len(doc) - 2
    BY <1>9, <1>12, DocumentIs
  <2> QED BY <1>12, <2>1 DEF KeyAt
<1>14. Places(doc, cap) = {p}
  <2>1. PICK x : Places(doc, cap) = {x}
    BY PlacesAre, FS_Singleton
  <2>2. p \in Places(doc, cap)
    BY <1>12, PlacesAre
  <2> QED BY <2>1, <2>2
<1>15. FindBlock(doc, cap) = SubSeq(doc, p + 2, BlockEnd(doc, p + 2))
  BY <1>12, <1>13, <1>14, FindObject
<1>16. EndOf(doc, p + 2, q)
  <2>1. EndOf(doc, (j + 2) + a - 1, b(j) + a - 1)
    BY <1>4, <1>7, EndMoves
  <2> QED BY <1>9, <2>1 DEF b
<1>17. BlockEnd(doc, p + 2) = q
  BY <1>12, <1>16, BlockEndIs
<1>18. IsPart(block, doc, p + 2, q)
  <2>1. IsPart(block, doc, (j + 2) + a - 1, b(j) + a - 1)
    BY <1>4, <1>7, PartOfPart
  <2> QED BY <1>9, <2>1 DEF b
<1>19. block = SubSeq(doc, p + 2, q)
  BY <1>18 DEF IsPart
<1> QED BY <1>1, <1>2, <1>15, <1>17, <1>19

\* The command and the ttl of a capability that is plain are its own.
LEMMA CommandIs ==
  ASSUME NEW doc, IsDocument(doc), NEW cap, NEW field, Plain(doc, cap, field)
  PROVE  CapabilityCommand(doc, cap, field) = OwnCommand(doc, cap, field)
<1> DEFINE block == Member(Member(doc, "capabilities"), cap)
           discovery == Member(block, "discovery")
<1>1. Cardinality(Places(doc, cap)) = 1 /\ IsObject(block) /\ Once(block, field) /\ ~ IsEscaped(Member(block, field))
  BY DEF Plain
<1>2. field = "discovery.command" =>
        /\ Once(block, "discovery") /\ (discovery = <<>> \/ Brace(discovery[1]))
        /\ Once(discovery, "command") /\ ~ IsEscaped(Member(discovery, "command"))
  BY DEF Plain, Discovery, IsObject, Brace
<1>3. OwnCommand(doc, cap, field) =
        IF Text(Member(block, field)) = None /\ field = "discovery.command" THEN Text(Member(discovery, "command"))
        ELSE Text(Member(block, field))
  BY DEF OwnCommand, Discovery
<1>4. FindBlock(doc, cap) = block /\ IsDocument(block) /\ block # <<>>
  BY <1>1, CapabilityIs
<1> HIDE DEF block
<1>5. CapabilityCommand(doc, cap, field) =
        IF GetString(block, field) = None /\ field = "discovery.command" THEN GetString(FindBlock(block, "discovery"), "command")
        ELSE GetString(block, field)
  BY <1>4 DEF CapabilityCommand
<1>6. GetString(block, field) = Text(Member(block, field))
  BY <1>1, <1>4, StringIs
<1>7. ASSUME field = "discovery.command"
      PROVE  GetString(FindBlock(block, "discovery"), "command") = Text(Member(discovery, "command"))
  <2>1. FindBlock(block, "discovery") = discovery /\ IsDocument(discovery)
    BY <1>2, <1>4, <1>7, InnerIs
  <2> HIDE DEF discovery
  <2> QED BY <1>2, <1>7, <2>1, StringIs
<1> HIDE DEF discovery
<1> QED BY <1>3, <1>5, <1>6, <1>7

LEMMA TtlIs ==
  ASSUME NEW doc, IsDocument(doc), NEW cap, Plain(doc, cap, "discovery.command"), NEW fallback
  PROVE  CapabilityTtl(doc, cap, fallback) = OwnTtl(doc, cap, fallback)
<1> DEFINE block == Member(Member(doc, "capabilities"), cap)
           discovery == Member(block, "discovery")
<1>1. Cardinality(Places(doc, cap)) = 1 /\ IsObject(block)
  BY DEF Plain
<1>2. Once(block, "discovery") /\ (discovery = <<>> \/ Brace(discovery[1])) /\ Once(discovery, "cache_ttl_sec")
  BY DEF Plain, Discovery, IsObject, Brace
<1>3. OwnTtl(doc, cap, fallback) =
        LET m == Member(discovery, "cache_ttl_sec")
        IN  IF m = <<>> THEN fallback ELSE IF m[1].kind = "number" THEN m[1].text ELSE "0"
  BY DEF OwnTtl, Discovery
<1>4. FindBlock(doc, cap) = block /\ IsDocument(block)
  BY <1>1, CapabilityIs
<1> HIDE DEF block
<1>5. FindBlock(block, "discovery") = discovery /\ IsDocument(discovery)
  BY <1>2, <1>4, InnerIs
<1> HIDE DEF discovery
<1>6. CapabilityTtl(doc, cap, fallback) = GetInt(discovery, "cache_ttl_sec", fallback)
  BY <1>4, <1>5 DEF CapabilityTtl
<1> QED BY <1>2, <1>3, <1>5, <1>6, IntIs

-----------------------------------------------------------------------------
(* The inductive invariant of Network: the rows are what the parsers make of *)
(* the reply, the field and the form hold what was ticked or picked last, and *)
(* a request that was just made was made from them and from the profile.     *)

BandsInv ==
  /\ IsReply(reply) /\ Len(reply) <= MaxBands /\ rows = B!BandItems(reply)
  /\ ticked \subseteq DOMAIN rows /\ list \in Seq(Nat) /\ writer \in {"boxes", "hand"}
  /\ ticked # {} /\ writer = "boxes" => list = B!Codes(rows, ticked)

PickedForm(row) == [rat |-> C!LockRat(row), earfcn |-> row.earfcn, pci |-> row.pci]

CellsInv ==
  /\ cellReply \in Seq(Lines) /\ Len(cellReply) <= MaxLines /\ cellRows = C!CellItems(cellReply)
  /\ form \in [rat : 0..1, earfcn : Int, pci : Int]
  /\ picked = C!NoRow \/ (picked \in TableRows /\ form = PickedForm(picked))

PageInv == view \in {"bands", "cells"} /\ profile \in Docs[view]

\* A request has the command that is found in the profile, or the fixed one.
Commanded(doc, cap, field, cmd, ttl) ==
  LET own == CapabilityCommand(doc, cap, field) IN
  /\ cap \in Caps
  /\ IF own \in Missing(field) THEN <<field, cmd>> \in FixedCommands
     ELSE (field \in FilledFields /\ own \in Long) \/ cmd = own
  /\ ttl # None => field = "discovery.command" /\ ttl = CapabilityTtl(doc, cap, "86400")

\* The command of a request, and what it carries.
AskedOwn(a) == Commanded(profile, a.cap, a.field, a.cmd, a.ttl)
AskedNow(a) ==
  /\ a.field = "set_template" /\ a.cap = "network.band" => a.codes \in Sent(list)
  /\ a.cell # <<>> => /\ a.cell[2] = form.rat /\ a.cell[4] = form.earfcn
                      /\ a.field = "set_template" => a.cell[5] = form.pci
AskedInv == asked = Nothing \/ (AskedOwn(asked) /\ AskedNow(asked))

NetInv == BandsInv /\ CellsInv /\ PageInv /\ AskedInv

\* Where the page starts: nothing was listed, so there are no rows.
LEMMA NothingListed == IsReply(<<>>) /\ B!BandItems(<<>>) = <<>> /\ C!CellItems(<<>>) = <<>>
<1>1. IsReply(<<>>) /\ <<>> \in Seq(Lines) /\ Len(<<>>) = 0 /\ ToSet(<<>>) = {}
  BY DEF IsReply, ToSet
<1>2. B!Clear(<<>>) /\ ListedIn(<<>>) = {}
  BY <1>1, SameSet DEF B!Clear, ListedIn
<1> DEFINE b == B!BandItems(<<>>)
           c == C!CellItems(<<>>)
<1>3. b \in Seq(CodedRows) /\ Shown(b) = {}
  BY <1>1, <1>2, ItemsAreCoded, ItemsAreListed
<1>4. c \in Seq(TableRows) /\ Len(c) <= 0
  BY <1>1, ItemsAre DEF Numbered
<1> HIDE DEF b, c
<1>5. b = <<>>
  <2>1. DOMAIN b = {}
    BY <1>3 DEF Shown
  <2> QED BY <1>3, <2>1
<1>6. c = <<>>
  BY <1>4
<1> QED BY <1>1, <1>5, <1>6 DEF b, c

LEMMA NetInvInit == NetInit => NetInv
<1> SUFFICES ASSUME NetInit PROVE NetInv
  OBVIOUS
<1>1. reply = <<>> /\ rows = <<>> /\ ticked = {} /\ list = <<>> /\ writer = "boxes" /\ cellReply = <<>> /\ cellRows = <<>>
      /\ picked = C!NoRow /\ form = [rat |-> 0, earfcn |-> 0, pci |-> 0]
  BY DEF NetInit, B!Init, C!Init
<1>2. MaxBands \in Nat /\ MaxLines \in Nat
  BY NetConstantsOK
<1>3. BandsInv
  <2>1. Len(<<>>) <= MaxBands /\ <<>> \in Seq(Nat)
    BY <1>2
  <2> QED BY <1>1, <2>1, NothingListed DEF BandsInv
<1>4. CellsInv
  <2>1. Len(<<>>) <= MaxLines /\ <<>> \in Seq(Lines)
    BY <1>2
  <2> QED BY <1>1, <2>1, NothingListed DEF CellsInv
<1>5. PageInv /\ AskedInv
  BY DEF NetInit, PageInv, AskedInv
<1> QED BY <1>3, <1>4, <1>5 DEF NetInv

-----------------------------------------------------------------------------
(* The panels, step by step.                                                *)

LEMMA ShowBands == ASSUME BandsInv, B!Show PROVE BandsInv'
<1>1. /\ reply' \in UNION {[1..n -> B!Tokens] : n \in 0..MaxBands}
      /\ rows' = B!BandItems(reply') /\ ticked' = {} /\ list' = list /\ writer' = writer
  BY DEF B!Show
<1>2. PICK n \in 0..MaxBands : reply' \in [1..n -> B!Tokens]
  BY <1>1
<1>3. n \in Nat /\ n <= MaxBands
  BY NetConstantsOK
<1>4. reply' \in Seq(B!Tokens) /\ Len(reply') = n
  BY <1>2, <1>3
<1> QED BY <1>1, <1>3, <1>4 DEF BandsInv, IsReply

\* The codes of the first i rows, of those that are in ts.
CodesOf(q, table, ts, i) ==
  /\ q \in Seq(Nat)
  /\ \A c : (\E j \in DOMAIN q : c = q[j]) <=> (\E k \in ts : k <= i /\ c = table[k].code)

LEMMA CodeStep ==
  ASSUME NEW table \in Seq(CodedRows), NEW ts, ts \subseteq DOMAIN table, NEW i \in 1..Len(table),
         NEW q, CodesOf(q, table, ts, i - 1)
  PROVE  CodesOf(IF i \in ts THEN Append(q, B!Value(table[i])) ELSE q, table, ts, i)
<1>1. /\ q \in Seq(Nat)
      /\ \A c : (\E j \in DOMAIN q : c = q[j]) <=> (\E k \in ts : k <= i - 1 /\ c = table[k].code)
  BY DEF CodesOf
<1>2. i \in Nat /\ DOMAIN table = 1..Len(table) /\ Len(table) \in Nat /\ table[i] \in CodedRows
  OBVIOUS
<1>3. \A k \in ts : k <= i <=> (k <= i - 1 \/ k = i)
  BY <1>2
<1>4. CASE i \notin ts
  <2>1. \A k \in ts : k <= i <=> k <= i - 1
    BY <1>3, <1>4
  <2> QED BY <1>1, <1>4, <2>1 DEF CodesOf
<1>5. CASE i \in ts
  <2> DEFINE v == B!Value(table[i])
             a == Append(q, v)
  <2>1. v = table[i].code /\ v \in Nat
    BY <1>2 DEF B!Value, CodedRows
  <2> HIDE DEF v
  <2>2. /\ a \in Seq(Nat) /\ DOMAIN a = DOMAIN q \cup {Len(q) + 1} /\ a[Len(q) + 1] = v
        /\ \A j \in DOMAIN q : a[j] = q[j]
    BY <1>1, <2>1, AppendIs
  <2> HIDE DEF a
  <2>3. ASSUME NEW c
        PROVE  (\E j \in DOMAIN a : c = a[j]) <=> (\E k \in ts : k <= i /\ c = table[k].code)
    <3>1. (\E j \in DOMAIN a : c = a[j]) <=> c = v \/ \E j \in DOMAIN q : c = q[j]
      BY <2>2
    <3>2. (\E k \in ts : k <= i /\ c = table[k].code) <=> c = v \/ \E k \in ts : k <= i - 1 /\ c = table[k].code
      BY <1>3, <1>5, <2>1
    <3> QED BY <1>1, <3>1, <3>2
  <2> QED BY <1>5, <2>2, <2>3 DEF CodesOf, a, v
<1> QED BY <1>4, <1>5

\* The field holds the codes of the ticked rows, by induction over the rows.
LEMMA CodesAre ==
  ASSUME NEW table \in Seq(CodedRows), NEW ts, ts \subseteq DOMAIN table
  PROVE  CodesOf(B!Codes(table, ts), table, ts, Len(table))
<1> DEFINE n == Len(table)
           S == Seq(Nat)
           g == [i \in 1..n |-> [x \in S |-> IF i \in ts THEN Append(x, B!Value(table[i])) ELSE x]]
           F(f) == [i \in 0..n |-> IF i = 0 THEN <<>> ELSE IF i \in ts THEN Append(f[i - 1], B!Value(table[i])) ELSE f[i - 1]]
<1>1. n \in Nat /\ <<>> \in S /\ \A i \in 1..n : B!Value(table[i]) \in Nat
  BY DEF B!Value, CodedRows
<1>2. \A x \in S, i \in 1..n : (IF i \in ts THEN Append(x, B!Value(table[i])) ELSE x) \in S
  BY <1>1, AppendIs
<1> HIDE DEF S
<1>3. g \in [1..n -> [S -> S]] /\ \A x \in S, i \in 1..n : g[i][x] = IF i \in ts THEN Append(x, B!Value(table[i])) ELSE x
  BY <1>2
<1>4. B!CodesAt(table, ts) = CHOOSE h : h = F(h)
  BY DEF B!CodesAt
<1>5. \A f : F(f) = [i \in 0..n |-> IF i = 0 THEN <<>> ELSE IF i \in ts THEN Append(f[i - 1], B!Value(table[i])) ELSE f[i - 1]]
  OBVIOUS
<1> HIDE DEF n, g, F
<1>6. PICK f : Runs(f, n, S, <<>>, g)
  BY <1>1, <1>3, Recursion
<1>7. f \in [0..n -> S] /\ f[0] = <<>> /\ \A i \in 1..n : f[i] = g[i][f[i - 1]]
  BY <1>6 DEF Runs
<1>8. \A i \in 0..n : f[i] = IF i = 0 THEN <<>> ELSE IF i \in ts THEN Append(f[i - 1], B!Value(table[i])) ELSE f[i - 1]
  <2> TAKE i \in 0..n
  <2>1. CASE i # 0
    <3>1. i \in 1..n /\ f[i - 1] \in S
      BY <2>1, <1>1, <1>7
    <3> QED BY <3>1, <2>1, <1>3, <1>7
  <2> QED BY <2>1, <1>7
<1>9. f = F(f)
  BY <1>5, <1>7, <1>8
<1> DEFINE h == B!CodesAt(table, ts)
<1>10. h = F(h)
  BY <1>4, <1>9
<1> HIDE DEF h
<1>11. h[0] = <<>> /\ \A i \in 1..n : h[i] = IF i \in ts THEN Append(h[i - 1], B!Value(table[i])) ELSE h[i - 1]
  <2>1. h = [i \in 0..n |-> IF i = 0 THEN <<>> ELSE IF i \in ts THEN Append(h[i - 1], B!Value(table[i])) ELSE h[i - 1]]
    BY <1>5, <1>10, Zenon
  <2>2. h[0] = <<>>
    BY <1>1, <2>1
  <2>3. ASSUME NEW i \in 1..n
        PROVE  h[i] = IF i \in ts THEN Append(h[i - 1], B!Value(table[i])) ELSE h[i - 1]
    <3>1. i \in 0..n /\ i # 0
      BY <1>1
    <3> QED BY <2>1, <3>1
  <2> QED BY <2>2, <2>3
<1> DEFINE P == {k \in 0..n : CodesOf(h[k], table, ts, k)}
<1>12. 0 \in P /\ P \subseteq Nat
  <2>1. CodesOf(<<>>, table, ts, 0)
    <3>1. <<>> \in Seq(Nat) /\ DOMAIN <<>> = {} /\ \A k \in ts : ~ (k <= 0)
      OBVIOUS
    <3> QED BY <3>1 DEF CodesOf
  <2> QED BY <1>1, <1>11, <2>1
<1>13. \A k \in 1..n : k - 1 \in P => k \in P
  <2> SUFFICES ASSUME NEW k \in 1..n, CodesOf(h[k - 1], table, ts, k - 1) PROVE CodesOf(h[k], table, ts, k)
    BY <1>1
  <2>1. k \in 1..Len(table)
    BY DEF n
  <2>2. CodesOf(IF k \in ts THEN Append(h[k - 1], B!Value(table[k])) ELSE h[k - 1], table, ts, k)
    BY <2>1, CodeStep
  <2> QED BY <1>11, <2>2
<1> HIDE DEF P
<1>14. n \in P
  <2>1. 0..n \subseteq P
    BY <1>1, <1>12, <1>13, Steps
  <2> QED BY <1>1, <2>1
<1>15. CodesOf(h[n], table, ts, n)
  BY <1>14 DEF P
<1> QED BY <1>15 DEF h, n, B!Codes

LEMMA RowsAreCoded == ASSUME BandsInv PROVE rows \in Seq(CodedRows)
BY ItemsAreCoded DEF BandsInv

LEMMA TickBands == ASSUME BandsInv, B!Tick PROVE BandsInv'
<1>1. PICK i \in DOMAIN rows : ticked' = IF i \in ticked THEN ticked \ {i} ELSE ticked \cup {i}
  BY DEF B!Tick
<1>2. list' = B!Codes(rows, ticked') /\ writer' = "boxes" /\ reply' = reply /\ rows' = rows
  BY DEF B!Tick
<1>3. ticked' \subseteq DOMAIN rows
  BY <1>1 DEF BandsInv
<1>4. list' \in Seq(Nat)
  <2>1. CodesOf(B!Codes(rows, ticked'), rows, ticked', Len(rows))
    BY <1>3, RowsAreCoded, CodesAre
  <2> QED BY <1>2, <2>1 DEF CodesOf
<1> QED BY <1>2, <1>3, <1>4 DEF BandsInv

LEMMA TypeBands == ASSUME BandsInv, B!TypeList PROVE BandsInv'
<1>1. list' \in Typed /\ writer' = "hand" /\ reply' = reply /\ rows' = rows /\ ticked' = ticked
  BY DEF B!TypeList
<1>2. list' \in Seq(Nat)
  BY <1>1, NetConstantsOK
<1> QED BY <1>1, <1>2 DEF BandsInv

LEMMA ShowCells == ASSUME CellsInv, C!Show PROVE CellsInv'
<1>1. /\ cellReply' \in UNION {[1..n -> Lines] : n \in 0..MaxLines}
      /\ cellRows' = C!CellItems(cellReply') /\ picked' = picked /\ form' = form
  BY DEF C!Show
<1>2. PICK n \in 0..MaxLines : cellReply' \in [1..n -> Lines]
  BY <1>1
<1>3. n \in Nat /\ n <= MaxLines
  BY NetConstantsOK
<1>4. cellReply' \in Seq(Lines) /\ Len(cellReply') = n
  BY <1>2, <1>3
<1> QED BY <1>1, <1>3, <1>4 DEF CellsInv

\* The fields that a row fills.
LEMMA FormType ==
  ASSUME NEW row \in TableRows
  PROVE  PickedForm(row) \in [rat : 0..1, earfcn : Int, pci : Int]
<1>1. PICK line : HasRow(line, row)
  BY TableRowIs
<1>2. row.earfcn \in Nat /\ row.pci \in Nat
  BY <1>1, RowIs
<1>3. C!LockRat(row) \in 0..1
  BY DEF C!LockRat
<1> QED BY <1>2, <1>3 DEF PickedForm

LEMMA PickCells == ASSUME CellsInv, C!Pick PROVE CellsInv'
<1>1. PICK i \in DOMAIN cellRows :
        picked' = cellRows[i] /\ form' = PickedForm(cellRows[i])
  BY DEF C!Pick, PickedForm
<1>2. cellReply' = cellReply /\ cellRows' = cellRows
  BY DEF C!Pick
<1>3. cellRows \in Seq(TableRows)
  BY ItemsAre DEF CellsInv, Numbered
<1>4. cellRows[i] \in TableRows
  BY <1>3
<1>5. form' \in [rat : 0..1, earfcn : Int, pci : Int]
  BY <1>1, <1>4, FormType
<1>6. picked' \in TableRows /\ form' = PickedForm(picked')
  BY <1>1, <1>4
<1> QED BY <1>2, <1>5, <1>6 DEF CellsInv, PickedForm

LEMMA TypeCells == ASSUME CellsInv, C!Type PROVE CellsInv'
<1>1. \/ \E r \in 0..1 : form' = [form EXCEPT !.rat = r]
      \/ \E e \in {-1, 1300} : form' = [form EXCEPT !.earfcn = e]
      \/ \E p \in {-1, 40} : form' = [form EXCEPT !.pci = p]
  BY DEF C!Type
<1>2. picked' = C!NoRow /\ cellReply' = cellReply /\ cellRows' = cellRows
  BY DEF C!Type
<1>3. form' \in [rat : 0..1, earfcn : Int, pci : Int]
  BY <1>1 DEF CellsInv
<1> QED BY <1>2, <1>3 DEF CellsInv

-----------------------------------------------------------------------------
(* The requests.                                                            *)

LEMMA AskedStep ==
  ASSUME NEW cap, NEW field, NEW cmd, NEW ttl, NEW codes, NEW cell, Ask(cap, field, cmd, ttl, codes, cell),
         profile' = profile, Commanded(profile, cap, field, cmd, ttl),
         field = "set_template" /\ cap = "network.band" => codes \in Sent(list'),
         cell # <<>> => /\ cell[2] = form'.rat /\ cell[4] = form'.earfcn
                        /\ field = "set_template" => cell[5] = form'.pci
  PROVE  AskedInv'
<1>1. asked' = [cap |-> cap, field |-> field, cmd |-> cmd, ttl |-> ttl, codes |-> codes, cell |-> cell]
  BY DEF Ask
<1>2. /\ asked'.cap = cap /\ asked'.field = field /\ asked'.cmd = cmd /\ asked'.ttl = ttl /\ asked'.codes = codes
      /\ asked'.cell = cell
  BY <1>1
<1>3. AskedOwn(asked)'
  BY <1>2 DEF AskedOwn
<1>4. AskedNow(asked)'
  BY <1>2 DEF AskedNow
<1> QED BY <1>3, <1>4 DEF AskedInv

\* The command of each kind of request: found and filled in, or the fixed one where
\* it counts as missing.
LEMMA FilledIs ==
  ASSUME NEW cap \in Caps, NEW template, template = NetworkTemplate(cap, "set_template"), template # ""
  PROVE  Commanded(profile, cap, "set_template", Filled(template), None)
<1> DEFINE own == CapabilityCommand(profile, cap, "set_template")
<1>1. template = IF own = None THEN "" ELSE own
  BY DEF NetworkTemplate, ProfileCommand
<1>2. Missing("set_template") = {None, ""} /\ "set_template" \in FilledFields
  BY DEF Missing, FilledFields
<1> HIDE DEF own
<1>3. own \notin {None, ""} /\ template = own
  BY <1>1
<1>4. own \in Long \/ Filled(template) = own
  BY <1>3 DEF Filled
<1> QED BY <1>2, <1>3, <1>4, Zenon DEF Commanded, own

LEMMA FixedIs ==
  ASSUME NEW cap \in Caps, NEW field \in {"frequency_template", "unlock"}, NEW fixed,
         <<field, fixed>> \in FixedCommands, NEW template, template = OrFixed(NetworkTemplate(cap, field), fixed)
  PROVE  /\ field = "unlock" => Commanded(profile, cap, field, template, None)
         /\ field = "frequency_template" /\ fixed \notin Long => Commanded(profile, cap, field, Filled(template), None)
<1> DEFINE own == CapabilityCommand(profile, cap, field)
<1>1. NetworkTemplate(cap, field) = IF own = None THEN "" ELSE own
  BY DEF NetworkTemplate, ProfileCommand
<1>2. Missing(field) = {None, ""} /\ (field = "frequency_template" => field \in FilledFields)
  BY DEF Missing, FilledFields
<1> HIDE DEF own
<1>3. template = IF own \in {None, ""} THEN fixed ELSE own
  BY <1>1 DEF OrFixed
<1>4. ASSUME NEW cmd,
             IF own \in {None, ""} THEN cmd = fixed ELSE (field \in FilledFields /\ own \in Long) \/ cmd = own
      PROVE  Commanded(profile, cap, field, cmd, None)
  <2>1. CASE own \in {None, ""}
    BY <1>2, <1>4, <2>1, Zenon DEF Commanded, own
  <2>2. CASE own \notin {None, ""}
    BY <1>2, <1>4, <2>2, Zenon DEF Commanded, own
  <2> QED BY <2>1, <2>2
<1>5. ASSUME field = "frequency_template", fixed \notin Long
      PROVE  Commanded(profile, cap, field, Filled(template), None)
  <2>1. CASE own \in {None, ""}
    <3>1. Filled(template) = fixed
      BY <1>3, <1>5, <2>1 DEF Filled
    <3> QED BY <1>4, <2>1, <3>1
  <2>2. CASE own \notin {None, ""}
    <3>1. own \in Long \/ Filled(template) = own
      BY <1>3, <2>2 DEF Filled
    <3> QED BY <1>2, <1>4, <1>5, <2>2, <3>1
  <2> QED BY <2>1, <2>2
<1>6. ASSUME field = "unlock" PROVE Commanded(profile, cap, field, template, None)
  BY <1>3, <1>4
<1> QED BY <1>5, <1>6

LEMMA DiscoverStep == ASSUME NetInv, DiscoverBands PROVE NetInv'
<1>1. BandsInv'
  BY ShowBands DEF DiscoverBands, NetInv
<1>2. cellVars' = cellVars /\ page' = page
  BY DEF DiscoverBands
<1>3. CellsInv' /\ PageInv' /\ profile' = profile
  BY <1>2 DEF cellVars, page, CellsInv, PageInv, NetInv
<1>4. AskedInv'
  <2> DEFINE cmd == CapabilityCommand(profile, "network.band", "discovery.command")
             ttl == CapabilityTtl(profile, "network.band", "86400")
  <2>1. Ask("network.band", "discovery.command", cmd, ttl, {}, <<>>) /\ cmd # None
    BY DEF DiscoverBands
  <2>2. Commanded(profile, "network.band", "discovery.command", cmd, ttl)
    <3>1. Missing("discovery.command") = {None} /\ "network.band" \in Caps
      BY DEF Missing, FilledFields, Caps
    <3> QED BY <2>1, <3>1 DEF Commanded
  <2> HIDE DEF cmd, ttl
  <2> QED BY <1>3, <2>1, <2>2, AskedStep
<1> QED BY <1>1, <1>3, <1>4 DEF NetInv

LEMMA LockBandStep == ASSUME NetInv, LockBand PROVE NetInv'
<1>1. bandVars' = bandVars /\ cellVars' = cellVars /\ page' = page
  BY DEF LockBand
<1>2. BandsInv' /\ CellsInv' /\ PageInv' /\ profile' = profile /\ list' = list
  BY <1>1 DEF bandVars, cellVars, page, BandsInv, CellsInv, PageInv, NetInv
<1>3. AskedInv'
  <2> DEFINE template == NetworkTemplate("network.band", "set_template")
             cmd == Filled(template)
  <2>1. PICK codes \in Sent(list) : Ask("network.band", "set_template", cmd, None, codes, <<>>)
    BY DEF LockBand
  <2>2. template # "" /\ "network.band" \in Caps
    BY DEF LockBand, Caps
  <2>3. Commanded(profile, "network.band", "set_template", cmd, None)
    BY <2>2, FilledIs
  <2> HIDE DEF cmd
  <2> QED BY <1>2, <2>1, <2>3, AskedStep
<1> QED BY <1>2, <1>3 DEF NetInv

LEMMA ScanStep == ASSUME NetInv, ScanCells PROVE NetInv'
<1>1. CellsInv'
  BY ShowCells DEF ScanCells, NetInv
<1>2. bandVars' = bandVars /\ page' = page
  BY DEF ScanCells
<1>3. BandsInv' /\ PageInv' /\ profile' = profile
  BY <1>2 DEF bandVars, page, BandsInv, PageInv, NetInv
<1>4. AskedInv'
  <2> DEFINE cmd == ProfileCommand("network.cell_info", "read", "AT+GTCCINFO?")
  <2>1. Ask("network.cell_info", "read", cmd, None, {}, <<>>)
    BY DEF ScanCells
  <2>2. cmd = IF CapabilityCommand(profile, "network.cell_info", "read") = None THEN "AT+GTCCINFO?"
              ELSE CapabilityCommand(profile, "network.cell_info", "read")
    BY DEF ProfileCommand
  <2>3. /\ "network.cell_info" \in Caps /\ <<"read", "AT+GTCCINFO?">> \in FixedCommands
        /\ Missing("read") = {None}
    BY DEF Caps, FixedCommands, Missing, FilledFields
  <2> HIDE DEF cmd
  <2>4. Commanded(profile, "network.cell_info", "read", cmd, None)
    BY <2>2, <2>3 DEF Commanded
  <2> QED BY <1>3, <2>1, <2>4, AskedStep
<1> QED BY <1>1, <1>3, <1>4 DEF NetInv

LEMMA LockCellStep == ASSUME NetInv, LockCell PROVE NetInv'
<1>1. bandVars' = bandVars /\ cellVars' = cellVars /\ page' = page
  BY DEF LockCell
<1>2. BandsInv' /\ CellsInv' /\ PageInv' /\ profile' = profile /\ form' = form
  BY <1>1 DEF bandVars, cellVars, page, BandsInv, CellsInv, PageInv, NetInv
<1>3. AskedInv'
  <2> DEFINE template == NetworkTemplate("network.cell_lock", "set_template")
             cmd == Filled(template)
             cell == <<1, form.rat, 1, form.earfcn, form.pci>>
  <2>1. Ask("network.cell_lock", "set_template", cmd, None, {}, cell)
    BY DEF LockCell
  <2>0. template # "" /\ "network.cell_lock" \in Caps
    BY DEF LockCell, Caps
  <2>2. Commanded(profile, "network.cell_lock", "set_template", cmd, None)
    BY <2>0, FilledIs
  <2>3. cell[2] = form'.rat /\ cell[4] = form'.earfcn /\ cell[5] = form'.pci
    BY <1>2
  <2> HIDE DEF cmd, cell
  <2> QED BY <1>2, <2>1, <2>2, <2>3, AskedStep
<1> QED BY <1>2, <1>3 DEF NetInv

LEMMA LockFrequencyStep == ASSUME NetInv, LockFrequency PROVE NetInv'
<1>1. bandVars' = bandVars /\ cellVars' = cellVars /\ page' = page
  BY DEF LockFrequency
<1>2. BandsInv' /\ CellsInv' /\ PageInv' /\ profile' = profile /\ form' = form
  BY <1>1 DEF bandVars, cellVars, page, BandsInv, CellsInv, PageInv, NetInv
<1>3. AskedInv'
  <2> DEFINE fixed == FrequencyTemplate
             template == OrFixed(NetworkTemplate("network.cell_lock", "frequency_template"), fixed)
             cmd == Filled(template)
             cell == <<1, form.rat, 1, form.earfcn>>
  <2>1. Ask("network.cell_lock", "frequency_template", cmd, None, {}, cell)
    BY DEF LockFrequency
  <2>3. "network.cell_lock" \in Caps /\ <<"frequency_template", fixed>> \in FixedCommands /\ fixed \notin Long
    BY NetConstantsOK DEF Caps, FixedCommands
  <2>4. cell[2] = form'.rat /\ cell[4] = form'.earfcn
    BY <1>2
  <2> HIDE DEF fixed
  <2>5. Commanded(profile, "network.cell_lock", "frequency_template", cmd, None)
    <3>1. "frequency_template" \in {"frequency_template", "unlock"}
      OBVIOUS
    <3> QED BY <2>3, <3>1, FixedIs
  <2> HIDE DEF cmd, cell
  <2> QED BY <1>2, <2>1, <2>4, <2>5, AskedStep
<1> QED BY <1>2, <1>3 DEF NetInv

LEMMA UnlockStep == ASSUME NetInv, Unlock PROVE NetInv'
<1>1. bandVars' = bandVars /\ cellVars' = cellVars /\ page' = page
  BY DEF Unlock
<1>2. BandsInv' /\ CellsInv' /\ PageInv' /\ profile' = profile
  BY <1>1 DEF bandVars, cellVars, page, BandsInv, CellsInv, PageInv, NetInv
<1>3. AskedInv'
  <2> DEFINE cmd == OrFixed(NetworkTemplate("network.cell_lock", "unlock"), "AT+GTCELLLOCK=0")
  <2>1. Ask("network.cell_lock", "unlock", cmd, None, {}, <<>>)
    BY DEF Unlock
  <2>3. /\ "network.cell_lock" \in Caps /\ <<"unlock", "AT+GTCELLLOCK=0">> \in FixedCommands
        /\ "unlock" \in {"frequency_template", "unlock"}
    BY DEF Caps, FixedCommands
  <2>4. Commanded(profile, "network.cell_lock", "unlock", cmd, None)
    BY <2>3, FixedIs
  <2> HIDE DEF cmd
  <2> QED BY <1>2, <2>1, <2>4, AskedStep
<1> QED BY <1>2, <1>3 DEF NetInv

LEMMA NetInvStep == NetInv /\ [NetNext]_netVars => NetInv'
<1> SUFFICES ASSUME NetInv, [NetNext]_netVars PROVE NetInv'
  OBVIOUS
<1>1. CASE DiscoverBands
  BY <1>1, DiscoverStep
<1>2. CASE TickBand
  <2>1. BandsInv' /\ asked' = Nothing
    BY <1>2, TickBands, TypeBands DEF TickBand, NetInv
  <2>2. cellVars' = cellVars /\ page' = page
    BY <1>2 DEF TickBand
  <2> QED BY <2>1, <2>2 DEF cellVars, page, CellsInv, PageInv, AskedInv, NetInv, Nothing
<1>3. CASE LockBand
  BY <1>3, LockBandStep
<1>4. CASE ScanCells
  BY <1>4, ScanStep
<1>5. CASE PickCell
  <2>1. CellsInv' /\ asked' = Nothing
    BY <1>5, PickCells, TypeCells DEF PickCell, NetInv
  <2>2. bandVars' = bandVars /\ page' = page
    BY <1>5 DEF PickCell
  <2> QED BY <2>1, <2>2 DEF bandVars, page, BandsInv, PageInv, AskedInv, NetInv, Nothing
<1>6. CASE LockCell
  BY <1>6, LockCellStep
<1>7. CASE LockFrequency
  BY <1>7, LockFrequencyStep
<1>8. CASE Unlock
  BY <1>8, UnlockStep
<1>9. CASE UNCHANGED netVars
  BY <1>9 DEF netVars, bandVars, cellVars, page, BandsInv, CellsInv, PageInv, AskedInv, AskedOwn, AskedNow, NetInv
<1> QED BY <1>1, <1>2, <1>3, <1>4, <1>5, <1>6, <1>7, <1>8, <1>9 DEF NetNext

-----------------------------------------------------------------------------
(* What every state of the page shows and sends.                            *)

LEMMA CellRowsType ==
  ASSUME CellsInv
  PROVE  /\ cellRows \in Seq(TableRows) /\ Len(cellRows) <= Len(cellReply)
         /\ \A row \in TableRows : row.earfcn \in Nat /\ row.pci \in Nat
<1>1. Numbered(cellRows, cellReply, Len(cellReply))
  BY ItemsAre DEF CellsInv
<1>2. \A row \in TableRows : row.earfcn \in Nat /\ row.pci \in Nat
  BY TableRowIs, RowIs
<1> QED BY <1>1, <1>2 DEF Numbered

LEMMA InvType == NetInv => NetTypeOK
<1> SUFFICES ASSUME NetInv PROVE NetTypeOK
  OBVIOUS
<1>1. BandsInv /\ CellsInv /\ PageInv /\ AskedInv
  BY DEF NetInv
<1>2. B!TypeOK
  <2>1. rows \in Seq(CodedRows)
    BY <1>1, ItemsAreCoded DEF BandsInv
  <2>2. \A i \in DOMAIN rows : rows[i] \in CodedRows
    BY <2>1
  <2>3. \A i \in DOMAIN rows : rows[i].rat \in {"LTE", "NR", "WCDMA"} /\ rows[i].band \in Nat
    BY <2>2 DEF CodedRows
  <2>4. reply \in Seq(B!Tokens) /\ Len(reply) <= MaxBands
    BY <1>1 DEF BandsInv, IsReply
  <2>5. ticked \subseteq DOMAIN rows /\ list \in Seq(Nat) /\ writer \in {"boxes", "hand"}
    BY <1>1 DEF BandsInv
  <2> QED BY <2>3, <2>4, <2>5 DEF B!TypeOK
<1>3. C!TypeOK
  <2>1. cellRows \in Seq(TableRows) /\ Len(cellRows) <= Len(cellReply)
    BY <1>1, CellRowsType
  <2>2. \A row \in TableRows : row.earfcn \in Nat /\ row.pci \in Nat
    BY <1>1, CellRowsType
  <2>3. \A i \in DOMAIN cellRows : cellRows[i].earfcn \in Nat /\ cellRows[i].pci \in Nat
    BY <2>1, <2>2
  <2>4. picked.earfcn \in Nat
    BY <1>1, <2>2 DEF CellsInv, C!NoRow
  <2>5. cellReply \in Seq(Lines) /\ Len(cellReply) <= MaxLines
    BY <1>1 DEF CellsInv
  <2>6. form.rat \in 0..1 /\ form.earfcn \in Int /\ form.pci \in Int
    BY <1>1 DEF CellsInv
  <2> QED BY <2>1, <2>3, <2>4, <2>5, <2>6 DEF C!TypeOK
<1> QED BY <1>1, <1>2, <1>3 DEF NetTypeOK, PageInv, AskedInv, AskedOwn, Commanded

\* In every state of the network page the rows of both panels, the field and the
\* form have their types: no reply of the modem makes a row without a RAT, or a
\* channel that is no number, and a request that was made is one of the page's.
THEOREM NetTypeCorrect == NetSpec => []NetTypeOK
<1> QED BY NetInvInit, NetInvStep, InvType, PTL DEF NetSpec

\* The cells of a reply, each with its row.
LEMMA CellsAreShown ==
  ASSUME CellsInv, \A l \in ToSet(cellReply) : C!IsCell(l) => C!Whole(l.fields) /\ ~ l.titled
  PROVE  /\ Len(cellRows) = C!CellsIn(cellReply, Len(cellReply))
         /\ \A i \in DOMAIN cellReply :
              C!IsCell(cellReply[i]) =>
                LET row == cellRows[C!CellsIn(cellReply, i)]
                IN  row.earfcn = cellReply[i].fields[7] /\ row.pci = cellReply[i].fields[8]
<1> DEFINE n == Len(cellReply)
<1>1. cellReply \in Seq(Lines)
  BY DEF CellsInv
<1>2. n \in Nat /\ DOMAIN cellReply = 1..n /\ \A i \in 1..n : cellReply[i] \in Lines
  BY <1>1
<1>3. Numbered(cellRows, cellReply, n)
  BY <1>1, ItemsAre DEF CellsInv
<1> HIDE DEF n
<1>4. \A i \in 1..n : C!IsCell(cellReply[i]) => C!Whole(cellReply[i].fields) /\ ~ cellReply[i].titled
  BY <1>2 DEF ToSet
<1>5. ASSUME NEW i \in 1..n, C!IsRow(cellReply[i]) PROVE C!IsCell(cellReply[i])
  <2>1. HasRow(cellReply[i], C!CellRow(cellReply[i]))
    BY <1>2, <1>5 DEF HasRow
  <2> QED BY <2>1, RowIs
<1>6. ASSUME NEW i \in 1..n, C!IsCell(cellReply[i]) PROVE C!IsRow(cellReply[i])
  BY <1>2, <1>4, <1>6, CellHasRow
<1>7. RowsOfCells(cellReply, n)
  BY <1>5, <1>6 DEF RowsOfCells
<1>8. /\ Len(cellRows) = C!CellsIn(cellReply, n)
      /\ \A i \in 1..n : C!IsCell(cellReply[i]) => cellRows[C!CellsIn(cellReply, i)] = C!CellRow(cellReply[i])
  BY <1>3, <1>7 DEF Numbered
<1>9. ASSUME NEW i \in 1..n, C!IsCell(cellReply[i])
      PROVE  LET row == cellRows[C!CellsIn(cellReply, i)]
             IN  row.earfcn = cellReply[i].fields[7] /\ row.pci = cellReply[i].fields[8]
  <2> DEFINE row == cellRows[C!CellsIn(cellReply, i)]
  <2>1. row = C!CellRow(cellReply[i])
    BY <1>8, <1>9
  <2> HIDE DEF row
  <2>2. HasRow(cellReply[i], row)
    BY <1>2, <1>6, <1>9, <2>1 DEF HasRow
  <2>3. row.earfcn = cellReply[i].fields[7] /\ row.pci = cellReply[i].fields[8]
    BY <1>4, <1>9, <2>2, RowIs
  <2> QED BY <2>3 DEF row
<1> QED BY <1>2, <1>8, <1>9 DEF n

LEMMA InvRows == NetInv => RowsAreTheReply
<1> SUFFICES ASSUME NetInv PROVE RowsAreTheReply
  OBVIOUS
<1>1. BandsInv /\ CellsInv
  BY DEF NetInv
<1>2. B!Clear(reply) => Shown(rows) = ListedIn(reply)
  BY <1>1, ItemsAreListed DEF BandsInv
<1>3. B!Clear(reply) =>
        {<<rows[i].rat, rows[i].band>> : i \in DOMAIN rows}
          = {B!Listed(t) : t \in {u \in ToSet(reply) : u.rat # "none" \/ u.band >= 100}}
  BY <1>2 DEF Shown, ListedIn
<1> QED BY <1>1, <1>3, CellsAreShown DEF RowsAreTheReply

\* The rows are what the modem listed, for replies of any length, any bands and
\* numbers and any size of the array of codes: every band of a clear reply has a
\* row and no row shows another, and every cell has the row of its place, with its
\* own channel and PCI.
THEOREM RowsCorrect == NetSpec => []RowsAreTheReply
<1> QED BY NetInvInit, NetInvStep, InvRows, PTL DEF NetSpec

\* The code of a row whose band has one behind the offset means that band.
LEMMA RowMeans ==
  ASSUME NEW t \in CodedRows, B!ByOffset(t)
  PROVE  B!Meaning(t.code) = <<t.rat, t.band>>
<1>1. t.code = B!NameCode(t.rat, t.band) /\ t.band \in Nat
  BY DEF CodedRows
<1>2. CASE t.rat = "LTE" /\ t.band \in 0..399
  <2>1. t.code = 100 + t.band
    BY <1>1, <1>2 DEF B!NameCode
  <2>2. t.code \in 100..499 /\ ~ (t.code >= 5000) /\ t.code - 100 = t.band
    <3>1. t.band \in Int /\ 0 <= t.band /\ t.band <= 399
      BY <1>2
    <3> QED BY <2>1, <3>1
  <2>3. t.code \in B!OffsetCodes
    BY <2>2 DEF B!OffsetCodes
  <2>4. B!Meaning(t.code) = <<"LTE", t.code - 100>>
    BY <2>2, <2>3, MeaningIs
  <2> QED BY <1>2, <2>2, <2>4
<1>3. CASE t.rat = "NR" /\ t.band \in 10..999
  <2>1. t.code = 5000 + t.band
    BY <1>1, <1>3 DEF B!NameCode
  <2>2. t.code \in 5010..5999 /\ t.code >= 5000 /\ t.code - 5000 = t.band
    <3>1. t.band \in Int /\ 10 <= t.band /\ t.band <= 999
      BY <1>3
    <3> QED BY <2>1, <3>1
  <2>3. t.code \in B!OffsetCodes
    BY <2>2 DEF B!OffsetCodes
  <2>4. B!Meaning(t.code) = <<"NR", t.code - 5000>>
    BY <2>2, <2>3, MeaningIs
  <2> QED BY <1>3, <2>2, <2>4
<1> QED BY <1>2, <1>3 DEF B!ByOffset

\* A list that surely fits is sent as it is.
LEMMA SentWhole ==
  ASSUME NEW q \in Seq(Nat), Len(q) <= Fits, NEW codes \in Sent(q)
  PROVE  codes = ToSet(q)
<1>1. Len(q) \in Nat /\ Fits \in Nat
  BY NetConstantsOK
<1>2. Fits..(Len(q) - 1) = {}
  BY <1>1
<1> QED BY <1>2 DEF Sent

\* The codes of the ticked rows mean their bands.
LEMMA TickedMeans ==
  ASSUME BandsInv, ticked # {}, writer = "boxes", \A i \in ticked : B!ByOffset(rows[i])
  PROVE  {B!Meaning(c) : c \in ToSet(list)} = {<<rows[i].rat, rows[i].band>> : i \in ticked}
<1>1. ticked \subseteq DOMAIN rows /\ rows \in Seq(CodedRows) /\ list = B!Codes(rows, ticked)
  BY RowsAreCoded DEF BandsInv
<1>2. \A i \in ticked : rows[i] \in CodedRows /\ i <= Len(rows)
  BY <1>1
<1>3. \A i \in ticked : B!Meaning(rows[i].code) = <<rows[i].rat, rows[i].band>>
  BY <1>2, RowMeans
<1>4. CodesOf(list, rows, ticked, Len(rows))
  BY <1>1, CodesAre
<1>5. \A c : c \in ToSet(list) <=> \E i \in ticked : c = rows[i].code
  BY <1>2, <1>4 DEF CodesOf, ToSet
<1> QED BY <1>3, <1>5

\* What the row of a whole line says of the cell.
LEMMA PickedIs ==
  ASSUME NEW row \in TableRows, NEW line, line = row.line, C!Whole(line),
         NEW cell, cell = C!Cell(line), NEW filled, filled = PickedForm(row)
  PROVE  /\ filled.earfcn = cell.earfcn /\ filled.pci = cell.pci
         /\ (Len(line) > 8 => line[9] # C!Empty) /\ C!Standard(line) /\ C!NotLow(line) =>
              filled.rat = cell.rat
<1>1. PICK l : HasRow(l, row)
  BY TableRowIs
<1>2. line = l.fields
  BY <1>1, RowIs
<1>3. row.earfcn = line[7] /\ row.pci = line[8]
  BY <1>1, <1>2, RowIs
<1>4. filled.earfcn = cell.earfcn /\ filled.pci = cell.pci
  BY <1>3 DEF PickedForm, C!Cell
<1>5. ASSUME Len(line) > 8 => line[9] # C!Empty, C!Standard(line), C!NotLow(line)
      PROVE  filled.rat = cell.rat
  <2>1. row.band = C!Band(line)
    BY <1>1, <1>2, <1>5, RowIs
  <2>2. /\ cell.rat = IF line[2] = 9 THEN 1 ELSE 0
        /\ filled.rat = IF line[7] > 400000 \/ C!ByName(C!Band(line)) THEN 1 ELSE 0
    BY <1>3, <2>1 DEF PickedForm, C!Cell, C!LockRat, C!ByName
  <2>3. CASE line[2] = 9
    <3>1. line[7] > 400000 \/ C!ByName(C!Band(line))
      BY <1>5, <2>3 DEF C!Standard, C!NotLow
    <3> QED BY <2>2, <2>3, <3>1
  <2>4. CASE line[2] # 9
    <3>1. line[7] <= 262143 /\ ~ C!ByName(C!Band(line))
      BY <1>5, <2>4 DEF C!Standard
    <3>2. line[7] \in Nat
      BY DEF C!Whole
    <3>3. ~ (line[7] > 400000)
      BY <3>1, <3>2
    <3> QED BY <2>2, <2>4, <3>1, <3>3
  <2> QED BY <2>3, <2>4
<1> QED BY <1>4, <1>5

LEMMA InvLocks == NetInv => LocksWhatIsPicked
<1> SUFFICES ASSUME NetInv PROVE LocksWhatIsPicked
  OBVIOUS
<1>1. BandsInv /\ CellsInv /\ AskedInv
  BY DEF NetInv
<1>2. asked = Nothing \/ AskedNow(asked)
  BY <1>1 DEF AskedInv
<1>3. ASSUME asked.field = "set_template", asked.cap = "network.band", ticked # {}, writer = "boxes",
             Len(list) <= Fits, \A i \in ticked : B!ByOffset(rows[i])
      PROVE  {B!Meaning(c) : c \in asked.codes} = {<<rows[i].rat, rows[i].band>> : i \in ticked}
  <2>1. asked # Nothing
    BY <1>3 DEF Nothing, None
  <2>2. asked.codes \in Sent(list) /\ list \in Seq(Nat)
    BY <1>1, <1>2, <1>3, <2>1 DEF AskedNow, BandsInv
  <2>3. asked.codes = ToSet(list)
    BY <1>3, <2>2, SentWhole
  <2> QED BY <1>1, <1>3, <2>3, TickedMeans
<1>4. ASSUME asked.cell # <<>>, picked # C!NoRow, C!Whole(picked.line)
      PROVE  LET line == picked.line
                 cell == C!Cell(line) IN
             /\ asked.cell[4] = cell.earfcn
             /\ asked.field = "set_template" => asked.cell[5] = cell.pci
             /\ (Len(line) > 8 => line[9] # C!Empty) /\ C!Standard(line) /\ C!NotLow(line) =>
                  asked.cell[2] = cell.rat
  <2>1. asked # Nothing
    BY <1>4 DEF Nothing
  <2>2. /\ asked.cell[2] = form.rat /\ asked.cell[4] = form.earfcn
        /\ asked.field = "set_template" => asked.cell[5] = form.pci
    BY <1>2, <1>4, <2>1 DEF AskedNow
  <2>3. picked \in TableRows /\ form = PickedForm(picked)
    BY <1>1, <1>4 DEF CellsInv
  <2> DEFINE line == picked.line
             cell == C!Cell(line)
  <2>4. /\ form.earfcn = cell.earfcn /\ form.pci = cell.pci
        /\ (Len(line) > 8 => line[9] # C!Empty) /\ C!Standard(line) /\ C!NotLow(line) =>
             form.rat = cell.rat
    BY <1>4, <2>3, PickedIs
  <2> QED BY <2>2, <2>4
<1> QED BY <1>3, <1>4 DEF LocksWhatIsPicked

\* A lock names what is ticked or picked, for any replies and whatever is typed in
\* between: the codes of a list that the boxes wrote last and that surely fits mean
\* the bands of the ticked rows; the cell sent is that of the row picked last, and by
\* the channels of 3GPP it has its RAT unless it is of a low NR band.
THEOREM LocksCorrect == NetSpec => []LocksWhatIsPicked
<1> QED BY NetInvInit, NetInvStep, InvLocks, PTL DEF NetSpec

LEMMA ProfileIsDocument == ASSUME PageInv PROVE IsDocument(profile)
<1>1. profile \in Docs.bands \cup Docs.cells
  BY DEF PageInv
<1> QED BY <1>1, NetConstantsOK

LEMMA InvCommand == NetInv => CommandIsOwn
<1> SUFFICES ASSUME NetInv, asked # Nothing, Plain(profile, asked.cap, asked.field)
             PROVE  LET own == OwnCommand(profile, asked.cap, asked.field) IN
                    /\ IF own \in Missing(asked.field) THEN <<asked.field, asked.cmd>> \in FixedCommands
                       ELSE (asked.field \in FilledFields /\ own \in Long) \/ asked.cmd = own
                    /\ asked.ttl # None => asked.ttl = OwnTtl(profile, asked.cap, "86400")
  BY DEF CommandIsOwn
<1>1. AskedOwn(asked) /\ IsDocument(profile)
  BY ProfileIsDocument DEF NetInv, AskedInv
<1> DEFINE own == OwnCommand(profile, asked.cap, asked.field)
<1>2. CapabilityCommand(profile, asked.cap, asked.field) = own
  BY <1>1, CommandIs
<1> HIDE DEF own
<1>3. IF own \in Missing(asked.field) THEN <<asked.field, asked.cmd>> \in FixedCommands
      ELSE (asked.field \in FilledFields /\ own \in Long) \/ asked.cmd = own
  BY <1>1, <1>2, Zenon DEF AskedOwn, Commanded
<1>4. asked.ttl # None => asked.ttl = OwnTtl(profile, asked.cap, "86400")
  <2> SUFFICES ASSUME asked.ttl # None PROVE asked.ttl = OwnTtl(profile, asked.cap, "86400")
    OBVIOUS
  <2>1. asked.field = "discovery.command" /\ asked.ttl = CapabilityTtl(profile, asked.cap, "86400")
    BY <1>1, Zenon DEF AskedOwn, Commanded
  <2>2. Plain(profile, asked.cap, "discovery.command")
    BY <2>1
  <2> QED BY <1>1, <2>1, <2>2, TtlIs
<1> QED BY <1>3, <1>4 DEF own

\* The command sent is the one that JSON says the profile has for that capability
\* and field, or if it has none, or for a lock an empty one, the fixed one of that
\* field, for every document in which the names looked for stand once, as keys, and
\* the command is written without escapes that are not understood: however deep its
\* objects are, in whatever order, and whatever else it holds.
THEOREM CommandCorrect == NetSpec => []CommandIsOwn
<1> QED BY NetInvInit, NetInvStep, InvCommand, PTL DEF NetSpec
===============================================================================
