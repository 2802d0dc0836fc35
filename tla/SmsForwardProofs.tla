---------------------------- MODULE SmsForwardProofs ----------------------------
(***************************************************************************)
(* What forwarding one message promises against any server, however many   *)
(* lines its greeting and replies have: a mail reported as failed is not   *)
(* taken, and each step is one that Forwarding allows.                     *)
(***************************************************************************)
EXTENDS SmsForward, SequenceTheorems, TLAPS

-----------------------------------------------------------------------------
(* Sequences.                                                                *)

LEMMA Shorter ==
  ASSUME NEW S, NEW s \in Seq(S), s # <<>>
  PROVE  /\ Tail(s) \in Seq(S) /\ Len(s) \in Nat \ {0} /\ Len(Tail(s)) = Len(s) - 1 /\ Head(s) = s[1] /\ Head(s) \in S
         /\ \A i \in 1..(Len(s) - 1) : Tail(s)[i] = s[i + 1]
<1>1. Tail(s) \in Seq(S) /\ Head(s) \in S /\ Len(Tail(s)) = Len(s) - 1 /\ \A i \in 1..Len(Tail(s)) : Tail(s)[i] = s[i + 1]
  BY HeadTailProperties
<1>2. Len(s) \in Nat \ {0}
  BY EmptySeq
<1> QED BY <1>1, <1>2

LEMMA Joined ==
  ASSUME NEW S, NEW s \in Seq(S), NEW t \in Seq(S)
  PROVE  /\ s \o t \in Seq(S) /\ Len(s \o t) = Len(s) + Len(t) /\ Len(s) \in Nat /\ Len(t) \in Nat
         /\ \A i \in 1..Len(s) : (s \o t)[i] = s[i]
         /\ \A i \in 1..Len(t) : (s \o t)[Len(s) + i] = t[i]
         /\ \A i \in 1..Len(s \o t) : i \in 1..Len(s) \/ i - Len(s) \in 1..Len(t)
<1> DEFINE u == s \o t
<1>1. /\ u \in Seq(S) /\ Len(u) = Len(s) + Len(t)
      /\ \A i \in 1..Len(s) + Len(t) : u[i] = IF i <= Len(s) THEN s[i] ELSE t[i - Len(s)]
  BY ConcatProperties
<1>2. Len(s) \in Nat /\ Len(t) \in Nat
  BY LenProperties
<1> HIDE DEF u
<1>3. \A i \in 1..Len(s) : u[i] = s[i]
  BY <1>1, <1>2
<1>4. ASSUME NEW i \in 1..Len(t) PROVE u[Len(s) + i] = t[i]
  <2>1. Len(s) + i \in 1..(Len(s) + Len(t)) /\ ~ (Len(s) + i <= Len(s)) /\ Len(s) + i - Len(s) = i
    BY <1>2
  <2> QED BY <1>1, <2>1
<1>5. \A i \in 1..Len(u) : i \in 1..Len(s) \/ i - Len(s) \in 1..Len(t)
  BY <1>1, <1>2
<1> QED BY <1>1, <1>2, <1>3, <1>4, <1>5 DEF u

LEMMA Grown ==
  ASSUME NEW S, NEW s \in Seq(S), NEW e \in S
  PROVE  /\ Append(s, e) \in Seq(S) /\ Len(Append(s, e)) = Len(s) + 1 /\ Len(s) \in Nat
         /\ \A i \in 1..Len(s) : Append(s, e)[i] = s[i]
         /\ Append(s, e)[Len(s) + 1] = e
BY AppendProperties, LenProperties

\* A non-empty sequence has a first element.
LEMMA First ==
  ASSUME NEW S, NEW s \in Seq(S)
  PROVE  /\ Len(s) \in Nat /\ (s = <<>> <=> Len(s) = 0)
         /\ s # <<>> => Head(s) = s[1] /\ s[1] \in S /\ Len(s) > 0
<1>1. Len(s) \in Nat /\ (s = <<>> <=> Len(s) = 0)
  BY LenProperties, EmptySeq
<1>2. s # <<>> => Head(s) = s[1] /\ s[1] \in S
  BY Shorter
<1> QED BY <1>1, <1>2

-----------------------------------------------------------------------------
(* The script.                                                               *)

QuitAt == Len(Script)
BodyAt == QuitAt - 1
DataAt == QuitAt - 2
RcptAt == QuitAt - 3
MailAt == QuitAt - 4

LEMMA ScriptIs ==
  ASSUME auth \in BOOLEAN
  PROVE  /\ QuitAt \in {7, 10}
         /\ DOMAIN Script = 1..QuitAt
         /\ Script[1] = "CONNECT" /\ Script[2] = "EHLO" /\ \A i \in 2..(MailAt - 1) : Script[i] \in Login
         /\ Script[MailAt] = "MAIL" /\ Script[RcptAt] = "RCPT" /\ Script[DataAt] = "DATA"
         /\ Script[BodyAt] = "BODY" /\ Script[QuitAt] = "QUIT"
<1> DEFINE Verbs == {"CONNECT", "EHLO", "AUTH", "USER", "PASS", "MAIL", "RCPT", "DATA", "BODY", "QUIT"}
           first == <<"CONNECT", "EHLO">>
           login == IF auth THEN <<"AUTH", "USER", "PASS">> ELSE <<>>
           mail  == <<"MAIL", "RCPT", "DATA", "BODY", "QUIT">>
<1>1. first \in Seq(Verbs) /\ Len(first) = 2 /\ first[1] = "CONNECT" /\ first[2] = "EHLO"
  OBVIOUS
<1>2. login \in Seq(Verbs) /\ Len(login) \in {0, 3} /\ \A i \in 1..Len(login) : login[i] \in Login
  <2>1. CASE auth
    BY <2>1 DEF Login
  <2>2. CASE ~ auth
    BY <2>2
  <2> QED BY <2>1, <2>2
<1>3. mail \in Seq(Verbs) /\ Len(mail) = 5
  OBVIOUS
<1>4. mail[1] = "MAIL" /\ mail[2] = "RCPT" /\ mail[3] = "DATA" /\ mail[4] = "BODY" /\ mail[5] = "QUIT"
  OBVIOUS
<1>5. Script = (first \o login) \o mail
  BY DEF Script
<1> HIDE DEF Verbs, first, login, mail
<1> DEFINE both == first \o login
<1> HIDE DEF both
<1>6. /\ both \in Seq(Verbs) /\ Len(both) = Len(first) + Len(login)
      /\ \A i \in 1..Len(first) : both[i] = first[i]
      /\ \A i \in 1..Len(login) : both[Len(first) + i] = login[i]
  <2>1. first \in Seq(Verbs) /\ login \in Seq(Verbs)
    BY <1>1, <1>2
  <2> QED BY <2>1, Joined DEF both
<1>7. /\ both \o mail \in Seq(Verbs) /\ Len(both \o mail) = Len(both) + Len(mail)
      /\ \A i \in 1..Len(both) : (both \o mail)[i] = both[i]
      /\ \A i \in 1..Len(mail) : (both \o mail)[Len(both) + i] = mail[i]
  <2>1. both \in Seq(Verbs) /\ mail \in Seq(Verbs)
    BY <1>3, <1>6
  <2> QED BY <2>1, Joined
<1>8. Script = both \o mail
  BY <1>5 DEF both
<1>9. /\ Script \in Seq(Verbs) /\ QuitAt = 2 + Len(login) + 5
      /\ \A i \in 1..(2 + Len(login)) : Script[i] = both[i]
      /\ \A i \in 1..5 : Script[2 + Len(login) + i] = mail[i]
  BY <1>1, <1>3, <1>6, <1>7, <1>8 DEF QuitAt
<1>10. Script[1] = "CONNECT" /\ Script[2] = "EHLO"
  <2>1. {1, 2} \subseteq 1..(2 + Len(login)) /\ {1, 2} \subseteq 1..Len(first)
    BY <1>1, <1>2
  <2>2. Script[1] = both[1] /\ Script[2] = both[2]
    BY <1>9, <2>1
  <2>3. both[1] = first[1] /\ both[2] = first[2]
    BY <1>6, <2>1
  <2> QED BY <1>1, <2>2, <2>3
<1>11. ASSUME NEW i \in 2..(MailAt - 1) PROVE Script[i] \in Login
  <2>0. CASE i = 2
    BY <1>10, <2>0 DEF Login
  <2>4. CASE i # 2
    <3>1. i - 2 \in 1..Len(login) /\ i \in 1..(2 + Len(login)) /\ i = 2 + (i - 2)
      BY <1>2, <1>9, <2>4 DEF MailAt
    <3>2. both[2 + (i - 2)] = login[i - 2]
      BY <1>1, <1>6, <3>1
    <3> QED BY <1>2, <1>9, <3>1, <3>2
  <2> QED BY <2>0, <2>4
<1>12. /\ Script[MailAt] = "MAIL" /\ Script[RcptAt] = "RCPT" /\ Script[DataAt] = "DATA"
      /\ Script[BodyAt] = "BODY" /\ Script[QuitAt] = "QUIT"
  <2>1. /\ MailAt = 2 + Len(login) + 1 /\ RcptAt = 2 + Len(login) + 2 /\ DataAt = 2 + Len(login) + 3
        /\ BodyAt = 2 + Len(login) + 4
    BY <1>2, <1>9 DEF MailAt, RcptAt, DataAt, BodyAt
  <2> QED BY <1>4, <1>9, <2>1
<1>13. QuitAt \in {7, 10} /\ DOMAIN Script = 1..QuitAt
  <2>1. DOMAIN Script = 1..Len(Script)
    BY <1>9, LenProperties
  <2>2. QuitAt = Len(Script)
    BY DEF QuitAt
  <2>3. QuitAt = 2 + Len(login) + 5 /\ (Len(login) = 0 \/ Len(login) = 3)
    BY <1>2, <1>9
  <2>4. ASSUME NEW n \in {0, 3} PROVE 2 + n + 5 \in {7, 10}
    OBVIOUS
  <2>5. QuitAt \in {7, 10}
    BY <1>2, <2>3, <2>4
  <2> QED BY <2>1, <2>2, <2>5
<1> QED BY <1>10, <1>11, <1>12, <1>13

LEMMA Repeated ==
  ASSUME NEW n \in Nat \ {0}, NEW c \in Codes \ {0}
  PROVE  Repeat(n, c) \in Seq(Codes \ {0}) /\ Len(Repeat(n, c)) = n /\ \A i \in 1..n : Repeat(n, c)[i] = c
BY DEF Repeat

\* What a reply puts on the connection: its code comes first, and alone when there
\* is no trouble and nothing follows.
LEMMA Replied ==
  ASSUME TypeOK, NEW s, NEW c \in Codes \ {0}, NEW rest \in Seq(Codes \ {0}), Reply(s, c, rest)
  PROVE  /\ server' = s /\ UNCHANGED <<config, client>> /\ trouble' \in BOOLEAN /\ (trouble => trouble')
         /\ \E codes \in Seq(Codes \ {0}) :
              /\ toClient' = toClient \o codes /\ codes # <<>> /\ codes[1] = c
              /\ rest = <<>> => (\A i \in 1..Len(codes) : codes[i] = c) /\ (trouble' \/ codes = <<c>>)
<1>1. PICK n \in Lines : /\ server' = s /\ toClient' = toClient \o (Repeat(n, c) \o rest)
                         /\ trouble' = (trouble \/ n > 1) /\ UNCHANGED <<config, client>>
  BY DEF Reply
<1>2. n \in Nat \ {0} /\ trouble \in BOOLEAN
  BY ConstantsOK DEF TypeOK
<1>3. trouble' \in BOOLEAN /\ (trouble => trouble') /\ (~ trouble' => n = 1)
  <2>1. CASE n > 1
    BY <1>1, <1>2, <2>1
  <2>2. CASE ~ (n > 1)
    <3>1. n = 1
      BY <1>2, <2>2
    <3> QED BY <1>1, <1>2, <2>2, <3>1
  <2> QED BY <2>1, <2>2
<1> DEFINE first == Repeat(n, c)
           codes == first \o rest
<1>4. first \in Seq(Codes \ {0}) /\ Len(first) = n /\ \A i \in 1..n : first[i] = c
  BY <1>2, Repeated
<1>5. toClient' = toClient \o codes
  BY <1>1
<1>6. n = 1 => first = <<c>>
  BY DEF Repeat
<1> HIDE DEF first
<1>7. codes \in Seq(Codes \ {0}) /\ Len(codes) = Len(first) + Len(rest) /\ codes[1] = first[1] /\ Len(rest) \in Nat
  <2> DEFINE Some == Codes \ {0}
  <2> HIDE DEF Some
  <2>1. first \in Seq(Some) /\ rest \in Seq(Some) /\ 1 \in 1..Len(first)
    BY <1>2, <1>4 DEF Some
  <2>2. /\ first \o rest \in Seq(Some) /\ Len(first \o rest) = Len(first) + Len(rest) /\ Len(rest) \in Nat
        /\ \A i \in 1..Len(first) : (first \o rest)[i] = first[i]
    BY <2>1, Joined
  <2> QED BY <2>1, <2>2 DEF Some
<1>8. rest = <<>> => codes = first
  BY <1>4, ConcatEmptySeq
<1> HIDE DEF codes
<1>9. codes # <<>> /\ codes[1] = c
  <2>1. Len(codes) > 0 /\ first[1] = c
    BY <1>2, <1>4, <1>7
  <2> QED BY <1>7, <2>1
<1> QED BY <1>1, <1>3, <1>4, <1>5, <1>6, <1>7, <1>8, <1>9

\* Where the server stands in the script from the command it reads.
LEMMA Places ==
  ASSUME auth \in BOOLEAN, NEW d \in 2..QuitAt
  PROVE  /\ Script[d] \in Login <=> d \in 2..(MailAt - 1)
         /\ Script[d] = "MAIL" <=> d = MailAt
         /\ Script[d] = "RCPT" <=> d = RcptAt
         /\ Script[d] = "DATA" <=> d = DataAt
         /\ Script[d] = "BODY" <=> d = BodyAt
         /\ Script[d] = "QUIT" <=> d = QuitAt
         /\ Script[d] \in ToSet(Script)
         /\ Script[d] # "CONNECT"
<1>1. d \in 2..(MailAt - 1) \/ d = MailAt \/ d = RcptAt \/ d = DataAt \/ d = BodyAt \/ d = QuitAt
  <2>1. QuitAt \in {7, 10}
    BY ScriptIs
  <2> QED BY <2>1 DEF MailAt, RcptAt, DataAt, BodyAt
<1>2. /\ 2 < MailAt /\ MailAt < RcptAt /\ RcptAt < DataAt /\ DataAt < BodyAt /\ BodyAt < QuitAt
      /\ {MailAt, RcptAt, DataAt, BodyAt, QuitAt} \subseteq Int
  BY ScriptIs DEF MailAt, RcptAt, DataAt, BodyAt
<1>3. d \in DOMAIN Script /\ Script[d] \in ToSet(Script)
  BY ScriptIs DEF ToSet
<1>5. CASE d \in 2..(MailAt - 1)
  BY <1>2, <1>3, <1>5, ScriptIs DEF Login
<1>6. CASE d \in {MailAt, RcptAt, DataAt, BodyAt, QuitAt}
  BY <1>2, <1>3, <1>6, ScriptIs DEF Login
<1> QED BY <1>1, <1>5, <1>6

LEMMA SameScript ==
  ASSUME UNCHANGED config
  PROVE  /\ Script' = Script /\ QuitAt' = QuitAt /\ BodyAt' = BodyAt
         /\ DataAt' = DataAt /\ RcptAt' = RcptAt /\ MailAt' = MailAt
BY DEF config, Script, QuitAt, BodyAt, DataAt, RcptAt, MailAt

-----------------------------------------------------------------------------
(* The inductive invariant.                                                  *)

\* How many commands are written, and the next one the server will take.
Written == IF turn = "write" THEN pos - 1 ELSE pos
Due     == Written - Len(toServer) + 1
Open    == server \notin {"greet", "gone"}

\* No command of the mail has been rejected so far.
OnTrack == \/ Due <= MailAt /\ server = "ready"
           \/ Due = RcptAt /\ server = "mail"
           \/ Due = DataAt /\ server = "rcpt"
           \/ Due = BodyAt /\ server = "data"

\* Which turns belong together with which modes, results and connections.
Settled ==
  /\ pos <= QuitAt
  /\ turn = "done" <=> result # "pending"
  /\ turn = "write" => pos >= 2
  /\ turn \in {"start", "curl"} => pos = 1
  /\ turn = "start" => toClient = <<>> /\ delivered = "no"
  /\ turn \in {"start", "curl"} \/ mode # "smtp" => server = "greet"
  /\ turn \in {"read", "write"} => mode = "smtp"
  /\ turn = "curl" => mode = "webhook"
  /\ mode = "smtp" /\ server = "greet" => pos = 1 /\ toClient = <<>> /\ delivered = "no"
  /\ Open => Due >= 2

\* What the server has still to take is the end of what the client has written.
Queue == /\ ~ Open => toServer = <<>>
         /\ \A i \in 1..Len(toServer) : toServer[i] = Script[Due + i - 1]

\* The server never gets ahead of the script.
Stage ==
  /\ Open /\ Due <= MailAt => server = "ready"
  /\ Open /\ Due = RcptAt => server \in {"ready", "mail"}
  /\ Open /\ Due = DataAt => server \in {"ready", "mail", "rcpt"}

\* While no command is rejected every line the client has still to read lets it
\* go on.
Clean == Open /\ OnTrack /\ ~ refused => \A i \in 1..Len(toClient) : toClient[i] < 4

\* The text is taken once, when it is its turn.
Once == mode = "smtp" /\ delivered # "no" => server = "gone" \/ Due > BodyAt

\* Once it is taken the line that is read for its reply lets the client go on.
Taken ==
  mode = "smtp" /\ delivered # "no" /\ ~ refused =>
    /\ result # "failed"
    /\ result = "pending" => \/ pos > BodyAt
                             \/ pos = BodyAt /\ turn = "read" /\ toClient # <<>> /\ Head(toClient) < 4

\* A mail given up will not be taken: its text was not written, or not reached.
Given ==
  mode = "smtp" /\ result = "failed" /\ ~ refused => ~ Open \/ Due > BodyAt \/ pos < BodyAt \/ ~ OnTrack

IInv == TypeOK /\ Settled /\ Queue /\ Stage /\ Clean /\ Once /\ Taken /\ Given

-----------------------------------------------------------------------------
(* What the steps do.                                                        *)

\* The numbers and sequences the invariant is about.
LEMMA Basics ==
  ASSUME IInv
  PROVE  /\ auth \in BOOLEAN /\ QuitAt \in 7..10 /\ pos \in 1..QuitAt /\ Written \in 0..QuitAt /\ Due \in Int
         /\ BodyAt = QuitAt - 1 /\ DataAt = QuitAt - 2 /\ RcptAt = QuitAt - 3 /\ MailAt = QuitAt - 4
         /\ toServer \in Seq(ToSet(Script)) /\ Len(toServer) \in Nat /\ (toServer = <<>> <=> Len(toServer) = 0)
         /\ toClient \in Seq(Codes \ {0}) /\ Len(toClient) \in Nat /\ (toClient = <<>> <=> Len(toClient) = 0)
         /\ toClient # <<>> => Head(toClient) = toClient[1] /\ toClient[1] \in 2..5
         /\ \A i \in 1..Len(toClient) : toClient[i] \in 2..5
         /\ Due = Written - Len(toServer) + 1
<1>1. /\ auth \in BOOLEAN /\ pos \in 1..10 /\ pos <= QuitAt /\ toServer \in Seq(ToSet(Script)) /\ toClient \in Seq(Codes \ {0})
      /\ (turn = "write" => pos >= 2)
  BY DEF IInv, TypeOK, Settled
<1>2. QuitAt \in 7..10
  <2>1. QuitAt = 7 \/ QuitAt = 10
    BY <1>1, ScriptIs
  <2> QED BY <2>1
<1>3. Codes \ {0} = 2..5
  BY DEF Codes, Bad
<1>4. /\ Len(toServer) \in Nat /\ (toServer = <<>> <=> Len(toServer) = 0)
      /\ Len(toClient) \in Nat /\ (toClient = <<>> <=> Len(toClient) = 0)
      /\ toClient # <<>> => Head(toClient) = toClient[1] /\ toClient[1] \in Codes \ {0}
  BY <1>1, First
<1>5. \A i \in 1..Len(toClient) : toClient[i] \in Codes \ {0}
  BY <1>1, ElementOfSeq
<1>6. Written \in 0..QuitAt /\ Due \in Int /\ Due = Written - Len(toServer) + 1
  BY <1>1, <1>2, <1>4 DEF Written, Due
<1> QED BY <1>1, <1>2, <1>3, <1>4, <1>5, <1>6 DEF BodyAt, DataAt, RcptAt, MailAt

\* The numbers of it.
LEMMA Bounds ==
  ASSUME IInv
  PROVE  /\ QuitAt \in 7..10 /\ pos \in 1..QuitAt /\ Written \in 0..QuitAt /\ Due \in Int
         /\ BodyAt = QuitAt - 1 /\ DataAt = QuitAt - 2 /\ RcptAt = QuitAt - 3 /\ MailAt = QuitAt - 4
         /\ Len(toServer) \in Nat /\ Len(toClient) \in Nat /\ Due = Written - Len(toServer) + 1
BY Basics

\* The server takes the command that is due; the client does not move.
LEMMA Served ==
  ASSUME IInv, Serve
  PROVE  /\ Open /\ Due \in 2..QuitAt /\ Due <= Written /\ Head(toServer) = Script[Due] /\ mode = "smtp"
         /\ UNCHANGED <<config, client>> /\ Written' = Written /\ Due' = Due + 1
         /\ toServer' \in Seq(ToSet(Script))
         /\ \A i \in 1..Len(toServer') : toServer'[i] = Script[Due' + i - 1]
<1> USE Bounds
<1>1. server # "gone" /\ toServer # <<>> /\ toServer' = Tail(toServer) /\ UNCHANGED <<config, client>>
  BY DEF Serve, ServeCommand, ServeBody, ServeQuit, Accepts, Reply
<1>2. Open /\ server # "greet" /\ mode = "smtp" /\ Due >= 2
  BY <1>1 DEF IInv, Queue, Settled, Open
<1>3. /\ toServer' \in Seq(ToSet(Script)) /\ Len(toServer) \in Nat \ {0} /\ Len(toServer') = Len(toServer) - 1
      /\ Head(toServer) = toServer[1] /\ \A i \in 1..(Len(toServer) - 1) : toServer'[i] = toServer[i + 1]
  BY <1>1, Basics, Shorter
<1>4. Written' = Written
  BY <1>1 DEF client, Written
<1>5. Due' = Due + 1 /\ Due <= Written
  <2>1. Due' = Written' - Len(toServer') + 1
    BY DEF Due
  <2>2. Len(toServer) \in Nat \ {0} /\ Len(toServer') = Len(toServer) - 1
    BY <1>3
  <2> DEFINE n == Len(toServer)
             w == Written
  <2>3. /\ Due' = w - (n - 1) + 1 /\ Due = w - n + 1 /\ n \in Nat \ {0} /\ w \in Nat
    BY <1>4, <2>1, <2>2
  <2>4. Due <= Written <=> Due <= w
    OBVIOUS
  <2> HIDE DEF n, w
  <2>5. w - (n - 1) + 1 = (w - n + 1) + 1 /\ w - n + 1 <= w
    BY <2>3
  <2> QED BY <2>3, <2>4, <2>5
<1>6. Head(toServer) = Script[Due]
  <2>1. toServer[1] = Script[Due + 1 - 1]
    BY <1>3 DEF IInv, Queue
  <2> QED BY <1>3, <2>1
<1>7. ASSUME NEW i \in 1..Len(toServer') PROVE toServer'[i] = Script[Due' + i - 1]
  <2> DEFINE n == Len(toServer)
  <2>1. i \in 1..(n - 1) /\ n \in Nat
    BY <1>3
  <2> HIDE DEF n
  <2>2. i \in 1..(n - 1) /\ i + 1 \in 1..n /\ Due + (i + 1) - 1 = Due' + i - 1
    BY <1>5, <2>1
  <2>3. i \in 1..(Len(toServer) - 1) /\ i + 1 \in 1..Len(toServer) /\ Due + (i + 1) - 1 = Due' + i - 1
    BY <2>2 DEF n
  <2>4. toServer[i + 1] = Script[Due + (i + 1) - 1]
    BY <2>3 DEF IInv, Queue
  <2> QED BY <1>3, <2>3, <2>4
<1>8. Due \in 2..QuitAt
  BY <1>2, <1>5
<1> QED BY <1>1, <1>2, <1>3, <1>4, <1>5, <1>6, <1>7, <1>8

-----------------------------------------------------------------------------
(* Each step keeps the invariant.                                            *)

LEMMA Begin ==
  ASSUME Init
  PROVE  IInv
<1>1. /\ mode \in Modes /\ body \in Bodies /\ auth \in BOOLEAN /\ pos = 1 /\ turn = "start" /\ result = "pending" /\ toServer = <<>> /\ toClient = <<>>
      /\ server = "greet" /\ delivered = "no" /\ refused = FALSE /\ trouble \in BOOLEAN
  BY DEF Init
<1>2. QuitAt \in {7, 10}
  BY <1>1, ScriptIs
<1>3. TypeOK
  <2>1. <<>> \in Seq(ToSet(Script)) /\ <<>> \in Seq(Codes \ {0})
    OBVIOUS
  <2>2. toServer \in Seq(ToSet(Script)) /\ toClient \in Seq(Codes \ {0})
    BY <1>1, <2>1
  <2>3. {trouble, refused} \subseteq BOOLEAN
    BY <1>1, Zenon
  <2> QED BY <1>1, <2>2, <2>3 DEF TypeOK
<1>4. Settled
  BY <1>1, <1>2 DEF Settled, Open
<1>5. Queue
  <2>1. Len(toServer) = 0
    BY <1>1
  <2> QED BY <1>1, <2>1 DEF Queue
<1>6. Stage /\ Clean /\ Once /\ Taken /\ Given
  BY <1>1 DEF Stage, Clean, Once, Taken, Given, Open
<1> QED BY <1>3, <1>4, <1>5, <1>6 DEF IInv

\* Before a connection there is no server.
LEMMA StartStep ==
  ASSUME IInv, Refuse \/ Webhook \/ CurlExits \/ Connect
  PROVE  IInv'
<1> USE Bounds
<1>1. /\ server = "greet" /\ pos = 1 /\ toServer = <<>> /\ turn \in {"start", "curl"}
      /\ UNCHANGED <<config, server, pos, toServer, refused>>
  <2>1. turn \in {"start", "curl"} /\ UNCHANGED <<config, server, pos, toServer, refused>>
    BY DEF Refuse, Webhook, CurlExits, Connect, End, fate
  <2>2. server = "greet" /\ pos = 1
    BY <2>1 DEF IInv, Settled
  <2> QED BY <2>1, <2>2 DEF IInv, Queue, Open
<1>2. Script' = Script /\ QuitAt' = QuitAt /\ ~ Open'
  BY <1>1, SameScript DEF Open
<1>3. /\ turn' \in {"curl", "read", "done"} /\ result' \in {"pending", "sent", "failed"} /\ (turn' = "done" <=> result' # "pending")
      /\ turn' = "curl" => mode = "webhook"
      /\ turn' = "read" => mode = "smtp"
      /\ mode = "smtp" => toClient' = <<>> /\ delivered' = "no"
      /\ delivered' \in {"no", "part", "whole"} /\ trouble' \in BOOLEAN /\ toClient' \in Seq(Codes \ {0})
  <2>1. /\ mode \in {"disabled", "webhook", "smtp"} /\ delivered \in {"no", "part", "whole"} /\ trouble \in BOOLEAN
        /\ (turn = "start" => toClient = <<>> /\ delivered = "no") /\ (turn = "curl" => mode = "webhook")
        /\ (turn # "done" => result = "pending")
    BY ConstantsOK DEF IInv, Settled, TypeOK
  <2>2. <<>> \in Seq(Codes \ {0}) /\ << 2 >> \in Seq(Codes \ {0}) /\ << 5 >> \in Seq(Codes \ {0})
    BY DEF Codes, Bad
  <2>3. CASE Refuse
    BY <2>1, <2>3 DEF Refuse, End, fate
  <2>4. CASE Webhook
    BY <2>1, <2>2, <2>4 DEF Webhook, fate
  <2>5. CASE CurlExits
    BY <2>1, <2>5, Basics DEF CurlExits, End, fate
  <2>6. CASE Connect
    BY <2>1, <2>6 DEF Connect, fate
  <2> QED BY <2>3, <2>4, <2>5, <2>6
<1>4. TypeOK'
  <2>1. mode \in Modes /\ auth \in BOOLEAN /\ body \in Bodies /\ {trouble, refused} \subseteq BOOLEAN
    BY DEF IInv, TypeOK
  <2> QED BY <1>1, <1>2, <1>3, <2>1 DEF TypeOK, config
<1>5. Settled'
  BY <1>1, <1>2, <1>3 DEF Settled, config
<1>6. Queue'
  <2>1. Len(toServer') = 0
    BY <1>1
  <2> QED BY <1>1, <2>1 DEF Queue
<1>7. Stage' /\ Clean' /\ Once' /\ Taken' /\ Given'
  BY <1>1, <1>2, <1>3 DEF Stage, Clean, Once, Taken, Given, config
<1> QED BY <1>4, <1>5, <1>6, <1>7 DEF IInv

LEMMA WriteStep ==
  ASSUME IInv, Write
  PROVE  IInv'
<1> USE Bounds
<1>1. turn = "write" /\ UNCHANGED <<config, pos, toClient, server, fate>>
  BY DEF Write, End
<1>2. Script' = Script /\ QuitAt' = QuitAt /\ BodyAt' = BodyAt /\ DataAt' = DataAt /\ RcptAt' = RcptAt /\ MailAt' = MailAt
  BY <1>1, SameScript
<1>3. mode = "smtp" /\ pos >= 2 /\ server # "greet" /\ result = "pending" /\ Written = pos - 1
  BY <1>1 DEF IInv, Settled, Written
<1>4. CASE server = "gone"
  <2>1. toServer = <<>> /\ toServer' = <<>> /\ Len(toServer') = 0
    BY <1>4 DEF Write, IInv, Queue, Open
  <2>2. turn' \in {"read", "done"} /\ result' \in {"pending", "killed"} /\ (turn' = "done" <=> result' # "pending")
    BY <1>3 DEF Write, End
  <2>3. TypeOK'
    BY <1>1, <1>2, <2>1, <2>2 DEF IInv, TypeOK, config, fate
  <2>4. Settled'
    BY <1>1, <1>2, <1>3, <1>4, <2>2 DEF IInv, Settled, config, fate, Open
  <2>5. Queue' /\ Stage' /\ Clean' /\ Once' /\ Given'
    BY <1>1, <1>4, <2>1 DEF Queue, Stage, Clean, Once, Given, Open
  <2>6. Taken'
    BY <1>1, <1>2, <1>3, <2>2 DEF IInv, Taken, config, fate
  <2> QED BY <2>3, <2>4, <2>5, <2>6 DEF IInv
<1>5. CASE server # "gone"
  <2>1. turn' = "read" /\ result' = result /\ toServer' = Append(toServer, Script[pos]) /\ Open /\ Open'
    BY <1>1, <1>3, <1>5 DEF Write, Open
  <2>2. Script[pos] \in ToSet(Script)
    BY <1>3, Basics, Places
  <2>3. /\ toServer' \in Seq(ToSet(Script)) /\ Len(toServer') = Len(toServer) + 1
        /\ \A i \in 1..Len(toServer) : toServer'[i] = toServer[i]
        /\ toServer'[Len(toServer) + 1] = Script[pos]
    BY <2>1, <2>2, Basics, Grown
  <2>4. Written' = Written + 1 /\ Due' = Due
    <3>1. Written' = pos /\ pos \in Int
      BY <1>1, <2>1 DEF Written
    <3>2. Written' = Written + 1
      BY <1>3, <3>1
    <3>3. Due' = Written' - Len(toServer') + 1
      BY DEF Due
    <3> QED BY <2>3, <3>2, <3>3
  <2>5. OnTrack' = OnTrack
    BY <1>1, <1>2, <2>4 DEF OnTrack
  <2>6. TypeOK'
    BY <1>1, <1>2, <2>1, <2>3 DEF IInv, TypeOK, config, fate
  <2>7. Settled'
    BY <1>1, <1>2, <1>3, <2>1, <2>4 DEF IInv, Settled, config, fate
  <2>8. Queue'
    <3>1. ASSUME NEW i \in 1..Len(toServer') PROVE toServer'[i] = Script[Due' + i - 1]
      <4>1. CASE i \in 1..Len(toServer)
        <5>1. toServer[i] = Script[Due + i - 1]
          BY <4>1 DEF IInv, Queue
        <5> QED BY <2>3, <2>4, <4>1, <5>1
      <4>2. CASE i = Len(toServer) + 1
        <5>1. Due' + i - 1 = pos
          BY <1>3, <2>4, <4>2
        <5> QED BY <2>3, <4>2, <5>1
      <4> QED BY <2>3, <4>1, <4>2
    <3> QED BY <1>2, <2>1, <3>1 DEF Queue
  <2>9. Stage'
    BY <1>1, <1>2, <2>1, <2>4 DEF IInv, Stage
  <2>10. Clean'
    BY <1>1, <1>2, <2>1, <2>4, <2>5 DEF IInv, Clean, fate
  <2>11. Once'
    BY <1>1, <1>2, <2>4 DEF IInv, Once, config, fate
  <2>12. Taken'
    BY <1>1, <1>2, <1>3, <2>1 DEF IInv, Taken, config, fate
  <2>13. Given'
    BY <1>3, <2>1 DEF Given
  <2> QED BY <2>6, <2>7, <2>8, <2>9, <2>10, <2>11, <2>12, <2>13 DEF IInv
<1> QED BY <1>4, <1>5

\* The client stays at its place in the script or goes on to the next one.
LEMMA NextPlace ==
  ASSUME NEW here, NEW next, NEW quit, quit \in 7..10, here \in 1..quit,
         next = here \/ (next = here + 1 /\ here < quit)
  PROVE  /\ next \in 1..10 /\ next <= quit
         /\ next = here + 1 => next >= 2
OBVIOUS

LEMMA ReadStep ==
  ASSUME IInv, NEW code \in Codes, ReadLine(code)
  PROVE  IInv'
<1> USE Bounds
<1>1. turn = "read" /\ UNCHANGED <<config, toServer, server, fate>>
  BY DEF ReadLine
<1>2. Script' = Script /\ QuitAt' = QuitAt /\ BodyAt' = BodyAt /\ DataAt' = DataAt /\ RcptAt' = RcptAt /\ MailAt' = MailAt
  BY <1>1, SameScript
<1>3. mode = "smtp" /\ result = "pending" /\ Written = pos
  BY <1>1 DEF IInv, Settled, Written
<1>4. \/ toClient # <<>> /\ code = Head(toClient) /\ toClient' = Tail(toClient)
      \/ toClient = <<>> /\ server = "gone" /\ toClient' = toClient
  BY DEF ReadLine
<1>5. server # "greet" /\ (Open => toClient # <<>> /\ code = toClient[1] /\ toClient' = Tail(toClient))
  <2>1. server = "greet" => toClient = <<>>
    BY <1>3 DEF IInv, Settled
  <2> QED BY <1>4, <2>1 DEF Open
<1>6. /\ toClient' \in Seq(Codes \ {0})
      /\ Open => Len(toClient') = Len(toClient) - 1 /\ \A i \in 1..Len(toClient') : toClient'[i] = toClient[i + 1]
  <2>1. toClient \in Seq(Codes \ {0})
    BY Basics
  <2>2. CASE toClient # <<>> /\ toClient' = Tail(toClient)
    BY <2>1, <2>2, Shorter
  <2> QED BY <1>4, <1>5, <2>1, <2>2
<1>7. \/ ~ GoesOn(Script[pos], code) /\ result' = "failed" /\ turn' = "done" /\ pos' = pos
      \/ GoesOn(Script[pos], code) /\ pos = QuitAt /\ result' = "sent" /\ turn' = "done" /\ pos' = pos
      \/ GoesOn(Script[pos], code) /\ pos < QuitAt /\ result' = "pending" /\ turn' = "write" /\ pos' = pos + 1
  BY <1>3 DEF ReadLine, End, NextPos, QuitAt
<1>8. Written' = Written /\ Due' = Due
  <2>1. Written' = Written
    BY <1>3, <1>7 DEF Written
  <2>2. Due' = Written' - Len(toServer') + 1 /\ toServer' = toServer
    BY <1>1 DEF Due
  <2> QED BY <2>1, <2>2
<1>9. OnTrack' = OnTrack /\ Open' = Open
  BY <1>1, <1>2, <1>8 DEF OnTrack, Open
<1>10. /\ pos = 1 => Script[pos] = "CONNECT"
       /\ pos = BodyAt => Script[pos] = "BODY"
       /\ pos = QuitAt => Script[pos] = "QUIT"
  BY Basics, ScriptIs
<1>11. TypeOK'
  <2>1. pos' = pos \/ (pos' = pos + 1 /\ pos < QuitAt)
    BY <1>7
  <2>2. pos' \in 1..10
    BY <2>1, NextPlace
  <2>3. turn' \in {"write", "done"} /\ result' \in {"pending", "sent", "failed"}
    BY <1>7
  <2> QED BY <1>1, <1>2, <1>6, <2>2, <2>3 DEF IInv, TypeOK, config, fate
<1>12. Settled'
  <2>1. (pos' = pos /\ turn' = "done") \/ (pos' = pos + 1 /\ pos < QuitAt)
    BY <1>7
  <2>2. pos' <= QuitAt /\ (pos' = pos + 1 => pos' >= 2)
    BY <2>1, NextPlace
  <2>3. pos' <= QuitAt' /\ (turn' = "write" => pos' >= 2)
    BY <1>2, <2>1, <2>2
  <2>4. turn' \in {"write", "done"} /\ (turn' = "done" <=> result' # "pending") /\ mode' = mode /\ server' = server /\ QuitAt' = QuitAt
    BY <1>1, <1>2, <1>3, <1>7 DEF config
  <2>5. (Open => Due >= 2) /\ server # "greet" /\ mode = "smtp" /\ Due' = Due /\ Open' = Open
    BY <1>3, <1>5, <1>8, <1>9 DEF IInv, Settled
  <2> QED BY <2>3, <2>4, <2>5 DEF Settled
<1>13. Queue' /\ Stage' /\ Once'
  <2>1. Queue'
    BY <1>1, <1>2, <1>8, <1>9 DEF IInv, Queue
  <2>2. Stage'
    BY <1>1, <1>2, <1>8, <1>9 DEF IInv, Stage
  <2>3. Once'
    BY <1>1, <1>2, <1>8 DEF IInv, Once, config, fate
  <2> QED BY <2>1, <2>2, <2>3
<1>14. Clean'
  <2>2. ASSUME Open, OnTrack, ~ refused, NEW i \in 1..Len(toClient')
        PROVE  toClient'[i] < 4
    <3> DEFINE n == Len(toClient)
    <3>1. Len(toClient') = n - 1 /\ n \in Nat /\ i \in 1..(n - 1) /\ toClient'[i] = toClient[i + 1]
      BY <1>6, <2>2
    <3> HIDE DEF n
    <3>2. i + 1 \in 1..n
      BY <3>1
    <3>3. i + 1 \in 1..Len(toClient) /\ toClient'[i] = toClient[i + 1]
      BY <3>1, <3>2 DEF n
    <3>4. toClient[i + 1] < 4
      BY <2>2, <3>3 DEF IInv, Clean
    <3> QED BY <3>3, <3>4
  <2> QED BY <1>1, <1>9, <2>2 DEF Clean, fate
<1>15. Taken'
  <2>1. ASSUME delivered # "no", ~ refused
        PROVE  result' # "failed" /\ (result' = "pending" => pos' > BodyAt)
    <3>1. pos > BodyAt \/ (pos = BodyAt /\ toClient # <<>> /\ Head(toClient) < 4)
      BY <1>3, <2>1 DEF IInv, Taken
    <3>2. CASE pos > BodyAt
      <4> DEFINE q == QuitAt
      <4>1. q \in 7..10 /\ pos \in 1..q /\ pos > q - 1
        BY <3>2
      <4>2. pos = QuitAt <=> pos = q
        OBVIOUS
      <4> HIDE DEF q
      <4>3. pos = QuitAt
        BY <4>1, <4>2
      <4>4. GoesOn(Script[pos], code)
        BY <1>10, <4>3 DEF GoesOn
      <4> QED BY <1>7, <4>3, <4>4
    <3>3. CASE pos = BodyAt /\ toClient # <<>> /\ Head(toClient) < 4
      <4>1. GoesOn(Script[pos], code)
        BY <1>4, <1>10, <3>3 DEF GoesOn
      <4> QED BY <1>7, <3>3, <4>1
    <3> QED BY <3>1, <3>2, <3>3
  <2> QED BY <1>1, <1>2, <2>1 DEF Taken, fate
<1>16. Given'
  <2>1. ASSUME result' = "failed", ~ refused, Open, OnTrack, pos' >= BodyAt
        PROVE  FALSE
    <3>1. ~ GoesOn(Script[pos], code) /\ pos' = pos /\ code = toClient[1] /\ 1 \in 1..Len(toClient)
      BY <1>5, <1>7, <2>1
    <3>2. pos = QuitAt => GoesOn(Script[pos], code)
      BY <1>10 DEF GoesOn
    <3>3. pos # QuitAt /\ pos >= BodyAt
      BY <2>1, <3>1, <3>2
    <3> DEFINE q == QuitAt
    <3>4. q \in 7..10 /\ pos \in 1..q /\ pos # q /\ pos >= q - 1 /\ BodyAt = q - 1
      BY <3>3
    <3> HIDE DEF q
    <3>5. pos = BodyAt
      BY <3>4
    <3>6. toClient[1] < 4
      BY <2>1, <3>1, <3>5 DEF IInv, Clean
    <3>7. GoesOn(Script[pos], code)
      BY <1>10, <3>1, <3>5, <3>6 DEF GoesOn
    <3> QED BY <3>1, <3>7
  <2>2. pos' < BodyAt \/ pos' >= BodyAt
    <3>1. pos' \in Int /\ BodyAt \in Int
      BY <1>7
    <3> QED BY <3>1
  <2>3. BodyAt' = BodyAt /\ OnTrack' = OnTrack /\ Open' = Open /\ refused' = refused
    BY <1>1, <1>2, <1>9 DEF fate
  <2> QED BY <2>1, <2>2, <2>3 DEF Given
<1> QED BY <1>11, <1>12, <1>13, <1>14, <1>15, <1>16 DEF IInv

LEMMA GreetStep ==
  ASSUME IInv, Greet
  PROVE  IInv'
<1> USE Bounds
<1>1. turn = "read" /\ server = "greet" /\ UNCHANGED <<config, client, toServer, delivered, refused>>
  BY DEF Greet, Reply
<1>2. Script' = Script /\ QuitAt' = QuitAt /\ BodyAt' = BodyAt /\ DataAt' = DataAt /\ RcptAt' = RcptAt /\ MailAt' = MailAt
  BY <1>1, SameScript
<1>3. /\ mode = "smtp" /\ result = "pending" /\ pos = 1 /\ toClient = <<>> /\ delivered = "no" /\ toServer = <<>>
  BY <1>1 DEF IInv, Settled, Queue, Open
<1>4. Due' = 2
  <2>1. Written' = 1 /\ Due' = Written' - Len(toServer') + 1 /\ Len(toServer') = 0
    BY <1>1, <1>3 DEF client, Written, Due
  <2> QED BY <2>1
<1>5. PICK c \in Codes \ {0}, s \in {"ready", "gone"} : Reply(s, c, <<>>) /\ (s = "ready" => c = 2)
  <2>1. 2 \in Codes \ {0} /\ Bad \subseteq Codes \ {0}
    BY DEF Codes, Bad
  <2> QED BY <2>1 DEF Greet
<1>6. /\ toClient' \in Seq(Codes \ {0}) /\ server' \in {"ready", "gone"} /\ trouble' \in BOOLEAN
      /\ server' = "ready" => \A i \in 1..Len(toClient') : toClient'[i] = 2
  <2>1. TypeOK /\ <<>> \in Seq(Codes \ {0})
    BY DEF IInv
  <2>2. /\ server' = s /\ trouble' \in BOOLEAN
        /\ \E codes \in Seq(Codes \ {0}) : toClient' = toClient \o codes /\ \A i \in 1..Len(codes) : codes[i] = c
    BY <1>5, <2>1, Replied
  <2>3. PICK codes \in Seq(Codes \ {0}) : toClient' = toClient \o codes /\ \A i \in 1..Len(codes) : codes[i] = c
    BY <2>2
  <2>4. toClient' = codes
    BY <1>3, <2>3, ConcatEmptySeq
  <2> QED BY <1>5, <2>2, <2>3, <2>4
<1>7. TypeOK'
  <2>1. {trouble', refused'} \subseteq BOOLEAN
    <3>1. refused' \in BOOLEAN
      BY <1>1 DEF IInv, TypeOK
    <3> QED BY <1>6, <3>1, Zenon
  <2> QED BY <1>1, <1>2, <1>6, <2>1 DEF IInv, TypeOK, config, client
<1>8. Settled'
  BY <1>1, <1>2, <1>3, <1>4, <1>6 DEF IInv, Settled, config, client
<1>9. Queue' /\ Stage'
  <2>1. toServer' = <<>> /\ Len(toServer') = 0
    BY <1>1, <1>3
  <2> QED BY <1>2, <1>4, <1>6, <2>1 DEF Queue, Stage, Open
<1>10. Clean'
  <2>1. Open' => server' = "ready"
    BY <1>6 DEF Open
  <2> QED BY <1>6, <2>1 DEF Clean
<1>11. Once' /\ Taken' /\ Given'
  BY <1>1, <1>3 DEF Once, Taken, Given, client
<1> QED BY <1>7, <1>8, <1>9, <1>10, <1>11 DEF IInv

\* What every step of the server keeps.
LEMMA ServeFrame ==
  ASSUME IInv, Serve, NEW codes \in Seq(Codes \ {0}), toClient' = toClient \o codes,
         server' \in {"ready", "mail", "rcpt", "data", "gone"}, server' = "gone" => Due = QuitAt,
         delivered' \in {"no", "part", "whole"}, trouble' \in BOOLEAN, refused' \in BOOLEAN
  PROVE  /\ TypeOK' /\ Settled' /\ Queue'
         /\ Len(toClient') = Len(toClient) + Len(codes)
         /\ \A i \in 1..Len(toClient) : toClient'[i] = toClient[i]
         /\ \A i \in 1..Len(codes) : toClient'[Len(toClient) + i] = codes[i]
         /\ \A i \in 1..Len(toClient') : i \in 1..Len(toClient) \/ i - Len(toClient) \in 1..Len(codes)
         /\ Script' = Script /\ QuitAt' = QuitAt /\ BodyAt' = BodyAt /\ DataAt' = DataAt /\ RcptAt' = RcptAt /\ MailAt' = MailAt
<1> DEFINE Replies == Codes \ {0}
<1> HIDE DEF Replies
<1>1. toClient \in Seq(Replies) /\ codes \in Seq(Replies)
  BY Basics DEF Replies
<1>2. /\ toClient' \in Seq(Replies) /\ Len(toClient') = Len(toClient) + Len(codes)
      /\ \A i \in 1..Len(toClient) : toClient'[i] = toClient[i]
      /\ \A i \in 1..Len(codes) : toClient'[Len(toClient) + i] = codes[i]
      /\ \A i \in 1..Len(toClient') : i \in 1..Len(toClient) \/ i - Len(toClient) \in 1..Len(codes)
  BY <1>1, Joined
<1> USE Bounds, Served
<1>3. Script' = Script /\ QuitAt' = QuitAt /\ BodyAt' = BodyAt /\ DataAt' = DataAt /\ RcptAt' = RcptAt /\ MailAt' = MailAt
  BY SameScript
<1>4. TypeOK'
  <2>1. {trouble', refused'} \subseteq BOOLEAN
    OBVIOUS
  <2> QED BY <1>2, <1>3, <2>1 DEF IInv, TypeOK, Replies, config, client
<1>5. Settled'
  <2>1. /\ pos' = pos /\ turn' = turn /\ mode' = mode /\ result' = result /\ QuitAt' = QuitAt
        /\ Due' = Due + 1 /\ server' # "greet" /\ mode = "smtp" /\ Due >= 2 /\ Due \in Int
    BY <1>3 DEF client, config
  <2>2. /\ pos <= QuitAt /\ (turn = "done" <=> result # "pending") /\ (turn = "write" => pos >= 2)
        /\ turn \notin {"start", "curl"}
    BY DEF IInv, Settled, Open
  <2> QED BY <2>1, <2>2 DEF Settled, Open
<1>6. Queue'
  <2>1. server' = "gone" => toServer' = <<>>
    <3>1. Due' = Written' - Len(toServer') + 1
      BY DEF Due
    <3>2. Len(toServer') \in Nat /\ (toServer' = <<>> <=> Len(toServer') = 0)
      BY First
    <3> QED BY <3>1, <3>2
  <2> QED BY <1>3, <2>1 DEF Queue, Open
<1> QED BY <1>2, <1>3, <1>4, <1>5, <1>6

\* A command that is accepted moves the server on; one that is rejected leaves it
\* behind for good.
LEMMA CommandStep ==
  ASSUME IInv, Serve, ServeCommand(Head(toServer))
  PROVE  IInv'
<1>1. /\ QuitAt \in 7..10 /\ BodyAt = QuitAt - 1 /\ DataAt = QuitAt - 2 /\ RcptAt = QuitAt - 3 /\ MailAt = QuitAt - 4
      /\ Due \in 2..QuitAt /\ Due' = Due + 1 /\ Due <= Written /\ pos \in 1..QuitAt /\ Len(toClient) \in Nat
  BY Basics, Served
<1>2. Open /\ mode = "smtp" /\ auth \in BOOLEAN /\ Head(toServer) = Script[Due] /\ UNCHANGED <<config, client>>
  BY Basics, Served
<1> DEFINE cmd == Script[Due]
<1>3. /\ server \in {"ready", "mail", "rcpt"} /\ cmd \notin {"BODY", "QUIT"} /\ UNCHANGED delivered
      /\ \/ InPlace(cmd) /\ Accepts(cmd) /\ refused' = refused
         \/ /\ \E c \in Bad : Reply(server, c, <<>>)
            /\ refused' = (refused \/ cmd \in Login)
  BY <1>2 DEF ServeCommand
<1>4. Due \in 2..DataAt
  <2>1. Due # BodyAt /\ Due # QuitAt
    BY <1>1, <1>2, <1>3, Places
  <2> QED BY <1>1, <2>1
<1>5. /\ cmd \in Login <=> Due \in 2..(MailAt - 1)
      /\ cmd = "MAIL" <=> Due = MailAt
      /\ cmd = "RCPT" <=> Due = RcptAt
      /\ cmd = "DATA" <=> Due = DataAt
  BY <1>1, <1>2, Places
<1>6. /\ Due <= MailAt => server = "ready"
      /\ Due = RcptAt => server \in {"ready", "mail"}
      /\ Due = DataAt => server \in {"ready", "mail", "rcpt"}
  BY <1>2 DEF IInv, Stage
<1> HIDE DEF cmd
<1> DEFINE Moved ==
      \/ Due <= MailAt - 1 /\ server' = "ready"
      \/ Due = MailAt /\ server' = "mail"
      \/ Due = RcptAt /\ server = "mail" /\ server' = "rcpt"
      \/ Due = DataAt /\ server = "rcpt" /\ server' = "data"
           Outcome(s, code) ==
      /\ Reply(s, code, <<>>)
      /\ \/ code < 4 /\ refused' = refused /\ Moved
         \/ s = server /\ refused' = (refused \/ Due \in 2..(MailAt - 1))
<1>7. ASSUME InPlace(cmd), Accepts(cmd), refused' = refused
      PROVE  \E s, code : code \in Codes \ {0} /\ Outcome(s, code)
  <2>1. PICK code \in {2, 3} : Reply(After(cmd), code, <<>>)
    BY <1>7 DEF Accepts
  <2>2. server' = After(cmd)
    BY <2>1 DEF Reply
  <2>3. \/ cmd \in Login /\ server = "ready" /\ server' = "ready"
        \/ cmd = "MAIL" /\ server' = "mail"
        \/ cmd = "RCPT" /\ server = "mail" /\ server' = "rcpt"
        \/ cmd = "DATA" /\ server = "rcpt" /\ server' = "data"
    BY <1>7, <2>2 DEF InPlace, After, Login
  <2>4. Moved
    BY <1>1, <1>5, <2>3
  <2>5. code \in Codes \ {0} /\ code < 4
    BY DEF Codes, Bad
  <2> QED BY <1>7, <2>1, <2>4, <2>5
<1>8. ASSUME NEW c \in Bad, Reply(server, c, <<>>), refused' = (refused \/ cmd \in Login)
      PROVE  \E s, code : code \in Codes \ {0} /\ Outcome(s, code)
  <2>1. c \in Codes \ {0}
    BY <1>8 DEF Codes, Bad
  <2>2. refused' = (refused \/ Due \in 2..(MailAt - 1))
    BY <1>5, <1>8
  <2> QED BY <1>8, <2>1, <2>2
<1>9. PICK s, code : code \in Codes \ {0} /\ Outcome(s, code)
  BY <1>3, <1>7, <1>8
<1>10. /\ server' = s /\ trouble' \in BOOLEAN
       /\ \E codes \in Seq(Codes \ {0}) : toClient' = toClient \o codes /\ \A i \in 1..Len(codes) : codes[i] = code
  <2>1. TypeOK /\ <<>> \in Seq(Codes \ {0})
    BY DEF IInv
  <2> QED BY <1>9, <2>1, Replied
<1>13. PICK codes \in Seq(Codes \ {0}) : toClient' = toClient \o codes /\ \A i \in 1..Len(codes) : codes[i] = code
  BY <1>10
<1>11. /\ refused \in BOOLEAN /\ refused' \in BOOLEAN /\ delivered' \in {"no", "part", "whole"}
       /\ (~ refused' => ~ refused)
  <2>1. refused \in BOOLEAN /\ delivered \in {"no", "part", "whole"}
    BY DEF IInv, TypeOK
  <2>2. refused' = refused \/ refused' = (refused \/ Due \in 2..(MailAt - 1))
    BY <1>9
  <2> QED BY <1>3, <2>1, <2>2
<1>12. server' \in {"ready", "mail", "rcpt", "data"}
  BY <1>3, <1>9, <1>10
<1>14. /\ TypeOK' /\ Settled' /\ Queue'
       /\ Len(toClient') = Len(toClient) + Len(codes)
       /\ \A i \in 1..Len(toClient) : toClient'[i] = toClient[i]
       /\ \A i \in 1..Len(codes) : toClient'[Len(toClient) + i] = codes[i]
       /\ \A i \in 1..Len(toClient') : i \in 1..Len(toClient) \/ i - Len(toClient) \in 1..Len(codes)
       /\ Script' = Script /\ QuitAt' = QuitAt /\ BodyAt' = BodyAt /\ DataAt' = DataAt /\ RcptAt' = RcptAt /\ MailAt' = MailAt
  BY <1>10, <1>11, <1>12, <1>13, ServeFrame
<1>15. /\ (refused' = refused /\ code < 4) \/ server' = server
      /\ \/ Due <= MailAt - 1 /\ server' = "ready"
         \/ Due = MailAt /\ server' = "mail"
         \/ Due = RcptAt /\ server = "mail" /\ server' = "rcpt"
         \/ Due = DataAt /\ server = "rcpt" /\ server' = "data"
         \/ server' = server
  BY <1>9, <1>10
<1>16. OnTrack' /\ ~ refused' => OnTrack /\ ~ refused /\ code < 4
  BY <1>1, <1>4, <1>6, <1>9, <1>10, <1>11, <1>14 DEF OnTrack
<1>17. delivered = "no" /\ delivered' = "no"
  <2>1. server # "gone" /\ ~ (Due > BodyAt)
    BY <1>1, <1>3, <1>4
  <2> QED BY <1>2, <1>3, <2>1 DEF IInv, Once
<1>18. Stage'
  BY <1>1, <1>4, <1>6, <1>15, <1>14 DEF Stage
<1>19. Clean'
  <2>1. ASSUME OnTrack', ~ refused', NEW i \in 1..Len(toClient') PROVE toClient'[i] < 4
    <3>1. CASE i \in 1..Len(toClient)
      BY <1>2, <1>14, <1>16, <2>1, <3>1 DEF IInv, Clean
    <3>2. CASE i - Len(toClient) \in 1..Len(codes)
      <4> DEFINE k == i - Len(toClient)
      <4>1. k \in 1..Len(codes) /\ Len(toClient) + k = i
        BY <1>1, <3>2
      <4>2. toClient'[Len(toClient) + k] = codes[k] /\ codes[k] = code
        BY <1>13, <1>14, <4>1
      <4> HIDE DEF k
      <4> QED BY <1>16, <2>1, <4>1, <4>2
    <3> QED BY <1>14, <3>1, <3>2
  <2> QED BY <2>1 DEF Clean
<1>20. Once' /\ Taken'
  BY <1>17 DEF Once, Taken
<1>21. Given'
  <2>1. ASSUME result = "failed", ~ refused', OnTrack' PROVE pos < BodyAt
    <3>1. Open /\ ~ (Due > BodyAt) /\ OnTrack /\ ~ refused /\ mode = "smtp"
      BY <1>1, <1>2, <1>4, <1>16, <2>1
    <3> QED BY <2>1, <3>1 DEF IInv, Given
  <2> QED BY <1>2, <1>14, <2>1 DEF Given, client, config
<1> QED BY <1>14, <1>18, <1>19, <1>20, <1>21 DEF IInv

\* The text: taken in data mode, when the lines before its reply let the client on.
LEMMA BodyStep ==
  ASSUME IInv, Serve, ServeBody(Head(toServer))
  PROVE  IInv'
<1>1. /\ QuitAt \in 7..10 /\ BodyAt = QuitAt - 1 /\ DataAt = QuitAt - 2 /\ RcptAt = QuitAt - 3 /\ MailAt = QuitAt - 4
      /\ Due \in 2..QuitAt /\ Due' = Due + 1 /\ Due <= Written /\ pos \in 1..QuitAt /\ Len(toClient) \in Nat
  BY Basics, Served
<1>2. Open /\ mode = "smtp" /\ auth \in BOOLEAN /\ Head(toServer) = Script[Due] /\ UNCHANGED <<config, client>>
  BY Basics, Served
<1>3. Due = BodyAt /\ Due' = QuitAt
  <2>1. Due = BodyAt
    BY <1>1, <1>2, Places DEF ServeBody
  <2> QED BY <1>1, <2>1
<1>4. delivered = "no"
  <2>1. server # "gone" /\ ~ (Due > BodyAt)
    BY <1>1, <1>2, <1>3 DEF Open
  <2> QED BY <1>2, <2>1 DEF IInv, Once
<1> DEFINE Outcome(codes) ==
        /\ toClient' = toClient \o codes /\ server' \in {"ready", "mail", "rcpt", "data"} /\ trouble' \in BOOLEAN /\ UNCHANGED refused
        /\ \/ delivered' = "no"
           \/ server = "data" /\ delivered' \in {"part", "whole"} /\ codes # <<>> /\ codes[1] = 2
<1>5. PICK codes \in Seq(Codes \ {0}) : Outcome(codes)
  <2>0. TypeOK /\ trouble \in BOOLEAN /\ UNCHANGED refused
    BY DEF IInv, TypeOK, ServeBody
  <2>1. ASSUME NEW c \in {2} \cup Bad, server = "data",
               Reply("ready", c, IF body = "dotted" THEN << 5 >> ELSE <<>>),
               delivered' = IF c # 2 THEN "no" ELSE IF body = "whole" THEN "whole" ELSE "part"
        PROVE  \E codes \in Seq(Codes \ {0}) : Outcome(codes)
    <3> DEFINE more == IF body = "dotted" THEN << 5 >> ELSE <<>>
    <3>1. c \in Codes \ {0} /\ more \in Seq(Codes \ {0})
      <4>1. c \in Codes \ {0} /\ 5 \in Codes \ {0}
        BY DEF Codes, Bad
      <4>2. CASE body = "dotted"
        BY <4>1, <4>2
      <4>3. CASE body # "dotted"
        BY <4>1, <4>3
      <4> QED BY <4>2, <4>3
    <3>2. Reply("ready", c, more)
      BY <2>1
    <3> HIDE DEF more
    <3>3. /\ server' = "ready" /\ trouble' \in BOOLEAN
          /\ \E codes \in Seq(Codes \ {0}) : toClient' = toClient \o codes /\ codes # <<>> /\ codes[1] = c
      BY <2>0, <3>1, <3>2, Replied
    <3> QED BY <2>0, <2>1, <3>3
  <2>2. ASSUME UNCHANGED <<config, client, toClient, server, delivered, trouble>>, server = "data"
        PROVE  \E codes \in Seq(Codes \ {0}) : Outcome(codes)
    <3>1. toClient \o <<>> = toClient /\ <<>> \in Seq(Codes \ {0})
      BY <2>0, ConcatEmptySeq DEF TypeOK
    <3> QED BY <1>4, <2>0, <2>2, <3>1
  <2>3. ASSUME server \in {"ready", "mail", "rcpt"}, Reply(server, 5, << 5 >>), UNCHANGED delivered
        PROVE  \E codes \in Seq(Codes \ {0}) : Outcome(codes)
    <3>1. 5 \in Codes \ {0} /\ << 5 >> \in Seq(Codes \ {0})
      BY DEF Codes, Bad
    <3>2. /\ server' = server /\ trouble' \in BOOLEAN
          /\ \E codes \in Seq(Codes \ {0}) : toClient' = toClient \o codes
      BY <2>0, <2>3, <3>1, Replied
    <3> QED BY <1>4, <2>0, <2>3, <3>2
  <2> HIDE DEF Outcome
  <2> QED BY <2>1, <2>2, <2>3 DEF ServeBody
<1>6. delivered' \in {"no", "part", "whole"} /\ refused' \in BOOLEAN /\ trouble' \in BOOLEAN
  BY <1>5 DEF IInv, TypeOK
<1>7. /\ TypeOK' /\ Settled' /\ Queue'
      /\ Len(toClient') = Len(toClient) + Len(codes)
      /\ \A i \in 1..Len(toClient) : toClient'[i] = toClient[i]
      /\ \A i \in 1..Len(codes) : toClient'[Len(toClient) + i] = codes[i]
      /\ \A i \in 1..Len(toClient') : i \in 1..Len(toClient) \/ i - Len(toClient) \in 1..Len(codes)
      /\ Script' = Script /\ QuitAt' = QuitAt /\ BodyAt' = BodyAt /\ DataAt' = DataAt /\ RcptAt' = RcptAt /\ MailAt' = MailAt
  BY <1>5, <1>6, ServeFrame
<1>8. Stage' /\ Clean' /\ Once' /\ Given'
  <2>1. ~ OnTrack' /\ Due' > BodyAt' /\ Due' # 2 /\ ~ (Due' <= DataAt')
    BY <1>1, <1>3, <1>7 DEF OnTrack
  <2> QED BY <1>1, <1>3, <1>7, <2>1 DEF Stage, Clean, Once, Given
<1>9. Taken'
  <2>1. ASSUME delivered' # "no", ~ refused
        PROVE  /\ result # "failed"
               /\ result = "pending" => \/ pos > BodyAt
                                        \/ pos = BodyAt /\ turn = "read" /\ toClient' # <<>> /\ Head(toClient') < 4
    <3>1. server = "data" /\ codes # <<>> /\ codes[1] = 2 /\ OnTrack
      BY <1>3, <1>5, <2>1 DEF OnTrack
    <3>2. pos >= BodyAt /\ (turn = "write" => pos > BodyAt)
      BY <1>1, <1>3 DEF Written
    <3>3. result # "failed"
      <4>1. ~ (pos < BodyAt) /\ ~ (Due > BodyAt)
        BY <1>1, <1>3, <3>2
      <4> QED BY <1>2, <2>1, <3>1, <4>1 DEF IInv, Given
    <3>4. result = "pending" => turn \in {"read", "write"}
      BY <3>1 DEF IInv, Settled, TypeOK
    <3>5. toClient' # <<>> /\ Head(toClient') = toClient'[1] /\ toClient'[1] < 4
      <4>1. Len(codes) \in Nat /\ Len(codes) > 0
        BY <3>1, First
      <4>2. toClient' # <<>> /\ Head(toClient') = toClient'[1]
        <5>1. toClient' \in Seq(Codes \ {0}) /\ Len(toClient') > 0
          BY <1>1, <1>7, <4>1 DEF TypeOK
        <5> QED BY <5>1, First
      <4>3. CASE Len(toClient) = 0
        <5>1. toClient'[0 + 1] = codes[1]
          BY <1>7, <4>1, <4>3
        <5> QED BY <3>1, <4>2, <5>1
      <4>4. CASE Len(toClient) > 0
        <5>1. 1 \in 1..Len(toClient) /\ toClient'[1] = toClient[1]
          BY <1>1, <1>7, <4>4
        <5>2. toClient[1] < 4
          BY <1>2, <2>1, <3>1, <5>1 DEF IInv, Clean
        <5> QED BY <4>2, <5>1, <5>2
      <4> QED BY <1>1, <4>3, <4>4
    <3> QED BY <1>1, <3>2, <3>3, <3>4, <3>5
  <2> QED BY <1>2, <1>5, <1>7, <2>1 DEF Taken, client
<1> QED BY <1>7, <1>8, <1>9 DEF IInv

LEMMA QuitStep ==
  ASSUME IInv, Serve, ServeQuit(Head(toServer))
  PROVE  IInv'
<1>1. /\ QuitAt \in 7..10 /\ BodyAt = QuitAt - 1 /\ Due \in 2..QuitAt /\ Due' = Due + 1 /\ Len(toClient) \in Nat
      /\ toClient # <<>> => Head(toClient) = toClient[1] /\ Len(toClient) > 0
  BY Basics, Served
<1>2. Open /\ mode = "smtp" /\ auth \in BOOLEAN /\ Head(toServer) = Script[Due] /\ UNCHANGED <<config, client>>
  BY Basics, Served
<1>3. Head(toServer) = "QUIT" /\ Reply("gone", 2, <<>>) /\ UNCHANGED <<delivered, refused>>
  BY DEF ServeQuit
<1>4. Due = QuitAt
  BY <1>1, <1>2, <1>3, Places
<1>5. /\ server' = "gone" /\ trouble' \in BOOLEAN
      /\ \E codes \in Seq(Codes \ {0}) : toClient' = toClient \o codes
  <2>1. TypeOK /\ 2 \in Codes \ {0} /\ <<>> \in Seq(Codes \ {0})
    BY DEF IInv, Codes, Bad
  <2> QED BY <1>3, <2>1, Replied
<1>6. delivered' \in {"no", "part", "whole"} /\ refused' \in BOOLEAN
  BY <1>3 DEF IInv, TypeOK
<1>7. PICK codes \in Seq(Codes \ {0}) : toClient' = toClient \o codes
  BY <1>5
<1>8. /\ TypeOK' /\ Settled' /\ Queue'
      /\ Len(toClient') = Len(toClient) + Len(codes)
      /\ \A i \in 1..Len(toClient) : toClient'[i] = toClient[i]
      /\ \A i \in 1..Len(codes) : toClient'[Len(toClient) + i] = codes[i]
      /\ \A i \in 1..Len(toClient') : i \in 1..Len(toClient) \/ i - Len(toClient) \in 1..Len(codes)
      /\ Script' = Script /\ QuitAt' = QuitAt /\ BodyAt' = BodyAt /\ DataAt' = DataAt /\ RcptAt' = RcptAt /\ MailAt' = MailAt
  BY <1>4, <1>5, <1>6, <1>7, ServeFrame
<1>9. Stage' /\ Clean' /\ Once' /\ Given'
  BY <1>5 DEF Stage, Clean, Once, Given, Open
<1>10. toClient # <<>> => toClient' # <<>> /\ Head(toClient') = Head(toClient)
  <2>1. ASSUME toClient # <<>> PROVE toClient' # <<>> /\ Head(toClient') = Head(toClient)
    <3>1. toClient' \in Seq(Codes \ {0}) /\ Len(toClient') > 0
      <4>1. Len(toClient') = Len(toClient) + Len(codes) /\ Len(codes) \in Nat
        BY <1>8, LenProperties
      <4> QED BY <1>1, <1>8, <2>1, <4>1 DEF TypeOK
    <3>2. toClient' # <<>> /\ Head(toClient') = toClient'[1]
      BY <3>1, First
    <3>3. toClient'[1] = toClient[1]
      BY <1>1, <1>8, <2>1
    <3> QED BY <1>1, <2>1, <3>2, <3>3
  <2> QED BY <2>1
<1>11. Taken'
  BY <1>2, <1>3, <1>8, <1>10 DEF IInv, Taken, client, config
<1> QED BY <1>8, <1>9, <1>11 DEF IInv

LEMMA HangUpStep ==
  ASSUME IInv, HangUp
  PROVE  IInv'
<1>1. /\ mode = "smtp" /\ turn # "start" /\ server # "gone" /\ server' = "gone" /\ toServer' = <<>> /\ trouble' = TRUE
      /\ UNCHANGED <<config, client, toClient, delivered, refused>>
  BY DEF HangUp
<1>2. Script' = Script /\ QuitAt' = QuitAt /\ BodyAt' = BodyAt /\ ~ Open'
  BY <1>1, SameScript DEF Open
<1>3. TypeOK'
  <2>1. toServer' \in Seq(ToSet(Script'))
    BY <1>1
  <2>2. {trouble', refused'} \subseteq BOOLEAN
    <3>1. refused \in BOOLEAN
      BY DEF IInv, TypeOK
    <3> QED BY <1>1, <3>1, Zenon
  <2> QED BY <1>1, <2>1, <2>2 DEF IInv, TypeOK, config, client
<1>4. Settled'
  BY <1>1, <1>2 DEF IInv, Settled, config, client
<1>5. Queue'
  <2>1. Len(toServer') = 0
    BY <1>1
  <2> QED BY <1>1, <2>1 DEF Queue
<1>6. Stage' /\ Clean' /\ Once' /\ Given'
  BY <1>1, <1>2 DEF Stage, Clean, Once, Given
<1>7. Taken'
  BY <1>1, <1>2 DEF IInv, Taken, config, client
<1> QED BY <1>3, <1>4, <1>5, <1>6, <1>7 DEF IInv

LEMMA Keeps == IInv /\ [Next]_vars => IInv'
<1> SUFFICES ASSUME IInv, [Next]_vars PROVE IInv'
  OBVIOUS
<1>1. CASE Refuse \/ Webhook \/ CurlExits \/ Connect
  BY <1>1, StartStep
<1>2. CASE Write
  BY <1>2, WriteStep
<1>3. CASE \E code \in Codes : ReadLine(code)
  BY <1>3, ReadStep
<1>4. CASE Greet
  BY <1>4, GreetStep
<1>5. CASE Serve
  <2>1. ServeCommand(Head(toServer)) \/ ServeBody(Head(toServer)) \/ ServeQuit(Head(toServer))
    BY <1>5 DEF Serve
  <2> QED BY <1>5, <2>1, CommandStep, BodyStep, QuitStep
<1>6. CASE HangUp
  BY <1>6, HangUpStep
<1>7. CASE UNCHANGED vars
  <2>1. UNCHANGED <<config, client, toServer, toClient, server, fate>>
    BY <1>7 DEF vars
  <2>2. Script' = Script /\ QuitAt' = QuitAt /\ BodyAt' = BodyAt /\ DataAt' = DataAt /\ RcptAt' = RcptAt /\ MailAt' = MailAt
    BY <2>1, SameScript
  <2>3. Written' = Written /\ Open' = Open
    BY <2>1 DEF Written, Open, client
  <2>4. Due' = Due
    BY <2>1, <2>3 DEF Due
  <2>5. OnTrack' = OnTrack
    BY <2>1, <2>2, <2>4 DEF OnTrack
  <2>6. TypeOK'
    BY <2>1, <2>2 DEF IInv, TypeOK, config, client, fate
  <2>7. Settled' /\ Queue' /\ Stage'
    BY <2>1, <2>2, <2>3, <2>4 DEF IInv, Settled, Queue, Stage, config, client, fate
  <2>8. Clean' /\ Once' /\ Taken' /\ Given'
    BY <2>1, <2>2, <2>3, <2>4, <2>5 DEF IInv, Clean, Once, Taken, Given, config, client, fate
  <2> QED BY <2>6, <2>7, <2>8 DEF IInv
<1> QED BY <1>1, <1>2, <1>3, <1>4, <1>5, <1>6, <1>7 DEF Next, Client

LEMMA Inductive == Spec => []IInv
BY Begin, Keeps, PTL DEF Spec

-----------------------------------------------------------------------------
(* The theorems.                                                             *)

\* Every variable keeps its type; the client stays within its script and the
\* server has only commands of it to read, whatever it answers (smtp.c 97-133).
THEOREM TypeCorrect == Spec => []TypeOK
BY Inductive, PTL DEF IInv

\* Whatever the server does, and however many lines its greeting and its replies
\* have, a mail reported as failed is not taken, now or later, unless the server
\* takes one after it rejected EHLO or the login (smtp.c 97-127).
THEOREM Retry == Spec => []RetryIsSafe
<1>1. IInv => RetryIsSafe
  BY DEF IInv, Taken, RetryIsSafe
<1> QED BY <1>1, Inductive, PTL

-----------------------------------------------------------------------------
(* The refinement of Forwarding.                                             *)

Waiting == turn \in {"read", "write"}

\* Without trouble each command gets one line: client and server stay in step, a
\* rejection is read at once, and the last reply read tells of the text.
InStep ==
  ~ trouble =>
    /\ body = "whole"
    /\ Open /\ Waiting => Len(toClient) = Due - pos
    /\ turn = "done" => toServer = <<>>
    /\ server = "gone" /\ Waiting =>
         /\ turn = "read" /\ toClient # <<>>
         /\ pos = QuitAt \/ (pos = 1 /\ Head(toClient) >= 4 /\ delivered = "no")
    /\ Open /\ Waiting /\ Due <= BodyAt /\ ~ OnTrack =>
         toClient # <<>> /\ Head(toClient) >= 4 /\ pos \in {MailAt, RcptAt, DataAt}
    /\ Open /\ Waiting /\ pos = BodyAt /\ Due > BodyAt =>
         toClient # <<>> /\ (delivered = "whole" <=> Head(toClient) < 4)
    /\ pos = QuitAt /\ Waiting => delivered = "whole"
    /\ turn = "curl" => (delivered = "whole" <=> toClient # <<>>)

LEMMA BeginInStep ==
  ASSUME Init
  PROVE  InStep
<1>1. turn = "start" /\ server = "greet" /\ trouble = (body # "whole")
  BY DEF Init
<1> QED BY <1>1 DEF InStep, Waiting

LEMMA StartInStep ==
  ASSUME IInv, InStep, Refuse \/ Webhook \/ CurlExits \/ Connect
  PROVE  InStep'
<1>1. /\ server = "greet" /\ pos = 1 /\ toServer = <<>> /\ turn \in {"start", "curl"} /\ server' = server /\ pos' = 1
      /\ toServer' = <<>> /\ UNCHANGED config /\ (turn = "start" => toClient = <<>> /\ delivered = "no")
  <2>1. turn \in {"start", "curl"} /\ UNCHANGED <<config, server, pos, toServer, refused>>
    BY DEF Refuse, Webhook, CurlExits, Connect, End, fate
  <2>2. server = "greet" /\ pos = 1 /\ (turn = "start" => toClient = <<>> /\ delivered = "no")
    BY <2>1 DEF IInv, Settled
  <2> QED BY <2>1, <2>2 DEF IInv, Queue, Open
<1>2. QuitAt' = QuitAt /\ QuitAt \in 7..10 /\ ~ Open'
  BY <1>1, SameScript, Basics DEF Open
<1>3. ~ trouble' => ~ trouble
  BY DEF Refuse, Webhook, CurlExits, Connect, fate
<1>4. ~ trouble' /\ turn' = "curl" => (delivered' = "whole" <=> toClient' # <<>>)
  <2>1. ASSUME Webhook, ~ trouble' PROVE delivered' = "whole" <=> toClient' # <<>>
    <3>1. << 2 >> # <<>> /\ delivered # "whole"
      BY <1>1, <2>1 DEF Webhook
    <3>2. \/ delivered' = "whole" /\ toClient' = << 2 >>
          \/ delivered' = delivered /\ toClient' = <<>>
          \/ trouble' = TRUE
      BY <2>1 DEF Webhook, fate
    <3> QED BY <2>1, <3>1, <3>2
  <2>2. ~ Webhook => turn' # "curl"
    BY DEF Refuse, CurlExits, Connect, End
  <2> QED BY <2>1, <2>2
<1>5. ~ (pos' = QuitAt') /\ server' # "gone"
  BY <1>1, <1>2
<1> QED BY <1>1, <1>2, <1>3, <1>4, <1>5 DEF InStep, config

LEMMA WriteInStep ==
  ASSUME IInv, InStep, Write
  PROVE  InStep'
<1>1. turn = "write" /\ UNCHANGED <<config, pos, toClient, server, fate>>
  BY DEF Write, End
<1>2. /\ QuitAt' = QuitAt /\ BodyAt' = BodyAt /\ DataAt' = DataAt /\ RcptAt' = RcptAt /\ MailAt' = MailAt
  BY <1>1, SameScript
<1>3. ASSUME ~ trouble PROVE turn' = "read" /\ Due' = Due
  <2>1. server # "gone"
    BY <1>1, <1>3 DEF InStep, Waiting
  <2>2. turn' = "read" /\ toServer' = Append(toServer, Script[pos])
    BY <2>1 DEF Write
  <2>3. pos \in 2..QuitAt /\ auth \in BOOLEAN /\ toServer \in Seq(ToSet(Script)) /\ pos \in Int
    BY <1>1, Basics DEF IInv, Settled
  <2>4. Script[pos] \in ToSet(Script)
    BY <2>3, Places
  <2>5. Len(toServer') = Len(toServer) + 1 /\ Len(toServer) \in Nat
    BY <2>2, <2>3, <2>4, Grown
  <2>6. Written = pos - 1 /\ Written' = pos
    BY <1>1, <2>2 DEF Written
  <2>7. Due = Written - Len(toServer) + 1 /\ Due' = Written' - Len(toServer') + 1
    BY DEF Due
  <2> QED BY <2>2, <2>3, <2>5, <2>6, <2>7
<1>4. ~ trouble => OnTrack' = OnTrack
  BY <1>1, <1>2, <1>3 DEF OnTrack
<1>5. ASSUME ~ trouble PROVE server # "gone"
  BY <1>1, <1>5 DEF InStep, Waiting
<1>6. trouble' = trouble /\ Open' = Open /\ Waiting
  BY <1>1 DEF fate, Open, Waiting
<1> QED BY <1>1, <1>2, <1>3, <1>4, <1>5, <1>6 DEF InStep, Waiting, config, fate

LEMMA ReadInStep ==
  ASSUME IInv, InStep, NEW code \in Codes, ReadLine(code)
  PROVE  InStep'
<1> SUFFICES ASSUME ~ trouble PROVE InStep'
  BY DEF InStep, ReadLine, fate
<1>1. turn = "read" /\ UNCHANGED <<config, toServer, server, fate>> /\ Waiting
  BY DEF ReadLine, Waiting
<1>2. Script' = Script /\ QuitAt' = QuitAt /\ BodyAt' = BodyAt /\ DataAt' = DataAt /\ RcptAt' = RcptAt /\ MailAt' = MailAt
  BY <1>1, SameScript
<1>3. /\ QuitAt \in 7..10 /\ BodyAt = QuitAt - 1 /\ DataAt = QuitAt - 2 /\ RcptAt = QuitAt - 3 /\ MailAt = QuitAt - 4
      /\ pos \in 1..QuitAt /\ Due = pos - Len(toServer) + 1
      /\ Len(toServer) \in Nat /\ (toServer = <<>> <=> Len(toServer) = 0)
      /\ Len(toClient) \in Nat /\ (toClient = <<>> <=> Len(toClient) = 0) /\ toClient \in Seq(Codes \ {0})
  BY <1>1, Basics DEF Written
<1>4. mode = "smtp" /\ server # "greet"
  <2>1. mode = "smtp" /\ (server = "greet" => toClient = <<>>)
    BY <1>1 DEF IInv, Settled
  <2> QED BY <2>1 DEF ReadLine
<1>5. toClient # <<>> /\ code = Head(toClient) /\ toClient' = Tail(toClient)
  BY <1>1 DEF ReadLine, InStep
<1>6. Len(toClient') = Len(toClient) - 1
  BY <1>3, <1>5, Shorter
<1>7. Open => Len(toClient) = 1 /\ toServer = <<>> /\ Due = pos + 1
  <2>1. ASSUME Open PROVE Len(toClient) = 1 /\ Len(toServer) = 0 /\ Due = pos + 1
    <3>1. Len(toClient) = Due - pos
      BY <1>1, <2>1 DEF InStep
    <3>2. Len(toClient) >= 1
      BY <1>3, <1>5
    <3>3. Len(toClient) = 1 - Len(toServer)
      BY <1>3, <3>1
    <3>4. Len(toClient) = 1 /\ Len(toServer) = 0
      BY <1>3, <3>2, <3>3
    <3> QED BY <1>3, <3>4
  <2> QED BY <1>3, <2>1
<1>8. toServer = <<>> /\ toServer' = <<>>
  BY <1>1, <1>7 DEF IInv, Queue
<1>9. \/ turn' = "done"
      \/ GoesOn(Script[pos], code) /\ pos < QuitAt /\ turn' = "write" /\ pos' = pos + 1
  BY DEF ReadLine, End, NextPos, QuitAt
<1>10. CASE turn' = "done"
  BY <1>1, <1>8, <1>10 DEF InStep, Waiting, config, fate
<1>11. CASE GoesOn(Script[pos], code) /\ pos < QuitAt /\ turn' = "write" /\ pos' = pos + 1
  <2>1. /\ pos = 1 => Script[pos] = "CONNECT"
        /\ pos = BodyAt => Script[pos] = "BODY"
        /\ pos = MailAt => Script[pos] = "MAIL"
        /\ pos = RcptAt => Script[pos] = "RCPT"
        /\ pos = DataAt => Script[pos] = "DATA"
    BY Basics, ScriptIs
  <2>2. server # "gone"
    <3>1. server = "gone" => pos = 1 /\ code >= 4
      BY <1>1, <1>3, <1>5, <1>11 DEF InStep
    <3>2. pos = 1 => code \in {2, 3}
      BY <1>11, <2>1 DEF GoesOn
    <3> QED BY <3>1, <3>2
  <2>3. Open /\ Open'
    BY <1>1, <1>4, <2>2 DEF Open
  <2>4. Due' = Due /\ Due = pos' /\ Len(toClient') = 0 /\ Len(toClient') = Due' - pos'
    <3>1. Written' = pos' - 1 /\ Due' = Written' - Len(toServer') + 1 /\ Len(toServer') = 0
      BY <1>8, <1>11 DEF Written, Due
    <3>2. Due = pos + 1 /\ Len(toClient') = 0
      BY <1>6, <1>7, <2>3
    <3>3. pos' = pos + 1 /\ Due' = pos'
      BY <1>3, <1>11, <3>1
    <3> QED BY <1>3, <3>2, <3>3
  <2>5. pos \in {MailAt, RcptAt, DataAt, BodyAt} => code < 4
    BY <1>11, <2>1 DEF GoesOn
  <2>6. OnTrack' = OnTrack
    BY <1>1, <1>2, <2>4 DEF OnTrack
  <2>7. Due <= BodyAt => OnTrack
    <3>1. code \in Int
      BY DEF Codes, Bad
    <3>2. Due <= BodyAt /\ ~ OnTrack => code >= 4 /\ pos \in {MailAt, RcptAt, DataAt}
      BY <1>1, <1>5, <2>3 DEF InStep
    <3> QED BY <2>5, <3>1, <3>2
  <2>8. pos' = QuitAt => delivered = "whole"
    <3>1. ASSUME pos' = QuitAt PROVE pos = BodyAt /\ Due > BodyAt
      BY <1>3, <1>7, <1>11, <2>3, <3>1
    <3>2. ASSUME pos = BodyAt, Due > BodyAt PROVE delivered = "whole"
      BY <1>1, <1>5, <2>3, <2>5, <3>2 DEF InStep
    <3> QED BY <3>1, <3>2
  <2>9. ~ (pos' = BodyAt /\ Due' > BodyAt)
    BY <1>3, <1>11, <2>4
  <2>10. body' = "whole" /\ delivered' = delivered
    BY <1>1 DEF InStep, config, fate
  <2> QED BY <1>1, <1>2, <1>11, <2>2, <2>3, <2>4, <2>6, <2>7, <2>8, <2>9, <2>10 DEF InStep
<1> QED BY <1>9, <1>10, <1>11

LEMMA GreetInStep ==
  ASSUME IInv, InStep, Greet
  PROVE  InStep'
<1> SUFFICES ASSUME ~ trouble' PROVE InStep'
  BY DEF InStep
<1>1. turn = "read" /\ server = "greet" /\ UNCHANGED <<config, client, toServer, delivered, refused>>
  BY DEF Greet, Reply
<1>2. QuitAt' = QuitAt /\ BodyAt' = BodyAt /\ MailAt' = MailAt /\ QuitAt \in 7..10 /\ BodyAt = QuitAt - 1 /\ MailAt = QuitAt - 4
  BY <1>1, SameScript, Basics
<1>3. pos = 1 /\ toClient = <<>> /\ delivered = "no" /\ toServer = <<>>
  BY <1>1 DEF IInv, Settled, Queue, Open
<1>4. Due' = 2
  <2>1. Written' = 1 /\ Due' = Written' - Len(toServer') + 1 /\ Len(toServer') = 0
    BY <1>1, <1>3 DEF client, Written, Due
  <2> QED BY <2>1
<1>5. /\ ~ trouble
      /\ \/ server' = "ready" /\ toClient' = << 2 >>
         \/ server' = "gone" /\ \E c \in Bad : toClient' = <<c>>
  <2>1. TypeOK /\ <<>> \in Seq(Codes \ {0}) /\ 2 \in Codes \ {0} /\ Bad \subseteq Codes \ {0}
    BY DEF IInv, Codes, Bad
  <2>2. ASSUME NEW s, NEW c \in Codes \ {0}, Reply(s, c, <<>>) PROVE server' = s /\ toClient' = <<c>> /\ ~ trouble
    <3>1. PICK codes \in Seq(Codes \ {0}) : toClient' = toClient \o codes /\ codes = <<c>>
      BY <2>1, <2>2, Replied
    <3>2. toClient' = codes
      BY <1>3, <3>1, ConcatEmptySeq
    <3> QED BY <2>1, <2>2, <3>1, <3>2, Replied
  <2>3. CASE Reply("ready", 2, <<>>)
    BY <2>1, <2>2, <2>3
  <2>4. ASSUME NEW c \in Bad, Reply("gone", c, <<>>) PROVE server' = "gone" /\ toClient' = <<c>> /\ ~ trouble
    BY <2>1, <2>2, <2>4
  <2> QED BY <2>3, <2>4 DEF Greet
<1>6. CASE server' = "ready" /\ toClient' = << 2 >>
  <2>1. Len(toClient') = 1 /\ OnTrack'
    BY <1>2, <1>4, <1>6 DEF OnTrack
  <2> QED BY <1>1, <1>2, <1>3, <1>4, <1>5, <1>6, <2>1 DEF InStep, Open, client, config
<1>7. ASSUME NEW c \in Bad, server' = "gone", toClient' = <<c>> PROVE InStep'
  <2>1. toClient' # <<>> /\ Head(toClient') >= 4
    BY <1>7 DEF Bad
  <2> QED BY <1>1, <1>2, <1>3, <1>5, <1>7, <2>1 DEF InStep, Open, client, config
<1> QED BY <1>5, <1>6, <1>7

\* Without trouble the server takes a command only while the client waits for
\* its reply, and none that it must reject for an earlier one.
LEMMA Turns ==
  ASSUME IInv, InStep, Serve, ~ trouble
  PROVE  turn = "read" /\ result = "pending" /\ pos = Due /\ toClient = <<>> /\ toServer' = <<>> /\ (Due <= BodyAt => OnTrack)
<1>1. /\ Open /\ mode = "smtp" /\ Due <= Written /\ Due' = Due + 1 /\ Written' = Written /\ toServer' \in Seq(ToSet(Script))
  BY Served
<1>2. /\ pos \in Int /\ Due \in Int /\ Len(toClient) \in Nat /\ (toClient = <<>> <=> Len(toClient) = 0)
  BY Basics
<1>3. Waiting
  <2>1. toServer # <<>>
    BY DEF Serve
  <2>2. turn # "done"
    BY <2>1 DEF InStep
  <2>3. turn \notin {"start", "curl"}
    BY <1>1 DEF IInv, Settled, Open
  <2> QED BY <2>2, <2>3 DEF IInv, TypeOK, Waiting
<1>4. Len(toClient) = Due - pos
  BY <1>1, <1>3 DEF InStep
<1>5. turn = "read" /\ pos = Due
  <2>1. CASE turn = "write"
    BY <1>1, <1>2, <1>4, <2>1 DEF Written
  <2>2. CASE turn = "read"
    BY <1>1, <1>2, <1>4, <2>2 DEF Written
  <2> QED BY <1>3, <2>1, <2>2 DEF Waiting
<1>6. toClient = <<>>
  BY <1>2, <1>4, <1>5
<1>7. Due <= BodyAt => OnTrack
  BY <1>1, <1>3, <1>6 DEF InStep
<1>8. toServer' = <<>>
  <2>1. Due' = Written' - Len(toServer') + 1 /\ Written = pos
    BY <1>5 DEF Due, Written
  <2>2. Len(toServer') \in Nat /\ (toServer' = <<>> <=> Len(toServer') = 0)
    BY <1>1, First
  <2> QED BY <1>1, <1>2, <1>5, <2>1, <2>2
<1> QED BY <1>5, <1>6, <1>7, <1>8 DEF IInv, Settled

LEMMA ServeInStep ==
  ASSUME IInv, InStep, Serve
  PROVE  InStep'
<1> DEFINE cmd == Head(toServer)
<1>1. ServeCommand(cmd) \/ ServeBody(cmd) \/ ServeQuit(cmd)
  BY DEF Serve
<1>2. cmd = Script[Due] /\ Open /\ mode = "smtp" /\ UNCHANGED <<config, client>> /\ Due' = Due + 1 /\ Due \in 2..QuitAt
  BY Served
<1> HIDE DEF cmd
<1>3. trouble => trouble'
  BY <1>1 DEF ServeCommand, ServeBody, ServeQuit, Accepts, Reply
<1> SUFFICES ASSUME ~ trouble, ~ trouble' PROVE InStep'
  BY <1>3 DEF InStep
<1>4. turn = "read" /\ pos = Due /\ toClient = <<>> /\ toServer' = <<>> /\ (Due <= BodyAt => OnTrack)
  BY Turns
<1>5. /\ QuitAt \in 7..10 /\ BodyAt = QuitAt - 1 /\ DataAt = QuitAt - 2 /\ RcptAt = QuitAt - 3 /\ MailAt = QuitAt - 4
      /\ auth \in BOOLEAN
      /\ QuitAt' = QuitAt /\ BodyAt' = BodyAt /\ DataAt' = DataAt /\ RcptAt' = RcptAt /\ MailAt' = MailAt
  BY <1>2, SameScript, Basics
<1>6. body' = "whole" /\ turn' = "read" /\ pos' = Due
  BY <1>2, <1>4 DEF InStep, config, client
<1>7. ASSUME NEW s, NEW c \in Codes \ {0}, Reply(s, c, <<>>) PROVE toClient' = <<c>> /\ server' = s
  <2>1. TypeOK /\ <<>> \in Seq(Codes \ {0})
    BY DEF IInv
  <2>2. PICK codes \in Seq(Codes \ {0}) : toClient' = toClient \o codes /\ codes = <<c>>
    BY <1>7, <2>1, Replied
  <2>3. toClient' = codes
    BY <1>4, <2>2, ConcatEmptySeq
  <2> QED BY <1>7, <2>1, <2>2, <2>3, Replied
<1>8. CASE ServeCommand(cmd)
  <2>1. /\ server \in {"ready", "mail", "rcpt"} /\ cmd \notin {"BODY", "QUIT"} /\ delivered' = delivered
        /\ (InPlace(cmd) /\ Accepts(cmd)) \/ \E c \in Bad : Reply(server, c, <<>>)
    BY <1>8 DEF ServeCommand
  <2>2. Due \in 2..DataAt
    <3>1. Due # BodyAt /\ Due # QuitAt
      BY <1>2, <1>5, <2>1, Places
    <3> QED BY <1>2, <1>5, <3>1
  <2>3. CASE InPlace(cmd) /\ Accepts(cmd)
    <3>1. PICK c \in {2, 3} : Reply(After(cmd), c, <<>>)
      BY <2>3 DEF Accepts
    <3>2. toClient' = <<c>> /\ server' = After(cmd)
      <4>1. c \in Codes \ {0}
        BY DEF Codes, Bad
      <4> QED BY <1>7, <3>1, <4>1
    <3>3. /\ cmd \in Login <=> Due \in 2..(MailAt - 1)
          /\ cmd = "MAIL" <=> Due = MailAt
          /\ cmd = "RCPT" <=> Due = RcptAt
          /\ cmd = "DATA" <=> Due = DataAt
      BY <1>2, <1>5, Places
    <3>4. \/ Due \in 2..(MailAt - 1) /\ server' = "ready"
          \/ Due = MailAt /\ server' = "mail"
          \/ Due = RcptAt /\ server' = "rcpt"
          \/ Due = DataAt /\ server' = "data"
      <4>1. \/ cmd \in Login /\ server' = "ready"
            \/ cmd = "MAIL" /\ server' = "mail"
            \/ cmd = "RCPT" /\ server' = "rcpt"
            \/ cmd = "DATA" /\ server' = "data"
        BY <2>3, <3>2 DEF InPlace, After, Login
      <4> QED BY <3>3, <4>1
    <3>5. OnTrack'
      BY <1>2, <1>5, <3>4 DEF OnTrack
    <3>6. Len(toClient') = 1 /\ Due' - pos' = 1 /\ server' # "gone" /\ pos' # BodyAt /\ pos' # QuitAt
      BY <1>2, <1>5, <1>6, <2>2, <3>2, <3>4
    <3> QED BY <1>5, <1>6, <3>5, <3>6 DEF InStep
  <2>4. ASSUME NEW c \in Bad, Reply(server, c, <<>>) PROVE InStep'
    <3>1. toClient' = <<c>> /\ server' = server /\ c >= 4
      <4>1. c \in Codes \ {0} /\ c >= 4
        BY DEF Codes, Bad
      <4> QED BY <1>7, <2>4, <4>1
    <3>2. Due < MailAt => OnTrack'
      <4>1. ASSUME Due < MailAt PROVE server = "ready" /\ Due' <= MailAt
        BY <1>2, <1>5, <2>2, <4>1 DEF IInv, Stage
      <4> QED BY <1>5, <3>1, <4>1 DEF OnTrack
    <3>3. Due < MailAt \/ Due \in {MailAt, RcptAt, DataAt}
      BY <1>2, <1>5, <2>2
    <3>4. Len(toClient') = 1 /\ toClient' # <<>> /\ Head(toClient') >= 4
      BY <3>1
    <3>5. Due' - pos' = 1 /\ server' # "gone" /\ pos' # BodyAt /\ pos' # QuitAt
      BY <1>2, <1>5, <1>6, <2>1, <2>2, <3>1
    <3> QED BY <1>5, <1>6, <3>2, <3>3, <3>4, <3>5 DEF InStep
  <2> QED BY <2>1, <2>3, <2>4
<1>10. CASE ServeBody(cmd)
  <2>1. Due = BodyAt
    BY <1>2, <1>5, <1>10, Places DEF ServeBody
  <2>2. server = "data"
    BY <1>4, <1>5, <2>1 DEF OnTrack
  <2>3. body = "whole"
    BY DEF InStep
  <2>4. PICK c \in {2} \cup Bad : Reply("ready", c, <<>>) /\ delivered' = IF c # 2 THEN "no" ELSE "whole"
    BY <1>10, <2>2, <2>3 DEF ServeBody
  <2>5. toClient' = <<c>> /\ server' = "ready"
    <3>1. c \in Codes \ {0}
      BY DEF Codes, Bad
    <3> QED BY <1>7, <2>4, <3>1
  <2>6. Len(toClient') = 1 /\ toClient' # <<>> /\ Head(toClient') = c /\ (delivered' = "whole" <=> c < 4)
    BY <2>4, <2>5 DEF Bad
  <2>7. Due' - pos' = 1 /\ pos' = BodyAt /\ pos' # QuitAt /\ ~ (Due' <= BodyAt)
    BY <1>2, <1>5, <1>6, <2>1
  <2> QED BY <1>5, <1>6, <2>5, <2>6, <2>7 DEF InStep
<1>11. CASE ServeQuit(cmd)
  <2>1. Due = QuitAt /\ server' = "gone" /\ delivered' = delivered
    BY <1>2, <1>5, <1>11, Places DEF ServeQuit, Reply
  <2>2. toClient' = << 2 >>
    <3>1. 2 \in Codes \ {0}
      BY DEF Codes, Bad
    <3>2. Reply("gone", 2, <<>>)
      BY <1>11 DEF ServeQuit
    <3> QED BY <1>7, <3>1, <3>2
  <2>3. delivered = "whole"
    BY <1>4, <2>1 DEF InStep, Waiting
  <2>4. toClient' # <<>> /\ pos' = QuitAt
    BY <1>6, <2>1, <2>2
  <2> QED BY <1>5, <1>6, <2>1, <2>3, <2>4 DEF InStep, Open
<1> QED BY <1>1, <1>8, <1>10, <1>11

LEMMA KeepsInStep == IInv /\ InStep /\ [Next]_vars => InStep'
<1> SUFFICES ASSUME IInv, InStep, [Next]_vars PROVE InStep'
  OBVIOUS
<1>1. CASE Refuse \/ Webhook \/ CurlExits \/ Connect
  BY <1>1, StartInStep
<1>2. CASE Write
  BY <1>2, WriteInStep
<1>3. CASE \E code \in Codes : ReadLine(code)
  BY <1>3, ReadInStep
<1>4. CASE Greet
  BY <1>4, GreetInStep
<1>5. CASE Serve
  BY <1>5, ServeInStep
<1>6. CASE HangUp
  BY <1>6 DEF HangUp, InStep
<1>7. CASE UNCHANGED vars
  <2>1. UNCHANGED <<config, client, toServer, toClient, server, fate>>
    BY <1>7 DEF vars
  <2>2. QuitAt' = QuitAt /\ BodyAt' = BodyAt /\ DataAt' = DataAt /\ RcptAt' = RcptAt /\ MailAt' = MailAt
    BY <2>1, SameScript
  <2>3. Written' = Written /\ Open' = Open /\ Waiting' = Waiting
    BY <2>1 DEF Written, Open, Waiting, client
  <2>4. Due' = Due
    BY <2>1, <2>3 DEF Due
  <2>5. OnTrack' = OnTrack
    BY <2>1, <2>2, <2>4 DEF OnTrack
  <2> QED BY <2>1, <2>2, <2>3, <2>4, <2>5 DEF InStep, config, client, fate
<1> QED BY <1>1, <1>2, <1>3, <1>4, <1>5, <1>6, <1>7 DEF Next, Client

\* Each end of the client tells what became of the message, or there is trouble.
LEMMA ToldByWebhook ==
  ASSUME IInv, InStep, CurlExits
  PROVE  Promise!Next
<1>1. turn = "curl" /\ result = "pending" /\ result' = (IF toClient = <<>> THEN "failed" ELSE "sent") /\ UNCHANGED fate
  BY DEF CurlExits, End, IInv, Settled
<1>2. ~ trouble => (delivered = "whole" <=> toClient # <<>>)
  BY <1>1 DEF InStep
<1>3. CASE trouble
  BY <1>1, <1>3 DEF Promise!Next, Promise!Guess, fate
<1>4. CASE ~ trouble
  BY <1>1, <1>2, <1>4 DEF Promise!Next, Promise!Report, fate
<1> QED BY <1>3, <1>4

LEMMA ToldByReply ==
  ASSUME IInv, InStep, NEW code \in Codes, ReadLine(code), result' # result
  PROVE  Promise!Next
<1>1. turn = "read" /\ result = "pending" /\ mode = "smtp" /\ UNCHANGED fate /\ auth \in BOOLEAN /\ Waiting
  BY Basics DEF ReadLine, IInv, Settled, Waiting
<1>2. /\ QuitAt \in 7..10 /\ BodyAt = QuitAt - 1 /\ DataAt = QuitAt - 2 /\ RcptAt = QuitAt - 3 /\ MailAt = QuitAt - 4
      /\ pos \in 1..QuitAt /\ Due = pos - Len(toServer) + 1 /\ Len(toServer) \in Nat
  BY <1>1, Basics DEF Written
<1>3. \/ ~ GoesOn(Script[pos], code) /\ result' = "failed"
      \/ GoesOn(Script[pos], code) /\ pos = QuitAt /\ result' = "sent"
  BY DEF ReadLine, End, QuitAt
<1>4. CASE trouble
  BY <1>1, <1>3, <1>4 DEF Promise!Next, Promise!Guess, fate
<1>5. CASE ~ trouble
  <2>1. ASSUME pos = QuitAt PROVE result' = "sent" /\ delivered = "whole"
    <3>1. GoesOn(Script[pos], code)
      BY <1>1, <2>1, ScriptIs DEF GoesOn
    <3> QED BY <1>1, <1>3, <1>5, <2>1, <3>1 DEF InStep
  <2>2. ASSUME pos # QuitAt PROVE result' = "failed" /\ delivered # "whole"
    <3>1. ~ GoesOn(Script[pos], code) /\ result' = "failed"
      BY <1>3, <2>2
    <3>2. CASE server = "gone"
      BY <1>1, <1>5, <2>2, <3>1, <3>2 DEF InStep
    <3>3. CASE server = "greet"
      BY <1>1, <3>1, <3>3 DEF IInv, Settled
    <3>4. CASE Open /\ Due > BodyAt
      <4>1. pos = BodyAt
        BY <1>2, <2>2, <3>4
      <4>2. toClient # <<>> /\ (delivered = "whole" <=> Head(toClient) < 4)
        BY <1>1, <1>5, <3>4, <4>1 DEF InStep
      <4>3. code = Head(toClient) /\ Script[pos] = "BODY"
        BY <1>1, <4>1, <4>2, ScriptIs DEF ReadLine
      <4> QED BY <3>1, <4>2, <4>3 DEF GoesOn
    <3>5. CASE Open /\ ~ (Due > BodyAt)
      BY <1>1, <3>1, <3>5 DEF IInv, Once, Open
    <3> QED BY <3>2, <3>3, <3>4, <3>5 DEF Open
  <2> QED BY <1>1, <1>5, <2>1, <2>2 DEF Promise!Next, Promise!Report, fate
<1> QED BY <1>4, <1>5

\* Before the text is served nothing is delivered.
LEMMA TextDue ==
  ASSUME IInv, Serve, ServeBody(Head(toServer))
  PROVE  delivered = "no"
<1>1. Open /\ mode = "smtp" /\ auth \in BOOLEAN /\ Head(toServer) = Script[Due] /\ Due \in 2..QuitAt /\ BodyAt = QuitAt - 1
      /\ QuitAt \in 7..10
  BY Served, Basics
<1>2. Due = BodyAt /\ BodyAt \in Int
  BY <1>1, Places DEF ServeBody
<1> QED BY <1>1, <1>2 DEF IInv, Once, Open

LEMMA Promised == IInv /\ InStep /\ [Next]_vars => [Promise!Next]_(Promise!vars)
<1> SUFFICES ASSUME IInv, InStep, [Next]_vars PROVE [Promise!Next]_(Promise!vars)
  OBVIOUS
<1> DEFINE Same == UNCHANGED <<delivered, result, trouble>>
<1>1. Same => [Promise!Next]_(Promise!vars)
  BY DEF Promise!vars
<1>2. CASE Refuse
  <2>1. result = "pending" /\ delivered = "no" /\ result' = "failed" /\ UNCHANGED fate
    BY <1>2 DEF Refuse, End, IInv, Settled
  <2>2. CASE trouble
    BY <2>1, <2>2 DEF Promise!Next, Promise!Guess, fate
  <2>3. CASE ~ trouble
    BY <2>1, <2>3 DEF Promise!Next, Promise!Report, fate
  <2> QED BY <2>2, <2>3
<1>3. CASE Webhook
  <2>1. result = "pending" /\ result' = result
    BY <1>3 DEF Webhook, IInv, Settled
  <2>2. \/ delivered' = "whole" /\ trouble' = trouble
        \/ Same
        \/ trouble' = TRUE /\ (delivered' = delivered \/ delivered' = "whole")
    BY <1>3, <2>1 DEF Webhook, fate
  <2>3. CASE delivered' = "whole" /\ trouble' = trouble
    BY <2>1, <2>3 DEF Promise!Next, Promise!Take
  <2>4. CASE trouble' = TRUE /\ (delivered' = delivered \/ delivered' = "whole")
    BY <2>1, <2>4 DEF Promise!Next, Promise!Disturb
  <2> QED BY <1>1, <2>2, <2>3, <2>4
<1>4. CASE CurlExits
  BY <1>4, ToldByWebhook
<1>5. CASE Connect
  BY <1>1, <1>5 DEF Connect, fate
<1>11. ASSUME UNCHANGED <<delivered, result>>, \E s, c, rest : Reply(s, c, rest) PROVE [Promise!Next]_(Promise!vars)
  <2>1. PICK n \in Lines : trouble' = (trouble \/ n > 1)
    BY <1>11 DEF Reply
  <2>2. trouble' = trouble \/ trouble' = TRUE
    BY <2>1 DEF IInv, TypeOK
  <2>3. CASE trouble' = TRUE
    BY <1>11, <2>3 DEF Promise!Next, Promise!Disturb
  <2> QED BY <1>1, <1>11, <2>2, <2>3
<1>12. CASE Greet
  BY <1>11, <1>12 DEF Greet, Reply, client
<1>6. CASE Write
  <2>1. CASE result' = result
    BY <1>1, <1>6, <2>1 DEF Write, fate
  <2>2. CASE result' # result
    <3>1. turn = "write" /\ server = "gone" /\ result' = "killed" /\ UNCHANGED fate
      BY <1>6, <2>2 DEF Write, End
    <3>2. result = "pending" /\ trouble
      BY <3>1 DEF IInv, Settled, InStep, Waiting
    <3> QED BY <3>1, <3>2 DEF Promise!Next, Promise!Guess, fate
  <2> QED BY <2>1, <2>2
<1>7. CASE \E code \in Codes : ReadLine(code)
  <2>1. PICK code \in Codes : ReadLine(code)
    BY <1>7
  <2>2. CASE result' = result
    BY <1>1, <2>1, <2>2 DEF ReadLine, fate
  <2>3. CASE result' # result
    BY <2>1, <2>3, ToldByReply
  <2> QED BY <2>2, <2>3
<1>8. CASE Serve
  <2>1. result' = result
    BY <1>8, Served DEF client
  <2>2. ServeCommand(Head(toServer)) \/ ServeBody(Head(toServer)) \/ ServeQuit(Head(toServer))
    BY <1>8 DEF Serve
  <2>3. CASE ServeCommand(Head(toServer)) \/ ServeQuit(Head(toServer))
    <3>1. delivered' = delivered /\ \E s, c, rest : Reply(s, c, rest)
      BY <2>3 DEF ServeCommand, ServeQuit, Accepts
    <3> QED BY <1>11, <2>1, <3>1
  <2>4. CASE ServeBody(Head(toServer)) /\ delivered' # "whole"
    <3>1. delivered = "no"
      BY <1>8, <2>4, TextDue
    <3>2. delivered' \in {"no", "part", "whole"} /\ (trouble' = trouble \/ trouble' = TRUE)
      <4>1. (\E s, c, rest : Reply(s, c, rest)) \/ trouble' = trouble
        BY <2>4 DEF ServeBody
      <4>2. trouble \in BOOLEAN
        BY DEF IInv, TypeOK
      <4>3. (\E n \in Lines : trouble' = (trouble \/ n > 1)) \/ trouble' = trouble
        BY <4>1 DEF Reply
      <4> QED BY <2>4, <3>1, <4>2, <4>3 DEF ServeBody
    <3>3. CASE trouble' = trouble
      BY <2>1, <2>4, <3>1, <3>3 DEF Promise!vars
    <3>4. CASE trouble' = TRUE
      BY <2>1, <2>4, <3>1, <3>4 DEF Promise!Next, Promise!Disturb
    <3> QED BY <3>2, <3>3, <3>4
  <2>5. CASE ServeBody(Head(toServer)) /\ delivered' = "whole"
    <3>1. result = "pending" \/ trouble
      BY <1>8, Turns
    <3>2. delivered = "no"
      BY <1>8, <2>5, TextDue
    <3>3. PICK n \in Lines : trouble' = (trouble \/ n > 1)
      BY <2>5, <3>2 DEF ServeBody, Reply
    <3>4. trouble' = trouble \/ trouble' = TRUE
      BY <3>3 DEF IInv, TypeOK
    <3>5. CASE trouble' = trouble
      BY <2>1, <2>5, <3>1, <3>5 DEF Promise!Next, Promise!Take
    <3>6. CASE trouble' = TRUE
      BY <2>1, <2>5, <3>6 DEF Promise!Next, Promise!Disturb
    <3> QED BY <3>4, <3>5, <3>6
  <2> QED BY <2>2, <2>3, <2>4, <2>5
<1>9. CASE HangUp
  BY <1>9 DEF HangUp, client, Promise!Next, Promise!Disturb
<1>10. CASE UNCHANGED vars
  BY <1>1, <1>10 DEF vars, client, fate
<1> QED BY <1>2, <1>3, <1>4, <1>5, <1>12, <1>6, <1>7, <1>8, <1>9, <1>10 DEF Next, Client

\* Forwarding one message does only what Forwarding allows: as long as there is no
\* trouble the message is taken or not, and then the report says which of the two.
\* Fairness apart, this is ReportsWhatHappened (sms_forward.c, smtp.c).
THEOREM KeepsThePromise == Spec => Promise!Init /\ [][Promise!Next]_(Promise!vars)
<1>1. Init => Promise!Init
  BY DEF Init, Promise!Init
<1>2. Init => IInv /\ InStep
  BY Begin, BeginInStep
<1>3. IInv /\ InStep /\ [Next]_vars => (IInv /\ InStep)'
  BY Keeps, KeepsInStep
<1> QED BY <1>1, <1>2, <1>3, Promised, PTL DEF Spec
=============================================================================
