-------------------------- MODULE ModemCommandsProofs --------------------------
(***************************************************************************)
(* What ModemCommands promises for any requests, any number of parts of a  *)
(* radio query, and any number of failing statements and crashes.          *)
(***************************************************************************)
EXTENDS ModemCommands, SequenceTheorems, FiniteSetTheorems, TLAPS

-----------------------------------------------------------------------------
(* Sequences as lists of different commands.                                 *)

LEMMA Joined ==
  ASSUME NEW S, NEW s \in Seq(S), NEW t \in Seq(S)
  PROVE  /\ ToSet(s \o t) = ToSet(s) \cup ToSet(t) /\ s \o t \in Seq(S)
         /\ IsInjective(s \o t) <=> IsInjective(s) /\ IsInjective(t) /\ ToSet(s) \cap ToSet(t) = {}
<1> DEFINE u == s \o t
<1>1. /\ u \in Seq(S) /\ DOMAIN u = 1..(Len(s) + Len(t)) /\ DOMAIN s = 1..Len(s) /\ DOMAIN t = 1..Len(t)
      /\ Len(s) \in Nat /\ Len(t) \in Nat
      /\ \A i \in 1..Len(s) : u[i] = s[i]
      /\ \A i \in 1..Len(t) : u[Len(s) + i] = t[i]
  OBVIOUS
<1> HIDE DEF u
<1>2. \A i \in DOMAIN u : i \in DOMAIN s \/ \E j \in DOMAIN t : i = Len(s) + j
  <2> TAKE i \in DOMAIN u
  <2>1. CASE i <= Len(s)
    BY <1>1, <2>1
  <2>2. CASE i > Len(s)
    <3>1. i - Len(s) \in DOMAIN t /\ i = Len(s) + (i - Len(s))
      BY <1>1, <2>2
    <3> QED BY <3>1
  <2> QED BY <1>1, <2>1, <2>2
<1>3. \A j \in DOMAIN t : Len(s) + j \in DOMAIN u
  BY <1>1
<1>4. ToSet(u) = ToSet(s) \cup ToSet(t)
  <2>1. ToSet(u) \subseteq ToSet(s) \cup ToSet(t)
    BY <1>1, <1>2 DEF ToSet
  <2>2. ToSet(s) \subseteq ToSet(u)
    BY <1>1 DEF ToSet
  <2>3. ToSet(t) \subseteq ToSet(u)
    BY <1>1, <1>3 DEF ToSet
  <2> QED BY <2>1, <2>2, <2>3
<1>5. ASSUME IsInjective(u) PROVE IsInjective(s) /\ IsInjective(t) /\ ToSet(s) \cap ToSet(t) = {}
  <2>1. IsInjective(s)
    BY <1>1, <1>5 DEF IsInjective
  <2>2. ASSUME NEW a \in DOMAIN t, NEW b \in DOMAIN t, t[a] = t[b] PROVE a = b
    <3>0. a \in 1..Len(t) /\ b \in 1..Len(t)
      BY <1>1
    <3>1. u[Len(s) + a] = u[Len(s) + b] /\ Len(s) + a \in DOMAIN u /\ Len(s) + b \in DOMAIN u
      BY <1>1, <1>3, <2>2, <3>0
    <3>2. Len(s) + a = Len(s) + b
      BY <1>5, <3>1 DEF IsInjective
    <3>3. a \in Int /\ b \in Int /\ Len(s) \in Int
      BY <1>1
    <3> QED BY <3>2, <3>3
  <2>3. ASSUME NEW a \in DOMAIN s, NEW b \in DOMAIN t, s[a] = t[b] PROVE FALSE
    <3>1. u[a] = u[Len(s) + b] /\ a \in DOMAIN u /\ Len(s) + b \in DOMAIN u /\ a # Len(s) + b
      BY <1>1, <2>3
    <3> QED BY <1>5, <3>1 DEF IsInjective
  <2> QED BY <2>1, <2>2, <2>3 DEF IsInjective, ToSet
<1>6. ASSUME IsInjective(s), IsInjective(t), ToSet(s) \cap ToSet(t) = {} PROVE IsInjective(u)
  <2> SUFFICES ASSUME NEW a \in DOMAIN u, NEW b \in DOMAIN u, u[a] = u[b] PROVE a = b
    BY DEF IsInjective
  <2>1. CASE a \in DOMAIN s /\ b \in DOMAIN s
    BY <2>1, <1>1, <1>6 DEF IsInjective
  <2>2. ASSUME NEW i \in DOMAIN t, NEW j \in DOMAIN t, a = Len(s) + i, b = Len(s) + j PROVE a = b
    BY <2>2, <1>1, <1>6 DEF IsInjective
  <2>3. ASSUME NEW x \in DOMAIN s, NEW j \in DOMAIN t PROVE u[x] # u[Len(s) + j]
    BY <2>3, <1>1, <1>6 DEF ToSet
  <2> QED BY <1>2, <2>1, <2>2, <2>3
<1> QED BY <1>1, <1>4, <1>5, <1>6 DEF u

LEMMA Grown ==
  ASSUME NEW S, NEW s \in Seq(S), NEW e \in S
  PROVE  /\ Append(s, e) \in Seq(S) /\ ToSet(Append(s, e)) = ToSet(s) \cup {e}
         /\ IsInjective(s) /\ e \notin ToSet(s) => IsInjective(Append(s, e))
<1> DEFINE u == Append(s, e)
<1>1. /\ u \in Seq(S) /\ DOMAIN u = 1..(Len(s) + 1) /\ DOMAIN s = 1..Len(s) /\ Len(s) \in Nat
      /\ u[Len(s) + 1] = e /\ \A i \in 1..Len(s) : u[i] = s[i]
  OBVIOUS
<1> HIDE DEF u
<1>2. \A i \in DOMAIN u : i \in DOMAIN s \/ i = Len(s) + 1
  BY <1>1
<1>3. ToSet(u) \subseteq ToSet(s) \cup {e}
  BY <1>1, <1>2 DEF ToSet
<1>4. ToSet(s) \cup {e} \subseteq ToSet(u)
  BY <1>1 DEF ToSet
<1>5. IsInjective(s) /\ e \notin ToSet(s) => IsInjective(u)
  BY <1>1, <1>2 DEF ToSet, IsInjective
<1> QED BY <1>1, <1>3, <1>4, <1>5 DEF u

LEMMA Shrunk ==
  ASSUME NEW S, NEW s \in Seq(S), s # <<>>
  PROVE  /\ Tail(s) \in Seq(S) /\ Head(s) \in S /\ ToSet(s) = ToSet(Tail(s)) \cup {Head(s)}
         /\ IsInjective(s) => IsInjective(Tail(s)) /\ Head(s) \notin ToSet(Tail(s))
<1> DEFINE t == Tail(s)
<1>1. /\ t \in Seq(S) /\ DOMAIN t = 1..(Len(s) - 1) /\ DOMAIN s = 1..Len(s) /\ Len(s) \in Nat /\ Len(s) > 0
      /\ \A i \in 1..(Len(s) - 1) : t[i] = s[i + 1]
  OBVIOUS
<1>2. Head(s) = s[1] /\ s[1] \in S
  OBVIOUS
<1> HIDE DEF t
<1>3. \A i \in DOMAIN t : i + 1 \in DOMAIN s /\ i + 1 # 1 /\ t[i] = s[i + 1]
  BY <1>1
<1>4. \A i \in DOMAIN s : i = 1 \/ (i - 1 \in DOMAIN t /\ s[i] = t[i - 1])
  BY <1>1
<1>5. ToSet(s) \subseteq ToSet(t) \cup {s[1]}
  BY <1>4 DEF ToSet
<1>6. ToSet(t) \cup {s[1]} \subseteq ToSet(s)
  BY <1>1, <1>3 DEF ToSet
<1>7. ASSUME IsInjective(s) PROVE IsInjective(t) /\ s[1] \notin ToSet(t)
  <2>1. IsInjective(t)
    BY <1>1, <1>3, <1>7 DEF IsInjective
  <2>2. s[1] \notin ToSet(t)
    BY <1>1, <1>3, <1>7 DEF IsInjective, ToSet
  <2> QED BY <2>1, <2>2
<1> QED BY <1>1, <1>2, <1>5, <1>6, <1>7 DEF t

-----------------------------------------------------------------------------
(* The inductive invariant.                                                  *)

Pairs == Nat \X Nat
All == ToSet(atModem \o done)     \* the commands sent so far

Typed ==
  /\ TypeOK /\ IsFiniteSet(lost)
  /\ atModem \in Seq(Pairs) /\ done \in Seq(Pairs)
  /\ phase \in {"record", "next"} => exit # 403

\* The present request has no answer yet, and one that went on was let through.
Gated ==
  /\ \A i \in 1..MaxRequests : i > Now \/ (i = Now /\ phase # "idle") => answers[i] = "none"
  /\ phase \in {"wait", "record", "next"} \/ (phase = "gate" /\ part > 1) =>
       ~Unconfirmed(Form) /\ ~Lacking(Form)

\* A command is sent once, in its turn.
InTurn ==
  \A c \in All : c[1] = Now /\ phase # "idle" => c[2] <= part /\ (phase = "gate" => c[2] < part)

\* Exit code 0 is that of a command the modem has dealt with, or of a message.
Honest ==
  phase \in {"record", "next", "answer"} /\ exit = 0 =>
    /\ Form.op # "sendSms" => Current \in ToSet(done)
    /\ Form.op \in SetProperty => Current \notin rejected

\* What was sent for a request is recorded before the next part and the answer.
Recorded ==
  /\ phase # "idle" /\ Form.op \in ByAt =>
       \A c \in All \ lost : c[1] = Now /\ (c[2] < part \/ phase \in {"next", "answer"}) =>
         \E k \in DOMAIN history : history[k].command = c /\ (Form.op # "radio" => history[k].exit = exit)
  /\ \A i \in Id : requests[i].op \in ByAt /\ answers[i] \in {"ok", "failed"} =>
       \A c \in All \ lost : c[1] = i =>
         \E k \in DOMAIN history : /\ history[k].command = c
                                   /\ requests[i].op # "radio" => (history[k].exit = 0 <=> answers[i] = "ok")

IInv == Typed /\ Gated /\ InTurn /\ Honest /\ OkIsSettled /\ Recorded

-----------------------------------------------------------------------------
(* The steps.                                                                *)

LEMMA PartsType == \A op : Parts(op) \in Nat /\ Parts(op) >= 1 /\ Parts(op) <= RadioParts /\ (op # "radio" => Parts(op) = 1)
BY ConstantsOK DEF Parts

LEMMA RequestsType ==
  ASSUME TypeOK
  PROVE  /\ Now \in Nat /\ Now <= MaxRequests /\ Id = 1..Now /\ MaxRequests \in Nat /\ RadioParts \in Nat
         /\ \A i \in Id : requests[i] \in Forms
         /\ phase # "idle" => Now \in Id /\ Form \in Forms /\ Form.op \in Ops
<1>1. Now \in Nat /\ Id = 1..Now /\ \A i \in Id : requests[i] \in Forms
  <2>1. requests \in Seq(Forms)
    BY DEF TypeOK
  <2> QED BY <2>1, ElementOfSeq, LenProperties DEF Now, Id
<1>2. \A f \in Forms : f.op \in Ops
  BY ConstantsOK
<1> QED BY <1>1, <1>2, ConstantsOK DEF TypeOK, Form

\* A request is added to those received, which stay.
LEMMA ReceiveStep ==
  ASSUME TypeOK, NEW f \in Forms, Receive(f)
  PROVE  /\ phase = "idle" /\ phase' = "gate" /\ part' = 1 /\ Now' = Now + 1 /\ Now < MaxRequests
         /\ requests' \in Seq(Forms)
         /\ \A i \in Id : requests'[i] = requests[i]
         /\ requests'[Now'] = f /\ Form' = f /\ Id' = 1..(Now + 1)
         /\ UNCHANGED <<allow, templates, exit, atModem, done, rejected, history, lost, answers, crashes>>
<1>1. requests' = Append(requests, f) /\ requests \in Seq(Forms)
  BY DEF Receive, TypeOK
<1>2. /\ requests' \in Seq(Forms) /\ Len(requests') = Len(requests) + 1
      /\ requests'[Len(requests) + 1] = f
      /\ \A i \in 1..Len(requests) : requests'[i] = requests[i]
  BY <1>1, AppendProperties
<1> QED BY <1>2 DEF Receive, Now, Id, Form, table

LEMMA CurrentType ==
  ASSUME TypeOK, phase # "idle"
  PROVE  Current \in Pairs /\ Current \in Command /\ Current[1] = Now /\ Current[2] = part
BY RequestsType DEF Current, Pairs, Command, TypeOK

\* What a step may do to the commands on their way and to those done.
LEMMA Effects ==
  ASSUME Typed, InTurn, [Next]_vars
  PROVE  /\ atModem' \in Seq(Pairs) /\ done' \in Seq(Pairs) /\ IsInjective((atModem \o done)')
         /\ ToSet(done) \subseteq ToSet(done)' /\ rejected' \subseteq ToSet(done')
         /\ \A c \in ToSet(done) : c \in rejected' => c \in rejected
         /\ \/ All' = All
            \/ /\ Send \/ DropCaches
               /\ phase = "gate" /\ Passes /\ All' = All \cup {Current}
<1> USE DEF Typed, TypeOK
<1>1. All = ToSet(atModem) \cup ToSet(done)
      /\ IsInjective(atModem) /\ IsInjective(done) /\ ToSet(atModem) \cap ToSet(done) = {}
  BY Joined DEF All
<1>2. phase = "gate" => Current \in Pairs /\ Current \notin All
  <2>1. phase = "gate" => Current \in Pairs /\ Current[1] = Now /\ Current[2] = part /\ part \in Nat
    BY CurrentType, ConstantsOK
  <2>2. phase = "gate" /\ Current \in All => part < part
    BY <2>1 DEF InTurn
  <2> QED BY <2>1, <2>2
<1>0. rejected \subseteq ToSet(done)
  OBVIOUS
<1>3. CASE Send
  <2>1. atModem' = Append(atModem, Current) /\ done' = done /\ rejected' = rejected /\ phase = "gate" /\ Passes
    BY <1>3 DEF Send
  <2>2. atModem' \in Seq(Pairs) /\ ToSet(atModem') = ToSet(atModem) \cup {Current} /\ IsInjective(atModem')
    BY <1>1, <1>2, <2>1, Grown
  <2>3. ToSet(atModem') \cap ToSet(done') = {}
    BY <1>1, <1>2, <2>1, <2>2
  <2>4. IsInjective(atModem' \o done') /\ ToSet(atModem' \o done') = ToSet(atModem') \cup ToSet(done')
    BY <1>1, <2>1, <2>2, <2>3, Joined
  <2> QED BY <1>0, <1>1, <1>3, <2>1, <2>2, <2>4 DEF All
<1>4. CASE DropCaches /\ done' # done
  <2>1. done' = Append(done, Current) /\ atModem' = atModem /\ rejected' = rejected /\ phase = "gate" /\ Passes
    BY <1>4 DEF DropCaches
  <2>2. done' \in Seq(Pairs) /\ ToSet(done') = ToSet(done) \cup {Current} /\ IsInjective(done')
    BY <1>1, <1>2, <2>1, Grown
  <2>3. ToSet(atModem') \cap ToSet(done') = {}
    BY <1>1, <1>2, <2>1, <2>2
  <2>4. IsInjective(atModem' \o done') /\ ToSet(atModem' \o done') = ToSet(atModem') \cup ToSet(done')
    BY <1>1, <2>1, <2>2, <2>3, Joined
  <2> QED BY <1>0, <1>1, <1>4, <2>1, <2>2, <2>4 DEF All
<1>5. CASE Execute
  <2>1. /\ atModem # <<>> /\ done' = Append(done, Head(atModem)) /\ atModem' = Tail(atModem)
        /\ rejected' \subseteq rejected \cup {Head(atModem)}
    BY <1>5 DEF Execute
  <2>2. /\ atModem' \in Seq(Pairs) /\ Head(atModem) \in Pairs /\ ToSet(atModem) = ToSet(atModem') \cup {Head(atModem)}
        /\ IsInjective(atModem') /\ Head(atModem) \notin ToSet(atModem')
    BY <1>1, <2>1, Shrunk
  <2>3. done' \in Seq(Pairs) /\ ToSet(done') = ToSet(done) \cup {Head(atModem)} /\ IsInjective(done')
    BY <1>1, <2>1, <2>2, Grown
  <2>4. ToSet(atModem') \cap ToSet(done') = {}
    BY <1>1, <2>2, <2>3
  <2>5. IsInjective(atModem' \o done') /\ ToSet(atModem' \o done') = ToSet(atModem') \cup ToSet(done')
    BY <2>2, <2>3, <2>4, Joined
  <2>6. All' = All
    BY <1>1, <2>2, <2>3, <2>5 DEF All
  <2>7. /\ ToSet(done) \subseteq ToSet(done)' /\ rejected' \subseteq ToSet(done')
        /\ \A c \in ToSet(done) : c \in rejected' => c \in rejected
    BY <1>0, <1>1, <2>1, <2>2, <2>3
  <2> QED BY <2>2, <2>3, <2>5, <2>6, <2>7
<1>6. CASE UNCHANGED <<atModem, done, rejected>>
  BY <1>0, <1>6 DEF All
<1> QED BY <1>3, <1>4, <1>5, <1>6
     DEF Next, vars, Receive, Refuse, Block, DropCaches, SendFails, Reply, ErrorReply, GiveUp, Record, NextPart, LastPart, Answer,
         SetAllow, Crash

-----------------------------------------------------------------------------
(* The parts of the invariant, step by step.                                 *)

LEMMA Initially == Init => IInv
<1> SUFFICES ASSUME Init PROVE IInv
  OBVIOUS
<1>1. /\ atModem = <<>> /\ done = <<>> /\ rejected = {} /\ history = <<>> /\ requests = <<>> /\ lost = {} /\ phase = "idle" /\ part = 1
      /\ exit = 0 /\ crashes = 0 /\ answers = [i \in 1..MaxRequests |-> "none"] /\ allow \in BOOLEAN /\ templates \in BOOLEAN
  BY DEF Init
<1>2. /\ atModem \in Seq(Pairs) /\ done \in Seq(Pairs) /\ atModem \o done = <<>> /\ All = {} /\ Now = 0 /\ Id = {}
      /\ ToSet(done) = {} /\ DOMAIN history = {} /\ IsInjective(atModem \o done)
  BY <1>1 DEF All, ToSet, Now, Id, IsInjective
<1>3. IsFiniteSet(lost) /\ Cardinality(lost) = 0
  BY <1>1, FS_EmptySet
<1>4. TypeOK
  <2>1. requests \in Seq(Forms) /\ history \in Seq([command : Command, exit : {0, Failed, Timeout}])
    BY <1>1
  <2> QED BY <1>1, <1>2, <1>3, <2>1, ConstantsOK DEF TypeOK, All, Now
<1> QED BY <1>1, <1>2, <1>3, <1>4, ConstantsOK
     DEF IInv, Typed, Gated, InTurn, Honest, OkIsSettled, Sent, Recorded, All

LEMMA TypedStep == IInv /\ [Next]_vars => Typed'
<1> SUFFICES ASSUME Typed, InTurn, [Next]_vars PROVE Typed'
  BY DEF IInv
<1> DEFINE T == Forms
           H == [command : Command, exit : {0, Failed, Timeout}]
<1>1. /\ atModem' \in Seq(Pairs) /\ done' \in Seq(Pairs) /\ IsInjective((atModem \o done)')
      /\ rejected' \subseteq ToSet(done')
      /\ All' = All \/ (phase = "gate" /\ All' = All \cup {Current})
  BY Effects
<1>2. TypeOK /\ IsFiniteSet(lost) /\ All \subseteq Command /\ lost \subseteq Command
  BY DEF Typed, TypeOK, All
<1>3. ToSet((atModem \o done)') \subseteq Command
  BY <1>1, <1>2, CurrentType DEF All
<1>4. ASSUME NEW f \in Forms, Receive(f) PROVE Typed'
  <2>1. /\ phase' = "gate" /\ part' = 1 /\ Now' = Now + 1 /\ Now < MaxRequests
        /\ requests' \in Seq(T) /\ Form' = f /\ Id' = 1..(Now + 1)
        /\ UNCHANGED <<allow, templates, exit, atModem, done, history, lost, answers, crashes>>
    BY <1>2, <1>4, ReceiveStep
  <2>2. Now \in Nat /\ Id = 1..Now /\ MaxRequests \in Nat
    BY <1>2, RequestsType
  <2>3. Id \subseteq Id' /\ Now' <= MaxRequests /\ Now' > 0
    BY <2>1, <2>2
  <2>4. Command \subseteq Command'
    BY <2>3 DEF Command
  <2>5. history' \in Seq([command : Command', exit : {0, Failed, Timeout}])
    <3>1. H \subseteq [command : Command', exit : {0, Failed, Timeout}]
      BY <2>4
    <3>2. history' \in Seq(H)
      BY <1>2, <2>1 DEF TypeOK
    <3> HIDE DEF H
    <3> QED BY <3>1, <3>2, SeqMonotonic
  <2>6. part' \in 1..RadioParts /\ part' <= Parts(Form'.op)
    BY <2>1, PartsType, ConstantsOK
  <2>7. ToSet((atModem \o done)') \subseteq Command' /\ lost' \subseteq Command'
    BY <1>2, <1>3, <2>1, <2>4
  <2>8. /\ {allow, templates} \subseteq BOOLEAN /\ exit \in {0, Failed, Timeout, 403}
        /\ answers \in [1..MaxRequests -> {"none", "ok", "failed", "refused"}]
        /\ crashes \in 0..MaxCrashes /\ Cardinality(lost) <= MaxFails
    BY <1>2 DEF TypeOK
  <2> QED BY <1>1, <1>2, <2>1, <2>3, <2>5, <2>6, <2>7, <2>8 DEF Typed, TypeOK
<1>5. ASSUME UNCHANGED requests PROVE Id' = Id /\ Now' = Now /\ Command' = Command /\ Form' = Form
  BY <1>5 DEF Id, Now, Command, Form
<1>6. CASE UNCHANGED <<requests, history, lost>> /\ part' \in 1..RadioParts
           /\ (phase' # "idle" => phase # "idle" /\ part' <= Parts(Form.op))
           /\ phase' \in {"idle", "gate", "wait", "record", "next", "answer"}
           /\ exit' \in {0, Failed, Timeout, 403} /\ (phase' \in {"record", "next"} => exit' # 403)
           /\ answers' \in [1..MaxRequests -> {"none", "ok", "failed", "refused"}]
           /\ allow' \in BOOLEAN /\ templates' = templates /\ crashes' \in 0..MaxCrashes
  BY <1>1, <1>2, <1>3, <1>5, <1>6 DEF Typed, TypeOK
<1>7. CASE Record
  <2>1. /\ UNCHANGED <<allow, templates, requests, part, exit, atModem, done, answers, crashes>>
        /\ phase = "record" /\ phase' = "next" /\ Current \in Command /\ exit \in {0, Failed, Timeout}
    BY <1>2, <1>7, CurrentType DEF Record, Typed, TypeOK
  <2>2. history' \in Seq(H)
    <3>1. history' = history \/ history' = Append(history, [command |-> Current, exit |-> exit])
      BY <1>7 DEF Record, table
    <3>2. history \in Seq(H) /\ [command |-> Current, exit |-> exit] \in H
      BY <1>2, <2>1 DEF TypeOK
    <3> HIDE DEF H
    <3> QED BY <3>1, <3>2, AppendProperties
  <2>3. lost' \subseteq Command /\ IsFiniteSet(lost') /\ Cardinality(lost') <= MaxFails
    <3>1. lost' = lost \/ (Cardinality(lost) < MaxFails /\ lost' = lost \cup {Current})
      BY <1>7 DEF Record, table
    <3>2. CASE lost' = lost
      BY <3>2, <1>2 DEF TypeOK
    <3>3. CASE Cardinality(lost) < MaxFails /\ lost' = lost \cup {Current}
      <4>1. /\ IsFiniteSet(lost') /\ Cardinality(lost') \in {Cardinality(lost), Cardinality(lost) + 1}
            /\ Cardinality(lost) \in Nat
        BY <3>3, <1>2, FS_AddElement, FS_CardinalityType
      <4> QED BY <3>3, <4>1, <1>2, <2>1, ConstantsOK
    <3> QED BY <3>1, <3>2, <3>3
  <2> QED BY <1>1, <1>2, <1>3, <1>5, <2>1, <2>2, <2>3 DEF Typed, TypeOK
<1>8. ASSUME NEW a \in {"ok", "failed", "refused"}, Answered(a) PROVE answers' \in [1..MaxRequests -> {"none", "ok", "failed", "refused"}]
  BY <1>2, <1>8 DEF Answered, TypeOK
<1>9. CASE Refuse \/ Answer
  BY <1>2, <1>6, <1>8, <1>9 DEF Refuse, Answer, Answered, TypeOK, table, Typed
<1>10. CASE Block \/ DropCaches \/ Send \/ SendFails \/ Reply \/ ErrorReply \/ GiveUp
  BY <1>2, <1>6, <1>10 DEF Block, AfterBlock, DropCaches, Send, SendFails, Reply, ErrorReply, GiveUp, TypeOK, table, Typed, Timeout, Failed
<1>11. CASE NextPart \/ LastPart
  <2>1. phase = "next" => part \in Nat /\ Parts(Form.op) \in Nat /\ part <= Parts(Form.op) /\ Parts(Form.op) <= RadioParts /\ RadioParts \in Nat
    BY <1>2, PartsType, ConstantsOK DEF TypeOK
  <2> QED BY <1>2, <1>6, <1>11, <2>1 DEF NextPart, LastPart, TypeOK, table, Typed
<1>12. CASE Execute \/ UNCHANGED vars
  BY <1>2, <1>6, <1>12 DEF Execute, vars, job, table, TypeOK, Typed
<1>13. CASE SetAllow
  BY <1>2, <1>6, <1>13 DEF SetAllow, job, table, TypeOK, Typed
<1>14. CASE Crash
  <2>1. crashes' \in 0..MaxCrashes
    BY <1>2, <1>14, ConstantsOK DEF Crash, TypeOK
  <2> QED BY <1>2, <1>6, <1>14, <2>1 DEF Crash, table, TypeOK, Typed
<1> QED BY <1>4, <1>7, <1>9, <1>10, <1>11, <1>12, <1>13, <1>14 DEF Next

LEMMA SameRequest ==
  ASSUME requests' = requests
  PROVE  Now' = Now /\ Id' = Id /\ Form' = Form
BY DEF Now, Id, Form

\* What the lemmas below use of the types.
LEMMA Typing ==
  ASSUME Typed
  PROVE  /\ TypeOK /\ part \in Nat /\ part >= 1 /\ history \in Seq([command : Command, exit : {0, Failed, Timeout}])
         /\ \A c \in All : c \in Id \X (1..RadioParts) /\ c = <<c[1], c[2]>> /\ c[1] \in Id /\ c[2] \in Nat /\ c[2] >= 1
         /\ answers \in [1..MaxRequests -> {"none", "ok", "failed", "refused"}]
         /\ phase # "idle" /\ Form.op # "radio" => part = 1
<1>1. /\ TypeOK /\ part \in 1..RadioParts /\ history \in Seq([command : Command, exit : {0, Failed, Timeout}])
      /\ All \subseteq Command /\ (phase # "idle" => part <= Parts(Form.op))
      /\ answers \in [1..MaxRequests -> {"none", "ok", "failed", "refused"}]
  BY DEF Typed, TypeOK, All
<1>2. \A c \in All : c \in Id \X (1..RadioParts)
  BY <1>1 DEF Command
<1>3. \A c \in All : c = <<c[1], c[2]>> /\ c[1] \in Id /\ c[2] \in Nat /\ c[2] >= 1
  BY <1>2, ConstantsOK
<1> QED BY <1>1, <1>2, <1>3, PartsType, ConstantsOK

LEMMA GatedStep == IInv /\ [Next]_vars => Gated'
<1> SUFFICES ASSUME Typed, Gated, [Next]_vars PROVE Gated'
  BY DEF IInv
<1>1. TypeOK /\ Now \in Nat /\ answers \in [1..MaxRequests -> {"none", "ok", "failed", "refused"}]
  BY Typing, RequestsType
<1> USE DEF Gated
<1>2. ASSUME NEW f \in Forms, Receive(f) PROVE Gated'
  <2>1. /\ phase' = "gate" /\ part' = 1 /\ Now' = Now + 1 /\ requests'[Now'] = f
        /\ allow' = allow /\ answers' = answers
    BY <1>1, <1>2, ReceiveStep
  <2> QED BY <1>1, <2>1
<1>3. ASSUME UNCHANGED <<allow, templates, requests, answers>>,
             phase' # "idle" => phase # "idle",
             phase' \in {"wait", "record", "next"} \/ (phase' = "gate" /\ part' > 1) =>
               \/ phase \in {"wait", "record", "next"} \/ (phase = "gate" /\ part > 1)
               \/ ~Unconfirmed(Form) /\ ~Lacking(Form)
      PROVE  Gated'
  <2>1. Now' = Now /\ Form' = Form
    BY <1>3, SameRequest
  <2> QED BY <1>3, <2>1 DEF Unconfirmed, Lacking
<1>4. CASE Block \/ DropCaches \/ Send \/ SendFails \/ Execute \/ Reply \/ ErrorReply \/ GiveUp \/ UNCHANGED vars
  BY <1>3, <1>4 DEF Block, AfterBlock, DropCaches, Send, SendFails, Passes, Execute, Reply, ErrorReply, GiveUp, vars, job
<1>5. CASE Record \/ NextPart \/ LastPart \/ Crash
  BY <1>3, <1>5 DEF Record, NextPart, LastPart, Crash
<1>6. ASSUME NEW a, Answered(a), UNCHANGED requests PROVE Gated'
  <2>1. Now' = Now
    BY <1>6, SameRequest
  <2> QED BY <1>1, <1>6, <2>1 DEF Answered
<1>7. CASE Refuse \/ Answer
  BY <1>6, <1>7 DEF Refuse, Answer
<1>8. CASE SetAllow
  <2>1. Now' = Now
    BY <1>8, SameRequest DEF SetAllow, job
  <2> QED BY <1>8, <2>1 DEF SetAllow, job
<1> QED BY <1>2, <1>4, <1>5, <1>7, <1>8 DEF Next

LEMMA InTurnStep == IInv /\ [Next]_vars => InTurn'
<1> SUFFICES ASSUME Typed, InTurn, [Next]_vars PROVE InTurn'
  BY DEF IInv
<1>1. /\ TypeOK /\ Now \in Nat /\ Id = 1..Now /\ part \in Nat
      /\ \A c \in All : c[1] \in Id /\ c[2] \in Nat
  BY Typing, RequestsType
<1>2. ASSUME NEW f \in Forms, Receive(f) PROVE InTurn'
  <2>1. Now' = Now + 1 /\ UNCHANGED <<atModem, done>>
    BY <1>1, <1>2, ReceiveStep
  <2>2. All' = All
    BY <2>1 DEF All
  <2> QED BY <1>1, <2>1, <2>2 DEF InTurn
<1>3. ASSUME UNCHANGED <<requests, part>>, All' \in {All, All \cup {Current}}, phase' # "idle" => phase # "idle",
             phase' = "gate" => phase = "gate" /\ All' = All
      PROVE  InTurn'
  <2>1. Now' = Now /\ (phase # "idle" => Current[1] = Now /\ Current[2] = part)
    BY <1>1, <1>3, SameRequest, CurrentType
  <2> QED BY <1>1, <1>3, <2>1 DEF InTurn
<1>4. CASE NextPart
  <2>1. UNCHANGED <<requests, atModem, done>> /\ part' = part + 1 /\ phase' = "gate" /\ phase = "next"
    BY <1>4 DEF NextPart
  <2>2. Now' = Now /\ All' = All
    BY <2>1, SameRequest DEF All
  <2> QED BY <1>1, <2>1, <2>2 DEF InTurn
<1>5. All' \in {All, All \cup {Current}} /\ (All' # All => Send \/ DropCaches)
  BY Effects
<1>6. CASE Refuse \/ Block \/ DropCaches \/ Send \/ SendFails \/ Reply \/ ErrorReply \/ GiveUp
  BY <1>3, <1>5, <1>6 DEF Refuse, Answered, Block, AfterBlock, DropCaches, Send, SendFails, Reply, ErrorReply, GiveUp
<1>7. CASE Execute \/ Record \/ LastPart \/ Answer \/ SetAllow \/ Crash \/ UNCHANGED vars
  <2>1. UNCHANGED <<requests, part>> /\ (phase' # "idle" => phase # "idle") /\ (phase' = "gate" => phase = "gate")
    BY <1>7 DEF Execute, Record, LastPart, Answer, Answered, SetAllow, Crash, vars, job
  <2>2. (~Send /\ ~DropCaches) \/ All' = All
    BY <1>7, <1>5 DEF Execute, Record, LastPart, Answer, Answered, SetAllow, Crash, vars, job, Send, DropCaches
  <2> QED BY <1>3, <1>5, <2>1, <2>2
<1> QED BY <1>2, <1>4, <1>6, <1>7 DEF Next

LEMMA HonestStep == IInv /\ [Next]_vars => Honest'
<1> SUFFICES ASSUME Typed, InTurn, Honest, [Next]_vars PROVE Honest'
  BY DEF IInv
<1>1. ToSet(done) \subseteq ToSet(done)' /\ \A c \in ToSet(done) : c \in rejected' => c \in rejected
  BY Effects
<1>0. \A op \in SetProperty : op # "sendSms" /\ op # "dropCaches"
  BY DEF SetProperty
<1>2. ASSUME UNCHANGED <<requests, part, exit>>, phase' \in {"record", "next", "answer"} => phase \in {"record", "next", "answer"}
      PROVE  Honest'
  <2>1. Current' = Current /\ Form' = Form
    BY <1>2, SameRequest DEF Current
  <2> QED BY <1>0, <1>1, <1>2, <2>1 DEF Honest
<1>3. CASE Reply
  <2>1. /\ Current' = Current /\ Form' = Form
        /\ Form.op # "sendSms" => Current \in ToSet(done)
        /\ Form.op \in SetProperty => Current \notin rejected
    BY <1>3, SameRequest DEF Reply, Returned, Current
  <2> QED BY <1>0, <1>1, <2>1 DEF Honest
<1>4. CASE DropCaches
  <2>1. /\ Current' = Current /\ Form' = Form /\ (exit' = 0 => done' = Append(done, Current)) /\ phase = "gate"
        /\ Form.op = "dropCaches"
    BY <1>4, SameRequest DEF DropCaches, Current, Failed
  <2>2. exit' = 0 => Current \in ToSet(done')
    <3>1. done \in Seq(Pairs) /\ Current \in Pairs
      BY <2>1, CurrentType DEF Typed
    <3>2. Current \in ToSet(Append(done, Current))
      BY <3>1, Grown
    <3> QED BY <2>1, <3>2
  <2> QED BY <1>0, <2>1, <2>2 DEF Honest
<1>5. CASE Block \/ SendFails \/ ErrorReply \/ GiveUp
  BY <1>5 DEF Block, SendFails, ErrorReply, GiveUp, Honest, Failed, Timeout
<1>6. CASE NextPart \/ Send \/ Refuse \/ Answer \/ Crash \/ \E f \in Forms : Receive(f)
  BY <1>6 DEF NextPart, Send, Refuse, Answer, Answered, Crash, Receive, Honest
<1>7. CASE Execute \/ Record \/ LastPart \/ SetAllow \/ UNCHANGED vars
  BY <1>2, <1>7 DEF Execute, Record, LastPart, SetAllow, vars, job
<1> QED BY <1>3, <1>4, <1>5, <1>6, <1>7 DEF Next

LEMMA OkIsSettledStep == IInv /\ [Next]_vars => OkIsSettled'
<1> SUFFICES ASSUME Typed, Gated, InTurn, Honest, OkIsSettled, [Next]_vars PROVE OkIsSettled'
  BY DEF IInv
<1>1. /\ ToSet(done) \subseteq ToSet(done)' /\ \A c \in ToSet(done) : c \in rejected' => c \in rejected
      /\ All' = All \/ ((Send \/ DropCaches) /\ phase = "gate" /\ All' = All \cup {Current})
  BY Effects
<1>0. \A op \in SetProperty : op # "sendSms" /\ op # "radio"
  BY DEF SetProperty
<1>2. /\ TypeOK /\ answers \in [1..MaxRequests -> {"none", "ok", "failed", "refused"}]
      /\ history \in Seq([command : Command, exit : {0, Failed, Timeout}])
      /\ \A c \in All : c = <<c[1], c[2]>> /\ c[1] \in Id /\ c[2] \in Nat /\ c[2] >= 1
      /\ Id = 1..Now /\ Now \in Nat /\ Now <= MaxRequests /\ MaxRequests \in Nat /\ (phase # "idle" => Now \in Id)
  BY Typing, RequestsType
<1>3. \A i : Sent(i)' = {c \in All' : c[1] = i} /\ Sent(i) = {c \in All : c[1] = i}
  BY DEF Sent, All
<1>4. \A k \in DOMAIN history' : history'[k].exit = 0 => history'[k].command \in ToSet(done')
  <2>1. history' = history \/ (Record /\ Form.op \in ByAt /\ history' = Append(history, [command |-> Current, exit |-> exit]))
    BY DEF Next, vars, table, Receive, Refuse, Block, DropCaches, Send, SendFails, Execute, Reply, ErrorReply, GiveUp, Record, NextPart,
           LastPart, Answer, SetAllow, Crash
  <2>2. CASE history' = history
    BY <1>1, <2>2 DEF OkIsSettled
  <2>3. CASE Record /\ Form.op \in ByAt /\ history' = Append(history, [command |-> Current, exit |-> exit])
    <3>1. exit = 0 => Current \in ToSet(done)
      BY <2>3 DEF Record, Honest, ByAt
    <3>2. \A k \in DOMAIN history' : (k \in DOMAIN history /\ history'[k] = history[k])
                                      \/ history'[k] = [command |-> Current, exit |-> exit]
      BY <1>2, <2>3
    <3> QED BY <1>1, <3>1, <3>2 DEF OkIsSettled
  <2> QED BY <2>1, <2>2, <2>3
<1>5. ASSUME NEW i \in Id, answers'[i] = answers[i], requests'[i] = requests[i]
      PROVE  /\ answers'[i] = "ok" /\ requests'[i].op \notin {"radio", "sendSms"} => <<i, 1>> \in ToSet(done')
             /\ answers'[i] = "ok" /\ requests'[i].op \in SetProperty => <<i, 1>> \notin rejected'
             /\ answers'[i] = "refused" => Sent(i)' = {}
  <2>1. answers[i] = "refused" => Sent(i) = {}
    BY DEF OkIsSettled
  <2>3. answers[i] = "refused" /\ phase = "gate" => i # Now
    BY <1>2 DEF Gated
  <2>2. phase = "gate" => Current[1] = Now
    BY <1>2, CurrentType
  <2> QED BY <1>0, <1>1, <1>3, <1>5, <2>1, <2>2, <2>3 DEF OkIsSettled
<1>6. ASSUME UNCHANGED <<requests, answers>> PROVE OkIsSettled'
  BY <1>4, <1>5, <1>6, SameRequest DEF OkIsSettled
<1>7. ASSUME NEW f \in Forms, Receive(f) PROVE OkIsSettled'
  <2>1. /\ Id' = 1..(Now + 1) /\ answers' = answers /\ \A i \in Id : requests'[i] = requests[i]
        /\ Now < MaxRequests
    BY <1>2, <1>7, ReceiveStep
  <2>2. answers'[Now + 1] = "none"
    BY <1>2, <2>1 DEF Gated
  <2> QED BY <1>2, <1>4, <1>5, <2>1, <2>2 DEF OkIsSettled
<1>8. ASSUME NEW a, Answered(a), UNCHANGED requests, phase # "idle",
             a = "ok" /\ Form.op \notin {"radio", "sendSms"} => <<Now, 1>> \in ToSet(done'),
             a = "ok" /\ Form.op \in SetProperty => <<Now, 1>> \notin rejected',
             a = "refused" => \A c \in All' : c[1] # Now
      PROVE  OkIsSettled'
  <2>1. Id' = Id /\ requests[Now] = Form
    BY <1>8, SameRequest DEF Form
  <2>2. \A i \in Id : answers'[i] = IF i = Now THEN a ELSE answers[i]
    BY <1>2, <1>8 DEF Answered
  <2>3. \A i \in Id : i # Now => answers'[i] = answers[i] /\ requests'[i] = requests[i]
    BY <2>2, <1>8
  <2>4. requests'[Now] = requests[Now] /\ answers'[Now] = a
    BY <2>2, <1>2, <1>8
  <2>5. ASSUME NEW i \in Id, i = Now
        PROVE  /\ answers'[i] = "ok" /\ requests'[i].op \notin {"radio", "sendSms"} => <<i, 1>> \in ToSet(done')
               /\ answers'[i] = "ok" /\ requests'[i].op \in SetProperty => <<i, 1>> \notin rejected'
               /\ answers'[i] = "refused" => Sent(i)' = {}
    BY <1>3, <1>8, <2>1, <2>4, <2>5
  <2> QED BY <1>4, <1>5, <2>1, <2>3, <2>5 DEF OkIsSettled
<1>9. CASE Refuse
  <2>1. phase = "gate" /\ (Unconfirmed(Form) \/ Lacking(Form)) /\ All' = All
    BY <1>1, <1>9 DEF Refuse, Answered, Send, DropCaches
  <2>2. ~ part > 1
    BY <2>1 DEF Gated
  <2>3. \A c \in All : c[1] = Now => c[2] < part
    BY <2>1 DEF InTurn
  <2>4. part \in Nat
    BY Typing
  <2>5. \A c \in All' : c[1] # Now
    BY <1>2, <2>1, <2>2, <2>3, <2>4
  <2> QED BY <1>8, <1>9, <2>1, <2>5 DEF Refuse
<1>10. CASE Answer
  <2>1. phase = "answer"
    BY <1>10 DEF Answer
  <2>2. Form.op # "radio" => part = 1
    BY <2>1, Typing
  <2>3. /\ exit = 0 /\ Form.op \notin {"radio", "sendSms"} => <<Now, 1>> \in ToSet(done')
        /\ exit = 0 /\ Form.op \in SetProperty => <<Now, 1>> \notin rejected'
    <3>1. /\ exit = 0 /\ Form.op # "sendSms" => Current \in ToSet(done)
          /\ exit = 0 /\ Form.op \in SetProperty => Current \notin rejected
      BY <2>1 DEF Honest
    <3>2. Form.op # "radio" => Current = <<Now, 1>>
      BY <2>2 DEF Current
    <3>3. Form.op \in SetProperty => Form.op # "sendSms" /\ Form.op # "radio"
      BY <1>0
    <3>4. ASSUME exit = 0, Form.op \in SetProperty PROVE <<Now, 1>> \notin rejected'
      <4>1. Current \in ToSet(done) /\ Current \notin rejected /\ Current = <<Now, 1>>
        BY <3>1, <3>2, <3>3, <3>4
      <4> QED BY <1>1, <4>1
    <3>5. ASSUME exit = 0, Form.op \notin {"radio", "sendSms"} PROVE <<Now, 1>> \in ToSet(done')
      <4>1. Current \in ToSet(done) /\ Current = <<Now, 1>>
        BY <3>1, <3>2, <3>5
      <4> QED BY <1>1, <4>1
    <3> QED BY <3>4, <3>5
  <2>4. UNCHANGED requests /\ ((Answered("ok") /\ (exit = 0 \/ Form.op = "radio")) \/ Answered("failed"))
    BY <1>10 DEF Answer, IsOk
  <2>5. CASE Answered("ok") /\ (exit = 0 \/ Form.op = "radio")
    <3>1. Form.op = "radio" => Form.op \notin SetProperty
      BY <1>0
    <3> QED BY <1>8, <2>1, <2>3, <2>4, <2>5, <3>1
  <2>6. CASE Answered("failed")
    BY <1>8, <2>1, <2>4, <2>6
  <2> QED BY <2>4, <2>5, <2>6
<1>11. CASE Block \/ DropCaches \/ Send \/ SendFails \/ Execute \/ Reply \/ ErrorReply \/ GiveUp
            \/ Record \/ NextPart \/ LastPart \/ SetAllow \/ Crash \/ UNCHANGED vars
  BY <1>6, <1>11 DEF Block, DropCaches, Send, SendFails, Execute, Reply, ErrorReply, GiveUp, Record, NextPart, LastPart, SetAllow, Crash,
                     vars, job
<1> QED BY <1>7, <1>9, <1>10, <1>11 DEF Next

LEMMA RecordedStep == IInv /\ [Next]_vars => Recorded'
<1> SUFFICES ASSUME Typed, Gated, InTurn, Recorded, [Next]_vars PROVE Recorded'
  BY DEF IInv
<1> DEFINE Present(c) == /\ phase # "idle" /\ Form.op \in ByAt /\ c \in All \ lost
                         /\ c[1] = Now /\ (c[2] < part \/ phase \in {"next", "answer"})
           Listed(c)   == \E k \in DOMAIN history : history[k].command = c /\ (Form.op # "radio" => history[k].exit = exit)
           Past(i, c)  == /\ requests[i].op \in ByAt /\ answers[i] \in {"ok", "failed"}
                          /\ c \in All \ lost /\ c[1] = i
           Kept(i, c)  == \E k \in DOMAIN history :
                            /\ history[k].command = c
                            /\ requests[i].op # "radio" => (history[k].exit = 0 <=> answers[i] = "ok")
<1>1. /\ \A c : Present(c) => Listed(c)
      /\ \A i \in Id, c \in All : Past(i, c) => Kept(i, c)
  BY DEF Recorded
<1>2. ASSUME \A c : Present(c)' => Listed(c)', \A i \in Id', c \in All' : Past(i, c)' => Kept(i, c)'
      PROVE  Recorded'
  BY <1>2 DEF Recorded
<1> HIDE DEF Present, Listed, Past, Kept
<1>3. All' = All \/ ((Send \/ DropCaches) /\ phase = "gate" /\ All' = All \cup {Current})
  BY Effects
<1>4. /\ TypeOK /\ part \in Nat /\ history \in Seq([command : Command, exit : {0, Failed, Timeout}])
      /\ answers \in [1..MaxRequests -> {"none", "ok", "failed", "refused"}]
      /\ \A c \in All : c = <<c[1], c[2]>> /\ c[1] \in Id /\ c[2] \in Nat /\ c[2] >= 1
      /\ Id = 1..Now /\ Now \in Nat /\ Now <= MaxRequests /\ MaxRequests \in Nat /\ (phase # "idle" => Now \in Id)
      /\ (phase # "idle" /\ Form.op # "radio" => part = 1)
  BY Typing, RequestsType
<1>5. phase = "gate" => Current[1] = Now /\ Current[2] = part /\ answers[Now] = "none"
  BY <1>4, CurrentType DEF Gated

\* Entries and losses only come to be.
<1>6. lost \subseteq lost' /\ \A k \in DOMAIN history : k \in DOMAIN history' /\ history'[k] = history[k]
  <2>1. \/ UNCHANGED <<history, lost>>
        \/ Record /\ (history' = history \/ history' = Append(history, [command |-> Current, exit |-> exit]))
                  /\ (lost' = lost \/ lost' = lost \cup {Current})
    BY DEF Next, vars, table, Receive, Refuse, Block, DropCaches, Send, SendFails, Execute, Reply, ErrorReply, GiveUp, Record, NextPart,
           LastPart, Answer, SetAllow, Crash
  <2>2. history \in Seq([command : Command, exit : {0, Failed, Timeout}])
    BY <1>4
  <2>3. lost \subseteq lost'
    BY <2>1
  <2>4. \A k \in DOMAIN history : k \in DOMAIN history' /\ history'[k] = history[k]
    BY <2>1, <2>2
  <2> QED BY <2>3, <2>4

\* A request of the past keeps what it has.
<1>7. ASSUME NEW i \in Id, NEW c \in All', requests'[i] = requests[i], answers'[i] = answers[i], Past(i, c)' PROVE Kept(i, c)'
  <2>1. c \in All /\ Past(i, c)
    <3>1. CASE c \in All
      BY <1>6, <1>7, <3>1 DEF Past
    <3>2. CASE c \notin All
      BY <1>3, <1>5, <1>7, <3>2 DEF Past
    <3> QED BY <3>1, <3>2
  <2>2. Kept(i, c)
    BY <1>1, <2>1
  <2> QED BY <1>6, <1>7, <2>2 DEF Kept
<1>8. ASSUME UNCHANGED <<requests, answers>> PROVE \A i \in Id', c \in All' : Past(i, c)' => Kept(i, c)'
  BY <1>7, <1>8, SameRequest
\* And the present request, as long as its code stays or does not count.
<1>9. ASSUME NEW c, requests' = requests, exit' = exit \/ Form.op = "radio", Present(c) PROVE Listed(c)'
  <2>1. Listed(c) /\ Form' = Form
    BY <1>1, <1>9, SameRequest
  <2> QED BY <1>6, <1>9, <2>1 DEF Listed

<1>10. ASSUME NEW f \in Forms, Receive(f) PROVE Recorded'
  <2>1. /\ Id' = 1..(Now + 1) /\ Now' = Now + 1 /\ answers' = answers /\ \A i \in Id : requests'[i] = requests[i]
        /\ Now < MaxRequests /\ atModem' = atModem /\ done' = done
    BY <1>4, <1>10, ReceiveStep
  <2>2. All' = All /\ answers'[Now + 1] = "none"
    BY <1>4, <2>1 DEF Gated, All
  <2>3. \A c : ~Present(c)'
    BY <1>4, <2>1, <2>2 DEF Present
  <2>4. ASSUME NEW i \in Id', NEW c \in All', Past(i, c)' PROVE Kept(i, c)'
    <3>1. i \in Id
      BY <1>4, <2>1, <2>2, <2>4 DEF Past
    <3> QED BY <1>7, <2>1, <2>4, <3>1
  <2> QED BY <1>2, <2>3, <2>4
<1>11. CASE Block \/ SendFails \/ Reply \/ ErrorReply \/ GiveUp \/ DropCaches \/ Send
  <2>1. UNCHANGED <<requests, part, answers>> /\ phase \in {"gate", "wait"}
        /\ (phase' \in {"next", "answer"} => phase = "gate" /\ (All' = All \/ Form.op = "dropCaches"))
        /\ (exit' # exit => phase' # "gate")
    BY <1>3, <1>11 DEF Block, AfterBlock, SendFails, Reply, ErrorReply, GiveUp, DropCaches, Send
  <2>2. ASSUME NEW c, Present(c)' PROVE Listed(c)'
    <3>1. Form' = Form /\ Now' = Now /\ Form.op \in ByAt /\ c \in All' \ lost' /\ c[1] = Now /\ phase # "idle"
      BY <2>1, <2>2, SameRequest DEF Present
    <3>2. c \in All /\ c[2] < part
      <4>1. Form.op # "dropCaches"
        BY <3>1 DEF ByAt
      <4>2. CASE phase' \in {"next", "answer"}
        BY <1>4, <2>1, <3>1, <4>1, <4>2 DEF InTurn
      <4>3. CASE phase' \notin {"next", "answer"}
        <5>1. c[2] < part
          BY <2>1, <2>2, <4>3 DEF Present
        <5> QED BY <1>3, <1>4, <1>5, <3>1, <5>1
      <4> QED BY <4>2, <4>3
    <3>3. Present(c)
      BY <1>6, <3>1, <3>2 DEF Present
    <3>4. Form.op = "radio"
      BY <1>4, <3>1, <3>2
    <3> QED BY <1>9, <2>1, <3>3, <3>4
  <2> QED BY <1>2, <1>8, <2>1, <2>2
<1>12. CASE Record
  <2>1. /\ UNCHANGED <<requests, part, exit, answers>> /\ phase = "record" /\ phase' = "next" /\ All' = All
        /\ Form.op \in ByAt => \/ history' = Append(history, [command |-> Current, exit |-> exit])
                               \/ lost' = lost \cup {Current}
    BY <1>3, <1>12 DEF Record, Worth, Send, DropCaches
  <2>2. ASSUME NEW c, Present(c)' PROVE Listed(c)'
    <3>1. Form' = Form /\ Now' = Now /\ Form.op \in ByAt /\ c \in All /\ c \notin lost' /\ c[1] = Now
      BY <2>1, <2>2, SameRequest DEF Present
    <3>2. c[2] < part \/ c = Current
      BY <1>4, <2>1, <3>1 DEF InTurn, Current
    <3>3. CASE c[2] < part
      <4>1. Present(c)
        BY <1>6, <2>1, <3>1, <3>3 DEF Present
      <4> QED BY <1>9, <2>1, <4>1
    <3>4. CASE c = Current
      <4>1. history' = Append(history, [command |-> Current, exit |-> exit])
        BY <2>1, <3>1, <3>4
      <4>2. Len(history) + 1 \in DOMAIN history' /\ history'[Len(history) + 1] = [command |-> Current, exit |-> exit]
        BY <1>4, <4>1
      <4> QED BY <2>1, <3>1, <3>4, <4>2 DEF Listed
    <3> QED BY <3>2, <3>3, <3>4
  <2> QED BY <1>2, <1>8, <2>1, <2>2
<1>13. CASE NextPart
  <2>1. UNCHANGED <<requests, exit, answers>> /\ part' = part + 1 /\ phase = "next" /\ phase' = "gate" /\ All' = All
    BY <1>3, <1>13 DEF NextPart, Send, DropCaches
  <2>2. ASSUME NEW c, Present(c)' PROVE Listed(c)'
    <3>1. Present(c)
      BY <1>6, <2>1, <2>2, SameRequest DEF Present
    <3> QED BY <1>9, <2>1, <3>1
  <2> QED BY <1>2, <1>8, <2>1, <2>2
<1>14. CASE LastPart \/ Execute \/ SetAllow \/ Crash \/ UNCHANGED vars
  <2>1. UNCHANGED <<requests, part, exit, answers>> /\ (phase' # "idle" => phase # "idle") /\ All' = All
        /\ (phase' \in {"next", "answer"} => phase \in {"next", "answer"})
    BY <1>3, <1>14 DEF LastPart, Execute, SetAllow, Crash, vars, job, Send, DropCaches
  <2>2. ASSUME NEW c, Present(c)' PROVE Listed(c)'
    <3>1. Present(c)
      BY <1>6, <2>1, <2>2, SameRequest DEF Present
    <3> QED BY <1>9, <2>1, <3>1
  <2> QED BY <1>2, <1>8, <2>1, <2>2
<1>15. ASSUME NEW a, Answered(a), UNCHANGED <<requests, history, lost>>, All' = All, phase # "idle",
              a # "refused" => phase = "answer" /\ (Form.op # "radio" => (exit = 0 <=> a = "ok"))
       PROVE  Recorded'
  <2>1. Id' = Id /\ phase' = "idle" /\ \A i \in Id : answers'[i] = IF i = Now THEN a ELSE answers[i]
    BY <1>4, <1>15, SameRequest DEF Answered
  <2>2. ASSUME NEW i \in Id, NEW c \in All', Past(i, c)', i = Now PROVE Kept(i, c)'
    <3>1. requests[i] = Form /\ answers'[i] = a
      BY <1>4, <1>15, <2>1, <2>2 DEF Form
    <3>2. c \in All \ lost /\ c[1] = Now /\ Form.op \in ByAt /\ a \in {"ok", "failed"}
      BY <1>15, <2>2, <3>1 DEF Past
    <3>3. Listed(c)
      BY <1>1, <1>15, <3>2 DEF Present
    <3> QED BY <1>15, <2>2, <3>1, <3>2, <3>3 DEF Kept, Listed
  <2>3. \A c : ~Present(c)'
    BY <2>1 DEF Present
  <2> QED BY <1>2, <1>7, <1>15, <2>1, <2>2, <2>3
<1>16. CASE Refuse \/ Answer
  BY <1>3, <1>4, <1>15, <1>16 DEF Refuse, Answer, IsOk, table, Send, DropCaches, Answered
<1> QED BY <1>10, <1>11, <1>12, <1>13, <1>14, <1>16 DEF Next

LEMMA Inductive == Spec => []IInv
<1>1. IInv /\ [Next]_vars => IInv'
  BY TypedStep, GatedStep, InTurnStep, HonestStep, OkIsSettledStep, RecordedStep DEF IInv
<1> QED BY Initially, <1>1, PTL DEF Spec

-----------------------------------------------------------------------------
(* The theorems.                                                             *)

\* Every variable keeps its type; in particular no command is sent twice, or
\* held by ofono after the modem has done it (at.c, ofono.c, http.c).
THEOREM TypeCorrect == Spec => []TypeOK
BY Inductive, PTL DEF IInv, Typed

\* Whatever was answered ok is settled, for any requests, crashes and commands
\* that are carried out late, and a refused request does nothing, then or later
\* (at.c 51-62, http.c 198-234).
THEOREM OkMeansSettled == Spec => []OkIsSettled
BY Inductive, PTL DEF IInv

\* Every AT command sent for an answered request is listed with its outcome,
\* unless its INSERT failed, as long as the history has no more entries than
\* the 30 a listing shows (at.c 58-62, db.c 291-325).
THEOREM HistoryTells == Spec => [](Len(history) <= 30 => AnsweredIsRecorded)
<1>1. ASSUME IInv, Len(history) <= 30 PROVE AnsweredIsRecorded
  <2>1. history \in Seq([command : Command, exit : {0, Failed, Timeout}]) /\ Len(history) \in Nat
        /\ DOMAIN history = 1..Len(history)
    <3>1. history \in Seq([command : Command, exit : {0, Failed, Timeout}])
      BY <1>1 DEF IInv, Typed, TypeOK
    <3> QED BY <3>1, LenProperties
  <2>2. DOMAIN Listing(0) = 1..Len(history) /\ \A i \in 1..Len(history) : Listing(0)[i] = history[Len(history) + 1 - i]
    <3>1. (IF 0 <= 0 \/ 0 > 100 THEN 30 ELSE 0) = 30
      OBVIOUS
    <3>2. ASSUME NEW n \in Nat, n <= 30 PROVE (IF n < 30 THEN n ELSE 30) = n
      BY <3>2
    <3>3. (IF Len(history) < 30 THEN Len(history) ELSE 30) = Len(history)
      BY <1>1, <2>1, <3>2
    <3>4. Listing(0) = [i \in 1..Len(history) |-> history[Len(history) + 1 - i]]
      BY <3>1, <3>3, Zenon DEF Listing
    <3> QED BY <3>4
  <2>3. ASSUME NEW k \in DOMAIN history PROVE \E j \in DOMAIN Listing(0) : Listing(0)[j] = history[k]
    <3>1. Len(history) + 1 - k \in 1..Len(history) /\ Len(history) + 1 - (Len(history) + 1 - k) = k
      BY <2>1
    <3> QED BY <2>2, <3>1
  <2>4. ASSUME NEW i \in Id, requests[i].op \in ByAt, answers[i] \in {"ok", "failed"}, NEW c \in Sent(i) \ lost
        PROVE  \E k \in DOMAIN Listing(0) :
                 /\ Listing(0)[k].command = c
                 /\ requests[i].op # "radio" => (Listing(0)[k].exit = 0 <=> answers[i] = "ok")
    <3>1. c \in All \ lost /\ c[1] = i
      BY <2>4 DEF Sent, All
    <3>2. PICK k \in DOMAIN history : /\ history[k].command = c
                                      /\ requests[i].op # "radio" => (history[k].exit = 0 <=> answers[i] = "ok")
      BY <1>1, <2>4, <3>1 DEF IInv, Recorded
    <3> QED BY <2>3, <3>2
  <2> QED BY <2>4 DEF AnsweredIsRecorded
<1> QED BY <1>1, Inductive, PTL
===============================================================================
