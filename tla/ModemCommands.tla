---------------------------- MODULE ModemCommands ----------------------------
(***************************************************************************)
(* Requests that make the modem do something: the AT console, the test of  *)
(* a profile's command, the network locks, online/power, sending a         *)
(* message, the D-Bus test and the radio query, which is several commands  *)
(* (at.c, ofono.c 118-179, http.c 198-302, 471-496, 721-752, 940-1186).    *)
(* Each passes its own gate, is handed to ofono by dbus-send, waited for   *)
(* until a timeout, recorded in at_history when it is an AT command, and   *)
(* answered.                                                               *)
(*                                                                         *)
(* A command that timed out is still ofono's: the modem may carry it out   *)
(* after the answer, and after a crash of the daemon.  A command that the  *)
(* modem refuses comes back as a reply like any other, with ERROR for its  *)
(* text, which only the page shows: the daemon looks at the exit code of   *)
(* dbus-send and at nothing else.                                          *)
(***************************************************************************)
EXTENDS Integers, FiniteSets, SequencesExt

CONSTANTS Forms,        \* the requests: [op, confirm, complete, class]
          RadioParts,   \* the commands of a radio query, six in the code
          MaxRequests,  \* bound on requests
          MaxFails,     \* bound on failing statements
          MaxCrashes    \* bound on crashes

\* Requests with a confirm field, and those sent with at_send.
Confirmed == {"lockBand", "lockCell", "lockFrequency", "unlock", "online", "power"}
ByAt      == {"lockBand", "lockCell", "lockFrequency", "unlock", "console", "test", "radio"}
Ops       == Confirmed \cup {"console", "test", "radio", "sendSms", "dropCaches", "dbusTest"}

\* class: what a console command is.  "query" asks, "listed" begins with one of
\* the eight prefixes of at.c, "unlisted" changes the modem and is not listed,
\* "other" does not begin with AT.
ASSUME ConstantsOK ==
  /\ Forms \subseteq [op : Ops, confirm : {"none", "1", "true"}, complete : BOOLEAN,
                      class : {"none", "query", "listed", "unlisted", "other"}]
  /\ RadioParts \in Nat \ {0} /\ {MaxRequests, MaxFails, MaxCrashes} \subseteq Nat

VARIABLES
  allow,      \* cfg.allow_dangerous_at
  templates,  \* whether the active profile has the commands
  requests,   \* every request so far
  phase,      \* of the last one: "idle", "gate", "wait", "record", "next", "answer"
  part, exit, \* which of its commands is next, and the exit code of the last
  atModem,    \* the commands that ofono holds and the modem has not dealt with
  done,       \* those it has dealt with, in order
  rejected,   \* those of them it refused
  history,    \* at_history: [command, exit]
  lost,       \* history: the commands whose INSERT failed, unnoticed
  answers,    \* request -> "ok", "failed", "refused" or "none"
  crashes

job    == <<requests, phase, part, exit>>
table  == <<history, lost>>
vars   == <<allow, templates, job, atModem, done, rejected, table, answers, crashes>>

Id   == 1..Len(requests)
Now  == Len(requests)
Form == requests[Now]
Parts(op) == IF op = "radio" THEN RadioParts ELSE 1

\* A command is <<request, part>>.
Command == Id \X (1..RadioParts)
Current == <<Now, part>>
Timeout == 137                      \* 128 + SIGKILL, from run_capture
Failed  == 1

TypeOK ==
  /\ {allow, templates} \subseteq BOOLEAN
  /\ requests \in Seq(Forms) /\ Now <= MaxRequests
  /\ phase \in {"idle", "gate", "wait", "record", "next", "answer"} /\ (phase # "idle" => Now > 0)
  /\ exit \in {0, Failed, Timeout, 403}
  /\ part \in 1..RadioParts /\ (phase # "idle" => part <= Parts(Form.op))
  /\ IsInjective(atModem \o done) /\ ToSet(atModem \o done) \subseteq Command /\ rejected \subseteq ToSet(done)
  /\ history \in Seq([command : Command, exit : {0, Failed, Timeout}])
  /\ lost \subseteq Command /\ Cardinality(lost) <= MaxFails
  /\ answers \in [1..MaxRequests -> {"none", "ok", "failed", "refused"}]
  /\ crashes \in 0..MaxCrashes

Init ==
  /\ allow \in BOOLEAN /\ templates \in BOOLEAN
  /\ requests = <<>> /\ phase = "idle" /\ part = 1 /\ exit = 0
  /\ atModem = <<>> /\ done = <<>> /\ rejected = {} /\ history = <<>> /\ lost = {}
  /\ answers = [i \in 1..MaxRequests |-> "none"] /\ crashes = 0

-----------------------------------------------------------------------------
(* Gates.                                                                  *)

\* json_get_int: atoi of what follows the key.
IntOf(confirm) == IF confirm = "1" THEN 1 ELSE 0

\* at_is_safe_command.
Safe(class) == class \in {"query", "unlisted"}

Unconfirmed(f) == f.op \in Confirmed /\ IntOf(f.confirm) = 0

\* Missing fields; lock-band, lock-cell and the test have no command of their own.
Lacking(f) == ~f.complete \/ (f.op \in {"lockBand", "lockCell", "test"} /\ ~templates)

Receive(f) ==
  /\ phase = "idle" /\ Now < MaxRequests
  /\ requests' = Append(requests, f)
  /\ phase' = "gate" /\ part' = 1
  /\ UNCHANGED <<allow, templates, exit, atModem, done, rejected, table, answers, crashes>>

Answered(a) == answers' = [answers EXCEPT ![Now] = a] /\ phase' = "idle"

Refuse ==
  /\ phase = "gate" /\ (Unconfirmed(Form) \/ Lacking(Form))
  /\ Answered("refused")
  /\ UNCHANGED <<allow, templates, requests, part, exit, atModem, done, rejected, table, crashes>>

\* at_send returns 403 for a console command and writes no history.
AfterBlock_Recorded == "record"
AfterBlock == "answer"

Block ==
  /\ phase = "gate" /\ ~Lacking(Form)
  /\ Form.op = "console" /\ ~allow /\ ~Safe(Form.class)
  /\ exit' = 403 /\ phase' = AfterBlock
  /\ UNCHANGED <<allow, templates, requests, part, atModem, done, rejected, table, answers, crashes>>

Passes == ~Unconfirmed(Form) /\ ~Lacking(Form) /\ (Form.op = "console" => allow \/ Safe(Form.class))

\* Writing to drop_caches needs nobody else, but may fail.
DropCaches ==
  /\ phase = "gate" /\ Passes /\ Form.op = "dropCaches"
  /\ \/ done' = Append(done, Current) /\ exit' = 0
     \/ exit' = Failed /\ UNCHANGED done
  /\ phase' = "answer"
  /\ UNCHANGED <<allow, templates, requests, part, atModem, rejected, table, answers, crashes>>

-----------------------------------------------------------------------------
(* dbus_send_call, at_send and the answer.                                 *)

Send ==
  /\ phase = "gate" /\ Passes /\ Form.op # "dropCaches"
  /\ atModem' = Append(atModem, Current) /\ phase' = "wait"
  /\ UNCHANGED <<allow, templates, requests, part, exit, done, rejected, table, answers, crashes>>

\* ofono is not there, or dbus-send cannot even be started: then there is no
\* output and at_send records nothing.
SendFails ==
  /\ phase = "gate" /\ Passes /\ Form.op # "dropCaches"
  /\ exit' = Failed /\ phase' \in {"record", "next"}
  /\ UNCHANGED <<allow, templates, requests, part, atModem, done, rejected, table, answers, crashes>>

\* External: ofono passes commands on one after the other, and the modem carries
\* each out or refuses it.
Execute ==
  /\ atModem # <<>>
  /\ done' = Append(done, Head(atModem)) /\ atModem' = Tail(atModem)
  /\ rejected' \in {rejected, rejected \cup {Head(atModem)}}
  /\ UNCHANGED <<allow, templates, job, table, answers, crashes>>

\* What ofono returns from a method call: SendMessage as soon as the message is
\* queued, SetProperty what was set, SendAtcmd whatever the modem said.
SetProperty == {"online", "power"}
Returned ==
  /\ Current \in ToSet(done) \/ (Form.op = "sendSms" /\ Current \in ToSet(atModem))
  /\ Form.op \in SetProperty => Current \notin rejected

\* dbus-send exits with 0 on any method return.
Reply ==
  /\ phase = "wait" /\ Returned
  /\ exit' = 0 /\ phase' = "record"
  /\ UNCHANGED <<allow, templates, requests, part, atModem, done, rejected, table, answers, crashes>>

\* ofono may answer with a D-Bus error at any time, though the command is with
\* the modem or done.
ErrorReply ==
  /\ phase = "wait"
  /\ exit' = Failed /\ phase' = "record"
  /\ UNCHANGED <<allow, templates, requests, part, atModem, done, rejected, table, answers, crashes>>

\* The reply may come too late, or not at all.
GiveUp ==
  /\ phase = "wait"
  /\ exit' = Timeout /\ phase' = "record"
  /\ UNCHANGED <<allow, templates, requests, part, atModem, done, rejected, table, answers, crashes>>

Worth_Success == exit = 0
Worth == TRUE

\* at_history has every AT command that was sent, however it ended; nobody
\* looks whether the INSERT failed.
Record ==
  /\ phase = "record" /\ phase' = "next"
  /\ IF Form.op \in ByAt /\ Worth
       THEN \/ history' = Append(history, [command |-> Current, exit |-> exit]) /\ UNCHANGED lost
            \/ Cardinality(lost) < MaxFails /\ lost' = lost \cup {Current} /\ UNCHANGED history
       ELSE UNCHANGED table
  /\ UNCHANGED <<allow, templates, requests, part, exit, atModem, done, rejected, answers, crashes>>

\* The radio query goes on to its next command, whatever became of this one.
NextPart ==
  /\ phase = "next" /\ part < Parts(Form.op)
  /\ part' = part + 1 /\ phase' = "gate"
  /\ UNCHANGED <<allow, templates, requests, exit, atModem, done, rejected, table, answers, crashes>>

LastPart ==
  /\ phase = "next" /\ part = Parts(Form.op)
  /\ phase' = "answer"
  /\ UNCHANGED <<allow, templates, requests, part, exit, atModem, done, rejected, table, answers, crashes>>

IsOk_Sent(e) == e # Failed /\ e # 403
IsOk(e) == e = 0

Answer ==
  /\ phase = "answer"
  /\ Answered(IF IsOk(exit) \/ Form.op = "radio" THEN "ok" ELSE "failed")
  /\ UNCHANGED <<allow, templates, requests, part, exit, atModem, done, rejected, table, crashes>>

\* db_list_at_history_json: the newest first, 30 of them if the limit is senseless.
Listing(limit) ==
  LET n == IF limit <= 0 \/ limit > 100 THEN 30 ELSE limit
  IN [i \in 1..(IF Len(history) < n THEN Len(history) ELSE n) |-> history[Len(history) + 1 - i]]

\* settings-save, between two requests.
SetAllow ==
  /\ phase = "idle" /\ Now < MaxRequests
  /\ allow' = ~allow
  /\ UNCHANGED <<templates, job, atModem, done, rejected, table, answers, crashes>>

Crash ==
  /\ phase # "idle" /\ crashes < MaxCrashes
  /\ crashes' = crashes + 1 /\ phase' = "idle"
  /\ UNCHANGED <<allow, templates, requests, part, exit, atModem, done, rejected, table, answers>>

Next ==
  \/ \E f \in Forms : Receive(f)
  \/ Refuse \/ Block \/ DropCaches \/ Send \/ SendFails \/ Execute \/ Reply \/ ErrorReply \/ GiveUp
  \/ Record \/ NextPart \/ LastPart \/ Answer \/ SetAllow \/ Crash

Spec == Init /\ [][Next]_vars

-----------------------------------------------------------------------------
(* Properties.                                                             *)

Sent(i) == {c \in ToSet(atModem \o done) : c[1] = i}

\* Nothing happens on behalf of a request after it was answered ok, but for a
\* message that is still queued: ofono has replied to the command, which the
\* modem carried out or refused, and to a property which was set.  So has it to
\* each command the history shows with exit code 0, though a radio query is
\* answered ok however its commands end.  A refused request does nothing, then
\* or later (http.c 198-234, 245-262, 286, at.c 51-62).
OkIsSettled ==
  /\ \A i \in Id : LET op == requests[i].op IN
       /\ answers[i] = "ok" /\ op \notin {"radio", "sendSms"} => <<i, 1>> \in ToSet(done)
       /\ answers[i] = "ok" /\ op \in SetProperty => <<i, 1>> \notin rejected
       /\ answers[i] = "refused" => Sent(i) = {}
  /\ \A k \in DOMAIN history : history[k].exit = 0 => history[k].command \in ToSet(done)

\* Every AT command that was sent for a request that is answered is in the
\* history that is listed, as long as its INSERT did not fail, with the outcome
\* that was answered, through crashes and timeouts (at.c 58-62, db.c 291-325).
AnsweredIsRecorded ==
  LET listed == Listing(0) IN
  \A i \in Id : requests[i].op \in ByAt /\ answers[i] \in {"ok", "failed"} =>
    \A c \in Sent(i) \ lost : \E k \in DOMAIN listed :
      /\ listed[k].command = c
      /\ requests[i].op # "radio" => (listed[k].exit = 0 <=> answers[i] = "ok")

\* Locking, rebooting, dropping caches and sending messages need the field
\* {"confirm": true} (DESIGN.md:638-644): a request that has it is not refused
\* for the lack of it.  atoi reads true as 0.
ConfirmTrueIsEnough ==
  \A i \in Id : answers[i] = "refused" /\ requests[i].complete /\ templates
                  => requests[i].confirm # "true"
===============================================================================
