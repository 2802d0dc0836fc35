------------------------------- MODULE Settings -------------------------------
(***************************************************************************)
(* The settings: the file read at start-up (config.c), the rows of the     *)
(* database that override it and the modem path discovered over D-Bus      *)
(* (main.c, ofono.c), and the two requests that change them: settings-save *)
(* and password, which set the memory at once and then write row by row.   *)
(*                                                                         *)
(* Five fields stand for the nineteen: host for the forwarding settings,   *)
(* path for ofono_modem_path, timeout for at_timeout_ms, user and pass.    *)
(* A statement may fail: nobody looks at what db_set_setting returns.      *)
(***************************************************************************)
EXTENDS Integers, SequencesExt

CONSTANTS Hosts, Paths, Timeouts, Users, Passes,  \* what clients save and files hold
          Listings,     \* the answers to GetModems: sequences of [path, ifaces]
          Edits,        \* the fields the operator edits in the file
          MaxChanges,   \* bound on requests and edits together
          MaxFails,     \* bound on failing statements
          MaxCrashes    \* bound on crashes

Field    == {"host", "path", "timeout", "user", "pass"}
Absent   == -1           \* no line in the file, no row in the database
Default  == [f \in Field |-> CASE f = "timeout" -> 3000 [] OTHER -> 0]
Values   == [host |-> Hosts, path |-> Paths, timeout |-> Timeouts, user |-> Users, pass |-> Passes]

ASSUME ConstantsOK ==
  /\ \A f \in Field : Values[f] \subseteq Int \ {Absent}
  /\ Edits \subseteq Field /\ {MaxChanges, MaxFails} \subseteq Nat /\ MaxCrashes \in Nat
  /\ \A l \in Listings : \A i \in DOMAIN l : l[i].path \in Paths

VARIABLES
  file, rows,      \* field -> value or Absent
  cfg,             \* the daemon's memory
  phase,           \* "down", "probe", "modems", "serving", "writing"
  todo,            \* the rows the current request has still to write
  ofono,           \* what GetModems would answer; Hung when nothing answers
  prev, asked,     \* the settings on disk before the last change, as it asked them
  lost,            \* history: the fields whose last statement failed
  changes, crashes, fails

vars == <<file, rows, cfg, phase, todo, ofono, prev, asked, lost, changes, crashes, fails>>

Hung     == <<[path |-> Absent, ifaces |-> {}]>>
Starting == phase \in {"probe", "modems"}
Value(f) == Values[f] \cup {Default[f]}

TypeOK ==
  /\ \A f \in Field : /\ {file[f], rows[f]} \subseteq Value(f) \cup {Absent}
                      /\ {cfg[f], prev[f], asked[f]} \subseteq Value(f)
  /\ phase \in {"down", "probe", "modems", "serving", "writing"}
  /\ todo \in Seq(Field) /\ (todo # <<>> => phase = "writing")
  /\ ofono \in Listings \cup {Hung}
  /\ lost \subseteq Field
  /\ changes \in 0..MaxChanges /\ crashes \in 0..MaxCrashes /\ fails \in 0..MaxFails

-----------------------------------------------------------------------------
(* Loading: config_load, then main's db_get_setting of every field.        *)

Clamped_Not(t) == t
Clamped(t) == IF t <= 0 THEN Default.timeout ELSE t

FromFile(fl) == [f \in Field |-> IF fl[f] = Absent THEN Default[f]
                                ELSE IF f = "timeout" THEN Clamped(fl[f]) ELSE fl[f]]

\* The rows are copied as they are, a timeout of zero included.
Overridden_Partly(c) == [f \in Field |-> IF rows[f] = Absent \/ f = "timeout" THEN c[f] ELSE rows[f]]
Overridden(c) == [f \in Field |-> IF rows[f] = Absent THEN c[f] ELSE rows[f]]

Init ==
  /\ file \in [Field -> {Absent}] \cup {[f \in Field |-> IF f = "timeout" THEN t ELSE Absent] : t \in Timeouts}
  /\ rows = [f \in Field |-> Absent] /\ cfg = FromFile(file)
  /\ phase = "down" /\ todo = <<>> /\ ofono \in Listings \cup {Hung}
  /\ prev = FromFile(file) /\ asked = FromFile(file)
  /\ lost = {} /\ changes = 0 /\ crashes = 0 /\ fails = 0

Start ==
  /\ phase = "down"
  /\ cfg' = Overridden(FromFile(file))
  /\ prev' = cfg' /\ asked' = cfg' /\ lost' = {}
  /\ phase' = "probe"
  /\ UNCHANGED <<file, rows, todo, ofono, changes, crashes, fails>>

\* db_set_setting: the row has the value, or the statement fails unnoticed.
Put(f, v) ==
  \/ /\ rows' = [rows EXCEPT ![f] = v] /\ lost' = lost \ {f}
     /\ UNCHANGED fails
  \/ /\ fails < MaxFails /\ fails' = fails + 1
     /\ lost' = lost \cup {f}
     /\ UNCHANGED rows

-----------------------------------------------------------------------------
(* ofono_resolve_modem_path.                                               *)

Weight == [NetworkRegistration |-> 4, MessageManager |-> 4, SimManager |-> 2,
           Modem |-> 2, RadioSettings |-> 1]
Score(m) == FoldSet(LAMBDA i, s : s + Weight[i], 0, m.ifaces)

\* The scan keeps the first of the best: a later one must score more.
Best(i) ==
  \A j \in DOMAIN ofono :
    IF j < i THEN Score(ofono[j]) < Score(ofono[i]) ELSE Score(ofono[j]) <= Score(ofono[i])

\* The configured path answers GetProperties.
Probe ==
  /\ phase = "probe" /\ ofono # Hung
  /\ \E i \in DOMAIN ofono : ofono[i].path = cfg.path
  /\ phase' = "serving"
  /\ UNCHANGED <<file, rows, cfg, todo, ofono, prev, asked, lost, changes, crashes, fails>>

\* It does not, or nothing does: run_capture gives up only under a timeout.
ProbeFails ==
  /\ phase = "probe"
  /\ IF ofono = Hung THEN cfg.timeout > 0 ELSE \A i \in DOMAIN ofono : ofono[i].path # cfg.path
  /\ phase' = "modems"
  /\ UNCHANGED <<file, rows, cfg, todo, ofono, prev, asked, lost, changes, crashes, fails>>

\* GetModems: the best path is taken and saved, whoever had set the other one.
Discover ==
  /\ phase = "modems" /\ ofono # Hung
  /\ \E i \in DOMAIN ofono :
       LET path == ofono[i].path IN
       /\ Best(i)
       /\ IF path = cfg.path THEN UNCHANGED <<cfg, rows, prev, asked, lost, fails>>
          ELSE /\ cfg' = [cfg EXCEPT !.path = path] /\ asked' = [asked EXCEPT !.path = path]
               /\ Put("path", path)
               /\ prev' = IF "path" \in lost' THEN prev ELSE [prev EXCEPT !.path = path]
  /\ phase' = "serving"
  /\ UNCHANGED <<file, todo, ofono, changes, crashes>>

DiscoverNothing ==
  /\ phase = "modems"
  /\ ofono = <<>> \/ (ofono = Hung /\ cfg.timeout > 0)
  /\ phase' = "serving"
  /\ UNCHANGED <<file, rows, cfg, todo, ofono, prev, asked, lost, changes, crashes, fails>>

-----------------------------------------------------------------------------
(* api_system_settings_save and api_system_password.                       *)

\* What a crash now would leave to the next start.
Durable == [f \in Field |-> IF rows[f] = Absent THEN FromFile(file)[f] ELSE rows[f]]

Change(fields, new, order) ==
  /\ phase = "serving" /\ changes < MaxChanges
  /\ prev' = Durable
  /\ cfg' = [f \in Field |-> IF f \in fields THEN new[f] ELSE cfg[f]]
  /\ asked' = cfg'
  /\ phase' = "writing" /\ todo' = order
  /\ changes' = changes + 1
  /\ UNCHANGED <<file, rows, ofono, lost, crashes, fails>>

\* A form with some of the fields; every row is written all the same.
SavedRows == <<"host", "path", "timeout">>
SaveSettings ==
  \E fields \in SUBSET ToSet(SavedRows) : \E h \in Hosts, p \in Paths, t \in Timeouts :
    Change(fields, [host |-> h, path |-> p, timeout |-> t], SavedRows)

ChangePassword ==
  \E u \in Users, p \in Passes : Change({"user", "pass"}, [user |-> u, pass |-> p], <<"user", "pass">>)

\* The value is the one in memory.
RowValue_Late(f) == prev[f]
RowValue(f) == cfg[f]

WriteRow ==
  /\ phase = "writing" /\ todo # <<>>
  /\ Put(Head(todo), RowValue(Head(todo))) /\ todo' = Tail(todo)
  /\ UNCHANGED <<file, cfg, phase, ofono, prev, asked, changes, crashes>>

Finished_Early == Len(todo) <= 1
Finished == todo = <<>>

Answer ==
  /\ phase = "writing" /\ Finished
  /\ phase' = "serving"
  /\ prev' = [f \in Field |-> IF rows[f] = Absent \/ f \in lost THEN prev[f] ELSE asked[f]]
  /\ UNCHANGED <<file, rows, cfg, todo, ofono, asked, lost, changes, crashes, fails>>

-----------------------------------------------------------------------------
(* Everything else.                                                        *)

\* The operator edits a line; it counts at the next start, where no row hides it.
EditFile ==
  \E f \in Edits : \E v \in Values[f] :
    /\ changes < MaxChanges /\ changes' = changes + 1
    /\ file' = [file EXCEPT ![f] = v]
    /\ IF rows[f] # Absent THEN UNCHANGED prev
                           ELSE prev' = [prev EXCEPT ![f] = FromFile(file')[f]]
    /\ UNCHANGED <<rows, cfg, phase, todo, ofono, asked, lost, crashes, fails>>

OfonoChanges ==
  /\ ofono' \in (Listings \cup {Hung}) \ {ofono}
  /\ UNCHANGED <<file, rows, cfg, phase, todo, prev, asked, lost, changes, crashes, fails>>

Crash ==
  /\ phase # "down" /\ crashes < MaxCrashes
  /\ crashes' = crashes + 1 /\ phase' = "down" /\ todo' = <<>>
  /\ UNCHANGED <<file, rows, cfg, ofono, prev, asked, lost, changes, fails>>

Next ==
  \/ Start \/ Probe \/ ProbeFails \/ Discover \/ DiscoverNothing
  \/ SaveSettings \/ ChangePassword \/ WriteRow \/ Answer
  \/ EditFile \/ OfonoChanges \/ Crash

Spec == Init /\ [][Next]_vars

\* main runs on; ofono, clients and operators owe nothing.
FairSpec == Spec /\ WF_vars(Probe \/ ProbeFails) /\ WF_vars(Discover \/ DiscoverNothing)

-----------------------------------------------------------------------------
(* Properties.                                                             *)

\* A start-up finds each setting as the disk held it before the last change or
\* as that change asked, wherever a crash cut its writes short and whichever of
\* its statements failed, and as it asked once it was answered and no statement
\* for it failed (main.c 62-104, http.c 847-911).
RestartIsOldOrNew ==
  [][Start => \A f \in Field : cfg'[f] \in {prev[f], asked[f]}]_vars

\* Once a request is answered, memory and database agree on every field but
\* those whose last statement failed, so that a crash right after the answer
\* loses nothing else, what other requests or the discovery wrote included
\* (http.c 870-911, main.c 130-131).
AnsweredIsSaved ==
  phase = "serving" => \A f \in Field \ lost : rows[f] # Absent => rows[f] = cfg[f]

\* A start-up with ofono hung still reaches the server, whatever timeout the
\* file gives, unless a client saved one that is not positive, which main does
\* not check (config.c 129-132, main.c 100, ofono.c 68-75).
StartsUp ==
  (Starting /\ (rows.timeout = Absent \/ rows.timeout > 0)) ~> ~Starting
===============================================================================
