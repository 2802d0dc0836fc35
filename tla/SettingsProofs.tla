----------------------------- MODULE SettingsProofs -----------------------------
(***************************************************************************)
(* What Settings promises for any values, any answers of ofono, and any    *)
(* number of requests, edits, failing statements and crashes.              *)
(***************************************************************************)
EXTENDS Settings, SequenceTheorems, TLAPS

-----------------------------------------------------------------------------
(* The inductive invariant.                                                  *)

\* What the daemon runs with is what the last change asked for.
InForce == phase # "down" => cfg = asked

\* Apart from the rows still to write and those whose statement failed, the rows
\* hold what the daemon runs with.
Agree ==
  phase # "down" => \A f \in Field \ (lost \cup ToSet(todo)) : rows[f] # Absent => rows[f] = cfg[f]

\* The disk holds each setting as before the last change or as that asked it, and
\* as before it while the daemon starts.
Kept ==
  \A f \in Field : /\ Durable[f] \in {prev[f], asked[f]}
                   /\ Starting => Durable[f] = prev[f]

\* The settings have the fields and nothing else.
Shaped == \A g \in {file, rows, cfg, prev, asked} : DOMAIN g = Field

IInv == TypeOK /\ Shaped /\ InForce /\ Agree /\ Kept

-----------------------------------------------------------------------------
(* Values.                                                                   *)

LEMMA ValueFacts ==
  ASSUME NEW f \in Field
  PROVE  Values[f] \subseteq Value(f) /\ Default[f] \in Value(f) /\ Absent \notin Value(f)
<1>1. Values[f] \subseteq Int \ {Absent}
  BY ConstantsOK
<1>2. Default[f] \in Int \ {Absent}
  BY DEF Default, Absent
<1> QED BY <1>1, <1>2 DEF Value

\* A setting read from the file depends on its own line only, and is a value.
LEMMA Loaded ==
  ASSUME NEW f \in Field, NEW g, g[f] \in Value(f) \cup {Absent}
  PROVE  /\ FromFile(g)[f] \in Value(f)
         /\ \A h : h[f] = g[f] => FromFile(h)[f] = FromFile(g)[f]
<1>1. Default[f] \in Value(f)
  BY ValueFacts
<1>2. Default["timeout"] = Default.timeout
  OBVIOUS
<1>3. \A h : FromFile(h)[f] = IF h[f] = Absent THEN Default[f]
                              ELSE IF f = "timeout" THEN Clamped(h[f]) ELSE h[f]
  BY DEF FromFile
<1>4. CASE g[f] = Absent
  <2>1. \A h : h[f] = g[f] => FromFile(h)[f] = Default[f]
    BY <1>3, <1>4
  <2> QED BY <1>1, <2>1
<1>5. CASE g[f] # Absent /\ f = "timeout"
  <2>1. FromFile(g)[f] = Clamped(g[f]) /\ g[f] \in Value(f)
    BY <1>3, <1>5
  <2>2. Clamped(g[f]) \in Value(f)
    BY <1>1, <1>2, <1>5, <2>1 DEF Clamped
  <2>3. \A h : h[f] = g[f] => FromFile(h)[f] = Clamped(g[f])
    BY <1>3, <1>5
  <2> QED BY <2>1, <2>2, <2>3
<1>6. CASE g[f] # Absent /\ f # "timeout"
  <2>1. \A h : h[f] = g[f] => FromFile(h)[f] = g[f]
    BY <1>3, <1>6
  <2> QED BY <2>1, <1>6
<1> QED BY <1>4, <1>5, <1>6

LEMMA DurableIs ==
  /\ DOMAIN Durable = Field
  /\ \A f \in Field : Durable[f] = IF rows[f] = Absent THEN FromFile(file)[f] ELSE rows[f]
BY DEF Durable

LEMMA DurableIsNext ==
  /\ DOMAIN Durable' = Field
  /\ \A f \in Field : Durable'[f] = IF rows'[f] = Absent THEN FromFile(file')[f] ELSE rows'[f]
BY DEF Durable, FromFile

LEMMA DurableType ==
  ASSUME TypeOK, NEW f \in Field PROVE Durable[f] \in Value(f)
<1>1. file[f] \in Value(f) \cup {Absent} /\ rows[f] \in Value(f) \cup {Absent}
  BY DEF TypeOK
<1> QED BY <1>1, Loaded, DurableIs

\* The first row to write, and the others.
LEMMA Shorter ==
  ASSUME NEW S, NEW s \in Seq(S), s # <<>>
  PROVE  Tail(s) \in Seq(S) /\ Head(s) \in S /\ ToSet(s) = ToSet(Tail(s)) \cup {Head(s)}
<1> DEFINE t == Tail(s)
<1>1. /\ t \in Seq(S) /\ DOMAIN t = 1..(Len(s) - 1) /\ DOMAIN s = 1..Len(s) /\ Len(s) \in Nat /\ Len(s) > 0
      /\ \A i \in 1..(Len(s) - 1) : t[i] = s[i + 1]
  OBVIOUS
<1>2. Head(s) = s[1] /\ s[1] \in S
  OBVIOUS
<1> HIDE DEF t
<1>3. \A i \in DOMAIN s : i = 1 \/ (i - 1 \in DOMAIN t /\ s[i] = t[i - 1])
  BY <1>1
<1>4. \A i \in DOMAIN t : i + 1 \in DOMAIN s /\ t[i] = s[i + 1]
  BY <1>1
<1>5. ToSet(s) \subseteq ToSet(t) \cup {s[1]}
  BY <1>3 DEF ToSet
<1>6. ToSet(t) \cup {s[1]} \subseteq ToSet(s)
  BY <1>1, <1>4 DEF ToSet
<1> QED BY <1>1, <1>2, <1>5, <1>6 DEF t

-----------------------------------------------------------------------------
(* The steps.                                                                *)

\* What a request may ask for: values of its fields, whose rows it writes.
Asks(fields, new, order) ==
  /\ fields \subseteq Field /\ order \in Seq(Field) /\ fields \subseteq ToSet(order)
  /\ \A f \in fields : new[f] \in Values[f]

\* Discover takes a path, which is the configured one, or is set and its row put.
Takes(path) ==
  /\ phase = "modems" /\ path \in Paths
  /\ \/ path = cfg.path /\ UNCHANGED <<cfg, rows, prev, asked, lost, fails>>
     \/ /\ cfg' = [cfg EXCEPT !.path = path] /\ asked' = [asked EXCEPT !.path = path]
        /\ Put("path", path)
        /\ prev' = IF "path" \in lost' THEN prev ELSE [prev EXCEPT !.path = path]
  /\ phase' = "serving"
  /\ UNCHANGED <<file, todo, ofono, changes, crashes>>

\* EditFile gives a line a value.
Edited(f, v) ==
  /\ f \in Field /\ v \in Value(f)
  /\ changes < MaxChanges /\ changes' = changes + 1
  /\ file' = [file EXCEPT ![f] = v]
  /\ prev' = IF rows[f] # Absent THEN prev ELSE [prev EXCEPT ![f] = FromFile(file')[f]]
  /\ UNCHANGED <<rows, cfg, phase, todo, ofono, asked, lost, crashes, fails>>

\* The steps of main that change nothing but the phase.
Goes ==
  /\ Starting /\ phase' \in {"modems", "serving"}
  /\ UNCHANGED <<file, rows, cfg, todo, ofono, prev, asked, lost, changes, crashes, fails>>

LEMMA Cases ==
  ASSUME TypeOK, Next
  PROVE  \/ Start \/ Goes \/ (\E path : Takes(path))
         \/ (\E fields, new, order : Asks(fields, new, order) /\ Change(fields, new, order))
         \/ WriteRow \/ Answer \/ (\E f, v : Edited(f, v)) \/ OfonoChanges \/ Crash
<1>1. CASE Probe \/ ProbeFails \/ DiscoverNothing
  BY <1>1 DEF Probe, ProbeFails, DiscoverNothing, Goes, Starting
<1>2. CASE Discover
  <2>1. ofono \in Listings /\ phase = "modems"
    BY <1>2 DEF Discover, TypeOK
  <2>2. PICK i \in DOMAIN ofono :
          LET path == ofono[i].path IN
          IF path = cfg.path THEN UNCHANGED <<cfg, rows, prev, asked, lost, fails>>
          ELSE /\ cfg' = [cfg EXCEPT !.path = path] /\ asked' = [asked EXCEPT !.path = path]
               /\ Put("path", path)
               /\ prev' = IF "path" \in lost' THEN prev ELSE [prev EXCEPT !.path = path]
    BY <1>2 DEF Discover
  <2>3. ofono[i].path \in Paths
    BY <2>1, ConstantsOK
  <2>4. phase' = "serving" /\ UNCHANGED <<file, todo, ofono, changes, crashes>>
    BY <1>2 DEF Discover
  <2>5. Takes(ofono[i].path)
    BY <2>1, <2>2, <2>3, <2>4 DEF Takes
  <2> QED BY <2>5
<1>3. CASE SaveSettings
  <2>1. ToSet(SavedRows) = {"host", "path", "timeout"} /\ SavedRows \in Seq(Field)
    BY DEF ToSet, SavedRows, Field
  <2>2. PICK fields \in SUBSET ToSet(SavedRows) : \E h \in Hosts, p \in Paths, t \in Timeouts :
          Change(fields, [host |-> h, path |-> p, timeout |-> t], SavedRows)
    BY <1>3 DEF SaveSettings
  <2>3. PICK h \in Hosts, p \in Paths, t \in Timeouts :
          Change(fields, [host |-> h, path |-> p, timeout |-> t], SavedRows)
    BY <2>2
  <2> DEFINE new == [host |-> h, path |-> p, timeout |-> t]
  <2>4. new["host"] \in Values["host"] /\ new["path"] \in Values["path"] /\ new["timeout"] \in Values["timeout"]
    BY DEF Values
  <2> HIDE DEF new
  <2>5. Asks(fields, new, SavedRows)
    BY <2>1, <2>4 DEF Asks, Field
  <2> QED BY <2>3, <2>5 DEF new
<1>4. CASE ChangePassword
  <2> DEFINE order == <<"user", "pass">>
             fields == {"user", "pass"}
  <2>1. ToSet(order) = fields /\ order \in Seq(Field)
    BY DEF ToSet, Field
  <2>2. PICK u \in Users, p \in Passes : Change(fields, [user |-> u, pass |-> p], order)
    BY <1>4 DEF ChangePassword
  <2> DEFINE new == [user |-> u, pass |-> p]
  <2>3. new["user"] \in Values["user"] /\ new["pass"] \in Values["pass"]
    BY DEF Values
  <2> HIDE DEF new, order
  <2>4. Asks(fields, new, order)
    BY <2>1, <2>3 DEF Asks, Field
  <2> QED BY <2>2, <2>4 DEF new
<1>5. ASSUME EditFile PROVE \E f, v : Edited(f, v)
  <2>1. ASSUME NEW f \in Edits, NEW v \in Values[f] PROVE f \in Field /\ v \in Value(f)
    BY ConstantsOK, ValueFacts
  <2> QED BY <1>5, <2>1 DEF EditFile, Edited
<1> QED BY <1>1, <1>2, <1>3, <1>4, <1>5 DEF Next

-----------------------------------------------------------------------------
(* Types.                                                                    *)

LEMMA TypeInit ==
  ASSUME Init PROVE TypeOK /\ Shaped
<1>1. /\ DOMAIN file = Field /\ DOMAIN rows = Field /\ \A f \in Field : rows[f] = Absent
      /\ cfg = FromFile(file) /\ prev = cfg /\ asked = cfg
      /\ \A f \in Field : file[f] \in Values[f] \cup {Absent}
  BY DEF Init, Values
<1>2. ASSUME NEW f \in Field
      PROVE  {file[f], rows[f]} \subseteq Value(f) \cup {Absent} /\ {cfg[f], prev[f], asked[f]} \subseteq Value(f)
  <2>1. file[f] \in Value(f) \cup {Absent}
    BY <1>1, ValueFacts
  <2>2. cfg[f] \in Value(f)
    BY <1>1, <2>1, Loaded
  <2> QED BY <1>1, <2>1, <2>2
<1>3. DOMAIN cfg = Field
  BY <1>1 DEF FromFile
<1>4. todo = <<>> /\ phase = "down" /\ ofono \in Listings \cup {Hung} /\ lost = {} /\ changes = 0 /\ crashes = 0 /\ fails = 0
  BY DEF Init
<1>5. MaxChanges \in Nat /\ MaxCrashes \in Nat /\ MaxFails \in Nat
  BY ConstantsOK
<1>6. todo \in Seq(Field)
  BY <1>4
<1> QED BY <1>1, <1>2, <1>3, <1>4, <1>5, <1>6 DEF TypeOK, Shaped

\* A statement for a row.
LEMMA PutFacts ==
  ASSUME TypeOK, Shaped, NEW f \in Field, NEW v \in Value(f), Put(f, v)
  PROVE  /\ DOMAIN rows' = Field /\ lost' \subseteq Field /\ fails' \in 0..MaxFails
         /\ \A g \in Field : rows'[g] \in Value(g) \cup {Absent}
         /\ \A g \in Field \ {f} : rows'[g] = rows[g] /\ (g \in lost' <=> g \in lost)
         /\ IF f \in lost' THEN rows' = rows ELSE rows'[f] = v
<1>1. /\ DOMAIN rows = Field /\ lost \subseteq Field /\ fails \in 0..MaxFails
      /\ \A g \in Field : rows[g] \in Value(g) \cup {Absent}
  BY DEF TypeOK, Shaped
<1>2. CASE rows' = [rows EXCEPT ![f] = v] /\ lost' = lost \ {f} /\ UNCHANGED fails
  BY <1>1, <1>2
<1>3. CASE fails < MaxFails /\ fails' = fails + 1 /\ lost' = lost \cup {f} /\ UNCHANGED rows
  <2>1. fails' \in 0..MaxFails
    BY <1>1, <1>3, ConstantsOK
  <2> QED BY <1>1, <1>3, <2>1
<1> QED BY <1>2, <1>3 DEF Put

LEMMA TypeNext ==
  ASSUME TypeOK, Shaped, [Next]_vars PROVE TypeOK' /\ Shaped'
<1> DEFINE OnDisk(g) == DOMAIN g = Field /\ \A f \in Field : g[f] \in Value(f) \cup {Absent}
           InMemory(g) == DOMAIN g = Field /\ \A f \in Field : g[f] \in Value(f)
           Disk == OnDisk(file) /\ OnDisk(rows)
           Memory == InMemory(cfg) /\ InMemory(prev) /\ InMemory(asked)
           Control == /\ phase \in {"down", "probe", "modems", "serving", "writing"}
                      /\ todo \in Seq(Field) /\ (todo # <<>> => phase = "writing")
           Counts == changes \in 0..MaxChanges /\ crashes \in 0..MaxCrashes /\ fails \in 0..MaxFails
           Rest == ofono \in Listings \cup {Hung} /\ lost \subseteq Field
<1>1. Disk /\ Memory /\ Control /\ Counts /\ Rest
  BY DEF TypeOK, Shaped
<1>2. SUFFICES Disk' /\ Memory' /\ Control' /\ Counts' /\ Rest'
  BY DEF TypeOK, Shaped, Value
<1>3. InMemory(Durable)
  BY DurableIs, DurableType
<1>4. ASSUME UNCHANGED <<file, rows>> PROVE Disk'
  BY <1>1, <1>4
<1>5. ASSUME UNCHANGED <<cfg, prev, asked>> PROVE Memory'
  BY <1>1, <1>5
<1>6. ASSUME UNCHANGED <<changes, crashes, fails>> PROVE Counts'
  BY <1>1, <1>6
<1>7. ASSUME UNCHANGED <<ofono, lost>> PROVE Rest'
  BY <1>1, <1>7
<1>8. MaxChanges \in Nat /\ MaxCrashes \in Nat /\ MaxFails \in Nat
  BY ConstantsOK
<1>9. CASE Start
  <2>1. cfg' = Overridden(FromFile(file)) /\ prev' = cfg' /\ asked' = cfg'
    BY <1>9 DEF Start
  <2>2. cfg' = Durable
    BY <2>1 DEF Overridden, Durable
  <2>3. Memory'
    BY <1>3, <2>1, <2>2
  <2>4. /\ phase = "down" /\ lost' = {} /\ phase' = "probe"
        /\ UNCHANGED <<file, rows, todo, ofono, changes, crashes, fails>>
    BY <1>9 DEF Start
  <2>5. Control'
    BY <1>1, <2>4
  <2> QED BY <1>1, <1>4, <1>6, <2>3, <2>4, <2>5
<1>10. CASE Goes
  <2>1. /\ phase # "writing" /\ phase' \in {"modems", "serving"}
        /\ UNCHANGED <<file, rows, cfg, todo, ofono, prev, asked, lost, changes, crashes, fails>>
    BY <1>10 DEF Goes, Starting
  <2>2. Control'
    BY <1>1, <2>1
  <2> QED BY <1>4, <1>5, <1>6, <1>7, <2>1, <2>2
<1>11. ASSUME NEW path, Takes(path) PROVE <1>2!1
  <2>1. path \in Value("path") /\ "path" \in Field
    BY <1>11, ValueFacts DEF Takes, Values, Field
  <2>2. /\ phase = "modems" /\ phase' = "serving"
        /\ UNCHANGED <<file, todo, ofono, changes, crashes>>
    BY <1>11 DEF Takes
  <2>3. Control'
    BY <1>1, <2>2
  <2>4. CASE UNCHANGED <<cfg, rows, prev, asked, lost, fails>>
    BY <1>4, <1>5, <1>6, <1>7, <2>2, <2>3, <2>4
  <2>5. CASE /\ cfg' = [cfg EXCEPT !.path = path] /\ asked' = [asked EXCEPT !.path = path]
             /\ Put("path", path)
             /\ prev' = IF "path" \in lost' THEN prev ELSE [prev EXCEPT !.path = path]
    <3>1. OnDisk(rows') /\ lost' \subseteq Field /\ fails' \in 0..MaxFails
      BY <2>1, <2>5, PutFacts
    <3>2. ASSUME NEW g, InMemory(g) PROVE InMemory([g EXCEPT !.path = path])
      BY <2>1, <3>2
    <3>3. InMemory(cfg') /\ InMemory(asked') /\ InMemory(prev')
      BY <1>1, <2>5, <3>2
    <3>4. Disk'
      BY <1>1, <2>2, <3>1
    <3>5. Memory'
      BY <3>3
    <3> QED BY <1>1, <2>2, <2>3, <3>1, <3>4, <3>5
  <2> QED BY <1>11, <2>4, <2>5 DEF Takes
<1>12. ASSUME NEW fields, NEW new, NEW order, Asks(fields, new, order), Change(fields, new, order) PROVE <1>2!1
  <2>1. /\ prev' = Durable /\ cfg' = [f \in Field |-> IF f \in fields THEN new[f] ELSE cfg[f]] /\ asked' = cfg'
        /\ phase' = "writing" /\ todo' = order /\ changes < MaxChanges /\ changes' = changes + 1
        /\ UNCHANGED <<file, rows, ofono, lost, crashes, fails>>
    BY <1>12 DEF Change
  <2>2. \A f \in fields : new[f] \in Value(f)
    BY <1>12, ValueFacts DEF Asks
  <2>3. InMemory(cfg')
    BY <1>1, <2>1, <2>2
  <2>4. Memory'
    BY <1>3, <2>1, <2>3
  <2>5. order \in Seq(Field)
    BY <1>12 DEF Asks
  <2>6. Counts'
    BY <1>1, <1>8, <2>1
  <2> QED BY <1>4, <1>7, <2>1, <2>4, <2>5, <2>6
<1>13. CASE WriteRow
  <2>1. /\ phase = "writing" /\ todo # <<>> /\ Put(Head(todo), cfg[Head(todo)]) /\ todo' = Tail(todo)
        /\ UNCHANGED <<file, cfg, phase, ofono, prev, asked, changes, crashes>>
    BY <1>13 DEF WriteRow, RowValue
  <2>2. Tail(todo) \in Seq(Field) /\ Head(todo) \in Field
    BY <1>1, <2>1, Shorter
  <2>3. OnDisk(rows') /\ lost' \subseteq Field /\ fails' \in 0..MaxFails
    BY <1>1, <2>1, <2>2, PutFacts
  <2>4. Disk' /\ Control'
    BY <1>1, <2>1, <2>2, <2>3
  <2> QED BY <1>1, <1>5, <2>1, <2>3, <2>4
<1>14. CASE Answer
  <2>1. /\ phase = "writing" /\ todo = <<>> /\ phase' = "serving"
        /\ prev' = [f \in Field |-> IF rows[f] = Absent \/ f \in lost THEN prev[f] ELSE asked[f]]
        /\ UNCHANGED <<file, rows, cfg, todo, ofono, asked, lost, changes, crashes, fails>>
    BY <1>14 DEF Answer, Finished
  <2>2. InMemory(prev')
    BY <1>1, <2>1
  <2>3. Memory' /\ Control'
    BY <1>1, <2>1, <2>2
  <2> QED BY <1>4, <1>6, <1>7, <2>1, <2>3
<1>15. ASSUME NEW f, NEW v, Edited(f, v) PROVE <1>2!1
  <2>1. /\ changes < MaxChanges /\ changes' = changes + 1
        /\ file' = [file EXCEPT ![f] = v]
        /\ prev' = IF rows[f] # Absent THEN prev ELSE [prev EXCEPT ![f] = FromFile(file')[f]]
        /\ UNCHANGED <<rows, cfg, phase, todo, ofono, asked, lost, crashes, fails>>
    BY <1>15 DEF Edited
  <2>2. f \in Field /\ v \in Value(f)
    BY <1>15 DEF Edited
  <2>3. OnDisk(file')
    BY <1>1, <2>1, <2>2
  <2>4. FromFile(file')[f] \in Value(f)
    BY <2>2, <2>3, Loaded
  <2>5. InMemory(prev')
    BY <1>1, <2>1, <2>2, <2>4
  <2>6. Disk' /\ Memory' /\ Control'
    BY <1>1, <2>1, <2>3, <2>5
  <2>7. Counts'
    BY <1>1, <1>8, <2>1
  <2> QED BY <1>7, <2>1, <2>6, <2>7
<1>16. CASE OfonoChanges
  <2>1. /\ ofono' \in Listings \cup {Hung}
        /\ UNCHANGED <<file, rows, cfg, phase, todo, prev, asked, lost, changes, crashes, fails>>
    BY <1>16 DEF OfonoChanges
  <2> QED BY <1>1, <1>4, <1>5, <1>6, <2>1
<1>17. CASE Crash
  <2>1. /\ crashes < MaxCrashes /\ crashes' = crashes + 1 /\ phase' = "down" /\ todo' = <<>>
        /\ UNCHANGED <<file, rows, cfg, ofono, prev, asked, lost, changes, fails>>
    BY <1>17 DEF Crash
  <2>2. Counts'
    BY <1>1, <1>8, <2>1
  <2>3. Control'
    BY <2>1
  <2> QED BY <1>4, <1>5, <1>7, <2>1, <2>2, <2>3
<1>18. CASE UNCHANGED vars
  BY <1>1, <1>18 DEF vars
<1>19. CASE Next
  BY <1>9, <1>10, <1>11, <1>12, <1>13, <1>14, <1>15, <1>16, <1>17, <1>19, Cases
<1> QED BY <1>18, <1>19

-----------------------------------------------------------------------------
(* What is in force and what is on disk.                                     *)

LEMMA InForceNext ==
  ASSUME TypeOK, InForce, [Next]_vars PROVE InForce'
<1>1. CASE Start
  BY <1>1 DEF Start, InForce
<1>2. ASSUME NEW path, Takes(path) PROVE InForce'
  BY <1>2 DEF Takes, InForce
<1>3. ASSUME NEW fields, NEW new, NEW order, Change(fields, new, order) PROVE InForce'
  BY <1>3 DEF Change, InForce
<1>4. ASSUME UNCHANGED <<cfg, asked>>, phase = "down" => phase' = "down" PROVE InForce'
  BY <1>4 DEF InForce
<1>5. CASE Goes \/ WriteRow \/ Answer \/ OfonoChanges
  BY <1>4, <1>5 DEF Goes, Starting, WriteRow, Answer, OfonoChanges
<1>6. ASSUME NEW f, NEW v, Edited(f, v) PROVE InForce'
  BY <1>4, <1>6 DEF Edited
<1>7. CASE Crash
  BY <1>7 DEF Crash, InForce
<1>8. CASE UNCHANGED vars
  BY <1>4, <1>8 DEF vars
<1>9. CASE Next
  BY <1>1, <1>2, <1>3, <1>5, <1>6, <1>7, <1>9, Cases
<1> QED BY <1>8, <1>9

LEMMA AgreeNext ==
  ASSUME TypeOK, Shaped, Agree, [Next]_vars PROVE Agree'
<1>1. /\ DOMAIN cfg = Field /\ DOMAIN rows = Field /\ todo \in Seq(Field)
      /\ \A f \in Field : cfg[f] \in Value(f)
  BY DEF TypeOK, Shaped
<1>2. SUFFICES ASSUME phase' # "down", NEW f \in Field, f \notin lost', f \notin ToSet(todo'), rows'[f] # Absent
               PROVE  rows'[f] = cfg'[f]
  BY DEF Agree
<1>3. ASSUME phase # "down", f \notin lost, f \notin ToSet(todo), rows'[f] = rows[f] PROVE rows'[f] = cfg[f]
  BY <1>2, <1>3 DEF Agree
<1>4. CASE Start
  <2>1. cfg' = Overridden(FromFile(file)) /\ rows' = rows
    BY <1>4 DEF Start
  <2> QED BY <1>2, <2>1 DEF Overridden
<1>5. ASSUME UNCHANGED <<rows, cfg, lost>>, phase # "down", todo' = todo PROVE rows'[f] = cfg'[f]
  BY <1>2, <1>3, <1>5
<1>6. CASE Goes
  BY <1>5, <1>6 DEF Goes, Starting
<1>7. ASSUME NEW path, Takes(path) PROVE rows'[f] = cfg'[f]
  <2>1. path \in Value("path") /\ "path" \in Field
    BY <1>7, ValueFacts DEF Takes, Values, Field
  <2>2. phase = "modems" /\ todo' = todo
    BY <1>7 DEF Takes
  <2>3. CASE UNCHANGED <<cfg, rows, prev, asked, lost, fails>>
    BY <1>5, <2>2, <2>3
  <2>4. CASE cfg' = [cfg EXCEPT !.path = path] /\ Put("path", path)
    <3>1. /\ \A g \in Field \ {"path"} : rows'[g] = rows[g] /\ (g \in lost' <=> g \in lost)
          /\ IF "path" \in lost' THEN rows' = rows ELSE rows'["path"] = path
      BY <2>1, <2>4, PutFacts
    <3>2. CASE f = "path"
      BY <1>1, <1>2, <2>1, <2>4, <3>1, <3>2
    <3>3. CASE f # "path"
      BY <1>1, <1>2, <1>3, <2>2, <2>4, <3>1, <3>3
    <3> QED BY <3>2, <3>3
  <2> QED BY <1>7, <2>3, <2>4 DEF Takes
<1>8. ASSUME NEW fields, NEW new, NEW order, Asks(fields, new, order), Change(fields, new, order)
      PROVE  rows'[f] = cfg'[f]
  <2>1. /\ phase = "serving" /\ cfg' = [g \in Field |-> IF g \in fields THEN new[g] ELSE cfg[g]] /\ todo' = order
        /\ UNCHANGED <<rows, lost>>
    BY <1>8 DEF Change
  <2>2. f \notin fields
    BY <1>2, <1>8, <2>1 DEF Asks
  <2>3. todo = <<>>
    BY <2>1 DEF TypeOK
  <2>4. f \notin ToSet(todo)
    BY <2>3 DEF ToSet
  <2> QED BY <1>2, <1>3, <2>1, <2>2, <2>4
<1>9. CASE WriteRow
  <2>1. /\ phase = "writing" /\ todo # <<>> /\ Put(Head(todo), cfg[Head(todo)]) /\ todo' = Tail(todo) /\ cfg' = cfg
    BY <1>9 DEF WriteRow, RowValue
  <2>2. Head(todo) \in Field /\ ToSet(todo) = ToSet(Tail(todo)) \cup {Head(todo)}
    BY <1>1, <2>1, Shorter
  <2>3. /\ \A g \in Field \ {Head(todo)} : rows'[g] = rows[g] /\ (g \in lost' <=> g \in lost)
        /\ IF Head(todo) \in lost' THEN rows' = rows ELSE rows'[Head(todo)] = cfg[Head(todo)]
    BY <1>1, <2>1, <2>2, PutFacts
  <2>4. CASE f = Head(todo)
    BY <1>2, <2>1, <2>3, <2>4
  <2>5. CASE f # Head(todo)
    BY <1>2, <1>3, <2>1, <2>2, <2>3, <2>5
  <2> QED BY <2>4, <2>5
<1>10. CASE Answer
  BY <1>5, <1>10 DEF Answer
<1>11. ASSUME NEW g, NEW v, Edited(g, v) PROVE rows'[f] = cfg'[f]
  <2>1. UNCHANGED <<rows, cfg, lost>> /\ phase' = phase /\ todo' = todo
    BY <1>11 DEF Edited
  <2> QED BY <1>2, <1>5, <2>1
<1>12. CASE OfonoChanges \/ UNCHANGED vars
  <2>1. UNCHANGED <<rows, cfg, lost>> /\ phase' = phase /\ todo' = todo
    BY <1>12 DEF OfonoChanges, vars
  <2> QED BY <1>2, <1>5, <2>1
<1>13. ~ Crash
  BY <1>2 DEF Crash
<1>14. CASE Next
  BY <1>4, <1>6, <1>7, <1>8, <1>9, <1>10, <1>11, <1>12, <1>13, <1>14, Cases
<1> QED BY <1>12, <1>14

LEMMA KeptNext ==
  ASSUME TypeOK, Shaped, InForce, Agree, Kept, [Next]_vars PROVE Kept'
<1>1. /\ DOMAIN cfg = Field /\ DOMAIN rows = Field /\ DOMAIN prev = Field /\ DOMAIN asked = Field
      /\ DOMAIN file = Field /\ todo \in Seq(Field)
      /\ \A f \in Field : cfg[f] \in Value(f)
  BY DEF TypeOK, Shaped
<1>2. SUFFICES ASSUME NEW f \in Field
               PROVE  Durable'[f] \in {prev'[f], asked'[f]} /\ (Starting' => Durable'[f] = prev'[f])
  BY DEF Kept
<1> DEFINE Safe == Durable'[f] \in {prev'[f], asked'[f]} /\ (Starting' => Durable'[f] = prev'[f])
<1>3. Durable[f] \in {prev[f], asked[f]} /\ (Starting => Durable[f] = prev[f])
  BY DEF Kept
<1>4. ASSUME UNCHANGED <<file, rows>> PROVE Durable' = Durable
  BY <1>4 DEF Durable, FromFile
<1>5. ASSUME UNCHANGED <<file, rows, prev, asked>>, Starting' => Starting PROVE Safe
  BY <1>3, <1>4, <1>5
<1>6. CASE Start
  <2>1. cfg' = Durable /\ prev' = cfg' /\ asked' = cfg' /\ UNCHANGED <<file, rows>>
    BY <1>6 DEF Start, Overridden, Durable
  <2> QED BY <1>4, <2>1
<1>7. CASE Goes
  BY <1>5, <1>7 DEF Goes
<1>8. ASSUME NEW path, Takes(path) PROVE Safe
  <2>1. path \in Value("path") /\ "path" \in Field /\ Absent \notin Value("path")
    BY <1>8, ValueFacts DEF Takes, Values, Field
  <2>2. Starting /\ ~ Starting' /\ file' = file
    BY <1>8 DEF Takes, Starting
  <2>3. CASE UNCHANGED <<cfg, rows, prev, asked, lost, fails>>
    BY <1>5, <2>2, <2>3
  <2>4. CASE /\ asked' = [asked EXCEPT !.path = path] /\ Put("path", path)
             /\ prev' = IF "path" \in lost' THEN prev ELSE [prev EXCEPT !.path = path]
    <3>1. /\ \A g \in Field \ {"path"} : rows'[g] = rows[g]
          /\ IF "path" \in lost' THEN rows' = rows ELSE rows'["path"] = path
      BY <2>1, <2>4, PutFacts
    <3>2. CASE "path" \in lost'
      BY <1>3, <1>4, <2>2, <2>4, <3>1, <3>2
    <3>3. CASE "path" \notin lost' /\ f = "path"
      <4>1. Durable'[f] = path
        BY <2>1, <3>1, <3>3, DurableIsNext
      <4>2. prev'[f] = path
        BY <1>1, <2>1, <2>4, <3>3
      <4> QED BY <2>2, <4>1, <4>2
    <3>4. CASE "path" \notin lost' /\ f # "path"
      <4>1. rows'[f] = rows[f]
        BY <3>1, <3>4
      <4>2. Durable'[f] = Durable[f]
        BY <2>2, <4>1, DurableIs, DurableIsNext
      <4>3. prev'[f] = prev[f]
        BY <1>1, <2>4, <3>4
      <4> QED BY <1>3, <2>2, <4>2, <4>3
    <3> QED BY <3>2, <3>3, <3>4
  <2> QED BY <1>8, <2>3, <2>4 DEF Takes
<1>9. ASSUME NEW fields, NEW new, NEW order, Change(fields, new, order) PROVE Safe
  <2>1. prev' = Durable /\ UNCHANGED <<file, rows>>
    BY <1>9 DEF Change
  <2> QED BY <1>4, <2>1
<1>10. CASE WriteRow
  <2>1. /\ phase = "writing" /\ phase' = phase /\ todo # <<>> /\ Put(Head(todo), cfg[Head(todo)])
        /\ UNCHANGED <<file, prev, asked>>
    BY <1>10 DEF WriteRow, RowValue
  <2>2. Head(todo) \in Field
    BY <1>1, <2>1, Shorter
  <2>3. cfg[Head(todo)] \in Value(Head(todo)) /\ Absent \notin Value(Head(todo))
    BY <1>1, <2>2, ValueFacts
  <2>4. /\ \A g \in Field \ {Head(todo)} : rows'[g] = rows[g]
        /\ IF Head(todo) \in lost' THEN rows' = rows ELSE rows'[Head(todo)] = cfg[Head(todo)]
    BY <2>1, <2>2, <2>3, PutFacts
  <2>5. rows'[f] = rows[f] \/ (f = Head(todo) /\ rows'[f] = cfg[f])
    BY <2>4
  <2>6. CASE rows'[f] = rows[f]
    <3>1. Durable'[f] = Durable[f]
      BY <2>1, <2>6, DurableIs, DurableIsNext
    <3> QED BY <1>3, <2>1, <3>1 DEF Starting
  <2>7. CASE f = Head(todo) /\ rows'[f] = cfg[f]
    <3>1. Durable'[f] = cfg[f]
      BY <2>3, <2>7, DurableIsNext
    <3>2. cfg[f] = asked'[f]
      BY <2>1 DEF InForce
    <3> QED BY <2>1, <3>1, <3>2 DEF Starting
  <2> QED BY <2>5, <2>6, <2>7
<1>11. CASE Answer
  <2>1. /\ phase = "writing" /\ todo = <<>> /\ ~ Starting'
        /\ prev' = [g \in Field |-> IF rows[g] = Absent \/ g \in lost THEN prev[g] ELSE asked[g]]
        /\ UNCHANGED <<file, rows, asked>>
    BY <1>11 DEF Answer, Finished, Starting
  <2>2. CASE rows[f] = Absent \/ f \in lost
    BY <1>3, <1>4, <2>1, <2>2
  <2>3. CASE rows[f] # Absent /\ f \notin lost
    <3>1. f \notin ToSet(todo)
      BY <2>1 DEF ToSet
    <3>2. rows[f] = cfg[f]
      BY <2>1, <2>3, <3>1 DEF Agree
    <3>3. Durable'[f] = asked'[f]
      BY <1>4, <2>1, <2>3, <3>2, DurableIs DEF InForce
    <3> QED BY <2>1, <3>3
  <2> QED BY <2>2, <2>3
<1>12. ASSUME NEW g, NEW v, Edited(g, v) PROVE Safe
  <2>1. /\ g \in Field /\ file' = [file EXCEPT ![g] = v]
        /\ prev' = IF rows[g] # Absent THEN prev ELSE [prev EXCEPT ![g] = FromFile(file')[g]]
        /\ UNCHANGED <<rows, asked>> /\ phase' = phase
    BY <1>12 DEF Edited
  <2>2. CASE f = g /\ rows[g] = Absent
    <3>1. Durable'[f] = FromFile(file')[f] /\ prev'[f] = FromFile(file')[f]
      BY <1>1, <2>1, <2>2, DurableIsNext
    <3> QED BY <3>1
  <2>3. CASE f # g \/ rows[g] # Absent
    <3>1. prev'[f] = prev[f]
      BY <1>1, <2>1, <2>3
    <3>2. f # g => FromFile(file')[f] = FromFile(file)[f]
      <4>1. f # g => file'[f] = file[f]
        BY <1>1, <2>1
      <4>2. file[f] \in Value(f) \cup {Absent}
        BY DEF TypeOK
      <4> QED BY <4>1, <4>2, Loaded
    <3>3. Durable'[f] = Durable[f]
      BY <2>1, <2>3, <3>2, DurableIs, DurableIsNext
    <3> QED BY <1>3, <2>1, <3>1, <3>3 DEF Starting
  <2> QED BY <2>2, <2>3
<1>13. CASE OfonoChanges \/ UNCHANGED vars
  <2>1. UNCHANGED <<file, rows, prev, asked>> /\ phase' = phase
    BY <1>13 DEF OfonoChanges, vars
  <2> QED BY <1>5, <2>1 DEF Starting
<1>14. CASE Crash
  BY <1>5, <1>14 DEF Crash, Starting
<1>15. CASE Next
  BY <1>6, <1>7, <1>8, <1>9, <1>10, <1>11, <1>12, <1>13, <1>14, <1>15, Cases
<1> QED BY <1>13, <1>15

-----------------------------------------------------------------------------
(* The theorems.                                                             *)

LEMMA Inductive == Spec => []IInv
<1>1. Init => IInv
  <2> SUFFICES ASSUME Init PROVE IInv
    OBVIOUS
  <2>1. TypeOK /\ Shaped
    BY TypeInit
  <2>2. phase = "down" /\ cfg = FromFile(file) /\ prev = cfg /\ \A f \in Field : rows[f] = Absent
    BY DEF Init
  <2>3. InForce /\ Agree
    BY <2>2 DEF InForce, Agree
  <2>4. Kept
    BY <2>2, DurableIs DEF Kept
  <2> QED BY <2>1, <2>3, <2>4 DEF IInv
<1>2. IInv /\ [Next]_vars => IInv'
  BY TypeNext, InForceNext, AgreeNext, KeptNext DEF IInv
<1> QED BY <1>1, <1>2, PTL DEF Spec

\* File, rows and memory hold values, and rows are left to write only while a request does.
THEOREM TypeCorrect == Spec => []TypeOK
<1>1. IInv => TypeOK
  BY DEF IInv
<1> QED BY <1>1, Inductive, PTL

\* Between requests the rows and the memory agree, apart from the statements that failed.
THEOREM AnsweredSaved == Spec => []AnsweredIsSaved
<1>1. IInv => AnsweredIsSaved
  <2> SUFFICES ASSUME IInv, phase = "serving", NEW f \in Field \ lost, rows[f] # Absent PROVE rows[f] = cfg[f]
    BY DEF AnsweredIsSaved
  <2>1. todo = <<>>
    BY DEF IInv, TypeOK
  <2>2. f \notin ToSet(todo)
    BY <2>1 DEF ToSet
  <2> QED BY <2>2 DEF IInv, Agree
<1> QED BY <1>1, Inductive, PTL

\* Wherever a crash cut the writes of a request short, each setting comes back as it
\* was before or as it was asked for.
THEOREM OldOrNew == Spec => RestartIsOldOrNew
<1>1. IInv => [Start => \A f \in Field : cfg'[f] \in {prev[f], asked[f]}]_vars
  <2> SUFFICES ASSUME IInv, Start, NEW f \in Field PROVE cfg'[f] \in {prev[f], asked[f]}
    OBVIOUS
  <2>1. cfg' = Durable
    BY DEF Start, Overridden, Durable
  <2> QED BY <2>1 DEF IInv, Kept
<1> QED BY <1>1, Inductive, PTL DEF RestartIsOldOrNew
=============================================================================
