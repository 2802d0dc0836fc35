-------------------------- MODULE ProfileStoreProofs --------------------------
(***************************************************************************)
(* The guarantees of ProfileStore for any ids, documents, crashes and      *)
(* failing statements.  The variable lost never becomes FALSE again, so an *)
(* invariant that holds until a statement fails is guarded by ~ lost.      *)
(***************************************************************************)
EXTENDS ProfileStore, TLAPS

\* While the modem is asked, the profile whose command it was stays stored.
Asking == step = "discover" => subject = active /\ profiles[active] \in Docs

\* Every variable keeps its type; this needs Asking, for the ttl that is stored.
THEOREM TypeCorrect == Spec => [](TypeOK /\ Asking)
<1> USE ConstantsOK DEF TypeOK, Steps
<1>1. NoEntry \notin Entry /\ NoEntry.at \in Nat
  BY DEF NoEntry, Entry
<1>2. Init => TypeOK /\ Asking
  <2> SUFFICES ASSUME Init PROVE TypeOK /\ Asking
    OBVIOUS
  <2>1. profiles \in [Ids -> Docs \cup {None}] /\ cache \in [Ids -> Entry \cup {NoEntry}]
    BY DEF Init
  <2>2. gen \in [Ids -> Nat] /\ seen \in [Ids -> Nat] /\ torn \in SUBSET Ids /\ lost \in BOOLEAN
    BY DEF Init
  <2>3. row \in Ids \cup {None} /\ active \in Ids /\ step = "down" /\ subject \in Ids /\ now \in Nat
    BY DEF Init
  <2> QED BY <2>1, <2>2, <2>3 DEF Init, Asking
<1>3. TypeOK /\ Asking /\ [Next]_vars => TypeOK' /\ Asking'
  <2> SUFFICES ASSUME TypeOK, Asking, [Next]_vars PROVE TypeOK' /\ Asking'
    OBVIOUS
  <2> USE DEF history, Asking
  <2>1. CASE Import
    <3>1. lost' \in BOOLEAN BY <2>1 DEF Import
    <3>2. profiles' \in [Ids -> Docs \cup {None}] BY <2>1 DEF Import
    <3> QED BY <2>1, <3>1, <3>2 DEF Import
  <2>2. CASE LoadActive BY <2>2 DEF LoadActive, Loaded
  <2>3. CASE Crash BY <2>3 DEF Crash
  <2>4. ASSUME NEW i \in Ids, NEW d \in Docs, SaveProfile(i, d) PROVE TypeOK' /\ Asking' BY <2>4 DEF SaveProfile
  <2>5. ASSUME NEW i \in Ids, Activate(i) PROVE TypeOK' /\ Asking' BY <2>5 DEF Activate, Activate_Unchecked
  <2>6. CASE SaveActive BY <2>6 DEF SaveActive
  <2>7. ASSUME NEW i \in Ids, Delete(i) PROVE TypeOK' /\ Asking' BY <2>7 DEF Delete
  <2>8. CASE DeleteCache BY <2>8 DEF DeleteCache, Purged
  <2>9. CASE CachedBands
    <3>1. cache[active] \in Entry BY <2>9 DEF CachedBands, Fresh
    <3>2. reply' \in Reply BY <2>9, <3>1 DEF CachedBands, Answer, Reply, Entry
    <3> QED BY <2>9, <3>1, <3>2 DEF CachedBands, Answer, Entry
  <2>10. ASSUME NEW b \in BOOLEAN, AskModem(b) PROVE TypeOK' /\ Asking' BY <2>10 DEF AskModem
  <2>11. CASE ModemAnswers
    <3> DEFINE e == [at |-> now, ttl |-> Ttl[profiles[active]], gen |-> gen[active]]
    <3>1. e \in Entry BY <2>11 DEF Entry, ModemAnswers
    <3>2. reply' \in Reply BY <2>11, <3>1 DEF ModemAnswers, Answer, Reply
    <3>3. cache' \in [Ids -> Entry \cup {NoEntry}] BY <2>11, <3>1 DEF ModemAnswers, Stored
    <3>4. lost' \in BOOLEAN BY <2>11 DEF ModemAnswers
    <3>5. seen' \in [Ids -> Nat] BY <2>11, <3>1 DEF ModemAnswers, Answer, Entry
    <3>6. step' = "idle" /\ UNCHANGED <<profiles, row, active, subject, now, gen, torn>>
      BY <2>11 DEF ModemAnswers
    <3> QED BY <3>2, <3>3, <3>4, <3>5, <3>6
  <2>12. CASE Tick BY <2>12 DEF Tick
  <2>13. CASE UNCHANGED vars BY <2>13 DEF vars
  <2> QED BY <2>1, <2>2, <2>3, <2>4, <2>5, <2>6, <2>7, <2>8, <2>9, <2>10, <2>11, <2>12, <2>13 DEF Next, Handler
<1> QED BY <1>2, <1>3, PTL DEF Spec

\* Until a statement fails: the row names a stored profile whenever its id fits
\* cfg.active_profile, and memory follows the row except between the two steps
\* of an activation.
ActiveInv ==
  ~ lost =>
    /\ row # None => profiles[row] # None \/ Clip[row] # row
    /\ step \in {"idle", "delete", "discover"} => row # None /\ active = Clip[row]
    /\ step = "activate" => row # None /\ active = Clip[subject] /\ profiles[subject] # None
    /\ step \in {"down", "boot"} => active = CfgId
    /\ step = "boot" => profiles[FileId] # None

\* With a configuration that names the file's profile, the daemon serves an
\* existing active profile for as long as no statement failed.
THEOREM ActiveExists ==
  ASSUME CfgId = FileId PROVE Spec => []ActiveResolvable
<1> USE ConstantsOK DEF TypeOK, Steps, ActiveInv
<1>1. Init => ActiveInv
  BY DEF Init
<1>2. TypeOK /\ Asking /\ ActiveInv /\ [Next]_vars => ActiveInv'
  <2> SUFFICES ASSUME TypeOK, ActiveInv, [Next]_vars PROVE ActiveInv'
    OBVIOUS
  <2> USE DEF history
  <2>1. CASE Import BY <2>1 DEF Import
  <2>2. CASE LoadActive BY <2>2 DEF LoadActive, Loaded
  <2>3. CASE Crash BY <2>3 DEF Crash
  <2>4. ASSUME NEW i \in Ids, NEW d \in Docs, SaveProfile(i, d) PROVE ActiveInv' BY <2>4 DEF SaveProfile
  <2>5. ASSUME NEW i \in Ids, Activate(i) PROVE ActiveInv' BY <2>5 DEF Activate, Activate_Unchecked
  <2>6. CASE SaveActive BY <2>6 DEF SaveActive
  <2>7. ASSUME NEW i \in Ids, Delete(i) PROVE ActiveInv' BY <2>7 DEF Delete
  <2>8. CASE DeleteCache BY <2>8 DEF DeleteCache
  <2>9. CASE CachedBands BY <2>9 DEF CachedBands
  <2>10. ASSUME NEW b \in BOOLEAN, AskModem(b) \/ ModemAnswers PROVE ActiveInv'
    BY <2>10 DEF AskModem, ModemAnswers
  <2>11. CASE Tick \/ UNCHANGED vars BY <2>11 DEF Tick, vars
  <2> QED BY <2>1, <2>2, <2>3, <2>4, <2>5, <2>6, <2>7, <2>8, <2>9, <2>10, <2>11 DEF Next, Handler
<1>3. TypeOK /\ ActiveInv => ActiveResolvable
  BY DEF ActiveResolvable
<1> QED BY <1>1, <1>2, <1>3, TypeCorrect, PTL DEF Spec

\* A cache entry belongs to the present profile of its id unless the deletion
\* of an earlier one is under way or stopped half-way; so does what was shown.
CacheInv ==
  /\ \A i \in Ids : cache[i] # NoEntry /\ cache[i].gen # gen[i]
       => i \in torn \/ (step = "delete" /\ subject = i)
  /\ NoInheritedBands

\* Whether or not the database fails: bands of a deleted profile can reach its
\* successor only through an interrupted deletion.
THEOREM NothingInherited == Spec => []NoInheritedBands
<1> USE DEF TypeOK, CacheInv, NoInheritedBands, NoReply
<1>1. Init => CacheInv
  BY DEF Init
<1>2. TypeOK /\ Asking /\ CacheInv /\ [Next]_vars => CacheInv'
  <2> SUFFICES ASSUME TypeOK, Asking, CacheInv, [Next]_vars PROVE CacheInv'
    OBVIOUS
  <2> USE DEF history
  <2>1. CASE Import \/ LoadActive BY <2>1 DEF Import, LoadActive
  <2>2. CASE Crash BY <2>2 DEF Crash
  <2>3. ASSUME NEW i \in Ids, NEW d \in Docs, SaveProfile(i, d) PROVE CacheInv' BY <2>3 DEF SaveProfile
  <2>4. ASSUME NEW i \in Ids, Activate(i) PROVE CacheInv' BY <2>4 DEF Activate, Activate_Unchecked
  <2>5. CASE SaveActive BY <2>5 DEF SaveActive
  <2>6. ASSUME NEW i \in Ids, Delete(i) PROVE CacheInv' BY <2>6 DEF Delete
  <2>7. CASE DeleteCache BY <2>7 DEF DeleteCache, Purged
  <2>8. CASE CachedBands BY <2>8 DEF CachedBands, Answer, Fresh
  <2>9. ASSUME NEW b \in BOOLEAN, AskModem(b) PROVE CacheInv' BY <2>9 DEF AskModem
  <2>10. CASE ModemAnswers
    BY <2>10 DEF ModemAnswers, Answer, Stored, Asking
  <2>11. CASE Tick \/ UNCHANGED vars BY <2>11 DEF Tick, vars
  <2> QED BY <2>1, <2>2, <2>3, <2>4, <2>5, <2>6, <2>7, <2>8, <2>9, <2>10, <2>11 DEF Next, Handler
<1>3. CacheInv => NoInheritedBands
  OBVIOUS
<1> QED BY <1>1, <1>2, <1>3, TypeCorrect, PTL DEF Spec

\* What was last shown is not newer than the clock nor, until a statement fails,
\* than what the cache holds.
SeenInv ==
  /\ \A i \in Ids : seen[i] <= now
  /\ \A i \in Ids : cache[i] # NoEntry => cache[i].at <= now /\ (lost \/ seen[i] <= cache[i].at)
  /\ BandsNeverGoBack

\* The bands shown for a profile are within their ttl and, as long as no statement
\* failed, only get newer.
THEOREM OnlyNewer == Spec => []BandsNeverGoBack
<1> USE ConstantsOK DEF TypeOK, SeenInv, BandsNeverGoBack
<1>1. Init => SeenInv
  BY DEF Init
<1>2. TypeOK /\ Asking /\ SeenInv /\ [Next]_vars => SeenInv'
  <2> SUFFICES ASSUME TypeOK, Asking, SeenInv, [Next]_vars PROVE SeenInv'
    OBVIOUS
  <2> USE DEF history
  <2>1. CASE Import \/ LoadActive \/ Crash BY <2>1 DEF Import, LoadActive, Crash
  <2>2. ASSUME NEW i \in Ids, NEW d \in Docs, SaveProfile(i, d) PROVE SeenInv' BY <2>2 DEF SaveProfile
  <2>3. ASSUME NEW i \in Ids, Activate(i) PROVE SeenInv' BY <2>3 DEF Activate, Activate_Unchecked
  <2>4. CASE SaveActive BY <2>4 DEF SaveActive
  <2>5. ASSUME NEW i \in Ids, Delete(i) PROVE SeenInv' BY <2>5 DEF Delete
  <2>6. CASE DeleteCache BY <2>6 DEF DeleteCache, Purged
  <2>7. CASE CachedBands
    <3>1. cache[active] \in Entry /\ active \in Ids BY <2>7 DEF CachedBands, Fresh
    <3>2. now <= cache[active].at + cache[active].ttl /\ (lost \/ seen[active] <= cache[active].at)
      BY <2>7 DEF CachedBands, Fresh
    <3>3. BandsNeverGoBack' BY <2>7, <3>2 DEF CachedBands, Answer
    <3>4. seen' = [seen EXCEPT ![active] = cache[active].at] /\ UNCHANGED <<cache, now, lost>>
      BY <2>7 DEF CachedBands, Answer
    <3>5. cache[active].at <= now BY <2>7, <3>1 DEF CachedBands, Fresh
    <3>6. \A i \in Ids : seen'[i] <= now' BY <3>4, <3>5, <3>1 DEF Entry
    <3> QED BY <3>1, <3>3, <3>4, <3>6 DEF Entry
  <2>8. ASSUME NEW b \in BOOLEAN, AskModem(b) PROVE SeenInv' BY <2>8 DEF AskModem
  <2>9. CASE ModemAnswers
    <3>1. Ttl[profiles[active]] \in Nat BY <2>9 DEF Asking, ModemAnswers
    <3> QED BY <2>9, <3>1 DEF ModemAnswers, Answer, Stored
  <2>10. CASE Tick BY <2>10 DEF Tick, Entry
  <2>11. CASE UNCHANGED vars BY <2>11 DEF vars
  <2> QED BY <2>1, <2>2, <2>3, <2>4, <2>5, <2>6, <2>7, <2>8, <2>9, <2>10, <2>11 DEF Next, Handler
<1>3. SeenInv => BandsNeverGoBack
  OBVIOUS
<1> QED BY <1>1, <1>2, <1>3, TypeCorrect, PTL DEF Spec
=============================================================================
