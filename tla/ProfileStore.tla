----------------------------- MODULE ProfileStore -----------------------------
(***************************************************************************)
(* Device profiles, the active profile and the band cache.                 *)
(*                                                                         *)
(* Three pieces of state live in SQLite: device_profiles (profiles), the   *)
(* active_profile row of settings (row), and capability_cache for          *)
(* network.band (cache).  The HTTP thread also keeps the active profile in *)
(* memory (cfg.active_profile).  Each handler is split at its database     *)
(* statements: the daemon may die, or a statement fail, between two.       *)
(*                                                                         *)
(* A profile's JSON is a member of Docs; Ttl gives its cache_ttl_sec and   *)
(* Discovering says which ones have network.band.discovery.command.  A     *)
(* response is stored in the same way whether the discovery failed or not. *)
(* The modem path, part of the cache's key, stays the same here.           *)
(***************************************************************************)
EXTENDS Integers

CONSTANTS Ids,         \* profile ids
          Docs,        \* profile documents
          Ttl,         \* Ttl[d], for every document
          Discovering, \* documents with a discovery command
          FileId,      \* id in the profile file
          FileDoc,     \* its document
          CfgId,       \* active_profile of the configuration file
          Clip,        \* Clip[i]: i cut to the 127 bytes of cfg.active_profile
          None,        \* no row
          MaxGen,      \* bound: how often an id is deleted
          MaxTime      \* bound: the clock

ASSUME ConstantsOK ==
  /\ Ttl \in [Docs -> Nat] /\ Discovering \subseteq Docs
  /\ FileId \in Ids /\ CfgId \in Ids /\ FileDoc \in Docs
  /\ Clip \in [Ids -> Ids] /\ Clip[CfgId] = CfgId
  /\ None \notin Ids /\ None \notin Docs
  /\ MaxGen \in Nat /\ MaxTime \in Nat

VARIABLES
  profiles, \* profiles[i]: the JSON stored under i, or None
  cache,    \* cache[i]: the band entry of i, or NoEntry
  row,      \* settings.active_profile, or None
  active,   \* cfg.active_profile
  step,     \* what the daemon is in the middle of
  subject,  \* the id that step is about
  now,      \* now_unix()
  reply,    \* the last answer of GET /api/network/bands
  gen,      \* history: gen[i] counts the deletions of i
  seen,     \* history: seen[i], when the bands last shown for i were discovered
  torn,     \* history: ids whose deletion stopped half-way
  lost      \* history: a statement has failed

vars == <<profiles, cache, row, active, step, subject, now, reply, gen, seen, torn, lost>>

Entry   == [at : Nat, ttl : Nat, gen : Nat]
NoEntry == [at |-> 0, ttl |-> -1, gen |-> 0]
NoReply == [id |-> None, at |-> 0, entry |-> NoEntry, gen |-> 0, since |-> 0]
Reply   == [id : Ids, at : Nat, entry : Entry, gen : Nat, since : Nat]
Steps   == {"down", "boot", "idle", "activate", "delete", "discover"}

TypeOK ==
  /\ profiles \in [Ids -> Docs \cup {None}]
  /\ cache \in [Ids -> Entry \cup {NoEntry}]
  /\ row \in Ids \cup {None} /\ active \in Ids
  /\ step \in Steps /\ subject \in Ids
  /\ now \in Nat
  /\ reply \in Reply \cup {NoReply}
  /\ gen \in [Ids -> Nat] /\ seen \in [Ids -> Nat] /\ torn \in SUBSET Ids
  /\ lost \in BOOLEAN

\* A fresh database: nothing stored yet.
Init ==
  /\ profiles = [i \in Ids |-> None] /\ cache = [i \in Ids |-> NoEntry]
  /\ row = None /\ active = CfgId
  /\ step = "down" /\ subject = CfgId /\ now = 0 /\ reply = NoReply
  /\ gen = [i \in Ids |-> 0] /\ seen = [i \in Ids |-> 0] /\ torn = {}
  /\ lost = FALSE

history == <<gen, seen, torn, lost>>

-----------------------------------------------------------------------------
(* Start-up (main).                                                        *)

\* profile_import_file upserts the file's profile over whatever is stored.
Import ==
  /\ step = "down"
  /\ step' = "boot"
  /\ \/ profiles' = [profiles EXCEPT ![FileId] = FileDoc] /\ UNCHANGED lost
     \/ lost' = TRUE /\ UNCHANGED profiles
  /\ UNCHANGED <<cache, row, active, subject, now, reply, gen, seen, torn>>

\* The saved id wins over the configuration file's, which is saved otherwise.
Loaded_Unchecked == row                               \* fault: a missing row is used
Loaded == IF row # None THEN Clip[row] ELSE active
LoadActive ==
  /\ step = "boot"
  /\ step' = "idle" /\ active' = Loaded
  /\ \/ row # None /\ UNCHANGED <<row, lost>>
     \/ row = None /\ row' = active /\ UNCHANGED lost
     \/ row = None /\ lost' = TRUE /\ UNCHANGED row
  /\ UNCHANGED <<profiles, cache, subject, now, reply, gen, seen, torn>>

\* The process dies; the next one starts from the configuration file.
Crash ==
  /\ step # "down"
  /\ step' = "down" /\ active' = CfgId
  /\ torn' = IF step = "delete" THEN torn \cup {subject} ELSE torn
  /\ UNCHANGED <<profiles, cache, row, subject, now, reply, gen, seen, lost>>

-----------------------------------------------------------------------------
(* Profile handlers.                                                       *)

\* api_profiles_save, through profile_import_json.
SaveProfile(i, d) ==
  /\ step = "idle"
  /\ profiles' = [profiles EXCEPT ![i] = d]
  /\ UNCHANGED <<cache, row, active, step, subject, now, reply, history>>

\* api_profiles_activate: memory first ...
Activate_Unchecked(i) ==                    \* fault: the id is not looked up
  /\ step = "idle"
  /\ active' = Clip[i] /\ step' = "activate" /\ subject' = i
  /\ UNCHANGED <<profiles, cache, row, now, reply, history>>
Activate(i) == profiles[i] # None /\ Activate_Unchecked(i)

\* ... then the row; the result of db_set_setting is not looked at.
SaveActive ==
  /\ step = "activate"
  /\ step' = "idle"
  /\ \/ row' = subject /\ UNCHANGED lost
     \/ lost' = TRUE /\ UNCHANGED row
  /\ UNCHANGED <<profiles, cache, active, subject, now, reply, gen, seen, torn>>

\* api_profiles_delete spares the profile active in memory.  db_delete_profile
\* removes the profile, then its cache, in two transactions.
Delete(i) ==
  /\ step = "idle" /\ i # active /\ profiles[i] # None /\ gen[i] < MaxGen
  /\ profiles' = [profiles EXCEPT ![i] = None] /\ gen' = [gen EXCEPT ![i] = @ + 1]
  /\ step' = "delete" /\ subject' = i
  /\ UNCHANGED <<cache, row, active, now, reply, seen, torn, lost>>

Purged_Active == [cache EXCEPT ![active] = NoEntry]   \* fault: the wrong id is bound
Purged == [cache EXCEPT ![subject] = NoEntry]
DeleteCache ==
  /\ step = "delete"
  /\ step' = "idle"
  /\ \/ cache' = Purged /\ UNCHANGED <<torn, lost>>
     \/ UNCHANGED cache /\ torn' = torn \cup {subject} /\ lost' = TRUE
  /\ UNCHANGED <<profiles, row, active, subject, now, reply, gen, seen>>

-----------------------------------------------------------------------------
(* GET /api/network/bands.                                                 *)

Answer(e) ==
  /\ reply' = [id |-> active, at |-> now, entry |-> e, gen |-> gen[active],
               since |-> seen[active]]
  /\ seen' = [seen EXCEPT ![active] = e.at]

\* db_get_capability_cache returns the entry while updated_at + ttl_sec >= now.
Fresh(e) == e # NoEntry /\ e.at + e.ttl >= now

CachedBands ==
  /\ step = "idle" /\ Fresh(cache[active])
  /\ Answer(cache[active])
  /\ UNCHANGED <<profiles, cache, row, active, step, subject, now, gen, torn, lost>>

\* A miss, or refresh=1: the profile's command is sent to the modem.
AskModem(refresh) ==
  /\ step = "idle" /\ (refresh \/ ~ Fresh(cache[active]))
  /\ profiles[active] \in Discovering
  /\ step' = "discover" /\ subject' = active
  /\ UNCHANGED <<profiles, cache, row, active, now, reply, history>>

\* The response is stored, failed or not, with the ttl the profile gives; the
\* result of the store is not looked at.
Stored_KeepOld(e) == IF cache[active] = NoEntry THEN [cache EXCEPT ![active] = e] ELSE cache
Stored(e) == [cache EXCEPT ![active] = e]
ModemAnswers ==
  /\ step = "discover"
  /\ step' = "idle"
  /\ LET e == [at |-> now, ttl |-> Ttl[profiles[active]], gen |-> gen[active]]
     IN  /\ Answer(e)
         /\ \/ cache' = Stored(e) /\ UNCHANGED lost
            \/ lost' = TRUE /\ UNCHANGED cache
  /\ UNCHANGED <<profiles, row, active, subject, now, gen, torn>>

Tick ==
  /\ now < MaxTime
  /\ now' = now + 1
  /\ UNCHANGED <<profiles, cache, row, active, step, subject, reply, history>>

Handler ==
  \/ \E i \in Ids : Activate(i) \/ Delete(i) \/ \E d \in Docs : SaveProfile(i, d)
  \/ SaveActive \/ DeleteCache \/ CachedBands
  \/ (\E b \in BOOLEAN : AskModem(b)) \/ ModemAnswers

Next == Import \/ LoadActive \/ Crash \/ Handler \/ Tick

Spec == Init /\ [][Next]_vars

-----------------------------------------------------------------------------
\* While the daemon serves, the active profile exists, across activation,
\* deletion, re-import and a crash between any two statements - as long as no
\* statement failed, and unless the id was too long for cfg.active_profile.
ActiveResolvable ==
  ~ lost /\ step \in {"idle", "delete", "discover"}
    => profiles[active] # None \/ (row # None /\ Clip[row] # row)

\* A profile created under the id of a deleted one is not shown the bands
\* discovered for its predecessor, even when statements fail, unless that very
\* deletion stopped half-way.
NoInheritedBands ==
  reply # NoReply => reply.entry.gen = reply.gen \/ reply.id \in torn

\* The page never goes back to an older discovery than it showed before, as long
\* as no statement failed, and never shows one beyond its ttl.
BandsNeverGoBack ==
  reply # NoReply => /\ lost \/ reply.since <= reply.entry.at
                     /\ reply.at <= reply.entry.at + reply.entry.ttl
=============================================================================
