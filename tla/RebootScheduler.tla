---------------------------- MODULE RebootScheduler ----------------------------
(***************************************************************************)
(* The scheduled reboot: the scheduler thread (scheduler.c), the HTTP      *)
(* thread that changes the plan it reads, sends AT commands and reboots on *)
(* request (http.c), and the start that loads the plan from SQLite         *)
(* (main.c).  The two threads share cfg without a lock, so every read and  *)
(* every write of one of its fields is a step.                             *)
(*                                                                         *)
(* A day has Hours * Minutes * Slots slots of time; the thread sleeps      *)
(* Sleep of them between two checks and runs at most Late slots late.      *)
(***************************************************************************)
EXTENDS Integers, Sequences

CONSTANTS Hours, Minutes, \* a day's hours, an hour's minutes
          Slots,          \* slots to a minute
          Sleep,          \* sleep(30), in slots
          Late,           \* how late a check may end
          BootTime,       \* slots from a reboot to the next main()
          DbMayFail,      \* whether a settings row may fail to be written
          MaxSaves,       \* bound: plans saved
          MaxDay          \* bound: the last day observed

ASSUME ConstantsOK ==
  /\ Hours \in Nat \ {0} /\ Minutes \in Nat \ {0} /\ Slots \in Nat \ {0} /\ Sleep \in Nat \ {0}
  /\ Late \in Nat /\ BootTime \in Nat
  /\ DbMayFail \in BOOLEAN /\ MaxSaves \in Nat /\ MaxDay \in Nat

Plan   == [on : BOOLEAN, hour : 0..(Hours - 1), minute : 0..(Minutes - 1)]
Field  == <<"on", "hour", "minute">>
Time   == [day : 0..MaxDay, slot : 0..(Hours * Minutes * Slots - 1)]
Start == [day |-> 0, slot |-> 0]
Hour(t)   == t.slot \div (Minutes * Slots)
Minute(t) == (t.slot \div Slots) % Minutes
MinuteOf(t) == [t EXCEPT !.slot = @ - (@ % Slots)]

VARIABLES
  now,    \* wall-clock time
  cfg,    \* the plan in memory: scheduled_reboot_enabled, _hour, _minute
  db,     \* the plan in the settings table
  http,   \* the command the HTTP thread waits for: "none", "at" or "reboot"
  put,    \* the next of the six writes of its save, 0 outside one
  form,   \* the plan last asked for
  sched,  \* the scheduler thread
  seen,   \* the time its check has read, Start outside a check
  last,   \* last_yday
  wake,   \* slots left to sleep
  late,   \* slots the check is late
  down,   \* 0 while the daemon runs, else slots until it can start, plus 1
  saves,  \* plans saved so far
  mixed,  \* history: a save overlapped the present check
  torn,   \* history: a save was cut short or one of its rows was lost
  whole,  \* history: the daemon ran and memory was the same since this minute began
  fired   \* history: the minute of the last trigger, how many it and its day of this boot had

plans   == <<cfg, db, form, saves>>
thread  == <<sched, seen, last, wake, late>>
history == <<mixed, torn, whole, fired>>
vars    == <<now, plans, http, put, thread, down, history>>

TypeOK ==
  /\ now \in Time /\ seen \in Time
  /\ {cfg, db, form} \subseteq Plan /\ saves \in 0..MaxSaves
  /\ http \in {"none", "at", "reboot"} /\ put \in 0..6
  /\ sched \in {"sleep", "hour", "minute", "reboot"}
  /\ last \in {-1} \cup 0..MaxDay /\ wake \in 0..Sleep /\ late \in 0..Late
  /\ down \in 0..(BootTime + 1)
  /\ {mixed, torn, whole} \subseteq BOOLEAN
  /\ fired \in [at : Time, minute : Nat, boot : Nat]

\* The daemon has just started with a stored plan.
Init ==
  /\ now = Start /\ seen = Start
  /\ db \in Plan /\ cfg = db /\ form = db /\ saves = 0
  /\ http = "none" /\ put = 0 /\ sched = "sleep" /\ last = -1 /\ wake = Sleep /\ late = 0
  /\ down = 0 /\ mixed = FALSE /\ torn = FALSE /\ whole = FALSE
  /\ fired = [at |-> now, minute |-> 0, boot |-> 0]

-----------------------------------------------------------------------------
(* The machine.                                                            *)

\* The daemon dies (s = 1) or the machine goes down: memory is lost.
Stop(s) ==
  /\ down = 0 /\ down' = s
  /\ http' = "none" /\ put' = 0 /\ mixed' = FALSE
  /\ sched' = "sleep" /\ seen' = Start /\ wake' = Sleep /\ late' = 0 /\ last' = -1
  /\ torn' = (torn \/ put # 0)
  /\ UNCHANGED <<now, plans, whole, fired>>

Crash == \E s \in {1, BootTime + 1} : Stop(s)

\* main: the plan is loaded field by field, and the scheduler starts with a sleep.
Boot ==
  /\ down = 1 /\ down' = 0
  /\ cfg' = db
  /\ whole' = FALSE /\ fired' = [fired EXCEPT !.boot = 0]
  /\ UNCHANGED <<now, db, form, saves, http, put, thread, mixed, torn>>

\* Time passes; a scheduler that is not asleep is late.
EndOfMinute == (now.slot + 1) % Slots = 0
EndOfDay    == now.slot + 1 = Hours * Minutes * Slots
Tick ==
  /\ EndOfDay => now.day < MaxDay
  /\ now' = IF EndOfDay THEN [day |-> now.day + 1, slot |-> 0] ELSE [now EXCEPT !.slot = @ + 1]
  /\ down' = IF down > 1 THEN down - 1 ELSE down
  /\ whole' = (down = 0 /\ (whole \/ EndOfMinute))
  /\ \/ down > 0 /\ UNCHANGED <<wake, late>>
     \/ down = 0 /\ wake > 0 /\ wake' = wake - 1 /\ UNCHANGED late
     \/ down = 0 /\ wake = 0 /\ late < Late /\ late' = late + 1 /\ UNCHANGED wake
  /\ UNCHANGED <<plans, http, put, sched, seen, last, mixed, torn, fired>>

-----------------------------------------------------------------------------
(* The scheduler thread.                                                   *)

Nap_Long == 2 * Sleep                                 \* fault: a check a minute
Nap == Sleep
SleepAgain == sched' = "sleep" /\ wake' = Nap /\ late' = 0 /\ seen' = Start

\* Read the enabled flag, then the clock.
Check ==
  /\ down = 0 /\ sched = "sleep" /\ wake = 0
  /\ IF cfg.on THEN sched' = "hour" /\ seen' = now /\ UNCHANGED <<wake, late>>
               ELSE SleepAgain
  /\ mixed' = (put \in 1..3)
  /\ UNCHANGED <<now, plans, http, put, last, down, torn, whole, fired>>

CompareHour ==
  /\ sched = "hour"
  /\ IF Hour(seen) = cfg.hour THEN sched' = "minute" /\ UNCHANGED <<wake, late, seen>> ELSE SleepAgain
  /\ UNCHANGED <<now, plans, http, put, last, down, history>>

\* last_yday is set before the reboot is tried.
Due_Today == Minute(seen) = cfg.minute               \* fault: last_yday is not compared
Due_AnyMinute == seen.day # last                      \* fault: only the hour is compared
Due == Minute(seen) = cfg.minute /\ seen.day # last
Trigger ==
  /\ sched = "minute" /\ Due
  /\ sched' = "reboot" /\ last' = seen.day
  /\ fired' = [at |-> MinuteOf(seen),
               minute |-> IF MinuteOf(seen) = fired.at THEN fired.minute + 1 ELSE 1,
               boot   |-> IF seen.day = fired.at.day THEN fired.boot + 1 ELSE 1]
  /\ UNCHANGED <<now, plans, http, put, seen, wake, late, down, mixed, torn, whole>>

NotDue ==
  /\ sched = "minute" /\ ~ Due
  /\ SleepAgain
  /\ UNCHANGED <<now, plans, http, put, last, down, history>>

\* do_reboot: sync, reboot.  The machine goes down, or the commands fail.
Reboot ==
  /\ sched = "reboot"
  /\ \/ Stop(BootTime + 1)
     \/ SleepAgain /\ UNCHANGED <<now, plans, http, put, last, down, history>>

Scheduler == Check \/ CompareHour \/ Trigger \/ NotDue \/ Reboot

-----------------------------------------------------------------------------
(* The HTTP thread.                                                        *)

\* api_system_scheduled_reboot: three fields, then three rows.
Save(p) ==
  /\ down = 0 /\ http = "none" /\ put = 0 /\ saves < MaxSaves
  /\ saves' = saves + 1 /\ form' = p /\ put' = 1
  /\ mixed' = (sched \in {"hour", "minute"})
  /\ UNCHANGED <<now, cfg, db, http, thread, down, torn, whole, fired>>

SaveField ==
  /\ put \in 1..3 /\ put' = put + 1
  /\ cfg' = [cfg EXCEPT ![Field[put]] = form[Field[put]]]
  /\ mixed' = (mixed \/ sched \in {"hour", "minute"}) /\ whole' = FALSE
  /\ torn' = (torn /\ put < 3)
  /\ UNCHANGED <<now, db, form, saves, http, thread, down, fired>>

\* The result of db_set_setting is not looked at.
NextPut_Past == put + 1                               \* fault: the save never ends
NextPut == (put + 1) % 7
SaveRow ==
  /\ put \in 4..6 /\ put' = NextPut
  /\ \/ db' = [db EXCEPT ![Field[put - 3]] = form[Field[put - 3]]] /\ UNCHANGED torn
     \/ DbMayFail /\ UNCHANGED db /\ torn' = TRUE
  /\ UNCHANGED <<now, cfg, form, saves, http, thread, down, mixed, whole, fired>>

\* An AT command, or a requested reboot; both block this thread only.
StartCommand(c) ==
  /\ down = 0 /\ http = "none" /\ put = 0
  /\ http' = c
  /\ UNCHANGED <<now, plans, put, thread, down, history>>

EndAt ==
  /\ http = "at" /\ http' = "none"
  /\ UNCHANGED <<now, plans, put, thread, down, history>>

EndReboot ==
  /\ http = "reboot"
  /\ \/ Stop(BootTime + 1)
     \/ http' = "none" /\ UNCHANGED <<now, plans, put, thread, down, history>>

Http == \/ \E p \in Plan : Save(p)
        \/ \E c \in {"at", "reboot"} : StartCommand(c)
        \/ SaveField \/ SaveRow \/ EndAt \/ EndReboot

Next == Crash \/ Boot \/ Tick \/ Scheduler \/ Http

Spec == Init /\ [][Next]_vars

-----------------------------------------------------------------------------
At(p, t) == p.on /\ p.hour = Hour(t) /\ p.minute = Minute(t)

\* The scheduler reboots by the plan last asked for, unless a save overlapped its
\* check, or an earlier save was cut short by a restart or lost a row.
RebootsByPlan == [][Trigger => mixed \/ torn \/ At(form, seen)]_vars

\* A plan in force for the whole of its minute is not slept through: when that
\* minute ends it has triggered on this day, or its check is still deciding.
PlannedMinuteIsNotMissed ==
  [][Tick /\ EndOfMinute /\ down = 0 /\ whole /\ At(cfg, now)
     => last = now.day \/ (sched \in {"hour", "minute"} /\ seen.slot \div Slots = now.slot \div Slots)]_vars

\* last_yday is lost by the very reboot it guards, yet a planned minute reboots
\* the machine at most twice, and one boot at most once a day.
RebootsAreBounded == fired.minute <= 2 /\ fired.boot <= 1

\* DESIGN.md:55: AT commands, locking and reboots are serialised.
DangerousOpsSerial == ~ (sched = "reboot" /\ http \in {"at", "reboot"})
=============================================================================
