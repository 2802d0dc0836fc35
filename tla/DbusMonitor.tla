------------------------------ MODULE DbusMonitor ------------------------------
(***************************************************************************)
(* The thread that keeps a dbus-monitor process running and stores what it *)
(* prints (dbus_monitor.c), across deaths of the process and of the daemon.*)
(*                                                                         *)
(* Descriptors are not closed on exec: a program that the HTTP thread      *)
(* starts between pipe and close holds the write end too, and the monitor  *)
(* process holds the listening socket when it was forked after listen.     *)
(*                                                                         *)
(* Init, Next and the like bear a prefix here, so that this module and     *)
(* SmsInbox can be extended together, as IncomingProofs does.              *)
(***************************************************************************)
EXTENDS Integers, SequencesExt

CONSTANTS MaxSignals,   \* signals that are told apart; later ones are not followed
          PipeSize,     \* lines the pipe holds
          MaxCrashes,   \* bound on crashes of the daemon
          MaxDeaths     \* bound on deaths of the monitor process

ASSUME DbusConstantsOK == {MaxSignals, MaxCrashes, MaxDeaths} \subseteq Nat /\ PipeSize \in Nat \ {0}

VARIABLES
  daemon,    \* "up", "serving" once it listens, "down"
  thread,    \* "pipe", "fork", "read", "reap", "sleep"
  child,     \* this daemon's monitor process: "none", "live", "dead"
  socket,    \* whether it holds the listening socket
  held,      \* whether another program holds the write end
  orphan,    \* whether a dead daemon's monitor lives and holds the socket
  emitted,   \* signals so far
  inbox,     \* signals the monitor has received and not printed
  pipe,      \* lines printed and not read; 0 is an empty line
  stored,    \* the rows of dbus_events
  lost,      \* signals read whose INSERT failed
  crashes, deaths

process  == <<child, socket, held, inbox, pipe, deaths>>
outside  == <<orphan, emitted, crashes>>
table    == <<stored, lost>>
dbusVars == <<daemon, thread, process, outside, table>>

Signals == 1..MaxSignals
Alive   == daemon # "down"

DbusTypeOK ==
  /\ daemon \in {"up", "serving", "down"}
  /\ thread \in {"pipe", "fork", "read", "reap", "sleep"}
  /\ child \in {"none", "live", "dead"} /\ {socket, held, orphan} \subseteq BOOLEAN
  /\ emitted \in 0..MaxSignals /\ inbox \in Seq(Signals)
  /\ pipe \in Seq(Signals \cup {0}) /\ Len(pipe) <= PipeSize
  /\ stored \in Seq(Signals) /\ lost \subseteq Signals
  /\ crashes \in 0..MaxCrashes /\ deaths \in 0..MaxDeaths
  /\ child = "live" => thread \in {"read", "reap"}

DbusInit ==
  /\ daemon = "up" /\ thread = "pipe" /\ child = "none" /\ socket = FALSE /\ held = FALSE
  /\ orphan = FALSE /\ emitted = 0 /\ inbox = <<>> /\ pipe = <<>> /\ stored = <<>> /\ lost = {}
  /\ crashes = 0 /\ deaths = 0

-----------------------------------------------------------------------------
(* monitor_main.                                                           *)

MakePipe ==
  /\ Alive /\ thread = "pipe"
  /\ \/ thread' = "fork" /\ held' = FALSE
     \/ thread' = "sleep" /\ UNCHANGED held        \* pipe fails
  /\ UNCHANGED <<daemon, child, socket, inbox, pipe, deaths, outside, table>>

\* run_capture forks meanwhile: its program inherits the write end, and ends.
Inherit ==
  /\ Alive /\ thread = "fork" /\ ~held
  /\ held' = TRUE
  /\ UNCHANGED <<daemon, thread, child, socket, inbox, pipe, deaths, outside, table>>

HolderEnds ==
  /\ held /\ held' = FALSE
  /\ UNCHANGED <<daemon, thread, child, socket, inbox, pipe, deaths, outside, table>>

\* fdopen may fail: then the new process is killed at once.
Fork ==
  /\ Alive /\ thread = "fork"
  /\ thread' \in {"read", "reap"} /\ child' = "live" /\ socket' = (daemon = "serving")
  /\ UNCHANGED <<daemon, held, inbox, pipe, deaths, outside, table>>

ForkFails ==
  /\ Alive /\ thread = "fork"
  /\ thread' = "sleep"
  /\ UNCHANGED <<daemon, process, outside, table>>

\* Empty lines are not stored, and whether the INSERT worked is not looked at.
Kept_All(line) == TRUE
Kept(line) == line # 0

ReadLine ==
  /\ Alive /\ thread = "read" /\ pipe # <<>>
  /\ pipe' = Tail(pipe)
  /\ \/ ~Kept(Head(pipe)) /\ UNCHANGED table
     \/ Kept(Head(pipe)) /\ stored' = Append(stored, Head(pipe)) /\ UNCHANGED lost
     \/ Kept(Head(pipe)) /\ lost' = lost \cup {Head(pipe)} /\ UNCHANGED stored
  /\ UNCHANGED <<daemon, thread, child, socket, held, inbox, deaths, outside>>

\* fgets ends when nothing is left to read and nobody can write any more.
AtEof_Death == child = "dead"
AtEof_OwnEnd == FALSE
AtEof == pipe = <<>> /\ child = "dead" /\ ~held

EndOfFile ==
  /\ Alive /\ thread = "read" /\ AtEof
  /\ thread' = "reap"
  /\ UNCHANGED <<daemon, process, outside, table>>

\* kill and waitpid, whatever is left in the pipe goes with it.
Reap ==
  /\ Alive /\ thread = "reap"
  /\ thread' = "sleep" /\ child' = "none" /\ socket' = FALSE
  /\ inbox' = <<>> /\ pipe' = <<>> /\ held' = FALSE
  /\ UNCHANGED <<daemon, deaths, outside, table>>

Wake ==
  /\ Alive /\ thread = "sleep"
  /\ thread' = "pipe"
  /\ UNCHANGED <<daemon, process, outside, table>>

-----------------------------------------------------------------------------
(* The monitor process, ofono, and the daemon's life.                      *)

\* An orphan that prints finds nobody at the other end of its pipe: it may end,
\* or go on if it ignores the signal of that, as the D-Bus library does.
Emit ==
  /\ orphan' \in IF orphan THEN BOOLEAN ELSE {FALSE}
  /\ IF emitted < MaxSignals
       THEN /\ emitted' = emitted + 1
            /\ inbox' = IF child = "live" THEN Append(inbox, emitted + 1) ELSE inbox
       ELSE UNCHANGED <<emitted, inbox>>
  /\ UNCHANGED <<daemon, thread, child, socket, held, pipe, deaths, table, crashes>>

Prints ==
  /\ child = "live" /\ thread = "read" /\ Len(pipe) < PipeSize
  /\ \/ inbox # <<>> /\ pipe' = Append(pipe, Head(inbox)) /\ inbox' = Tail(inbox)
     \/ pipe' = Append(pipe, 0) /\ UNCHANGED inbox
  /\ UNCHANGED <<daemon, thread, child, socket, held, deaths, outside, table>>

Dies ==
  /\ child = "live" /\ deaths < MaxDeaths
  /\ deaths' = deaths + 1 /\ child' = "dead" /\ inbox' = <<>>
  /\ UNCHANGED <<daemon, thread, socket, held, pipe, outside, table>>

Crash ==
  /\ Alive /\ crashes < MaxCrashes
  /\ crashes' = crashes + 1 /\ daemon' = "down" /\ thread' = "pipe"
  /\ orphan' = (orphan \/ (child = "live" /\ socket))
  /\ child' = "none" /\ socket' = FALSE /\ held' = FALSE /\ inbox' = <<>> /\ pipe' = <<>>
  /\ UNCHANGED <<emitted, table, deaths>>

Restart ==
  /\ daemon = "down" /\ daemon' = "up"
  /\ UNCHANGED <<thread, process, outside, table>>

\* http_serve: bind fails while a process holds the old socket, and main returns.
Listen ==
  /\ daemon = "up" /\ ~orphan
  /\ daemon' = "serving"
  /\ UNCHANGED <<thread, process, outside, table>>

BindFails ==
  /\ daemon = "up" /\ orphan
  /\ daemon' = "down" /\ thread' = "pipe"
  /\ child' = "none" /\ socket' = FALSE /\ held' = FALSE /\ inbox' = <<>> /\ pipe' = <<>>
  /\ UNCHANGED <<orphan, emitted, crashes, table, deaths>>

Thread == MakePipe \/ Fork \/ ForkFails \/ ReadLine \/ EndOfFile \/ Reap \/ Wake

DbusNext ==
  \/ MakePipe \/ Fork \/ ForkFails \/ ReadLine \/ EndOfFile \/ Reap \/ Wake
  \/ Inherit \/ HolderEnds \/ Emit \/ Prints \/ Dies
  \/ Crash \/ Restart \/ Listen \/ BindFails

DbusSpec == DbusInit /\ [][DbusNext]_dbusVars

\* The thread runs on; pipe and fork do not fail for ever; programs of
\* run_capture end.
FairSpec ==
  /\ DbusSpec /\ WF_dbusVars(Thread) /\ SF_dbusVars(MakePipe /\ thread' = "fork") /\ SF_dbusVars(Fork)
  /\ WF_dbusVars(HolderEnds)

-----------------------------------------------------------------------------
(* Properties.                                                             *)

\* What the monitor printed is stored even when the process dies right after,
\* unless its own INSERT fails or the daemon goes down (dbus_monitor.c 43-54,
\* db.c 329-342).
PrintedIsStored ==
  \A i \in Signals : (i \in ToSet(pipe)) ~> (i \in ToSet(stored) \cup lost \/ ~Alive)

\* A monitor that died is replaced, although a program of another thread may
\* hold its pipe open for a while (dbus_monitor.c 34, 43-58).
MonitorComesBack == (child = "dead") ~> (child = "live" \/ ~Alive)
===============================================================================
