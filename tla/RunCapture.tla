------------------------------ MODULE RunCapture ------------------------------
(***************************************************************************)
(* One call of run_capture (dbus_cmd.c), the only way the daemon runs a    *)
(* program: dbus-send for the modem, curl, sync and reboot.  The caller    *)
(* makes two pipes, forks, collects both streams until end-of-file or      *)
(* until the timeout, and reaps the child.                                 *)
(*                                                                         *)
(* Its partners are the child, which runs concurrently and may close its   *)
(* streams long before it ends; the kernel, which recycles the pid once    *)
(* the child is reaped; the wall clock, which now_unix() reads in whole    *)
(* seconds and which may be set during the call; and the daemon's other    *)
(* threads, which fork at any moment.  No descriptor is close-on-exec, so  *)
(* a process they fork in the window between pipe() and close() keeps the  *)
(* write ends open for as long as it lives; and since waitpid works on     *)
(* every child of the daemon, a recycled number makes two calls reap and   *)
(* kill each other's children.                                             *)
(*                                                                         *)
(* Output is counted in units; reads take at most ReadSize of them.  Time  *)
(* is counted in ticks, TicksPerSec to the second.                         *)
(***************************************************************************)
EXTENDS Integers

CONSTANTS MaxOutput,    \* max_output, per stream
          Timeout,      \* timeout_ms in ticks; no timeout when not positive
          TicksPerSec,  \* how many ticks now_unix() rounds to one value
          ReadSize,     \* sizeof(tmp)
          PipeSize,     \* what a pipe holds before its writer blocks
          MaxTotal,     \* bound: what the child writes to both streams
          MaxTicks,     \* bound: how long a call is observed
          MaxSkew,      \* bound: by how many seconds the clock is set either way
          OtherForks    \* whether another thread may fork during the call

Streams == {"out", "err"}
Killed  == 137                      \* 128 + SIGKILL
Error   == -1
NoAnswer == -2
Outcomes == {0, 1, Killed}

ASSUME ConstantsOK ==
  /\ MaxOutput \in Nat /\ Timeout \in Int
  /\ TicksPerSec \in Nat \ {0} /\ ReadSize \in Nat \ {0} /\ PipeSize \in Nat \ {0}
  /\ MaxTotal \in Nat /\ MaxTicks \in Nat /\ MaxSkew \in Nat /\ OtherForks \in BOOLEAN

VARIABLES
  pc,       \* where the caller is
  reading,  \* streams whose read end the caller holds
  writers,  \* writers[s]: who holds the write end of s
  open,     \* out_open and err_open, as a set
  pipe,     \* pipe[s]: written and not yet read
  todo,     \* todo[s]: what the child has still to write
  total,    \* total[s]: all it was going to write
  kept,     \* out.len and err.len
  child,    \* "none", "running", "exiting", "zombie" or "reaped"
  death,    \* how the child really ended
  status,   \* the caller's copy, as waitpid left it
  pid,      \* whom the child's number denotes: "child", "nobody", "stranger"
            \* (no child of the daemon), "sibling" (another thread's child) or
            \* "ended" (that one, waiting to be reaped)
  theirs,   \* how the sibling ended
  crossed,  \* history: "no", or this call "took" another's child or "lost" its own
  other,    \* a process forked by another thread: "none", "alive", "gone"
  struck,   \* whom the timeout's SIGKILL reached, "none" before it
  skew,     \* by how many seconds the clock was set forward since start
  secs,     \* now_unix() - start
  subtick,  \* ticks into the current second
  elapsed,  \* ticks since start
  answer    \* exit_code when 0 is returned, Error when -1 is

caller  == <<pc, reading, open, kept, status, struck, answer>>
process == <<todo, total, child, death>>
clock   == <<secs, subtick, elapsed, skew>>
number  == <<pid, theirs, crossed>>
vars    == <<caller, process, clock, number, writers, pipe, other>>

Min2(a, b) == IF a <= b THEN a ELSE b
Drop_None(who) == writers                          \* fault: closes are forgotten
Drop(who) == [s \in Streams |-> writers[s] \ {who}]

TypeOK ==
  /\ pc \in {"start", "pipe2", "fork", "close", "loop", "deadline", "poll", "reap", "returned", "crashed"}
  /\ reading \in SUBSET Streams /\ open \in SUBSET Streams
  /\ writers \in [Streams -> SUBSET {"caller", "child", "other"}]
  /\ pipe \in [Streams -> Nat] /\ todo \in [Streams -> Nat]
  /\ total \in [Streams -> Nat] /\ kept \in [Streams -> Nat]
  /\ child \in {"none", "running", "exiting", "zombie", "reaped"}
  /\ death \in Outcomes \cup {NoAnswer} /\ status \in Outcomes \cup {NoAnswer}
  /\ pid \in {"child", "nobody", "stranger", "sibling", "ended"}
  /\ theirs \in Outcomes \cup {NoAnswer} /\ crossed \in {"no", "took", "lost"}
  /\ other \in {"none", "alive", "gone"}
  /\ struck \in {"none", "child", "nobody", "stranger", "sibling", "ended"}
  /\ secs \in Int /\ subtick \in 0..(TicksPerSec - 1) /\ elapsed \in Nat /\ skew \in Int
  /\ answer \in Outcomes \cup {NoAnswer, Error}

Init ==
  /\ pc = "start" /\ reading = {} /\ open = Streams
  /\ writers = [s \in Streams |-> {}]
  /\ pipe = [s \in Streams |-> 0]
  /\ total \in {t \in [Streams -> 0..MaxTotal] : t["out"] + t["err"] <= MaxTotal} /\ todo = total
  /\ kept = [s \in Streams |-> 0]
  /\ child = "none" /\ death = NoAnswer /\ pid = "nobody"
  /\ status = 0 /\ struck = "none" /\ answer = NoAnswer
  /\ theirs = NoAnswer /\ crossed = "no" /\ other = "none"
  /\ secs = 0 /\ subtick \in 0..(TicksPerSec - 1) /\ elapsed = 0 /\ skew = 0

-----------------------------------------------------------------------------
(* The caller.                                                             *)

Return(a) == pc' = "returned" /\ answer' = a

\* pipe(out_pipe): a failure returns at once.
PipeOut ==
  /\ pc = "start"
  /\ \/ /\ pc' = "pipe2" /\ reading' = {"out"}
        /\ writers' = [writers EXCEPT !["out"] = {"caller"}]
        /\ UNCHANGED answer
     \/ Return(Error) /\ UNCHANGED <<reading, writers>>
  /\ UNCHANGED <<open, kept, status, struck, process, clock, number, pipe, other>>

\* pipe(err_pipe): a failure returns with the first pair still open.
PipeErr ==
  /\ pc = "pipe2"
  /\ \/ /\ pc' = "fork" /\ reading' = Streams
        /\ writers' = [writers EXCEPT !["err"] = {"caller"}]
        /\ UNCHANGED answer
     \/ Return(Error) /\ UNCHANGED <<reading, writers>>
  /\ UNCHANGED <<open, kept, status, struck, process, clock, number, pipe, other>>

Fork ==
  /\ pc = "fork"
  /\ pc' = "close" /\ child' = "running" /\ pid' = "child"
  /\ writers' = [s \in Streams |-> writers[s] \cup {"child"}]
  /\ UNCHANGED <<reading, open, kept, status, struck, answer, todo, total, death, clock, theirs, crossed, pipe, other>>

ForkFails ==
  /\ pc = "fork"
  /\ Return(Error) /\ reading' = {} /\ writers' = Drop("caller")
  /\ UNCHANGED <<open, kept, status, struck, process, clock, number, pipe, other>>

\* The caller closes its write ends, allocates its buffers and reads the clock.
EnterLoop ==
  /\ pc = "close"
  /\ pc' = "loop" /\ writers' = Drop("caller")
  /\ UNCHANGED <<reading, open, kept, status, struck, answer, process, clock, number, pipe, other>>

\* SIGKILL to the child: it dies with its descriptors, if it is not yet ending.
Slay ==
  /\ IF child = "running" THEN child' = "zombie" /\ death' = Killed
                          ELSE UNCHANGED <<child, death>>
  /\ writers' = [s \in Streams |-> writers[s] \ {"caller", "child"}]

\* A buf_init fails: kill, close, return -1, with no waitpid.  When it is the
\* first, err was never initialised and buf_free(&err) frees what the stack
\* holds there: the daemon may crash.
BuffersFail ==
  /\ pc = "close"
  /\ Slay /\ reading' = {}
  /\ Return(Error) \/ (pc' = "crashed" /\ UNCHANGED answer)
  /\ UNCHANGED <<open, kept, status, struck, todo, total, clock, number, pipe, other>>

\* select() and one read of each ready stream; a stream with neither data nor
\* writer reads as end-of-file.  With nothing ready select() times out.
Ready(s) == s \in open /\ (pipe[s] > 0 \/ writers[s] = {})
Taken_Full(s) == IF Ready(s) THEN ReadSize ELSE 0  \* fault: ignores read()'s result
Taken(s) == IF Ready(s) THEN Min2(ReadSize, pipe[s]) ELSE 0
Ended(s) == Ready(s) /\ pipe[s] = 0
SelectRead ==
  /\ pc = "loop" /\ open # {}
  /\ pc' = "deadline"
  /\ kept' = [s \in Streams |-> Min2(kept[s] + Taken(s), MaxOutput)]
  /\ pipe' = [s \in Streams |-> pipe[s] - Taken(s)]
  /\ open' = {s \in open : ~ Ended(s)}
  /\ UNCHANGED <<reading, status, struck, answer, process, clock, number, writers, other>>

\* (now_unix() - start) * 1000 > timeout_ms
Expired_Never == FALSE                             \* fault: the clock is never read
Expired_RoundUp == Timeout > 0 /\ (secs + 1) * TicksPerSec > Timeout
Expired == Timeout > 0 /\ secs * TicksPerSec > Timeout

\* The timeout is tested before end-of-file is acted upon.  The signal goes to
\* whoever has the number now, and the loop is left.
Expire ==
  /\ pc = "deadline" /\ Expired
  /\ Slay /\ struck' = pid /\ pc' = "reap"
  /\ UNCHANGED <<reading, open, kept, status, answer, todo, total, clock, number, pipe, other>>

InTime ==
  /\ pc = "deadline" /\ ~ Expired
  /\ pc' = "poll"
  /\ UNCHANGED <<reading, open, kept, status, struck, answer, process, clock, number, writers, pipe, other>>

\* A successful waitpid fills status and frees the number.  It takes whichever
\* child of the daemon has the number.
Reap_NoStatus ==
  /\ child = "zombie" /\ child' = "reaped" /\ pid' = "nobody"
  /\ UNCHANGED <<status, theirs, crossed>>
Reap ==
  /\ pid' = "nobody"
  /\ \/ child = "zombie" /\ child' = "reaped" /\ status' = death /\ UNCHANGED crossed
     \/ pid = "ended" /\ status' = theirs /\ crossed' = "took" /\ UNCHANGED child
  /\ UNCHANGED theirs

\* waitpid(WNOHANG), then the loop's own condition.
Drained_OrReaped == open = {} \/ child' = "reaped"    \* fault: stops when the child is reaped
Drained == open = {}
Poll ==
  /\ pc = "poll"
  /\ Reap \/ (child # "zombie" /\ pid # "ended" /\ UNCHANGED <<child, status, number>>)
  /\ pc' = IF Drained THEN "reap" ELSE "loop"
  /\ UNCHANGED <<reading, open, kept, struck, answer, todo, total, death, clock, writers, pipe, other>>

\* res->exit_code, from the status of whichever waitpid reaped the child.
Outcome == status'

\* Close the read ends and wait without a timeout.  If the number denotes no
\* child of the daemon the wait fails at once and leaves status as it was.
Finish ==
  /\ pc = "reap"
  /\ Reap \/ (pid \in {"nobody", "stranger"} /\ UNCHANGED <<child, status, number>>)
  /\ reading' = {} /\ Return(Outcome)
  /\ UNCHANGED <<open, kept, struck, todo, total, death, clock, writers, pipe, other>>

Caller == \/ PipeOut \/ PipeErr \/ Fork \/ ForkFails \/ EnterLoop \/ BuffersFail
          \/ SelectRead \/ Expire \/ InTime \/ Poll \/ Finish

-----------------------------------------------------------------------------
(* The child, the other threads' processes, the kernel and the clock.      *)

Write(s) ==
  /\ child = "running" /\ "child" \in writers[s] /\ todo[s] > 0 /\ pipe[s] < PipeSize
  /\ todo' = [todo EXCEPT ![s] = @ - 1] /\ pipe' = [pipe EXCEPT ![s] = @ + 1]
  /\ UNCHANGED <<caller, total, child, death, clock, number, writers, other>>

\* The child closes a stream it is done with, and may run on for ever.
CloseStream(s) ==
  /\ child = "running" /\ "child" \in writers[s] /\ todo[s] = 0
  /\ writers' = [writers EXCEPT ![s] = @ \ {"child"}]
  /\ UNCHANGED <<caller, process, clock, number, pipe, other>>

\* Exiting closes the descriptors first and only then becomes waitable.
Exit(code) ==
  /\ child = "running" /\ \A s \in Streams : todo[s] = 0
  /\ child' = "exiting" /\ death' = code /\ writers' = Drop("child")
  /\ UNCHANGED <<caller, todo, total, clock, number, pipe, other>>

\* The child dies before it is done: of itself, or of another call's SIGKILL.
Die ==
  /\ child = "running"
  /\ child' = "exiting" /\ death' = Killed /\ writers' = Drop("child")
  /\ UNCHANGED <<caller, todo, total, clock, number, pipe, other>>

BecomeZombie ==
  /\ child = "exiting" /\ child' = "zombie"
  /\ UNCHANGED <<caller, todo, total, death, clock, number, writers, pipe, other>>

\* Another thread forks between pipe() and close(): its child has a copy of each
\* write end now open here.
OtherFork ==
  /\ OtherForks /\ other = "none" /\ \E s \in Streams : "caller" \in writers[s]
  /\ other' = "alive"
  /\ writers' = [s \in Streams |-> IF "caller" \in writers[s] THEN writers[s] \cup {"other"} ELSE writers[s]]
  /\ UNCHANGED <<caller, process, clock, number, pipe>>

OtherExit ==
  /\ other = "alive"
  /\ other' = "gone" /\ writers' = Drop("other")
  /\ UNCHANGED <<caller, process, clock, number, pipe>>

\* The freed number goes to a process outside the daemon or to one that another
\* of its threads forks: dbus-monitor, curl or another call's command (bound:
\* that once in a call).
PidReuse ==
  /\ pc \in {"loop", "deadline", "poll", "reap"} /\ child = "reaped" /\ pid = "nobody"
  /\ pid' \in {"stranger"} \cup (IF OtherForks /\ theirs = NoAnswer THEN {"sibling"} ELSE {})
  /\ UNCHANGED <<caller, process, clock, theirs, crossed, writers, pipe, other>>

SiblingEnds(code) ==
  /\ pid = "sibling"
  /\ pid' = "ended" /\ theirs' = code
  /\ UNCHANGED <<caller, process, clock, crossed, writers, pipe, other>>

SiblingReaped ==
  /\ pid = "ended"
  /\ pid' = "nobody"
  /\ UNCHANGED <<caller, process, clock, theirs, crossed, writers, pipe, other>>

\* Another call had the number before, reaped its child early and is still to wait
\* for it once more: it reaps this call's child.
StaleReap ==
  /\ OtherForks /\ child = "zombie"
  /\ child' = "reaped" /\ pid' = "nobody" /\ crossed' = "lost"
  /\ UNCHANGED <<caller, todo, total, death, clock, theirs, writers, pipe, other>>

\* The clock matters until the loop is left.
Measured == pc \in {"loop", "deadline", "poll"}

Tick ==
  /\ Measured /\ elapsed < MaxTicks
  /\ elapsed' = elapsed + 1
  /\ IF subtick + 1 = TicksPerSec THEN secs' = secs + 1 /\ subtick' = 0
                                  ELSE secs' = secs /\ subtick' = subtick + 1
  /\ UNCHANGED <<caller, process, number, skew, writers, pipe, other>>

\* The wall clock is set, by NTP or from the mobile network.
SetClock ==
  /\ Measured
  /\ \E by \in -MaxSkew..MaxSkew : skew' = by /\ secs' = secs + by - skew
  /\ UNCHANGED <<caller, process, number, subtick, elapsed, writers, pipe, other>>

ChildStep == \/ \E s \in Streams : Write(s) \/ CloseStream(s)
             \/ \E code \in {0, 1} : Exit(code)
             \/ Die \/ BecomeZombie

Others == \/ OtherFork \/ OtherExit \/ PidReuse \/ SiblingReaped \/ StaleReap
          \/ \E code \in Outcomes : SiblingEnds(code)

Next == Caller \/ ChildStep \/ Others \/ Tick \/ SetClock

Spec == Init /\ [][Next]_vars

\* The caller runs, the clock advances and the kernel completes an exit.
\* Nothing is assumed of what a running child or another process does.
FairSpec == Spec /\ WF_vars(Caller) /\ WF_vars(Tick) /\ WF_vars(BecomeZombie)

-----------------------------------------------------------------------------
Answered == answer \in Outcomes

\* The exit code handed to the caller is how the child really ended, also when
\* an early waitpid(WNOHANG) took the status and the last waitpid found nothing,
\* unless the number was recycled inside the daemon and one of the two calls
\* that then held it reaped the other's child.
AnswerIsTruthful == Answered /\ crossed = "no" => child = "reaped" /\ answer = death

\* Unless the timeout struck, an answer carries all that the child wrote to each
\* stream, up to max_output: no early reap, no end-of-file of the other stream
\* and no partial read loses output.
CompleteUnlessLate ==
  Answered /\ struck = "none" => \A s \in Streams : kept[s] = Min2(total[s] - todo[s], MaxOutput)

\* Whole-second reads of a clock that may be set: the signal comes early by less
\* than a second beyond what the clock was set forward during the call, whatever
\* part of a second the call started in.
NotKilledEarly ==
  struck # "none" => Timeout > 0 /\ elapsed + (skew + 1) * TicksPerSec > Timeout

\* A returned call holds no descriptor, except the first pair when the second
\* pipe() failed.
NoDescriptorLeft ==
  pc = "returned" =>
    \/ reading = {} /\ \A s \in Streams : "caller" \notin writers[s]
    \/ child = "none" /\ answer = Error /\ reading = {"out"}

\* With a positive timeout the call is over in the end, however much the child
\* writes and however long an inherited write end stays open, unless its last
\* waitpid, which has no timeout, is left waiting for a process that does not
\* end: the child itself, both streams closed, or another call's child that got
\* its number.
Returns ==
  \/ <>(pc \in {"returned", "crashed"})
  \/ <>[](pc = "reap" /\ (child = "running" \/ pid = "sibling"))
=============================================================================
