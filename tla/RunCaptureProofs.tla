--------------------------- MODULE RunCaptureProofs ---------------------------
(***************************************************************************)
(* What run_capture promises for every output size, timeout and pipe size. *)
(* IInv ties the caller's program counter to the child's life (Lifecycle), *)
(* to what is in flight (Accounting) and to the clock (Timekeeping); every *)
(* safety property of RunCapture follows from it.                          *)
(***************************************************************************)
EXTENDS RunCapture, TLAPS

Looping == {"loop", "deadline", "poll", "reap"}

Lifecycle ==
  /\ pc \in {"start", "pipe2", "fork"} => child = "none"
  /\ pc \in {"close"} \cup Looping => child # "none"
  /\ pc # "returned" => answer = NoAnswer
  /\ pc \notin {"reap", "returned"} => struck = "none"
  /\ pc = "reap" => struck # "none" \/ open = {}
  /\ pid = "child" <=> child \in {"running", "exiting", "zombie"}
  /\ child \in {"exiting", "zombie", "reaped"} => death \in Outcomes
  /\ child = "reaped" => crossed # "no" \/ status = death
  /\ Answered => child = "reaped" /\ (crossed # "no" \/ answer = death) /\ (struck # "none" \/ open = {})

\* A stream is closed only when it is drained and the child cannot write to it.
Accounting ==
  /\ \A s \in Streams : "child" \in writers[s] => child = "running"
  /\ \A s \in Streams : todo[s] + pipe[s] <= total[s]
  /\ \A s \in Streams : kept[s] = Min2(total[s] - todo[s] - pipe[s], MaxOutput)
  /\ \A s \in Streams : s \notin open => pipe[s] = 0 /\ child # "none" /\ "child" \notin writers[s]

\* The seconds counted exceed the time spent by less than one second and what
\* the clock was set forward.
Timekeeping ==
  /\ secs * TicksPerSec + subtick < elapsed + (skew + 1) * TicksPerSec
  /\ NotKilledEarly

Descriptors ==
  /\ pc = "start" => reading = {}
  /\ pc = "pipe2" => reading = {"out"} /\ child = "none"
  /\ pc \in {"start"} \cup Looping => \A s \in Streams : "caller" \notin writers[s]
  /\ NoDescriptorLeft

IInv == TypeOK /\ Lifecycle /\ Accounting /\ Timekeeping /\ Descriptors

\* Every variable stays in its type: in particular no read takes more from a
\* pipe than is in it.
THEOREM TypeCorrect == Spec => []TypeOK
<1>1. Init => TypeOK
  BY ConstantsOK DEF Init, TypeOK, Streams, NoAnswer, Outcomes, Killed
<1>2. TypeOK /\ [Next]_vars => TypeOK'
  <2> SUFFICES ASSUME TypeOK, [Next]_vars PROVE TypeOK'
    OBVIOUS
  <2> USE ConstantsOK DEF TypeOK, Streams, NoAnswer, Error, Killed, Outcomes, Return, Drop, Slay, Reap, Outcome,
          caller, process, clock, number
  <2>1. CASE PipeOut
    <3>1. writers' \in [Streams -> SUBSET {"caller", "child", "other"}] BY <2>1 DEF PipeOut
    <3>2. reading' \in SUBSET Streams BY <2>1 DEF PipeOut
    <3>3. answer' \in Outcomes \cup {NoAnswer, Error} /\ pc' \in {"pipe2", "returned"} BY <2>1 DEF PipeOut
    <3> QED BY <2>1, <3>1, <3>2, <3>3 DEF PipeOut
  <2>2. CASE PipeErr
    <3>1. writers' \in [Streams -> SUBSET {"caller", "child", "other"}] BY <2>2 DEF PipeErr
    <3>2. reading' \in SUBSET Streams BY <2>2 DEF PipeErr
    <3>3. answer' \in Outcomes \cup {NoAnswer, Error} /\ pc' \in {"fork", "returned"} BY <2>2 DEF PipeErr
    <3> QED BY <2>2, <3>1, <3>2, <3>3 DEF PipeErr
  <2>3. CASE Fork BY <2>3 DEF Fork
  <2>4. CASE ForkFails BY <2>4 DEF ForkFails
  <2>5. CASE EnterLoop BY <2>5 DEF EnterLoop
  <2>6. CASE BuffersFail BY <2>6 DEF BuffersFail
  <2>7. CASE SelectRead
    <3>1. \A s \in Streams : Taken(s) \in Nat /\ Taken(s) <= pipe[s] BY DEF Taken, Min2
    <3>2. pipe' \in [Streams -> Nat] BY <2>7, <3>1 DEF SelectRead
    <3>3. kept' \in [Streams -> Nat] BY <2>7, <3>1 DEF SelectRead, Min2
    <3>4. open' \in SUBSET Streams BY <2>7 DEF SelectRead
    <3> QED BY <2>7, <3>2, <3>3, <3>4 DEF SelectRead
  <2>8. CASE Expire BY <2>8 DEF Expire
  <2>9. CASE InTime BY <2>9 DEF InTime
  <2>10. CASE Poll BY <2>10 DEF Poll, Drained
  <2>11. CASE Finish BY <2>11 DEF Finish
  <2>12. ASSUME NEW s \in Streams, Write(s) \/ CloseStream(s) PROVE TypeOK'
    <3>1. CASE Write(s) BY <3>1 DEF Write
    <3>2. CASE CloseStream(s) BY <3>2 DEF CloseStream
    <3> QED BY <2>12, <3>1, <3>2
  <2>13. ASSUME NEW c \in {0, 1}, Exit(c) PROVE TypeOK' BY <2>13 DEF Exit
  <2>14. CASE Die \/ BecomeZombie
    <3>1. CASE Die BY <3>1 DEF Die
    <3>2. CASE BecomeZombie BY <3>2 DEF BecomeZombie
    <3> QED BY <2>14, <3>1, <3>2
  <2>15. CASE OtherFork BY <2>15 DEF OtherFork
  <2>16. CASE OtherExit BY <2>16 DEF OtherExit
  <2>17. CASE PidReuse BY <2>17 DEF PidReuse
  <2>18. CASE SiblingReaped \/ StaleReap
    <3>1. CASE SiblingReaped BY <3>1 DEF SiblingReaped
    <3>2. CASE StaleReap BY <3>2 DEF StaleReap
    <3> QED BY <2>18, <3>1, <3>2
  <2>19. ASSUME NEW c \in Outcomes, SiblingEnds(c) PROVE TypeOK' BY <2>19 DEF SiblingEnds
  <2>20. CASE Tick BY <2>20 DEF Tick
  <2>21. CASE SetClock BY <2>21 DEF SetClock
  <2>22. CASE UNCHANGED vars BY <2>22 DEF vars
  <2> QED BY <2>1, <2>2, <2>3, <2>4, <2>5, <2>6, <2>7, <2>8, <2>9, <2>10, <2>11, <2>12, <2>13, <2>14, <2>15,
             <2>16, <2>17, <2>18, <2>19, <2>20, <2>21, <2>22 DEF Next, Caller, ChildStep, Others
<1> QED BY <1>1, <1>2, PTL DEF Spec

LEMMA InitIInv == Init => IInv
<1> SUFFICES ASSUME Init PROVE IInv
  OBVIOUS
<1> USE ConstantsOK DEF Init, Streams, NoAnswer, Killed, Outcomes, Error
<1>1. TypeOK BY DEF TypeOK
<1>2. Lifecycle BY DEF Lifecycle, Answered, Looping
<1>3. Accounting BY DEF Accounting, Min2
<1>4. Timekeeping BY DEF Timekeeping, NotKilledEarly
<1>5. Descriptors BY DEF Descriptors, NoDescriptorLeft, Looping
<1> QED BY <1>1, <1>2, <1>3, <1>4, <1>5 DEF IInv

LEMMA LifecycleStep == IInv /\ Next => Lifecycle'
<1> SUFFICES ASSUME IInv, Next PROVE Lifecycle'
  OBVIOUS
<1> USE DEF IInv, TypeOK, Lifecycle, Answered, Looping, NoAnswer, Killed, Outcomes, Error, Return, Slay,
        Reap, Outcome, caller, process, clock, number
<1>1. CASE PipeOut BY <1>1 DEF PipeOut
<1>2. CASE PipeErr BY <1>2 DEF PipeErr
<1>3. CASE Fork BY <1>3 DEF Fork
<1>4. CASE ForkFails BY <1>4 DEF ForkFails
<1>5. CASE EnterLoop BY <1>5 DEF EnterLoop
<1>6. CASE BuffersFail BY <1>6 DEF BuffersFail
<1>7. CASE SelectRead BY <1>7 DEF SelectRead
<1>8. CASE Expire BY <1>8 DEF Expire
<1>9. CASE InTime BY <1>9 DEF InTime
<1>10. CASE Poll BY <1>10 DEF Poll, Drained
<1>11. CASE Finish BY <1>11 DEF Finish
<1>12. ASSUME NEW s \in Streams, Write(s) \/ CloseStream(s) PROVE Lifecycle' BY <1>12 DEF Write, CloseStream
<1>13. ASSUME NEW c \in {0, 1}, Exit(c) PROVE Lifecycle' BY <1>13 DEF Exit
<1>14. CASE Die \/ BecomeZombie BY <1>14 DEF Die, BecomeZombie
<1>15. CASE OtherFork \/ OtherExit BY <1>15 DEF OtherFork, OtherExit
<1>16. CASE PidReuse \/ SiblingReaped BY <1>16 DEF PidReuse, SiblingReaped
<1>17. ASSUME NEW c \in Outcomes, SiblingEnds(c) PROVE Lifecycle' BY <1>17 DEF SiblingEnds
<1>18. CASE StaleReap BY <1>18 DEF StaleReap
<1>19. CASE Tick \/ SetClock BY <1>19 DEF Tick, SetClock
<1> QED BY <1>1, <1>2, <1>3, <1>4, <1>5, <1>6, <1>7, <1>8, <1>9, <1>10, <1>11, <1>12, <1>13, <1>14,
           <1>15, <1>16, <1>17, <1>18, <1>19 DEF Next, Caller, ChildStep, Others

LEMMA AccountingStep == IInv /\ Next => Accounting'
<1> SUFFICES ASSUME IInv, Next PROVE Accounting'
  OBVIOUS
<1> USE ConstantsOK DEF IInv, TypeOK, Lifecycle, Accounting, Looping, Return, Drop, caller, process, clock,
        number
<1>1. CASE PipeOut BY <1>1 DEF PipeOut, Streams
<1>2. CASE PipeErr BY <1>2 DEF PipeErr, Streams
<1>3. CASE Fork BY <1>3 DEF Fork
<1>4. CASE ForkFails \/ EnterLoop BY <1>4 DEF ForkFails, EnterLoop
<1>5. CASE BuffersFail BY <1>5 DEF BuffersFail, Slay
<1>6. CASE SelectRead
  <2>1. \A s \in Streams : Taken(s) \in Nat /\ Taken(s) <= pipe[s] BY DEF Taken, Min2
  <2>2. \A s \in Streams : kept'[s] = Min2(total[s] - todo[s] - pipe'[s], MaxOutput)
    BY <1>6, <2>1 DEF SelectRead, Min2
  <2>3. ASSUME NEW s \in Streams, s \notin open'
        PROVE pipe'[s] = 0 /\ child # "none" /\ "child" \notin writers[s]
    <3>1. CASE s \notin open BY <1>6, <2>1, <3>1 DEF SelectRead, Taken, Ready
    <3>2. CASE Ended(s) BY <1>6, <2>1, <3>2 DEF SelectRead, Ended, Ready
    <3> QED BY <1>6, <2>3, <3>1, <3>2 DEF SelectRead
  <2> QED BY <1>6, <2>1, <2>2, <2>3 DEF SelectRead
<1>7. CASE Expire BY <1>7 DEF Expire, Slay
<1>8. CASE InTime BY <1>8 DEF InTime
<1>9. CASE Poll \/ Finish BY <1>9 DEF Poll, Drained, Finish, Reap
<1>10. ASSUME NEW s \in Streams, Write(s) PROVE Accounting' BY <1>10 DEF Write
<1>11. ASSUME NEW s \in Streams, CloseStream(s) PROVE Accounting' BY <1>11 DEF CloseStream
<1>12. ASSUME NEW c \in {0, 1}, Exit(c) PROVE Accounting' BY <1>12 DEF Exit
<1>13. CASE Die \/ BecomeZombie BY <1>13 DEF Die, BecomeZombie
<1>14. CASE OtherFork \/ OtherExit
  <2>1. \A s \in Streams : "child" \in writers'[s] <=> "child" \in writers[s]
    <3>1. CASE OtherFork BY <3>1 DEF OtherFork
    <3>2. CASE OtherExit BY <3>2 DEF OtherExit
    <3> QED BY <1>14, <3>1, <3>2
  <2>2. UNCHANGED <<caller, process, pipe>>
    BY <1>14 DEF OtherFork, OtherExit
  <2> QED BY <2>1, <2>2
<1>15. CASE PidReuse \/ SiblingReaped \/ StaleReap BY <1>15 DEF PidReuse, SiblingReaped, StaleReap
<1>16. ASSUME NEW c \in Outcomes, SiblingEnds(c) PROVE Accounting' BY <1>16 DEF SiblingEnds
<1>17. CASE Tick \/ SetClock BY <1>17 DEF Tick, SetClock
<1> QED BY <1>1, <1>2, <1>3, <1>4, <1>5, <1>6, <1>7, <1>8, <1>9, <1>10, <1>11, <1>12, <1>13, <1>14,
           <1>15, <1>16, <1>17 DEF Next, Caller, ChildStep, Others

LEMMA TimekeepingStep == IInv /\ Next => Timekeeping'
<1> SUFFICES ASSUME IInv, Next PROVE Timekeeping'
  OBVIOUS
<1> USE ConstantsOK DEF IInv, TypeOK, Timekeeping, NotKilledEarly, caller, process, clock, number
<1>1. CASE Expire
  <2>1. secs * TicksPerSec \in Int /\ (skew + 1) * TicksPerSec \in Int OBVIOUS
  <2> QED BY <1>1, <2>1 DEF Expire, Expired
<1>2. CASE Tick
  <2>1. (secs + 1) * TicksPerSec = secs * TicksPerSec + TicksPerSec /\ secs * TicksPerSec \in Int OBVIOUS
  <2>2. (skew + 1) * TicksPerSec \in Int OBVIOUS
  <2>3. struck = "none" BY <1>2 DEF Tick, Measured, Lifecycle
  <2> QED BY <1>2, <2>1, <2>2, <2>3 DEF Tick
<1>3. CASE SetClock
  <2>1. PICK by \in -MaxSkew..MaxSkew : skew' = by /\ secs' = secs + by - skew BY <1>3 DEF SetClock
  <2>2. (secs + by - skew) * TicksPerSec - (by + 1) * TicksPerSec = secs * TicksPerSec - (skew + 1) * TicksPerSec
    OBVIOUS
  <2>3. secs * TicksPerSec \in Int /\ (skew + 1) * TicksPerSec \in Int
        /\ (by + 1) * TicksPerSec \in Int /\ (secs + by - skew) * TicksPerSec \in Int
    OBVIOUS
  <2>4. struck = "none" BY <1>3 DEF SetClock, Measured, Lifecycle
  <2> QED BY <1>3, <2>1, <2>2, <2>3, <2>4 DEF SetClock
<1>4. CASE Caller /\ ~ Expire
  BY <1>4 DEF Caller, PipeOut, PipeErr, Fork, ForkFails, EnterLoop, BuffersFail, SelectRead, InTime, Poll, Drained, Finish
<1>5. CASE ChildStep
  BY <1>5 DEF ChildStep, Write, CloseStream, Exit, Die, BecomeZombie
<1>6. CASE Others
  BY <1>6 DEF Others, OtherFork, OtherExit, PidReuse, SiblingReaped, StaleReap, SiblingEnds
<1> QED BY <1>1, <1>2, <1>3, <1>4, <1>5, <1>6 DEF Next

LEMMA DescriptorsStep == IInv /\ Next => Descriptors'
<1> SUFFICES ASSUME IInv, Next PROVE Descriptors'
  OBVIOUS
<1> USE DEF IInv, TypeOK, Lifecycle, Descriptors, NoDescriptorLeft, Looping, Return, Drop, caller, process,
        clock, number
<1>1. CASE PipeOut BY <1>1 DEF PipeOut, Streams, Error
<1>2. CASE PipeErr BY <1>2 DEF PipeErr, Streams, Error
<1>3. CASE Fork BY <1>3 DEF Fork
<1>4. CASE ForkFails \/ EnterLoop BY <1>4 DEF ForkFails, EnterLoop
<1>5. CASE BuffersFail BY <1>5 DEF BuffersFail, Slay
<1>6. CASE SelectRead \/ InTime BY <1>6 DEF SelectRead, InTime
<1>7. CASE Expire BY <1>7 DEF Expire, Slay
<1>8. CASE Poll \/ Finish BY <1>8 DEF Poll, Drained, Finish, Reap
<1>9. ASSUME NEW s \in Streams, Write(s) PROVE Descriptors' BY <1>9 DEF Write
<1>10. ASSUME NEW s \in Streams, CloseStream(s) PROVE Descriptors' BY <1>10 DEF CloseStream
<1>11. ASSUME NEW c \in {0, 1}, Exit(c) PROVE Descriptors' BY <1>11 DEF Exit
<1>12. CASE Die \/ BecomeZombie BY <1>12 DEF Die, BecomeZombie
<1>13. CASE OtherFork \/ OtherExit
  <2>1. \A s \in Streams : "caller" \in writers'[s] <=> "caller" \in writers[s]
    BY <1>13 DEF OtherFork, OtherExit
  <2> QED BY <1>13, <2>1 DEF OtherFork, OtherExit
<1>14. CASE PidReuse \/ SiblingReaped \/ StaleReap BY <1>14 DEF PidReuse, SiblingReaped, StaleReap
<1>15. ASSUME NEW c \in Outcomes, SiblingEnds(c) PROVE Descriptors' BY <1>15 DEF SiblingEnds
<1>16. CASE Tick \/ SetClock BY <1>16 DEF Tick, SetClock
<1> QED BY <1>1, <1>2, <1>3, <1>4, <1>5, <1>6, <1>7, <1>8, <1>9, <1>10, <1>11, <1>12, <1>13, <1>14,
           <1>15, <1>16 DEF Next, Caller, ChildStep, Others

LEMMA Inductive == Spec => []IInv
<1>1. IInv /\ UNCHANGED vars => (Lifecycle /\ Accounting /\ Timekeeping /\ Descriptors)'
  BY DEF IInv, Lifecycle, Accounting, Timekeeping, Descriptors, NoDescriptorLeft, NotKilledEarly, Answered,
         Looping, vars, caller, process, clock, number
<1>2. IInv /\ TypeOK' /\ [Next]_vars => IInv'
  BY <1>1, LifecycleStep, AccountingStep, TimekeepingStep, DescriptorsStep DEF IInv
<1> QED BY <1>2, InitIInv, TypeCorrect, PTL DEF Spec

\* For every output, timeout and interleaving with other threads' forks, a call
\* that answers has reaped its child and reports how it ended, unless its wait
\* and another call's crossed over a recycled number.
THEOREM Truthful == Spec => []AnswerIsTruthful
<1>1. IInv => AnswerIsTruthful
  BY DEF IInv, Lifecycle, AnswerIsTruthful
<1> QED BY <1>1, Inductive, PTL

\* An answer that the timeout did not cut carries all the child wrote to each
\* stream, up to max_output.
THEOREM Complete == Spec => []CompleteUnlessLate
<1>1. IInv => CompleteUnlessLate
  <2> SUFFICES ASSUME IInv, Answered, struck = "none", NEW s \in Streams
               PROVE kept[s] = Min2(total[s] - todo[s], MaxOutput)
    BY DEF CompleteUnlessLate
  <2>1. pipe[s] = 0
    BY DEF IInv, Lifecycle, Accounting
  <2> QED BY <2>1 DEF IInv, TypeOK, Accounting
<1> QED BY <1>1, Inductive, PTL

\* For every timeout, whatever the wall clock is set to during the call, the
\* signal comes early by less than a second beyond what it was set forward.
THEOREM Punctual == Spec => []NotKilledEarly
<1>1. IInv => NotKilledEarly
  BY DEF IInv, Timekeeping
<1> QED BY <1>1, Inductive, PTL

\* A call that answers, or fails to fork, leaves no descriptor open.
THEOREM Tidy == Spec => []NoDescriptorLeft
<1>1. IInv => NoDescriptorLeft
  BY DEF IInv, Descriptors
<1> QED BY <1>1, Inductive, PTL
=============================================================================
