------------------------- MODULE RebootSchedulerProofs -------------------------
(***************************************************************************)
(* What RebootScheduler promises for days, hours and minutes of any        *)
(* length, any sleep, and any number of saves, crashes and reboots.        *)
(***************************************************************************)
EXTENDS RebootScheduler, TLAPS

-----------------------------------------------------------------------------
(* Division.                                                                 *)

LEMMA Division ==
  ASSUME NEW n \in Nat, NEW m \in Nat \ {0}
  PROVE  /\ n \div m \in Nat /\ (n % m) \in 0..(m - 1) /\ n = m * (n \div m) + (n % m)
         /\ (n % m) <= n
<1>1. (n % m) \in 0..(m - 1)
  OBVIOUS
<1>2. n \div m \in Nat /\ n = m * (n \div m) + (n % m)
  OBVIOUS
<1> DEFINE q == n \div m
           r == (n % m)
<1>3. q \in Nat /\ r \in 0..(m - 1) /\ n = m * q + r
  BY <1>1, <1>2
<1> HIDE DEF q, r
<1>4. m * q >= 0
  BY <1>3
<1>5. r <= n
  BY <1>3, <1>4
<1> QED BY <1>1, <1>2, <1>5 DEF r

LEMMA Quotient ==
  ASSUME NEW m \in Nat \ {0}, NEW q \in Nat, NEW r \in 0..(m - 1)
  PROVE  (m * q + r) \div m = q /\ (m * q + r) % m = r
<1> DEFINE n == m * q + r
           p == n \div m
           s == n % m
<1>1. m * q \in Nat /\ n \in Nat
  OBVIOUS
<1>2. p \in Nat /\ s \in 0..(m - 1) /\ n = m * p + s
  BY <1>1, Division
<1>3. m * q + r = m * p + s
  BY <1>2
<1> HIDE DEF n, p, s
<1>4. CASE p < q
  <2>1. PICK k \in Nat : q = p + 1 + k
    <3>1. q - p - 1 \in Nat /\ q = p + 1 + (q - p - 1)
      BY <1>2, <1>4
    <3> QED BY <3>1
  <2>2. m * q = m * p + m + m * k /\ m * k >= 0
    BY <1>2, <2>1
  <2> QED BY <1>2, <1>3, <2>2
<1>5. CASE p > q
  <2>1. PICK k \in Nat : p = q + 1 + k
    <3>1. p - q - 1 \in Nat /\ p = q + 1 + (p - q - 1)
      BY <1>2, <1>5
    <3> QED BY <3>1
  <2>2. m * p = m * q + m + m * k /\ m * k >= 0
    BY <1>2, <2>1
  <2> QED BY <1>2, <1>3, <2>2
<1>6. CASE p = q
  BY <1>2, <1>3, <1>6 DEF n, p, s
<1> QED BY <1>2, <1>4, <1>5, <1>6

LEMMA Nested ==
  ASSUME NEW n \in Nat, NEW k \in Nat \ {0}, NEW m \in Nat \ {0}
  PROVE  n \div (k * m) = (n \div m) \div k
<1> DEFINE q == n \div m
           r == (n % m)
           a == q \div k
           b == q % k
<1>1. q \in Nat /\ r \in 0..(m - 1) /\ n = m * q + r
  BY Division
<1>2. a \in Nat /\ b \in 0..(k - 1) /\ q = k * a + b
  BY <1>1, Division
<1> HIDE DEF q, r, a, b
<1>3. n = (k * m) * a + (m * b + r)
  BY <1>1, <1>2
<1>4. k * m \in Nat \ {0}
  OBVIOUS
<1>5. m * b + r \in 0..(k * m - 1)
  <2>1. m * b >= 0 /\ m * (k - 1 - b) >= 0
    BY <1>2
  <2>2. m * (k - 1 - b) = k * m - m - m * b
    BY <1>2
  <2> QED BY <1>1, <1>2, <2>1, <2>2
<1>6. n \div (k * m) = a
  BY <1>2, <1>3, <1>4, <1>5, Quotient
<1> QED BY <1>6 DEF a, q

LEMMA Successor ==
  ASSUME NEW n \in Nat, NEW m \in Nat \ {0}
  PROVE  IF (n + 1) % m = 0 THEN n % m = m - 1
         ELSE (n + 1) \div m = n \div m /\ (n + 1) % m = (n % m) + 1
<1> DEFINE q == n \div m
           r == (n % m)
<1>1. q \in Nat /\ r \in 0..(m - 1) /\ n = m * q + r
  BY Division
<1> HIDE DEF q, r
<1>2. CASE r = m - 1
  <2>1. n + 1 = m * (q + 1) + 0
    BY <1>1, <1>2
  <2>2. (n + 1) % m = 0
    BY <2>1, <1>1, Quotient
  <2> QED BY <1>2, <2>2 DEF r
<1>3. CASE r # m - 1
  <2>1. n + 1 = m * q + (r + 1) /\ r + 1 \in 0..(m - 1)
    BY <1>1, <1>3
  <2>2. (n + 1) \div m = q /\ (n + 1) % m = r + 1
    BY <2>1, <1>1, Quotient
  <2> QED BY <1>1, <2>2 DEF q, r
<1> QED BY <1>2, <1>3

LEMMA Multiple ==
  ASSUME NEW k \in Nat, NEW m \in Nat \ {0}
  PROVE  (k * m) % m = 0
<1>1. k * m = m * k + 0 /\ 0 \in 0..(m - 1)
  OBVIOUS
<1> QED BY <1>1, Quotient

-----------------------------------------------------------------------------
(* The inductive invariant.                                                  *)

Checking == sched \in {"hour", "minute"}

\* A daemon that is down keeps nothing; a thread that is awake has slept its time,
\* and last_yday is not of a later day than the check's time and the clock's.
Rested ==
  /\ down # 0 => http = "none" /\ put = 0 /\ sched = "sleep" /\ wake = Sleep /\ last = -1
  /\ sched # "sleep" =>
       /\ wake = 0 /\ last <= seen.day
       /\ seen.day < now.day \/ (seen.day = now.day /\ seen.slot <= now.slot)
  /\ wake > 0 => late = 0
  /\ last <= now.day

\* Memory and database follow the form field by field.
Saved ==
  /\ put \in 1..3 => \A i \in 1..3 : i < put => cfg[Field[i]] = form[Field[i]]
  /\ put \in 4..6 =>
       cfg = form /\ (~ torn => \A i \in 1..3 : i < put - 3 => db[Field[i]] = form[Field[i]])
  /\ put = 0 /\ ~ torn => cfg = form /\ db = form

\* A check that no save has touched has read the form.
Reads ==
  /\ Checking /\ put \in 1..3 => mixed
  /\ Checking /\ ~ mixed /\ ~ torn => form.on /\ (sched = "minute" => form.hour = Hour(seen))

\* Time t, and w slots more, is n sleeps or more after the last trigger's minute began.
Passed(n, t, w) == fired.at.day < t.day \/ (fired.at.day = t.day /\ fired.at.slot + n * Sleep <= t.slot + w)

\* One boot triggers once a day.  The second trigger of a minute is by a later boot,
\* whose first check came after a sleep; a third would come after two.
Counted ==
  /\ fired.boot <= 1
  /\ down = 0 /\ fired.boot = 1 => last = fired.at.day
  /\ fired.minute <= 2
  /\ fired.minute >= 1 => Passed(fired.minute - 1, now, 0)
  /\ fired.minute >= 1 /\ down = 0 /\ last # fired.at.day =>
       IF sched = "sleep" THEN Passed(fired.minute, now, wake) ELSE Passed(fired.minute, seen, 0)

\* In a minute in which the daemon ran and memory was the same, an unplanned one
\* apart, the trigger has been pulled, or a check of this minute is deciding, or a
\* check of an earlier minute is not over, or the thread still sleeps after one.
Off(t) == t.slot % Slots
Watched ==
  whole /\ down = 0 =>
    \/ last = now.day
    \/ ~ At(cfg, now)
    \/ Checking /\ seen.day = now.day /\ seen.slot \div Slots = now.slot \div Slots
    \/ sched # "sleep" /\ Off(now) + 1 <= late
    \/ sched = "sleep" /\ Off(now) + wake + 1 <= Sleep + Late + late

IInv == TypeOK /\ Rested /\ Saved /\ Reads /\ Watched

-----------------------------------------------------------------------------
(* Times.                                                                    *)

LEMMA TimeFacts ==
  ASSUME NEW t \in Time
  PROVE  /\ t.day \in 0..MaxDay /\ t.slot \in Nat /\ t.slot < Hours * Minutes * Slots
         /\ Off(t) \in 0..(Slots - 1) /\ Off(t) <= t.slot
         /\ MinuteOf(t) \in Time /\ MinuteOf(t).day = t.day /\ MinuteOf(t).slot = t.slot - Off(t)
<1> DEFINE D == Hours * Minutes * Slots
<1>1. D \in Nat /\ Slots \in Nat \ {0}
  BY ConstantsOK
<1>2. t.day \in 0..MaxDay /\ t.slot \in 0..(D - 1)
  BY DEF Time
<1> HIDE DEF D
<1>3. t.slot \in Nat /\ t.slot < D
  BY <1>1, <1>2
<1>4. Off(t) \in 0..(Slots - 1) /\ Off(t) <= t.slot
  BY <1>1, <1>3, Division DEF Off
<1>5. t.slot - Off(t) \in 0..(D - 1)
  BY <1>1, <1>3, <1>4
<1>6. MinuteOf(t) = [day |-> t.day, slot |-> t.slot - Off(t)]
  BY DEF MinuteOf, Time, Off
<1>7. MinuteOf(t) \in Time
  BY <1>2, <1>5, <1>6 DEF Time, D
<1> QED BY <1>2, <1>3, <1>4, <1>6, <1>7 DEF D

LEMMA SameMinute ==
  ASSUME NEW s \in Time, NEW t \in Time, s.slot \div Slots = t.slot \div Slots
  PROVE  Hour(s) = Hour(t) /\ Minute(s) = Minute(t)
<1>1. s.slot \in Nat /\ t.slot \in Nat
  BY TimeFacts
<1>2. Hour(s) = (s.slot \div Slots) \div Minutes /\ Hour(t) = (t.slot \div Slots) \div Minutes
  BY <1>1, ConstantsOK, Nested DEF Hour
<1> QED BY <1>2 DEF Minute

\* A tick that does not end the minute stays in it.
LEMMA Within ==
  ASSUME now \in Time, Tick, ~ EndOfMinute
  PROVE  /\ now'.day = now.day /\ now'.slot = now.slot + 1
         /\ now'.slot \div Slots = now.slot \div Slots /\ Off(now') = Off(now) + 1
<1>1. now.slot \in Nat /\ Slots \in Nat \ {0}
  BY ConstantsOK, TimeFacts
<1>2. ~ EndOfDay
  <2>1. Hours * Minutes \in Nat
    BY ConstantsOK
  <2>2. (Hours * Minutes * Slots) % Slots = 0
    BY <1>1, <2>1, Multiple
  <2> QED BY <2>2 DEF EndOfDay, EndOfMinute
<1>3. now' = [now EXCEPT !.slot = @ + 1]
  BY <1>2 DEF Tick
<1>4. now'.day = now.day /\ now'.slot = now.slot + 1
  BY <1>3 DEF Time
<1>5. (now.slot + 1) % Slots # 0
  BY DEF EndOfMinute
<1> QED BY <1>1, <1>4, <1>5, Successor DEF Off

\* A tick that ends the minute begins another.
LEMMA Ends ==
  ASSUME now \in Time, Tick, EndOfMinute
  PROVE  Off(now) = Slots - 1 /\ Off(now') = 0
<1>1. now.slot \in Nat /\ Slots \in Nat \ {0}
  BY ConstantsOK, TimeFacts
<1>2. Off(now) = Slots - 1
  BY <1>1, Successor DEF Off, EndOfMinute
<1>3. CASE EndOfDay
  <2>1. now'.slot = 0
    BY <1>3 DEF Tick
  <2>2. 0 = 0 * Slots
    BY <1>1
  <2> QED BY <1>1, <1>2, <2>1, <2>2, Multiple DEF Off
<1>4. CASE ~ EndOfDay
  <2>1. now'.slot = now.slot + 1
    BY <1>4 DEF Tick, Time
  <2> QED BY <1>2, <2>1 DEF Off, EndOfMinute
<1> QED BY <1>3, <1>4

\* Time does not go back.
LEMMA Later ==
  ASSUME now \in Time, Tick
  PROVE  /\ now' \in Time
         /\ now'.day > now.day \/ (now'.day = now.day /\ now'.slot = now.slot + 1)
<1> DEFINE D == Hours * Minutes * Slots
<1>1. D \in Nat /\ now.slot \in Nat /\ now.slot < D /\ now.day \in 0..MaxDay /\ MaxDay \in Nat
  BY ConstantsOK, TimeFacts
<1> HIDE DEF D
<1>2. CASE EndOfDay
  <2>1. now' = [day |-> now.day + 1, slot |-> 0] /\ now.day < MaxDay
    BY <1>2 DEF Tick
  <2>2. now.day + 1 \in 0..MaxDay /\ 0 \in 0..(D - 1)
    BY <1>1, <2>1
  <2> QED BY <1>1, <2>1, <2>2 DEF Time, D
<1>3. CASE ~ EndOfDay
  <2>1. now' = [now EXCEPT !.slot = @ + 1] /\ now.slot + 1 # D
    BY <1>3 DEF Tick, EndOfDay, D
  <2>2. now.slot + 1 \in 0..(D - 1)
    BY <1>1, <2>1
  <2>3. now' = [day |-> now.day, slot |-> now.slot + 1]
    BY <2>1 DEF Time
  <2> QED BY <1>1, <2>2, <2>3 DEF Time, D
<1> QED BY <1>2, <1>3

-----------------------------------------------------------------------------
(* The steps.                                                                *)

\* A command of the HTTP thread starts or ends.
Calls ==
  /\ down = 0 \/ http # "none"
  /\ http' \in {"none", "at", "reboot"}
  /\ UNCHANGED <<now, plans, put, thread, down, history>>

\* The scheduler's reboot fails.
GivesUp == sched = "reboot" /\ SleepAgain /\ UNCHANGED <<now, plans, http, put, last, down, history>>

LEMMA Cases ==
  ASSUME Next
  PROVE  \/ Stop(1) \/ Stop(BootTime + 1) \/ Boot \/ Tick
         \/ Check \/ CompareHour \/ Trigger \/ NotDue \/ GivesUp
         \/ (\E p \in Plan : Save(p)) \/ SaveField \/ SaveRow \/ Calls
<1>1. CASE Crash
  BY <1>1 DEF Crash
<1>2. CASE Scheduler
  BY <1>2 DEF Scheduler, Reboot, GivesUp
<1>3. CASE Http
  <2>1. ASSUME NEW c \in {"at", "reboot"}, StartCommand(c) PROVE Calls
    BY <2>1 DEF StartCommand, Calls
  <2>2. ASSUME EndAt PROVE Calls
    BY <2>2 DEF EndAt, Calls
  <2>3. ASSUME EndReboot PROVE Stop(BootTime + 1) \/ Calls
    BY <2>3 DEF EndReboot, Calls
  <2> QED BY <1>3, <2>1, <2>2, <2>3 DEF Http
<1> QED BY <1>1, <1>2, <1>3 DEF Next

-----------------------------------------------------------------------------
(* Types.                                                                    *)

LEMMA FieldIs == Field[1] = "on" /\ Field[2] = "hour" /\ Field[3] = "minute"
BY DEF Field

\* The plan p with its i-th field taken from q, and what is said of it.
Put(p, q, i) == [p EXCEPT ![Field[i]] = q[Field[i]]]

IsPut(new, p, q, i) ==
  new \in Plan /\ \A j \in 1..3 : new[Field[j]] = IF j = i THEN q[Field[j]] ELSE p[Field[j]]

\* A plan is written field by field.
LEMMA Written ==
  ASSUME NEW p \in Plan, NEW q \in Plan, NEW i \in 1..3
  PROVE  IsPut(Put(p, q, i), p, q, i)
<1>1. i = 1 \/ i = 2 \/ i = 3
  OBVIOUS
<1>2. q.on \in BOOLEAN /\ q.hour \in 0..(Hours - 1) /\ q.minute \in 0..(Minutes - 1)
  BY DEF Plan
<1>3. [p EXCEPT ![Field[i]] = q[Field[i]]] \in Plan
  <2>1. CASE i = 1
    BY <1>2, <2>1, FieldIs DEF Plan
  <2>2. CASE i = 2
    BY <1>2, <2>2, FieldIs DEF Plan
  <2>3. CASE i = 3
    BY <1>2, <2>3, FieldIs DEF Plan
  <2> QED BY <1>1, <2>1, <2>2, <2>3
<1>4. ASSUME NEW j \in 1..3
      PROVE  [p EXCEPT ![Field[i]] = q[Field[i]]][Field[j]] = IF j = i THEN q[Field[j]] ELSE p[Field[j]]
  <2>1. Field[j] \in DOMAIN p
    <3>1. DOMAIN p = {"on", "hour", "minute"}
      BY DEF Plan
    <3>2. j = 1 \/ j = 2 \/ j = 3
      OBVIOUS
    <3> QED BY <3>1, <3>2, FieldIs
  <2>2. Field[i] = Field[j] <=> i = j
    <3>1. j = 1 \/ j = 2 \/ j = 3
      OBVIOUS
    <3> QED BY <1>1, <3>1, FieldIs
  <2> QED BY <2>1, <2>2
<1> QED BY <1>3, <1>4 DEF Put, IsPut

\* Plans are equal when their fields are.
LEMMA SamePlan ==
  ASSUME NEW p \in Plan, NEW q \in Plan, \A i \in 1..3 : p[Field[i]] = q[Field[i]]
  PROVE  p = q
<1>1. p.on = q.on /\ p.hour = q.hour /\ p.minute = q.minute
  BY FieldIs
<1> QED BY <1>1 DEF Plan

LEMMA TypeInit ==
  ASSUME Init PROVE TypeOK
<1>1. Hours * Minutes * Slots \in Nat \ {0}
  BY ConstantsOK
<1>2. Start \in Time /\ Start.day = 0
  <2>1. 0 \in 0..(Hours * Minutes * Slots - 1) /\ 0 \in 0..MaxDay
    BY <1>1, ConstantsOK
  <2> QED BY <2>1 DEF Start, Time
<1>3. now \in Time /\ seen \in Time /\ {cfg, db, form} \subseteq Plan
  BY <1>2 DEF Init
<1>4. /\ saves \in 0..MaxSaves /\ put \in 0..6 /\ last \in {-1} \cup 0..MaxDay
      /\ wake \in 0..Sleep /\ late \in 0..Late /\ down \in 0..(BootTime + 1)
  BY ConstantsOK DEF Init
<1>5. fired \in [at : Time, minute : Nat, boot : Nat]
  BY <1>3 DEF Init
<1> QED BY <1>3, <1>4, <1>5 DEF Init, TypeOK

LEMMA TypeNext ==
  ASSUME TypeOK, Rested, [Next]_vars PROVE TypeOK'
<1> DEFINE Plans(c, d, f, s) == {c, d, f} \subseteq Plan /\ s \in 0..MaxSaves
           Thread(s, e, l, w, a) ==
             /\ s \in {"sleep", "hour", "minute", "reboot"} /\ e \in Time
             /\ l \in {-1} \cup 0..MaxDay /\ w \in 0..Sleep /\ a \in 0..Late
           Past(m, t, w, f) == {m, t, w} \subseteq BOOLEAN /\ f \in [at : Time, minute : Nat, boot : Nat]
<1>1. /\ now \in Time /\ Plans(cfg, db, form, saves) /\ http \in {"none", "at", "reboot"} /\ put \in 0..6
      /\ Thread(sched, seen, last, wake, late) /\ down \in 0..(BootTime + 1) /\ Past(mixed, torn, whole, fired)
  BY DEF TypeOK
<1>2. /\ Slots \in Nat \ {0} /\ Sleep \in Nat \ {0} /\ Late \in Nat /\ BootTime \in Nat
      /\ MaxDay \in Nat /\ MaxSaves \in Nat
  BY ConstantsOK
<1>3. SUFFICES /\ now' \in Time /\ Plans(cfg, db, form, saves)' /\ http' \in {"none", "at", "reboot"} /\ put' \in 0..6
               /\ Thread(sched, seen, last, wake, late)' /\ down' \in 0..(BootTime + 1)
               /\ Past(mixed, torn, whole, fired)'
  BY DEF TypeOK
<1>4. Start \in Time
  <2>1. Hours * Minutes * Slots \in Nat \ {0}
    BY ConstantsOK
  <2>2. 0 \in 0..(Hours * Minutes * Slots - 1) /\ 0 \in 0..MaxDay
    BY <2>1, <1>2
  <2> QED BY <2>2 DEF Start, Time
<1>5. ASSUME UNCHANGED plans PROVE Plans(cfg, db, form, saves)'
  BY <1>1, <1>5 DEF plans
<1>6. ASSUME UNCHANGED thread PROVE Thread(sched, seen, last, wake, late)'
  BY <1>1, <1>6 DEF thread
<1>7. ASSUME UNCHANGED history PROVE Past(mixed, torn, whole, fired)'
  BY <1>1, <1>7 DEF history
<1>8. ASSUME SleepAgain, last' = last PROVE Thread(sched, seen, last, wake, late)'
  <2>1. Sleep \in 0..Sleep /\ 0 \in 0..Late
    BY <1>2
  <2> QED BY <1>1, <1>4, <1>8, <2>1 DEF SleepAgain, Nap
<1>9. ASSUME NEW s \in 1..(BootTime + 1), Stop(s)
      PROVE  <1>3!1
  <2>1. Sleep \in 0..Sleep /\ 0 \in 0..Late /\ s \in 0..(BootTime + 1) /\ 0 \in 0..6
    BY <1>2, <1>9
  <2>2. Thread(sched, seen, last, wake, late)'
    BY <1>4, <1>9, <2>1 DEF Stop
  <2>3. Past(mixed, torn, whole, fired)'
    <3>1. mixed' \in BOOLEAN /\ whole' \in BOOLEAN /\ torn' \in BOOLEAN /\ fired' = fired
      BY <1>1, <1>9 DEF Stop
    <3> QED BY <1>1, <3>1
  <2>4. now' = now /\ http' = "none" /\ put' = 0 /\ down' = s /\ UNCHANGED plans
    BY <1>9 DEF Stop
  <2> QED BY <1>1, <1>5, <2>1, <2>2, <2>3, <2>4
<1>10. CASE Boot
  <2>1. Plans(cfg, db, form, saves)'
    BY <1>1, <1>10 DEF Boot
  <2>2. Past(mixed, torn, whole, fired)'
    BY <1>1, <1>10 DEF Boot
  <2>3. now' = now /\ http' = http /\ put' = put /\ down' = 0 /\ UNCHANGED thread
    BY <1>10 DEF Boot
  <2>4. 0 \in 0..(BootTime + 1)
    BY <1>2
  <2> QED BY <1>1, <1>6, <2>1, <2>2, <2>3, <2>4
<1>11. CASE Tick
  <2>1. now' \in Time
    BY <1>1, <1>11, Later
  <2>2. down' \in 0..(BootTime + 1)
    BY <1>1, <1>2, <1>11 DEF Tick
  <2>3. wake' \in 0..Sleep /\ late' \in 0..Late
    BY <1>1, <1>2, <1>11 DEF Tick
  <2>4. UNCHANGED <<plans, http, put, sched, seen, last, mixed, torn, fired>> /\ whole' \in BOOLEAN
    BY <1>11 DEF Tick
  <2>5. Past(mixed, torn, whole, fired)'
    BY <1>1, <2>4
  <2> QED BY <1>1, <1>5, <2>1, <2>2, <2>3, <2>4, <2>5
<1>12. CASE Check
  <2>1. Thread(sched, seen, last, wake, late)'
    <3>1. CASE cfg.on
      BY <1>1, <1>12, <3>1 DEF Check
    <3>2. CASE ~ cfg.on
      BY <1>8, <1>12, <3>2 DEF Check
    <3> QED BY <3>1, <3>2
  <2>2. Past(mixed, torn, whole, fired)'
    <3>1. mixed' \in BOOLEAN /\ whole' = whole /\ torn' = torn /\ fired' = fired
      BY <1>12 DEF Check
    <3> QED BY <1>1, <3>1
  <2>3. UNCHANGED <<now, plans, http, put, down>>
    BY <1>12 DEF Check
  <2> QED BY <1>1, <1>5, <2>1, <2>2, <2>3
<1>13. CASE CompareHour
  <2>1. Thread(sched, seen, last, wake, late)'
    <3>1. CASE Hour(seen) = cfg.hour
      BY <1>1, <1>13, <3>1 DEF CompareHour
    <3>2. CASE Hour(seen) # cfg.hour
      BY <1>8, <1>13, <3>2 DEF CompareHour
    <3> QED BY <3>1, <3>2
  <2>2. UNCHANGED <<now, plans, http, put, down, history>>
    BY <1>13 DEF CompareHour
  <2> QED BY <1>1, <1>5, <1>7, <2>1, <2>2
<1>14. CASE Trigger
  <2>1. MinuteOf(seen) \in Time /\ seen.day \in 0..MaxDay
    BY <1>1, TimeFacts
  <2>2. Thread(sched, seen, last, wake, late)'
    BY <1>1, <1>14, <2>1 DEF Trigger
  <2>3. Past(mixed, torn, whole, fired)'
    <3>1. fired.minute \in Nat /\ fired.boot \in Nat
      BY <1>1
    <3>2. fired' \in [at : Time, minute : Nat, boot : Nat]
      BY <1>14, <2>1, <3>1 DEF Trigger
    <3>3. mixed' = mixed /\ torn' = torn /\ whole' = whole
      BY <1>14 DEF Trigger
    <3> QED BY <1>1, <3>2, <3>3
  <2>4. UNCHANGED <<now, plans, http, put, down>>
    BY <1>14 DEF Trigger
  <2> QED BY <1>1, <1>5, <2>2, <2>3, <2>4
<1>15. CASE NotDue \/ GivesUp
  <2>1. SleepAgain /\ UNCHANGED <<now, plans, http, put, last, down, history>>
    BY <1>15 DEF NotDue, GivesUp
  <2> QED BY <1>1, <1>5, <1>7, <1>8, <2>1
<1>16. ASSUME NEW p \in Plan, Save(p) PROVE <1>3!1
  <2>1. Plans(cfg, db, form, saves)'
    BY <1>1, <1>2, <1>16 DEF Save
  <2>2. Past(mixed, torn, whole, fired)'
    <3>1. mixed' \in BOOLEAN /\ whole' = whole /\ torn' = torn /\ fired' = fired
      BY <1>16 DEF Save
    <3> QED BY <1>1, <3>1
  <2>3. put' = 1 /\ UNCHANGED <<now, http, thread, down>>
    BY <1>16 DEF Save
  <2> QED BY <1>1, <1>6, <2>1, <2>2, <2>3
<1>17. CASE SaveField
  <2>1. Plans(cfg, db, form, saves)'
    <3>1. put \in 1..3 /\ cfg' = [cfg EXCEPT ![Field[put]] = form[Field[put]]] /\ UNCHANGED <<db, form, saves>>
      BY <1>17 DEF SaveField
    <3>2. cfg' = Put(cfg, form, put) /\ put \in 1..3 /\ cfg \in Plan /\ form \in Plan
      BY <1>1, <3>1 DEF Put
    <3>3. IsPut(cfg', cfg, form, put)
      BY <3>2, Written
    <3>4. cfg' \in Plan
      BY <3>3 DEF IsPut
    <3> QED BY <1>1, <3>1, <3>4
  <2>2. Past(mixed, torn, whole, fired)'
    <3>1. mixed' \in BOOLEAN /\ whole' = FALSE /\ torn' \in BOOLEAN /\ fired' = fired
      BY <1>1, <1>17 DEF SaveField
    <3> QED BY <1>1, <3>1
  <2>3. put \in 1..3 /\ put' = put + 1 /\ UNCHANGED <<now, http, thread, down>>
    BY <1>17 DEF SaveField
  <2>4. put' \in 0..6
    BY <2>3
  <2> QED BY <1>1, <1>6, <2>1, <2>2, <2>3, <2>4
<1>18. CASE SaveRow
  <2>1. put \in 4..6 /\ put' = (put + 1) % 7 /\ UNCHANGED <<now, cfg, form, saves, http, thread, down, mixed, whole, fired>>
    BY <1>18 DEF SaveRow, NextPut
  <2>2. put - 3 \in 1..3 /\ put' \in 0..6
    BY <2>1
  <2>3. db' \in Plan /\ torn' \in BOOLEAN
    <3>1. Put(db, form, put - 3) \in Plan
      BY <1>1, <2>2, Written DEF IsPut
    <3> QED BY <1>1, <1>18, <3>1 DEF SaveRow, Put
  <2> QED BY <1>1, <1>6, <2>1, <2>2, <2>3
<1>19. CASE Calls
  <2>1. http' \in {"none", "at", "reboot"} /\ UNCHANGED <<now, plans, put, thread, down, history>>
    BY <1>19 DEF Calls
  <2> QED BY <1>1, <1>5, <1>6, <1>7, <2>1
<1>20. CASE UNCHANGED vars
  BY <1>1, <1>5, <1>6, <1>7, <1>20 DEF vars
<1>21. 1 \in 1..(BootTime + 1) /\ BootTime + 1 \in 1..(BootTime + 1)
  BY <1>2
<1>22. CASE Next
  BY <1>9, <1>10, <1>11, <1>12, <1>13, <1>14, <1>15, <1>16, <1>17, <1>18, <1>19, <1>21, <1>22, Cases
<1> QED BY <1>20, <1>22

-----------------------------------------------------------------------------
(* The daemon and its thread.                                                *)

LEMMA RestedNext ==
  ASSUME TypeOK, Rested, [Next]_vars PROVE Rested'
<1> DEFINE Down(d, h, p, s, w, l) ==
             d # 0 => h = "none" /\ p = 0 /\ s = "sleep" /\ w = Sleep /\ l = -1
           Awake(s, w, l, e, t) ==
             s # "sleep" => w = 0 /\ l <= e.day /\ (e.day < t.day \/ (e.day = t.day /\ e.slot <= t.slot))
<1>1. /\ now \in Time /\ seen \in Time /\ wake \in 0..Sleep /\ late \in 0..Late /\ last \in {-1} \cup 0..MaxDay
      /\ down \in 0..(BootTime + 1) /\ put \in 0..6
  BY DEF TypeOK
<1>2. Sleep \in Nat /\ Late \in Nat /\ MaxDay \in Nat /\ BootTime \in Nat
  BY ConstantsOK
<1>3. /\ now.day \in Nat /\ now.slot \in Nat /\ seen.day \in Nat /\ seen.slot \in Nat
  BY <1>1, <1>2, TimeFacts
<1>4. /\ Down(down, http, put, sched, wake, last) /\ Awake(sched, wake, last, seen, now)
      /\ wake > 0 => late = 0
      /\ last <= now.day
  BY DEF Rested
<1>5. SUFFICES /\ Down(down, http, put, sched, wake, last)' /\ Awake(sched, wake, last, seen, now)'
               /\ wake' > 0 => late' = 0
               /\ last' <= now'.day
  BY DEF Rested
<1>6. ASSUME NEW s, Stop(s) PROVE <1>5!1
  BY <1>3, <1>6 DEF Stop
<1>7. CASE Boot
  BY <1>3, <1>4, <1>7 DEF Boot, thread
<1>8. CASE Tick
  <2>1. now'.day > now.day \/ (now'.day = now.day /\ now'.slot = now.slot + 1)
    BY <1>1, <1>8, Later
  <2>2. UNCHANGED <<http, put, sched, seen, last>>
    BY <1>8 DEF Tick, plans
  <2>3. now'.day \in Nat /\ now'.slot \in Nat
    BY <1>1, <1>2, <1>8, Later, TimeFacts
  <2>4. \/ down > 0 /\ UNCHANGED <<wake, late>>
        \/ down = 0 /\ down' = 0 /\ wake > 0 /\ wake' = wake - 1 /\ UNCHANGED late
        \/ down = 0 /\ down' = 0 /\ wake = 0 /\ wake' = 0
    BY <1>1, <1>8 DEF Tick
  <2>5. Down(down, http, put, sched, wake, last)'
    BY <1>1, <1>2, <1>4, <2>2, <2>4
  <2>6. wake > 0 => sched = "sleep"
    BY <1>4
  <2>7. Awake(sched, wake, last, seen, now)'
    BY <1>1, <1>2, <1>3, <1>4, <2>1, <2>2, <2>3, <2>4, <2>6
  <2>8. wake' > 0 => late' = 0
    BY <1>1, <1>2, <1>4, <2>4
  <2>9. last' <= now'.day
    BY <1>1, <1>3, <1>4, <2>1, <2>2, <2>3
  <2> QED BY <2>5, <2>7, <2>8, <2>9
<1>9. ASSUME SleepAgain, UNCHANGED <<now, last, down, http, put>>, down = 0 PROVE <1>5!1
  BY <1>4, <1>9 DEF SleepAgain
<1>10. CASE Check
  <2>1. down = 0 /\ sched = "sleep" /\ wake = 0 /\ UNCHANGED <<now, last, down, http, put>>
    BY <1>10 DEF Check, plans
  <2>2. CASE cfg.on
    <3>1. sched' = "hour" /\ seen' = now /\ UNCHANGED <<wake, late>>
      BY <1>10, <2>2 DEF Check
    <3> QED BY <1>3, <1>4, <2>1, <3>1
  <2>3. CASE ~ cfg.on
    <3>1. SleepAgain
      BY <1>10, <2>3 DEF Check
    <3> QED BY <1>9, <2>1, <3>1
  <2> QED BY <2>2, <2>3
<1>11. ASSUME sched # "sleep" PROVE down = 0
  BY <1>4, <1>11
<1>12. CASE CompareHour
  <2>1. down = 0 /\ sched = "hour" /\ UNCHANGED <<now, last, down, http, put>>
    BY <1>11, <1>12 DEF CompareHour, plans
  <2>2. CASE Hour(seen) = cfg.hour
    <3>1. sched' = "minute" /\ UNCHANGED <<wake, late, seen>>
      BY <1>12, <2>2 DEF CompareHour
    <3> QED BY <1>4, <2>1, <3>1
  <2>3. CASE Hour(seen) # cfg.hour
    <3>1. SleepAgain
      BY <1>12, <2>3 DEF CompareHour
    <3> QED BY <1>9, <2>1, <3>1
  <2> QED BY <2>2, <2>3
<1>13. CASE Trigger
  <2>1. /\ sched = "minute" /\ down = 0 /\ sched' = "reboot" /\ last' = seen.day
        /\ UNCHANGED <<now, down, http, put, seen, wake, late>>
    BY <1>11, <1>13 DEF Trigger, plans
  <2>2. seen.day <= now.day
    BY <1>3, <1>4, <2>1
  <2> QED BY <1>3, <1>4, <2>1, <2>2
<1>14. CASE NotDue \/ GivesUp
  <2>1. SleepAgain /\ UNCHANGED <<now, last, down, http, put>> /\ down = 0
    BY <1>11, <1>14 DEF NotDue, GivesUp, plans
  <2> QED BY <1>9, <2>1
<1>15. ASSUME UNCHANGED <<now, thread, down>>, down = 0 PROVE <1>5!1
  BY <1>4, <1>15 DEF thread
<1>16. ASSUME NEW p, Save(p) PROVE <1>5!1
  BY <1>15, <1>16 DEF Save
<1>17. ASSUME put # 0 \/ http # "none" PROVE down = 0
  BY <1>4, <1>17
<1>18. CASE SaveField
  <2>1. put # 0
    BY <1>18 DEF SaveField
  <2> QED BY <1>15, <1>17, <1>18, <2>1 DEF SaveField
<1>19. CASE SaveRow
  <2>1. put # 0
    BY <1>19 DEF SaveRow
  <2> QED BY <1>15, <1>17, <1>19, <2>1 DEF SaveRow
<1>20. CASE Calls
  BY <1>15, <1>17, <1>20 DEF Calls
<1>21. CASE UNCHANGED vars
  BY <1>4, <1>21 DEF vars, thread
<1>22. CASE Next
  BY <1>6, <1>7, <1>8, <1>10, <1>12, <1>13, <1>14, <1>16, <1>18, <1>19, <1>20, <1>22, Cases
<1> QED BY <1>21, <1>22

-----------------------------------------------------------------------------
(* The plan in memory, in the database and in the form.                      *)

LEMMA SavedNext ==
  ASSUME TypeOK, Rested, Saved, [Next]_vars PROVE Saved'
<1> DEFINE Mem(p, c, f) == p \in 1..3 => \A i \in 1..3 : i < p => c[Field[i]] = f[Field[i]]
           Rows(p, c, f, d, t) ==
             p \in 4..6 => c = f /\ (~ t => \A i \in 1..3 : i < p - 3 => d[Field[i]] = f[Field[i]])
           Quiet(p, c, f, d, t) == p = 0 /\ ~ t => c = f /\ d = f
<1>1. Mem(put, cfg, form) /\ Rows(put, cfg, form, db, torn) /\ Quiet(put, cfg, form, db, torn)
  BY DEF Saved
<1>2. SUFFICES Mem(put, cfg, form)' /\ Rows(put, cfg, form, db, torn)' /\ Quiet(put, cfg, form, db, torn)'
  BY DEF Saved
<1>3. put \in 0..6 /\ cfg \in Plan /\ db \in Plan /\ form \in Plan /\ torn \in BOOLEAN
  BY DEF TypeOK
<1>4. ASSUME NEW s, Stop(s) PROVE <1>2!1
  <2>1. put' = 0 /\ torn' = (torn \/ put # 0) /\ UNCHANGED <<cfg, form, db>>
    BY <1>4 DEF Stop, plans
  <2>2. ~ torn' => ~ torn /\ put = 0
    BY <2>1
  <2>3. ~ torn' => cfg' = form' /\ db' = form'
    BY <1>1, <2>1, <2>2
  <2>4. put' \notin 1..3 /\ put' \notin 4..6
    BY <2>1
  <2> QED BY <2>3, <2>4
<1>5. CASE Boot
  <2>1. put = 0 /\ put' = 0 /\ cfg' = db /\ UNCHANGED <<form, db, torn>>
    BY <1>5 DEF Boot, Rested
  <2> QED BY <1>1, <2>1
<1>6. ASSUME NEW p, Save(p) PROVE <1>2!1
  BY <1>6 DEF Save
<1>7. CASE SaveField
  <2>1. /\ put \in 1..3 /\ put' = put + 1 /\ cfg' = [cfg EXCEPT ![Field[put]] = form[Field[put]]]
        /\ UNCHANGED <<form, db>> /\ torn' = (torn /\ put < 3)
    BY <1>7 DEF SaveField
  <2>2. /\ cfg' \in Plan
        /\ \A i \in 1..3 : cfg'[Field[i]] = IF i = put THEN form[Field[i]] ELSE cfg[Field[i]]
    <3>1. cfg' = Put(cfg, form, put) /\ put \in 1..3 /\ cfg \in Plan /\ form \in Plan
      BY <1>3, <2>1 DEF Put
    <3>2. IsPut(cfg', cfg, form, put)
      BY <3>1, Written
    <3> QED BY <3>2 DEF IsPut
  <2>3. ASSUME NEW i \in 1..3, i < put' PROVE cfg'[Field[i]] = form[Field[i]]
    BY <1>1, <2>1, <2>2, <2>3
  <2>4. ASSUME put = 3 PROVE cfg' = form
    <3>1. \A i \in 1..3 : cfg'[Field[i]] = form[Field[i]]
      <4>1. \A i \in 1..3 : i < put'
        BY <2>1, <2>4
      <4> QED BY <2>3, <4>1
    <3> QED BY <1>3, <2>2, <3>1, SamePlan
  <2>5. Mem(put, cfg, form)'
    BY <2>1, <2>3
  <2>6. put' \in 4..6 => put = 3 /\ put' = 4
    BY <2>1
  <2>7. Rows(put, cfg, form, db, torn)'
    BY <2>1, <2>4, <2>6
  <2> QED BY <2>1, <2>5, <2>7
<1>8. CASE SaveRow
  <2>1. put \in 4..6 /\ put' = (put + 1) % 7 /\ UNCHANGED <<cfg, form>>
    BY <1>8 DEF SaveRow, NextPut
  <2>2. put - 3 \in 1..3 /\ (put' = 0 <=> put = 6) /\ (put' # 0 => put' = put + 1 /\ put' \in 5..6)
    BY <2>1
  <2>3. cfg' = form'
    BY <1>1, <2>1
  <2> DEFINE d == Put(db, form, put - 3)
  <2>4. d \in Plan /\ \A i \in 1..3 : d[Field[i]] = IF i = put - 3 THEN form[Field[i]] ELSE db[Field[i]]
    BY <1>3, <2>2, Written DEF IsPut
  <2> HIDE DEF d
  <2>5. ASSUME ~ torn', NEW i \in 1..3, i < put - 2 PROVE db'[Field[i]] = form[Field[i]]
    <3>1. ~ torn /\ db' = d
      BY <1>8, <2>5 DEF SaveRow, Put, d
    <3>2. db'[Field[i]] = IF i = put - 3 THEN form[Field[i]] ELSE db[Field[i]]
      BY <3>1, <2>4
    <3>3. i # put - 3 => i < put - 3
      BY <2>1, <2>5
    <3> QED BY <1>1, <2>1, <3>1, <3>2, <3>3
  <2>6. db' \in Plan
    BY <1>3, <1>8, <2>4 DEF SaveRow, Put, d
  <2>7. ASSUME put = 6, ~ torn' PROVE db' = form
    <3>1. \A i \in 1..3 : db'[Field[i]] = form[Field[i]]
      BY <2>5, <2>7
    <3> QED BY <1>3, <2>6, <3>1, SamePlan
  <2>8. Rows(put, cfg, form, db, torn)'
    BY <2>1, <2>2, <2>3, <2>5
  <2>9. put' \notin 1..3
    BY <2>2
  <2> QED BY <2>1, <2>2, <2>3, <2>7, <2>8, <2>9
<1>9. ASSUME UNCHANGED <<plans, put, torn>> PROVE <1>2!1
  BY <1>1, <1>9 DEF plans
<1>10. CASE Tick \/ Check \/ CompareHour \/ Trigger \/ NotDue \/ GivesUp \/ Calls
  BY <1>9, <1>10 DEF Tick, Check, CompareHour, Trigger, NotDue, GivesUp, Calls, history
<1>11. CASE UNCHANGED vars
  BY <1>9, <1>11 DEF vars, history
<1>12. CASE Next
  BY <1>4, <1>5, <1>6, <1>7, <1>8, <1>10, <1>12, Cases
<1> QED BY <1>11, <1>12

\* A check reads the form, or a save is or was in its way.
LEMMA ReadsNext ==
  ASSUME TypeOK, Rested, Saved, Reads, [Next]_vars PROVE Reads'
<1> DEFINE Over(s, p, m) == s \in {"hour", "minute"} /\ p \in 1..3 => m
           Form(s, m, t, f, e) ==
             s \in {"hour", "minute"} /\ ~ m /\ ~ t => f.on /\ (s = "minute" => f.hour = Hour(e))
<1>1. Over(sched, put, mixed) /\ Form(sched, mixed, torn, form, seen)
  BY DEF Reads, Checking
<1>2. SUFFICES Over(sched, put, mixed)' /\ Form(sched, mixed, torn, form, seen)'
  BY DEF Reads, Checking, Hour
<1>3. put \in 0..6 /\ torn \in BOOLEAN /\ mixed \in BOOLEAN
  BY DEF TypeOK
<1>4. ASSUME put \notin 1..3, ~ torn PROVE cfg = form
  <2>1. put = 0 \/ put \in 4..6
    BY <1>3, <1>4
  <2> QED BY <1>4, <2>1 DEF Saved
<1>5. ASSUME sched' \notin {"hour", "minute"} PROVE <1>2!1
  BY <1>5
<1>6. ASSUME NEW s, Stop(s) PROVE <1>2!1
  BY <1>5, <1>6 DEF Stop
<1>7. CASE Boot
  <2>1. sched = "sleep" /\ sched' = sched
    BY <1>7 DEF Boot, thread, Rested
  <2> QED BY <1>5, <2>1
<1>8. CASE Check
  <2>1. mixed' = (put \in 1..3) /\ UNCHANGED <<put, torn, form>>
    BY <1>8 DEF Check, plans
  <2>2. CASE cfg.on
    <3>1. sched' = "hour"
      BY <1>8, <2>2 DEF Check
    <3> QED BY <1>4, <2>1, <2>2, <3>1
  <2>3. CASE ~ cfg.on
    <3>1. sched' = "sleep"
      BY <1>8, <2>3 DEF Check, SleepAgain
    <3> QED BY <1>5, <3>1
  <2> QED BY <2>2, <2>3
<1>9. CASE CompareHour
  <2>1. sched = "hour" /\ UNCHANGED <<put, mixed, torn, form>>
    BY <1>9 DEF CompareHour, plans, history
  <2>2. CASE Hour(seen) = cfg.hour
    <3>1. sched' = "minute" /\ seen' = seen
      BY <1>9, <2>2 DEF CompareHour
    <3>2. ~ mixed /\ ~ torn => cfg = form
      BY <1>1, <1>4, <2>1
    <3> QED BY <1>1, <2>1, <2>2, <3>1, <3>2
  <2>3. CASE Hour(seen) # cfg.hour
    <3>1. sched' = "sleep"
      BY <1>9, <2>3 DEF CompareHour, SleepAgain
    <3> QED BY <1>5, <3>1
  <2> QED BY <2>2, <2>3
<1>10. CASE Trigger \/ NotDue \/ GivesUp
  BY <1>5, <1>10 DEF Trigger, NotDue, GivesUp, SleepAgain
<1>11. ASSUME NEW p, Save(p) PROVE <1>2!1
  <2>1. mixed' = (sched \in {"hour", "minute"}) /\ sched' = sched
    BY <1>11 DEF Save, thread
  <2> QED BY <2>1
<1>12. CASE SaveField
  <2>1. mixed' = (mixed \/ sched \in {"hour", "minute"}) /\ sched' = sched
    BY <1>12 DEF SaveField, thread
  <2> QED BY <2>1
<1>13. CASE SaveRow
  <2>1. UNCHANGED <<form, sched, seen, mixed>> /\ (~ torn' => ~ torn)
    BY <1>13 DEF SaveRow, thread
  <2>2. put' \notin 1..3
    <3>1. put \in 4..6 /\ put' = (put + 1) % 7
      BY <1>13 DEF SaveRow, NextPut
    <3> QED BY <3>1
  <2> QED BY <1>1, <2>1, <2>2
<1>14. ASSUME UNCHANGED <<plans, put, sched, seen, mixed, torn>> PROVE <1>2!1
  BY <1>1, <1>14 DEF plans
<1>15. CASE Tick \/ Calls
  BY <1>14, <1>15 DEF Tick, Calls, thread, history
<1>16. CASE UNCHANGED vars
  BY <1>14, <1>16 DEF vars, thread, history
<1>17. CASE Next
  BY <1>6, <1>7, <1>8, <1>9, <1>10, <1>11, <1>12, <1>13, <1>15, <1>17, Cases
<1> QED BY <1>16, <1>17

-----------------------------------------------------------------------------
(* The planned minute.                                                       *)

\* The five ways in which a planned minute is not missed.
Covered ==
  \/ last = now.day
  \/ ~ At(cfg, now)
  \/ Checking /\ seen.day = now.day /\ seen.slot \div Slots = now.slot \div Slots
  \/ sched # "sleep" /\ Off(now) + 1 <= late
  \/ sched = "sleep" /\ Off(now) + wake + 1 <= Sleep + Late + late

LEMMA WatchedNext ==
  ASSUME TypeOK, Rested, Watched, [Next]_vars PROVE Watched'
<1>1. /\ now \in Time /\ seen \in Time /\ wake \in 0..Sleep /\ late \in 0..Late /\ last \in {-1} \cup 0..MaxDay
      /\ down \in 0..(BootTime + 1)
  BY DEF TypeOK
<1>2. Sleep \in Nat \ {0} /\ Late \in Nat /\ MaxDay \in Nat /\ Slots \in Nat \ {0}
  BY ConstantsOK
<1>3. now.day \in Nat /\ seen.day \in Nat /\ Off(now) \in Nat
  BY <1>1, <1>2, TimeFacts
<1>4. SUFFICES ASSUME whole', down' = 0 PROVE Covered'
  BY DEF Watched, Covered
<1>5. ASSUME whole, down = 0 PROVE Covered
  BY <1>5 DEF Watched, Covered
<1>6. ASSUME NEW s \in 1..(BootTime + 1), Stop(s) PROVE FALSE
  BY <1>4, <1>6 DEF Stop
<1>7. 1 \in 1..(BootTime + 1) /\ BootTime + 1 \in 1..(BootTime + 1)
  BY ConstantsOK
<1>8. ~ Boot
  BY <1>4 DEF Boot
<1>9. CASE Tick
  <2>1. /\ whole' = (down = 0 /\ (whole \/ EndOfMinute)) /\ down = 0
        /\ \/ wake > 0 /\ wake' = wake - 1 /\ late' = late
           \/ wake = 0 /\ wake' = wake /\ late' = late + 1
        /\ cfg' = cfg /\ sched' = sched /\ seen' = seen /\ last' = last
    <3>1. whole' = (down = 0 /\ (whole \/ EndOfMinute)) /\ UNCHANGED <<plans, sched, seen, last>>
      BY <1>9 DEF Tick
    <3>2. down = 0
      BY <1>4, <3>1
    <3>3. \/ wake > 0 /\ wake' = wake - 1 /\ late' = late
          \/ wake = 0 /\ wake' = wake /\ late' = late + 1
      BY <1>9, <3>2 DEF Tick
    <3> QED BY <3>1, <3>2, <3>3 DEF plans
  <2>2. sched # "sleep" => wake = 0
    BY DEF Rested
  <2>3. CASE EndOfMinute
    <3>1. Off(now') = 0
      BY <1>1, <1>9, <2>3, Ends
    <3>2. CASE sched = "sleep"
      <4>1. 0 + wake' + 1 <= Sleep + Late + late'
        BY <1>1, <1>2, <2>1
      <4> QED BY <2>1, <3>1, <3>2, <4>1 DEF Covered, Off
    <3>3. CASE sched # "sleep"
      <4>1. 0 + 1 <= late'
        BY <1>1, <1>2, <2>1, <2>2, <3>3
      <4> QED BY <2>1, <3>1, <3>3, <4>1 DEF Covered, Off
    <3> QED BY <3>2, <3>3
  <2>4. CASE ~ EndOfMinute
    <3>1. /\ now'.day = now.day /\ now'.slot \div Slots = now.slot \div Slots
          /\ Off(now') = Off(now) + 1
      BY <1>1, <1>9, <2>4, Within
    <3>2. now' \in Time
      BY <1>1, <1>9, Later
    <3>3. At(cfg, now)' = At(cfg, now)
      <4>1. Hour(now') = Hour(now) /\ Minute(now') = Minute(now)
        BY <1>1, <3>1, <3>2, SameMinute
      <4> QED BY <2>1, <4>1 DEF At, Hour, Minute
    <3>4. Covered
      BY <1>4, <1>5, <2>1, <2>4
    <3>5. CASE last = now.day
      BY <2>1, <3>1, <3>5 DEF Covered
    <3>6. CASE ~ At(cfg, now)
      BY <3>3, <3>6 DEF Covered
    <3>7. CASE Checking /\ seen.day = now.day /\ seen.slot \div Slots = now.slot \div Slots
      BY <2>1, <3>1, <3>7 DEF Covered, Checking
    <3>8. CASE sched # "sleep" /\ Off(now) + 1 <= late
      <4>1. Off(now) + 1 + 1 <= late'
        BY <1>1, <1>2, <1>3, <2>1, <2>2, <3>8
      <4> QED BY <2>1, <3>1, <3>8, <4>1 DEF Covered, Off
    <3>9. CASE sched = "sleep" /\ Off(now) + wake + 1 <= Sleep + Late + late
      <4>1. Off(now) + 1 + wake' + 1 <= Sleep + Late + late'
        BY <1>1, <1>2, <1>3, <2>1, <3>9
      <4> QED BY <2>1, <3>1, <3>9, <4>1 DEF Covered, Off
    <3> QED BY <3>4, <3>5, <3>6, <3>7, <3>8, <3>9 DEF Covered
  <2> QED BY <2>3, <2>4
<1>10. ASSUME whole' = whole, UNCHANGED <<now, cfg, down>> 
       PROVE  Covered /\ At(cfg, now)' = At(cfg, now) /\ Off(now)' = Off(now)
  BY <1>4, <1>5, <1>10 DEF At, Hour, Minute, Off
<1>11. ASSUME UNCHANGED <<now, cfg, last, whole, down>>, SleepAgain,
              \/ last = now.day
              \/ ~ At(cfg, now)
              \/ Off(now) + 1 <= late
       PROVE  Covered'
  <2>1. CASE last = now.day
    BY <1>11, <2>1 DEF Covered
  <2>2. CASE ~ At(cfg, now)
    BY <1>10, <1>11, <2>2 DEF Covered
  <2>3. CASE Off(now) + 1 <= late
    <3>1. Off(now) + Sleep + 1 <= Sleep + Late + 0
      BY <1>1, <1>2, <1>3, <2>3
    <3>2. sched' = "sleep" /\ wake' = Sleep /\ late' = 0 /\ Off(now)' = Off(now)
      BY <1>10, <1>11 DEF SleepAgain, Nap
    <3> QED BY <3>1, <3>2 DEF Covered
  <2> QED BY <1>11, <2>1, <2>2, <2>3
<1>12. CASE Check
  <2>1. sched = "sleep" /\ UNCHANGED <<now, cfg, last, whole, down>>
    BY <1>12 DEF Check, plans
  <2>2. CASE cfg.on
    <3>1. sched' = "hour" /\ seen' = now /\ now' = now
      BY <1>12, <2>2, <2>1 DEF Check
    <3> QED BY <3>1 DEF Covered, Checking
  <2>3. CASE ~ cfg.on
    <3>1. SleepAgain /\ ~ At(cfg, now)
      BY <1>12, <2>3 DEF Check, At
    <3> QED BY <1>11, <2>1, <3>1
  <2> QED BY <2>2, <2>3
<1>13. CASE CompareHour
  <2>1. sched = "hour" /\ UNCHANGED <<now, cfg, last, whole, down>>
    BY <1>13 DEF CompareHour, plans, history
  <2>2. CASE Hour(seen) = cfg.hour
    <3>1. sched' = "minute" /\ UNCHANGED <<late, seen>>
      BY <1>13, <2>2 DEF CompareHour
    <3> QED BY <1>10, <2>1, <3>1 DEF Covered, Checking
  <2>3. CASE Hour(seen) # cfg.hour
    <3>1. SleepAgain
      BY <1>13, <2>3 DEF CompareHour
    <3>2. seen.slot \div Slots = now.slot \div Slots => ~ At(cfg, now)
      BY <1>1, <2>3, SameMinute DEF At
    <3>3. last = now.day \/ ~ At(cfg, now) \/ Off(now) + 1 <= late
      BY <1>10, <2>1, <3>2 DEF Covered
    <3> QED BY <1>11, <2>1, <3>1, <3>3
  <2> QED BY <2>2, <2>3
<1>14. CASE Trigger
  <2>1. /\ sched = "minute" /\ seen.day # last /\ sched' = "reboot" /\ last' = seen.day
        /\ UNCHANGED <<now, cfg, late, whole, down>>
    BY <1>14 DEF Trigger, plans, Due
  <2>2. last <= seen.day /\ seen.day <= now.day
    BY <1>3, <2>1 DEF Rested
  <2>3. last # now.day
    BY <1>1, <1>3, <2>1, <2>2
  <2>4. Covered /\ At(cfg, now)' = At(cfg, now) /\ Off(now)' = Off(now)
    BY <1>10, <2>1
  <2>5. CASE ~ At(cfg, now)
    BY <2>4, <2>5 DEF Covered
  <2>6. CASE seen.day = now.day
    BY <2>1, <2>6 DEF Covered
  <2>7. CASE Off(now) + 1 <= late
    BY <2>1, <2>4, <2>7 DEF Covered
  <2> QED BY <2>1, <2>3, <2>4, <2>5, <2>6, <2>7 DEF Covered
<1>15. CASE NotDue
  <2>1. sched = "minute" /\ SleepAgain /\ UNCHANGED <<now, cfg, last, whole, down>> /\ ~ Due
    BY <1>15 DEF NotDue, plans, history
  <2>2. seen.slot \div Slots = now.slot \div Slots /\ seen.day = now.day => ~ At(cfg, now) \/ last = now.day
    BY <1>1, <2>1, SameMinute DEF At, Due
  <2>3. last = now.day \/ ~ At(cfg, now) \/ Off(now) + 1 <= late
    BY <1>10, <2>1, <2>2 DEF Covered
  <2> QED BY <1>11, <2>1, <2>3
<1>16. CASE GivesUp
  <2>1. sched = "reboot" /\ SleepAgain /\ UNCHANGED <<now, cfg, last, whole, down>>
    BY <1>16 DEF GivesUp, plans, history
  <2>2. last = now.day \/ ~ At(cfg, now) \/ Off(now) + 1 <= late
    BY <1>10, <2>1 DEF Covered, Checking
  <2> QED BY <1>11, <2>1, <2>2
<1>17. ASSUME UNCHANGED <<now, cfg, thread, whole, down>> PROVE Covered'
  <2>1. Covered /\ At(cfg, now)' = At(cfg, now) /\ Off(now)' = Off(now)
    BY <1>10, <1>17
  <2>2. UNCHANGED <<now, sched, seen, last, wake, late>>
    BY <1>17 DEF thread
  <2> QED BY <2>1, <2>2 DEF Covered, Checking
<1>18. ASSUME NEW p, Save(p) PROVE Covered'
  BY <1>17, <1>18 DEF Save
<1>19. ~ SaveField
  BY <1>4 DEF SaveField
<1>20. CASE SaveRow
  BY <1>17, <1>20 DEF SaveRow
<1>21. CASE Calls
  BY <1>17, <1>21 DEF Calls, plans, history
<1>22. CASE UNCHANGED vars
  BY <1>17, <1>22 DEF vars, plans, history
<1>23. CASE Next
  BY <1>6, <1>7, <1>8, <1>9, <1>12, <1>13, <1>14, <1>15, <1>16, <1>18, <1>19, <1>20, <1>21, <1>23, Cases
<1> QED BY <1>22, <1>23

-----------------------------------------------------------------------------
(* The number of triggers.                                                   *)

LEMMA CountedNext ==
  ASSUME Slots <= 2 * Sleep, TypeOK, Rested, Counted, [Next]_vars PROVE Counted'
<1>1. /\ now \in Time /\ seen \in Time /\ wake \in 0..Sleep /\ late \in 0..Late /\ last \in {-1} \cup 0..MaxDay
      /\ down \in 0..(BootTime + 1) /\ fired \in [at : Time, minute : Nat, boot : Nat]
  BY DEF TypeOK
<1>2. Sleep \in Nat \ {0} /\ Late \in Nat /\ MaxDay \in Nat /\ Slots \in Nat \ {0}
  BY ConstantsOK
<1>3. fired.minute \in Nat /\ fired.boot \in Nat /\ fired.at \in Time
  BY <1>1
<1>4. /\ now.day \in Nat /\ now.slot \in Nat /\ seen.day \in Nat /\ seen.slot \in Nat
      /\ fired.at.day \in Nat /\ fired.at.slot \in Nat
  BY <1>1, <1>2, <1>3, TimeFacts
<1>5. /\ fired.boot <= 1
      /\ down = 0 /\ fired.boot = 1 => last = fired.at.day
      /\ fired.minute <= 2
      /\ fired.minute >= 1 => Passed(fired.minute - 1, now, 0)
      /\ fired.minute >= 1 /\ down = 0 /\ last # fired.at.day =>
           IF sched = "sleep" THEN Passed(fired.minute, now, wake) ELSE Passed(fired.minute, seen, 0)
  BY DEF Counted
<1>6. fired.minute = 0 \/ fired.minute = 1 \/ fired.minute = 2
  BY <1>3, <1>5
<1>7. /\ 0 * Sleep = 0 /\ 1 * Sleep = Sleep /\ 2 * Sleep = Sleep + Sleep
      /\ 1 - 1 = 0 /\ 2 - 1 = 1 /\ 0 + 1 = 1 /\ 1 + 1 = 2
  BY <1>2
<1>8. ASSUME NEW s \in 1..(BootTime + 1), Stop(s) PROVE Counted'
  <2>1. down' # 0 /\ UNCHANGED <<now, fired>>
    BY <1>8 DEF Stop
  <2> QED BY <1>5, <2>1 DEF Counted, Passed
<1>9. 1 \in 1..(BootTime + 1) /\ BootTime + 1 \in 1..(BootTime + 1)
  BY ConstantsOK
<1>10. CASE Boot
  <2>1. /\ down # 0 /\ down' = 0 /\ fired'.boot = 0 /\ fired'.minute = fired.minute /\ fired'.at = fired.at
        /\ now' = now /\ UNCHANGED thread
    BY <1>1, <1>10 DEF Boot
  <2>2. sched' = "sleep" /\ wake' = Sleep
    BY <2>1 DEF Rested, thread
  <2>3. fired.minute >= 1 => Passed(fired.minute, now, Sleep)
    BY <1>2, <1>4, <1>5, <1>6, <1>7 DEF Passed
  <2> QED BY <1>5, <2>1, <2>2, <2>3 DEF Counted, Passed
<1>11. CASE Tick
  <2>1. now'.day > now.day \/ (now'.day = now.day /\ now'.slot = now.slot + 1)
    BY <1>1, <1>11, Later
  <2>2. now'.day \in Nat /\ now'.slot \in Nat
    BY <1>1, <1>2, <1>11, Later, TimeFacts
  <2>3. UNCHANGED <<fired, sched, seen, last>> /\ (down' = 0 => down = 0)
    BY <1>1, <1>11 DEF Tick
  <2>4. down = 0 => wake' >= wake - 1 /\ wake' \in Nat
    BY <1>1, <1>2, <1>11 DEF Tick
  <2>5. fired.minute >= 1 => Passed(fired.minute - 1, now', 0)
    BY <1>2, <1>4, <1>5, <1>6, <1>7, <2>1, <2>2 DEF Passed
  <2>6. ASSUME down = 0, fired.minute >= 1, Passed(fired.minute, now, wake) PROVE Passed(fired.minute, now', wake')
    BY <1>1, <1>2, <1>4, <1>6, <1>7, <2>1, <2>2, <2>4, <2>6 DEF Passed
  <2> QED BY <1>5, <2>3, <2>5, <2>6 DEF Counted, Passed
<1>12. ASSUME SleepAgain, UNCHANGED <<now, last, down, fired>>, down = 0,
              sched = "sleep" => wake = 0
       PROVE  Counted'
  <2>1. sched' = "sleep" /\ wake' = Sleep
    BY <1>12 DEF SleepAgain, Nap
  <2>2. sched # "sleep" => seen.day < now.day \/ (seen.day = now.day /\ seen.slot <= now.slot)
    BY DEF Rested
  <2>3. ASSUME fired.minute >= 1, last # fired.at.day PROVE Passed(fired.minute, now, Sleep)
    <3>1. CASE sched = "sleep"
      BY <1>2, <1>4, <1>5, <1>6, <1>7, <1>12, <2>3, <3>1 DEF Passed
    <3>2. CASE sched # "sleep"
      BY <1>2, <1>4, <1>5, <1>6, <1>7, <1>12, <2>2, <2>3, <3>2 DEF Passed
    <3> QED BY <3>1, <3>2
  <2> QED BY <1>5, <1>12, <2>1, <2>3 DEF Counted, Passed
<1>13. ASSUME sched # "sleep" PROVE down = 0
  BY <1>13 DEF Rested
<1>14. CASE Check
  <2>1. down = 0 /\ sched = "sleep" /\ wake = 0 /\ UNCHANGED <<now, last, down, fired>>
    BY <1>14 DEF Check
  <2>2. CASE cfg.on
    <3>1. sched' = "hour" /\ seen' = now
      BY <1>14, <2>2 DEF Check
    <3> QED BY <1>5, <2>1, <3>1 DEF Counted, Passed
  <2>3. CASE ~ cfg.on
    <3>1. SleepAgain
      BY <1>14, <2>3 DEF Check
    <3> QED BY <1>12, <2>1, <3>1
  <2> QED BY <2>2, <2>3
<1>15. CASE CompareHour
  <2>1. down = 0 /\ sched = "hour" /\ UNCHANGED <<now, last, down, fired>>
    BY <1>13, <1>15 DEF CompareHour, history
  <2>2. CASE Hour(seen) = cfg.hour
    <3>1. sched' = "minute" /\ seen' = seen
      BY <1>15, <2>2 DEF CompareHour
    <3> QED BY <1>5, <2>1, <3>1 DEF Counted, Passed
  <2>3. CASE Hour(seen) # cfg.hour
    <3>1. SleepAgain
      BY <1>15, <2>3 DEF CompareHour
    <3> QED BY <1>12, <2>1, <3>1
  <2> QED BY <2>2, <2>3
<1>16. CASE Trigger
  <2>1. /\ sched = "minute" /\ seen.day # last /\ last' = seen.day /\ UNCHANGED <<now, down>> /\ down = 0
    BY <1>13, <1>16 DEF Trigger, Due
  <2>2. /\ fired'.at = MinuteOf(seen)
        /\ fired'.minute = IF MinuteOf(seen) = fired.at THEN fired.minute + 1 ELSE 1
        /\ fired'.boot = IF seen.day = fired.at.day THEN fired.boot + 1 ELSE 1
    BY <1>16 DEF Trigger
  <2>3. seen.day < now.day \/ (seen.day = now.day /\ seen.slot <= now.slot)
    BY <2>1 DEF Rested
  <2>4. /\ MinuteOf(seen).day = seen.day /\ MinuteOf(seen).slot = seen.slot - Off(seen)
        /\ Off(seen) \in 0..(Slots - 1)
    BY <1>1, TimeFacts
  <2>5. fired'.boot <= 1
    BY <1>3, <1>5, <2>1, <2>2
  <2>6. ASSUME MinuteOf(seen) = fired.at, fired.minute >= 1
        PROVE  fired.minute = 1 /\ fired.at.day = seen.day /\ fired.at.slot + Sleep <= seen.slot
    <3>1. fired.at.day = seen.day /\ fired.at.slot = seen.slot - Off(seen) /\ Passed(fired.minute, seen, 0)
      BY <1>5, <2>1, <2>4, <2>6
    <3>2. fired.at.slot + fired.minute * Sleep <= seen.slot
      BY <1>4, <3>1 DEF Passed
    <3>3. fired.minute # 2
      BY <1>2, <1>4, <2>4, <3>1, <3>2
    <3> QED BY <1>6, <1>7, <2>6, <3>1, <3>2, <3>3
  <2>7. fired'.minute \in 1..2
    BY <1>6, <2>2, <2>6
  <2>8. Passed(fired.minute - 1, now, 0)'
    <3>1. CASE MinuteOf(seen) = fired.at /\ fired.minute >= 1
      <4>1. fired'.minute = 2 /\ fired'.at = fired.at
        BY <2>2, <2>6, <3>1
      <4>2. fired.at.day < now.day \/ (fired.at.day = now.day /\ fired.at.slot + Sleep <= now.slot)
        BY <1>2, <1>4, <2>3, <2>6, <3>1
      <4> QED BY <1>2, <1>4, <1>7, <2>1, <4>1, <4>2 DEF Passed
    <3>2. CASE ~ (MinuteOf(seen) = fired.at /\ fired.minute >= 1)
      <4>1. fired'.minute = 1
        BY <1>6, <2>2, <3>2
      <4>2. MinuteOf(seen).day < now.day \/ (MinuteOf(seen).day = now.day /\ MinuteOf(seen).slot <= now.slot)
        BY <1>2, <1>4, <2>3, <2>4
      <4>3. MinuteOf(seen).slot \in Int
        BY <1>2, <1>4, <2>4
      <4> QED BY <1>2, <1>4, <1>7, <2>1, <2>2, <4>1, <4>2, <4>3 DEF Passed
    <3> QED BY <3>1, <3>2
  <2>9. last' = fired'.at.day
    BY <2>1, <2>2, <2>4
  <2> QED BY <2>5, <2>7, <2>8, <2>9 DEF Counted
<1>17. CASE NotDue \/ GivesUp
  <2>1. SleepAgain /\ UNCHANGED <<now, last, down, fired>> /\ sched # "sleep"
    BY <1>17 DEF NotDue, GivesUp, history
  <2> QED BY <1>12, <1>13, <2>1
<1>18. ASSUME UNCHANGED <<now, thread, down, fired>> PROVE Counted'
  BY <1>5, <1>18 DEF thread, Counted, Passed
<1>19. ASSUME NEW p, Save(p) PROVE Counted'
  BY <1>18, <1>19 DEF Save
<1>20. CASE SaveField \/ SaveRow
  BY <1>18, <1>20 DEF SaveField, SaveRow
<1>21. CASE Calls
  BY <1>18, <1>21 DEF Calls, history
<1>22. CASE UNCHANGED vars
  BY <1>18, <1>22 DEF vars, history
<1>23. CASE Next
  BY <1>8, <1>9, <1>10, <1>11, <1>14, <1>15, <1>16, <1>17, <1>19, <1>20, <1>21, <1>23, Cases
<1> QED BY <1>22, <1>23

-----------------------------------------------------------------------------
(* The theorems.                                                             *)

LEMMA IInvInit ==
  ASSUME Init PROVE IInv
<1>1. TypeOK
  BY TypeInit
<1>2. Rested
  BY ConstantsOK DEF Init, Rested, Start
<1>3. Saved /\ Reads /\ Watched
  BY DEF Init, Saved, Reads, Checking, Watched
<1> QED BY <1>1, <1>2, <1>3 DEF IInv

\* Every action keeps the invariant.
LEMMA Inductive == Spec => []IInv
<1>1. Init => IInv
  BY IInvInit
<1>2. IInv /\ [Next]_vars => IInv'
  BY TypeNext, RestedNext, SavedNext, ReadsNext, WatchedNext DEF IInv
<1> QED BY <1>1, <1>2, PTL DEF Spec

\* The thread and the machine keep to their types, whatever is saved and whatever fails.
THEOREM TypeCorrect == Spec => []TypeOK
<1>1. IInv => TypeOK
  BY DEF IInv
<1> QED BY <1>1, Inductive, PTL

\* The scheduler reboots by the plan last asked for: a check between whose reads no
\* save wrote has read one plan, and it is the form's unless a save was torn before.
THEOREM ByPlan == Spec => RebootsByPlan
<1>1. IInv /\ [Next]_vars => (Trigger => mixed \/ torn \/ At(form, seen))
  <2> SUFFICES ASSUME IInv, Trigger, ~ mixed, ~ torn PROVE At(form, seen)
    OBVIOUS
  <2>1. sched = "minute" /\ Minute(seen) = cfg.minute
    BY DEF Trigger, Due
  <2>2. form.on /\ form.hour = Hour(seen)
    BY <2>1 DEF IInv, Reads, Checking
  <2>3. put \notin 1..3
    BY <2>1 DEF IInv, Reads, Checking
  <2>4. put = 0 \/ put \in 4..6
    <3>1. put \in 0..6
      BY DEF IInv, TypeOK
    <3> QED BY <2>3, <3>1
  <2>5. cfg = form
    BY <2>4 DEF IInv, Saved
  <2> QED BY <2>1, <2>2, <2>5 DEF At
<1>2. IInv /\ [Next]_vars => [Trigger => mixed \/ torn \/ At(form, seen)]_vars
  BY <1>1
<1> QED BY <1>2, Inductive, PTL DEF Spec, RebootsByPlan

\* A minute that is two sleeps long at most, as the 60 seconds with sleep(30) are,
\* reboots the machine at most twice, and one boot does it at most once a day.
THEOREM Bounded ==
  ASSUME Slots <= 2 * Sleep
  PROVE  Spec => []RebootsAreBounded
<1>1. Init => Counted
  <2> SUFFICES ASSUME Init PROVE Counted
    OBVIOUS
  <2>1. fired.minute = 0 /\ fired.boot = 0
    BY DEF Init
  <2> QED BY <2>1 DEF Counted
<1>2. IInv /\ Counted /\ [Next]_vars => Counted'
  BY CountedNext DEF IInv
<1>3. Counted => RebootsAreBounded
  BY DEF Counted, RebootsAreBounded
<1> QED BY <1>1, <1>2, <1>3, Inductive, PTL DEF Spec

\* A plan in force for the whole of its minute is not slept through, when the thread
\* runs late by so little that the minute holds a sleep and twice the delay.
THEOREM NotMissed ==
  ASSUME Sleep + 2 * Late <= Slots
  PROVE  Spec => PlannedMinuteIsNotMissed
<1> DEFINE Asked == Tick /\ EndOfMinute /\ down = 0 /\ whole /\ At(cfg, now)
           Met == \/ last = now.day
                  \/ sched \in {"hour", "minute"} /\ seen.slot \div Slots = now.slot \div Slots
<1>1. IInv => (Asked => Met)
  <2> SUFFICES ASSUME IInv, Asked PROVE Met
    OBVIOUS
  <2>1. now \in Time /\ wake \in 0..Sleep /\ late \in 0..Late /\ (wake > 0 => late = 0) /\ (sched # "sleep" => wake = 0)
    BY DEF IInv, TypeOK, Rested
  <2>2. Off(now) = Slots - 1
    BY <2>1, Ends
  <2>3. wake = 0 => late < Late
    BY DEF Tick
  <2>4. Sleep \in Nat \ {0} /\ Late \in Nat /\ Slots \in Nat \ {0}
    BY ConstantsOK
  <2>5. ~ (Off(now) + 1 <= late)
    BY <2>1, <2>2, <2>4
  <2>6. ~ (Off(now) + wake + 1 <= Sleep + Late + late)
    BY <2>1, <2>2, <2>3, <2>4
  <2> QED BY <2>5, <2>6 DEF IInv, Watched, Checking
<1>2. IInv => [Asked => Met]_vars
  BY <1>1
<1> QED BY <1>2, Inductive, PTL DEF Spec, PlannedMinuteIsNotMissed
=============================================================================
