--------------------------- MODULE IncomingProofs ---------------------------
(***************************************************************************)
(* What is promised of what comes in from the modem: by SmsInbox for any   *)
(* number of slots and messages, texts of any lines and any length, and    *)
(* either source answering at any time; by DbusMonitor for any number of   *)
(* signals, deaths and crashes.                                            *)
(*                                                                         *)
(* The model computes a listing line by line, and a page keeps what it     *)
(* took from a listing while the modem's storage changes under it.  So the *)
(* proof has two halves: what the two parsers make of any answer, by        *)
(* induction over its lines, and what a page may still believe later.      *)
(***************************************************************************)
EXTENDS SmsInbox, DbusMonitor, WellFoundedInduction, SequenceTheorems, TLAPS

-----------------------------------------------------------------------------
(* Induction, and functions defined by it.                                  *)

\* A set of naturals that is not empty has a least member.
LEMMA Less ==
  ASSUME NEW T \in SUBSET Nat, T # {}
  PROVE  \E x \in T : \A y \in T : x <= y
<1> DEFINE R == OpToRel(<, Nat)
<1>1. IsWellFoundedOn(R, Nat)
  BY NatLessThanWellFounded
<1>2. \A y \in Nat, x \in Nat : y < x => <<y, x>> \in R
  BY DEF OpToRel
<1> HIDE DEF R
<1>3. \E x \in T : \A y \in T : ~ (<<y, x>> \in R)
  BY <1>1, WFMin
<1>4. PICK x \in T : \A y \in T : ~ (<<y, x>> \in R)
  BY <1>3
<1>5. ASSUME NEW y \in T PROVE x <= y
  <2>1. ~ (y < x)
    BY <1>2, <1>4
  <2>2. x \in Nat /\ y \in Nat
    OBVIOUS
  <2> QED BY <2>1, <2>2
<1> QED BY <1>5

\* What holds of 0, and of i whenever it holds of i - 1, holds up to n.
LEMMA Steps ==
  ASSUME NEW n \in Nat, NEW P, P \subseteq Nat, 0 \in P,
         \A i \in 1..n : i - 1 \in P => i \in P
  PROVE  0..n \subseteq P
<1> SUFFICES ASSUME ~ (0..n \subseteq P) PROVE FALSE
  OBVIOUS
<1> DEFINE T == {i \in 0..n : i \notin P}
<1>1. T \in SUBSET Nat /\ T # {}
  OBVIOUS
<1> HIDE DEF T
<1>2. PICK x \in T : \A y \in T : x <= y
  BY <1>1, Less
<1> USE DEF T
<1>3. x \in 0..n /\ x \notin P /\ x # 0
  OBVIOUS
<1>4. x - 1 \in 0..n /\ x \in 1..n
  BY <1>3
<1>5. x - 1 \notin T
  <2>1. ~ (x <= x - 1)
    BY <1>4
  <2> HIDE DEF T
  <2> QED BY <2>1, <1>2
<1>6. x - 1 \in P
  BY <1>4, <1>5
<1> QED BY <1>3, <1>4, <1>6

\* A function that starts in S, and never leaves it in a step, stays in it.
LEMMA Stays ==
  ASSUME NEW n \in Nat, NEW S, NEW f, f[0] \in S,
         \A i \in 1..n : f[i - 1] \in S => f[i] \in S
  PROVE  \A i \in 0..n : f[i] \in S
<1> DEFINE P == {i \in 0..n : f[i] \in S}
<1>1. P \subseteq Nat /\ 0 \in P /\ \A i \in 1..n : i - 1 \in P => i \in P
  OBVIOUS
<1> HIDE DEF P
<1>2. 0..n \subseteq P
  BY <1>1, Steps
<1> USE DEF P
<1> QED BY <1>2

\* f starts with a and continues with the n functions of g in turn.
Runs(f, n, S, a, g) ==
  f \in [0..n -> S] /\ f[0] = a /\ \A i \in 1..n : f[i] = g[i][f[i - 1]]

\* There is such a function.
LEMMA Recursion ==
  ASSUME NEW n, n \in Nat, NEW S, NEW a, a \in S, NEW g, g \in [1..n -> [S -> S]]
  PROVE  \E f : Runs(f, n, S, a, g)
<1> DEFINE Good(k, f) == f[0] = a /\ \A i \in 1..k : f[i] = g[i][f[i - 1]]
           P == {k \in 0..n : \E f \in [0..k -> S] : Good(k, f)}
<1>1. 0 \in P
  <2>1. [i \in 0..0 |-> a] \in [0..0 -> S]
    OBVIOUS
  <2>2. Good(0, [i \in 0..0 |-> a])
    OBVIOUS
  <2> HIDE DEF Good
  <2> QED BY <2>1, <2>2
<1>2. ASSUME NEW k \in 1..n, k - 1 \in P PROVE k \in P
  <2>1. PICK f \in [0..(k - 1) -> S] : Good(k - 1, f)
    BY <1>2
  <2> DEFINE h == [i \in 0..k |-> IF i = k THEN g[k][f[k - 1]] ELSE f[i]]
  <2>2. \A i \in 0..k : h[i] = IF i = k THEN g[k][f[k - 1]] ELSE f[i]
    OBVIOUS
  <2>3. f[k - 1] \in S /\ g[k] \in [S -> S]
    OBVIOUS
  <2>4. g[k][f[k - 1]] \in S
    BY <2>3
  <2>5. h \in [0..k -> S]
    BY <2>4
  <2> HIDE DEF h
  <2>6. h[0] = a
    BY <2>1, <2>2
  <2>7. ASSUME NEW i \in 1..k PROVE h[i] = g[i][h[i - 1]]
    <3>1. h[i - 1] = f[i - 1]
      <4>1. i - 1 \in 0..k /\ i - 1 # k
        OBVIOUS
      <4> QED BY <4>1, <2>2
    <3>2. CASE i = k
      BY <3>1, <3>2, <2>2
    <3>3. CASE i # k
      <4>1. i \in 1..(k - 1) /\ i \in 0..k
        BY <3>3
      <4>2. f[i] = g[i][f[i - 1]]
        BY <4>1, <2>1
      <4> QED BY <4>1, <4>2, <3>1, <3>3, <2>2
    <3> QED BY <3>2, <3>3
  <2>8. Good(k, h)
    BY <2>6, <2>7
  <2> HIDE DEF Good
  <2> QED BY <2>5, <2>8
<1>3. P \subseteq Nat
  OBVIOUS
<1> HIDE DEF P
<1>4. 0..n \subseteq P
  BY <1>1, <1>2, <1>3, Steps
<1>5. n \in P
  BY <1>4
<1> USE DEF P
<1> QED BY <1>5 DEF Runs

-----------------------------------------------------------------------------
(* Each recursive function of the model is what its equations say, whatever *)
(* set S its values stay in.                                                *)

\* The parser of AT+CMGL, line by line.
LEMMA AtRunIs ==
  ASSUME NEW lines, Len(lines) \in Nat,
         NEW S, [rows |-> <<>>, open |-> FALSE] \in S,
         \A x \in S : \A i \in 1..Len(lines) : AtLine(x, lines[i]) \in S
  PROVE  /\ AtRun(lines) \in [0..Len(lines) -> S]
         /\ AtRun(lines)[0] = [rows |-> <<>>, open |-> FALSE]
         /\ \A i \in 1..Len(lines) : AtRun(lines)[i] = AtLine(AtRun(lines)[i - 1], lines[i])
<1> DEFINE a == [rows |-> <<>>, open |-> FALSE]
           n == Len(lines)
           g == [i \in 1..n |-> [x \in S |-> AtLine(x, lines[i])]]
           F(f) == [i \in 0..n |-> IF i = 0 THEN a ELSE AtLine(f[i - 1], lines[i])]
<1>1. g \in [1..n -> [S -> S]]
  OBVIOUS
<1>2. \A x \in S, i \in 1..n : g[i][x] = AtLine(x, lines[i])
  OBVIOUS
<1>3. a \in S /\ n \in Nat
  OBVIOUS
<1>4. AtRun(lines) = CHOOSE h : h = F(h)
  BY DEF AtRun
<1>5. \A f : F(f) = [i \in 0..n |-> IF i = 0 THEN a ELSE AtLine(f[i - 1], lines[i])]
  OBVIOUS
<1> HIDE DEF a, n, g, F
<1>6. PICK f : Runs(f, n, S, a, g)
  BY <1>1, <1>3, Recursion
<1>7. f \in [0..n -> S] /\ f[0] = a /\ \A i \in 1..n : f[i] = g[i][f[i - 1]]
  BY <1>6 DEF Runs
<1>8. \A i \in 0..n : f[i] = IF i = 0 THEN a ELSE AtLine(f[i - 1], lines[i])
  <2> TAKE i \in 0..n
  <2>1. CASE i = 0
    BY <2>1, <1>7
  <2>2. CASE i # 0
    <3>1. i \in 1..n /\ f[i - 1] \in S
      BY <2>2, <1>3, <1>7
    <3> QED BY <3>1, <2>2, <1>2, <1>7
  <2> QED BY <2>1, <2>2
<1>9. f = F(f)
  BY <1>5, <1>7, <1>8
<1> DEFINE r == AtRun(lines)
<1>10. r = F(r)
  BY <1>4, <1>9
<1> HIDE DEF r
<1>11. r = [i \in 0..n |-> IF i = 0 THEN a ELSE AtLine(r[i - 1], lines[i])]
  BY <1>5, <1>10
<1>12. r[0] = a /\ \A i \in 1..n : r[i] = AtLine(r[i - 1], lines[i])
  BY <1>3, <1>11
<1>13. \A i \in 1..n : r[i - 1] \in S => r[i] \in S
  BY <1>12 DEF n
<1>14. \A i \in 0..n : r[i] \in S
  BY <1>3, <1>12, <1>13, Stays
<1>15. r \in [0..n -> S]
  BY <1>11, <1>14
<1> QED BY <1>12, <1>15 DEF r, n, a

\* The parser of an answer of ofono, line by line.
LEMMA OfonoRunIs ==
  ASSUME NEW start, NEW lines, Len(lines) \in Nat,
         NEW S, start \in S,
         \A x \in S : \A i \in 1..Len(lines) : OfonoLine(x, lines[i]) \in S
  PROVE  /\ OfonoRun(start, lines) \in [0..Len(lines) -> S]
         /\ OfonoRun(start, lines)[0] = start
         /\ \A i \in 1..Len(lines) : OfonoRun(start, lines)[i] = OfonoLine(OfonoRun(start, lines)[i - 1], lines[i])
<1> DEFINE a == start
           n == Len(lines)
           g == [i \in 1..n |-> [x \in S |-> OfonoLine(x, lines[i])]]
           F(f) == [i \in 0..n |-> IF i = 0 THEN a ELSE OfonoLine(f[i - 1], lines[i])]
<1>1. g \in [1..n -> [S -> S]]
  OBVIOUS
<1>2. \A x \in S, i \in 1..n : g[i][x] = OfonoLine(x, lines[i])
  OBVIOUS
<1>3. a \in S /\ n \in Nat
  OBVIOUS
<1>4. OfonoRun(start, lines) = CHOOSE h : h = F(h)
  BY DEF OfonoRun
<1>5. \A f : F(f) = [i \in 0..n |-> IF i = 0 THEN a ELSE OfonoLine(f[i - 1], lines[i])]
  OBVIOUS
<1> HIDE DEF a, n, g, F
<1>6. PICK f : Runs(f, n, S, a, g)
  BY <1>1, <1>3, Recursion
<1>7. f \in [0..n -> S] /\ f[0] = a /\ \A i \in 1..n : f[i] = g[i][f[i - 1]]
  BY <1>6 DEF Runs
<1>8. \A i \in 0..n : f[i] = IF i = 0 THEN a ELSE OfonoLine(f[i - 1], lines[i])
  <2> TAKE i \in 0..n
  <2>1. CASE i = 0
    BY <2>1, <1>7
  <2>2. CASE i # 0
    <3>1. i \in 1..n /\ f[i - 1] \in S
      BY <2>2, <1>3, <1>7
    <3> QED BY <3>1, <2>2, <1>2, <1>7
  <2> QED BY <2>1, <2>2
<1>9. f = F(f)
  BY <1>5, <1>7, <1>8
<1> DEFINE r == OfonoRun(start, lines)
<1>10. r = F(r)
  BY <1>4, <1>9
<1> HIDE DEF r
<1>11. r = [i \in 0..n |-> IF i = 0 THEN a ELSE OfonoLine(r[i - 1], lines[i])]
  BY <1>5, <1>10
<1>12. r[0] = a /\ \A i \in 1..n : r[i] = OfonoLine(r[i - 1], lines[i])
  BY <1>3, <1>11
<1>13. \A i \in 1..n : r[i - 1] \in S => r[i] \in S
  BY <1>12 DEF n
<1>14. \A i \in 0..n : r[i] \in S
  BY <1>3, <1>12, <1>13, Stays
<1>15. r \in [0..n -> S]
  BY <1>11, <1>14
<1> QED BY <1>12, <1>15 DEF r, n, a

\* OfonoParsed for any order of the messages.
ParsedOf(o) ==
  LET after[p \in 0..Len(o)] ==
        IF p = 0 THEN [rows |-> <<>>, key |-> "closed", json |-> "good", left |-> OfonoCap]
        ELSE OfonoRun(after[p - 1], Printed(o[p]))[Len(Printed(o[p]))]
  IN  after

\* The same parser, message by message.
LEMMA ParsedIs ==
  ASSUME NEW o, Len(o) \in Nat,
         NEW S, [rows |-> <<>>, key |-> "closed", json |-> "good", left |-> OfonoCap] \in S,
         \A x \in S : \A i \in 1..Len(o) : OfonoRun(x, Printed(o[i]))[Len(Printed(o[i]))] \in S
  PROVE  /\ ParsedOf(o) \in [0..Len(o) -> S]
         /\ ParsedOf(o)[0] = [rows |-> <<>>, key |-> "closed", json |-> "good", left |-> OfonoCap]
         /\ \A i \in 1..Len(o) : ParsedOf(o)[i] = OfonoRun(ParsedOf(o)[i - 1], Printed(o[i]))[Len(Printed(o[i]))]
<1> DEFINE a == [rows |-> <<>>, key |-> "closed", json |-> "good", left |-> OfonoCap]
           n == Len(o)
           g == [i \in 1..n |-> [x \in S |-> OfonoRun(x, Printed(o[i]))[Len(Printed(o[i]))]]]
           F(f) == [i \in 0..n |-> IF i = 0 THEN a ELSE OfonoRun(f[i - 1], Printed(o[i]))[Len(Printed(o[i]))]]
<1>1. g \in [1..n -> [S -> S]]
  OBVIOUS
<1>2. \A x \in S, i \in 1..n : g[i][x] = OfonoRun(x, Printed(o[i]))[Len(Printed(o[i]))]
  OBVIOUS
<1>3. a \in S /\ n \in Nat
  OBVIOUS
<1>4. ParsedOf(o) = CHOOSE h : h = F(h)
  BY DEF ParsedOf
<1>5. \A f : F(f) = [i \in 0..n |-> IF i = 0 THEN a ELSE OfonoRun(f[i - 1], Printed(o[i]))[Len(Printed(o[i]))]]
  OBVIOUS
<1> HIDE DEF a, n, g, F
<1>6. PICK f : Runs(f, n, S, a, g)
  BY <1>1, <1>3, Recursion
<1>7. f \in [0..n -> S] /\ f[0] = a /\ \A i \in 1..n : f[i] = g[i][f[i - 1]]
  BY <1>6 DEF Runs
<1>8. \A i \in 0..n : f[i] = IF i = 0 THEN a ELSE OfonoRun(f[i - 1], Printed(o[i]))[Len(Printed(o[i]))]
  <2> TAKE i \in 0..n
  <2>1. CASE i = 0
    BY <2>1, <1>7
  <2>2. CASE i # 0
    <3>1. i \in 1..n /\ f[i - 1] \in S
      BY <2>2, <1>3, <1>7
    <3> QED BY <3>1, <2>2, <1>2, <1>7
  <2> QED BY <2>1, <2>2
<1>9. f = F(f)
  BY <1>5, <1>7, <1>8
<1> DEFINE r == ParsedOf(o)
<1>10. r = F(r)
  BY <1>4, <1>9
<1> HIDE DEF r
<1>11. r = [i \in 0..n |-> IF i = 0 THEN a ELSE OfonoRun(r[i - 1], Printed(o[i]))[Len(Printed(o[i]))]]
  BY <1>5, <1>10
<1>12. r[0] = a /\ \A i \in 1..n : r[i] = OfonoRun(r[i - 1], Printed(o[i]))[Len(Printed(o[i]))]
  BY <1>3, <1>11
<1>13. \A i \in 1..n : r[i - 1] \in S => r[i] \in S
  BY <1>12 DEF n
<1>14. \A i \in 0..n : r[i] \in S
  BY <1>3, <1>12, <1>13, Stays
<1>15. r \in [0..n -> S]
  BY <1>11, <1>14
<1> QED BY <1>12, <1>15 DEF r, n, a

\* The answer to AT+CMGL, slot by slot.
LEMMA EntriesIs ==
  ASSUME NEW S, <<>> \in S,
         \A x \in S : \A i \in 1..Slots : x \o (IF i \in Held THEN Entry(i) ELSE <<>>) \in S
  PROVE  /\ Entries \in [0..Slots -> S]
         /\ Entries[0] = <<>>
         /\ \A i \in 1..Slots : Entries[i] = Entries[i - 1] \o (IF i \in Held THEN Entry(i) ELSE <<>>)
<1> DEFINE a == <<>>
           n == Slots
           g == [i \in 1..n |-> [x \in S |-> x \o (IF i \in Held THEN Entry(i) ELSE <<>>)]]
           F(f) == [i \in 0..n |-> IF i = 0 THEN a ELSE f[i - 1] \o (IF i \in Held THEN Entry(i) ELSE <<>>)]
<1>1. g \in [1..n -> [S -> S]]
  OBVIOUS
<1>2. \A x \in S, i \in 1..n : g[i][x] = x \o (IF i \in Held THEN Entry(i) ELSE <<>>)
  OBVIOUS
<1>3. a \in S /\ n \in Nat
  BY ConstantsOK DEF ConstantsOK
<1>4. Entries = CHOOSE h : h = F(h)
  BY DEF Entries
<1>5. \A f : F(f) = [i \in 0..n |-> IF i = 0 THEN a ELSE f[i - 1] \o (IF i \in Held THEN Entry(i) ELSE <<>>)]
  OBVIOUS
<1> HIDE DEF a, n, g, F
<1>6. PICK f : Runs(f, n, S, a, g)
  BY <1>1, <1>3, Recursion
<1>7. f \in [0..n -> S] /\ f[0] = a /\ \A i \in 1..n : f[i] = g[i][f[i - 1]]
  BY <1>6 DEF Runs
<1>8. \A i \in 0..n : f[i] = IF i = 0 THEN a ELSE f[i - 1] \o (IF i \in Held THEN Entry(i) ELSE <<>>)
  <2> TAKE i \in 0..n
  <2>1. CASE i = 0
    BY <2>1, <1>7
  <2>2. CASE i # 0
    <3>1. i \in 1..n /\ f[i - 1] \in S
      BY <2>2, <1>3, <1>7
    <3> QED BY <3>1, <2>2, <1>2, <1>7
  <2> QED BY <2>1, <2>2
<1>9. f = F(f)
  BY <1>5, <1>7, <1>8
<1> DEFINE r == Entries
<1>10. r = F(r)
  BY <1>4, <1>9
<1> HIDE DEF r
<1>11. r = [i \in 0..n |-> IF i = 0 THEN a ELSE r[i - 1] \o (IF i \in Held THEN Entry(i) ELSE <<>>)]
  BY <1>5, <1>10
<1>12. r[0] = a /\ \A i \in 1..n : r[i] = r[i - 1] \o (IF i \in Held THEN Entry(i) ELSE <<>>)
  BY <1>3, <1>11
<1>13. \A i \in 1..n : r[i - 1] \in S => r[i] \in S
  BY <1>12 DEF n
<1>14. \A i \in 0..n : r[i] \in S
  BY <1>3, <1>12, <1>13, Stays
<1>15. r \in [0..n -> S]
  BY <1>11, <1>14
<1> QED BY <1>12, <1>15 DEF r, n, a

-----------------------------------------------------------------------------
(* Sequences.                                                               *)

\* An interval from 1 has one end.
LEMMA SameLength ==
  ASSUME NEW a \in Nat, NEW b \in Nat, 1..a = 1..b
  PROVE  a = b
<1>1. (a >= 1 => a \in 1..b) /\ (b >= 1 => b \in 1..a)
  OBVIOUS
<1> QED BY <1>1

\* A sequence with another last element.
LEMMA ChangeLast ==
  ASSUME NEW S, NEW q \in Seq(S), NEW e, Len(q) # 0 => e \in S
  PROVE  /\ [q EXCEPT ![Len(q)] = e] \in Seq(S)
         /\ DOMAIN [q EXCEPT ![Len(q)] = e] = DOMAIN q
         /\ \A i \in DOMAIN q : [q EXCEPT ![Len(q)] = e][i] = IF i = Len(q) THEN e ELSE q[i]
<1> DEFINE n == Len(q)
           p == [q EXCEPT ![n] = e]
<1>1. n \in Nat /\ DOMAIN q = 1..n /\ \A i \in 1..n : q[i] \in S
  OBVIOUS
<1>2. p = [i \in DOMAIN q |-> IF i = n THEN e ELSE q[i]]
  OBVIOUS
<1>3. \A i \in 1..n : n # 0
  BY <1>1
<1>4. n # 0 => e \in S
  OBVIOUS
<1> HIDE DEF n, p
<1>5. p \in [1..n -> S]
  BY <1>1, <1>2, <1>3, <1>4
<1>6. p \in Seq(S)
  BY <1>1, <1>5
<1> QED BY <1>1, <1>2, <1>6 DEF p, n

\* No element stands twice.
Injective(q) == \A i, j \in DOMAIN q : q[i] = q[j] => i = j

\* Removing an element of such a sequence leaves the others, each once.
LEMMA Removed ==
  ASSUME NEW S, NEW q \in Seq(S), NEW k \in DOMAIN q, Injective(q)
  PROVE  /\ RemoveAt(q, k) \in Seq(S) /\ Injective(RemoveAt(q, k))
         /\ ToSet(RemoveAt(q, k)) = ToSet(q) \ {q[k]}
<1> DEFINE n == Len(q)
           b == SubSeq(q, 1, k - 1)
           c == SubSeq(q, k + 1, n)
           p == RemoveAt(q, k)
<1>1. n \in Nat /\ DOMAIN q = 1..n /\ k \in 1..n /\ \A i \in 1..n : q[i] \in S
  OBVIOUS
<1>2. b \in Seq(S) /\ Len(b) = k - 1 /\ \A i \in 1..(k - 1) : b[i] = q[i]
  BY <1>1, SubSeqProperties
<1>3. c \in Seq(S) /\ Len(c) = n - k /\ \A i \in 1..(n - k) : c[i] = q[k + i]
  BY <1>1, SubSeqProperties
<1>4. p = b \o c
  BY DEF RemoveAt
<1> HIDE DEF n, b, c, p
<1>5. /\ p \in Seq(S) /\ Len(p) = n - 1 /\ DOMAIN p = 1..(n - 1)
      /\ \A i \in 1..(n - 1) : p[i] = IF i < k THEN q[i] ELSE q[i + 1]
  <2>1. p \in Seq(S) /\ Len(p) = n - 1 /\ DOMAIN p = 1..(n - 1)
    <3>1. p \in Seq(S) /\ Len(p) = Len(b) + Len(c)
      BY <1>2, <1>3, <1>4, ConcatProperties
    <3>2. Len(p) = n - 1
      BY <3>1, <1>1, <1>2, <1>3
    <3> QED BY <3>1, <3>2
  <2>2. ASSUME NEW i \in 1..(n - 1) PROVE p[i] = IF i < k THEN q[i] ELSE q[i + 1]
    <3>1. p[i] = IF i <= Len(b) THEN b[i] ELSE c[i - Len(b)]
      BY <1>1, <1>2, <1>3, <1>4
    <3>2. CASE i < k
      <4>1. i \in 1..(k - 1) /\ i <= Len(b)
        BY <3>2, <1>1, <1>2
      <4> QED BY <4>1, <3>1, <3>2, <1>2
    <3>3. CASE ~ (i < k)
      <4>1. i - Len(b) \in 1..(n - k) /\ ~ (i <= Len(b)) /\ k + (i - Len(b)) = i + 1
        BY <3>3, <1>1, <1>2
      <4> QED BY <4>1, <3>1, <3>3, <1>3
    <3> QED BY <3>2, <3>3
  <2> QED BY <2>1, <2>2
<1>6. Injective(p)
  <2> SUFFICES ASSUME NEW i \in DOMAIN p, NEW j \in DOMAIN p, p[i] = p[j] PROVE i = j
    BY DEF Injective
  <2> DEFINE x == IF i < k THEN i ELSE i + 1
             y == IF j < k THEN j ELSE j + 1
  <2>1. i \in 1..(n - 1) /\ j \in 1..(n - 1)
    BY <1>5
  <2>2. x \in 1..n /\ y \in 1..n /\ (x = y => i = j)
    BY <2>1, <1>1
  <2>3. p[i] = q[x] /\ p[j] = q[y]
    BY <2>1, <1>5
  <2> HIDE DEF x, y
  <2>4. x = y
    BY <2>2, <2>3, <1>1 DEF Injective
  <2> QED BY <2>2, <2>4
<1>7. ToSet(p) \subseteq ToSet(q) \ {q[k]}
  <2> SUFFICES ASSUME NEW i \in DOMAIN p PROVE p[i] \in ToSet(q) \ {q[k]}
    BY DEF ToSet
  <2> DEFINE x == IF i < k THEN i ELSE i + 1
  <2>1. i \in 1..(n - 1)
    BY <1>5
  <2>2. x \in 1..n /\ x # k
    BY <2>1, <1>1
  <2>3. p[i] = q[x]
    BY <2>1, <1>5
  <2> HIDE DEF x
  <2>4. q[x] # q[k]
    BY <2>2, <1>1 DEF Injective
  <2> QED BY <2>2, <2>3, <2>4, <1>1 DEF ToSet
<1>8. ToSet(q) \ {q[k]} \subseteq ToSet(p)
  <2> SUFFICES ASSUME NEW x \in 1..n, q[x] # q[k] PROVE q[x] \in ToSet(p)
    BY <1>1 DEF ToSet
  <2> DEFINE i == IF x < k THEN x ELSE x - 1
  <2>1. i \in 1..(n - 1) /\ x = IF i < k THEN i ELSE i + 1
    BY <1>1
  <2> HIDE DEF i
  <2>2. p[i] = q[x]
    BY <2>1, <1>5
  <2> QED BY <2>1, <2>2, <1>5 DEF ToSet
<1>9. ToSet(p) = ToSet(q) \ {q[k]}
  BY <1>7, <1>8
<1> QED BY <1>5, <1>6, <1>9 DEF p

\* The place the page finds for a number.
Place(q, k) ==
  LET I == {i \in 1..Len(q) : q[i].index = k}
  IN  IF I # {} THEN Min(I) ELSE 0

\* A row found by its number has it.
LEMMA Placed ==
  ASSUME NEW q, Len(q) \in Nat, DOMAIN q = 1..Len(q), NEW k, \E i \in DOMAIN q : q[i].index = k
  PROVE  Place(q, k) \in DOMAIN q /\ q[Place(q, k)].index = k
<1> DEFINE I == {i \in 1..Len(q) : q[i].index = k}
<1>1. I \in SUBSET Nat /\ I # {}
  OBVIOUS
<1> HIDE DEF I
<1>2. \E x \in I : \A y \in I : x <= y
  BY <1>1, Less
<1>3. Min(I) \in I
  BY <1>2 DEF Min
<1>4. Place(q, k) = Min(I)
  BY <1>1 DEF Place, I
<1> QED BY <1>3, <1>4 DEF I

-----------------------------------------------------------------------------
(* The types of rows, of lines, and of the states of the parsers.           *)

Msgs   == Messages \cup {Nobody}
RowSet == [index : Numbers, msg : Msgs, sender : Msgs, body : Seq(Looks)]

\* What the modem prints: a header for a slot names the message in it.
AtLines == {l \in [tag : Looks, msg : Msgs, about : 0..Slots] :
              l.tag = "head" => l.about # 0 /\ (l.msg # Nobody => At(l.about) = l.msg)}

\* What the parser makes of it: so does a row, by its number.
AtRowSet == {r \in RowSet : r.index <= Slots /\ (r.msg # Nobody => At(r.index) = r.msg)}
AtStates == [rows : Seq(AtRowSet), open : BOOLEAN]

Keys       == KeyLines \cup {"none", "closed"}
OfonoLines == [tag : Looks, msg : Msgs, about : Seq(Looks)]
\* The rows of ofono are numbered by their places.
OfonoStates == {a \in [rows : Seq(RowSet), key : Keys, json : {"good", "broken"}, left : Nat] :
                  \A i \in DOMAIN a.rows : a.rows[i].index = i}

\* The rows of a are in b, with the same messages.
Keeps(a, b) == \A i \in DOMAIN a.rows : i \in DOMAIN b.rows /\ b.rows[i].msg = a.rows[i].msg

-----------------------------------------------------------------------------
(* A listing over AT: every row with a message carries the slot it is in.   *)

\* One line.
LEMMA AtLineStays ==
  ASSUME NEW acc \in AtStates, NEW line \in AtLines
  PROVE  AtLine(acc, line) \in AtStates
<1> USE DEF AtStates
<1>1. acc.rows \in Seq(AtRowSet) /\ acc.open \in BOOLEAN /\ acc = [rows |-> acc.rows, open |-> acc.open]
  OBVIOUS
<1>2. line.tag \in Looks /\ line.msg \in Msgs /\ line.about \in 0..Slots
  BY DEF AtLines
<1>3. CASE line.tag = "head"
  <2> DEFINE r == Row(RowIndex(acc, line), line.msg, line.msg, <<>>)
  <2>1. line.about \in 1..Slots /\ (line.msg # Nobody => At(line.about) = line.msg)
    BY <1>2, <1>3, ConstantsOK DEF AtLines, ConstantsOK
  <2>2. r = [index |-> line.about, msg |-> line.msg, sender |-> line.msg, body |-> <<>>]
    BY DEF Row, RowIndex
  <2>3. r.index = line.about /\ r.msg = line.msg
    BY <2>2
  <2>4. line.about \in Numbers /\ line.about <= Slots /\ <<>> \in Seq(Looks)
    BY <2>1, ConstantsOK DEF ConstantsOK, Numbers
  <2> HIDE DEF r
  <2>5. r \in RowSet
    BY <2>2, <2>4, <1>2 DEF RowSet
  <2>6. r \in AtRowSet
    BY <2>1, <2>3, <2>4, <2>5 DEF AtRowSet
  <2>7. AtLine(acc, line) = [rows |-> Append(acc.rows, r), open |-> TRUE]
    BY <1>3 DEF AtLine, r
  <2>8. Append(acc.rows, r) \in Seq(AtRowSet)
    BY <1>1, <2>6
  <2> QED BY <2>7, <2>8
<1>4. CASE line.tag # "head" /\ Closes(line)
  <2>1. AtLine(acc, line) = [acc EXCEPT !.open = FALSE]
    BY <1>4 DEF AtLine
  <2> QED BY <2>1, <1>1
<1>5. CASE line.tag # "head" /\ ~ Closes(line) /\ acc.open
  <2> DEFINE n == Len(acc.rows)
             R == [acc.rows EXCEPT ![n].body = Append(@, line.tag)]
  <2>1. AtLine(acc, line) = [acc EXCEPT !.rows = R]
    BY <1>5 DEF AtLine
  <2> DEFINE r == [acc.rows[n] EXCEPT !.body = Append(@, line.tag)]
  <2>2. ASSUME n # 0 PROVE r \in AtRowSet
    <3>1. acc.rows[n] \in AtRowSet
      BY <2>2, <1>1
    <3>2. acc.rows[n] \in RowSet
      BY <3>1 DEF AtRowSet
    <3>3. Append(acc.rows[n].body, line.tag) \in Seq(Looks)
      BY <3>2, <1>2 DEF RowSet
    <3>4. r \in RowSet /\ r.index = acc.rows[n].index /\ r.msg = acc.rows[n].msg
      BY <3>2, <3>3 DEF RowSet
    <3> HIDE DEF r, n
    <3> QED BY <3>1, <3>4 DEF AtRowSet
  <2>3. R = [acc.rows EXCEPT ![Len(acc.rows)] = r]
    OBVIOUS
  <2> HIDE DEF R, r
  <2>4. R \in Seq(AtRowSet)
    BY <2>2, <2>3, <1>1, ChangeLast
  <2> HIDE DEF n
  <2> QED BY <2>1, <2>4, <1>1
<1>6. CASE line.tag # "head" /\ ~ Closes(line) /\ ~ acc.open
  <2>1. AtLine(acc, line) = acc
    BY <1>6 DEF AtLine
  <2> QED BY <2>1
<1> QED BY <1>3, <1>4, <1>5, <1>6

\* What this part needs of the modem.
Storage == storage \in [1..Slots -> Msgs]

\* One entry.
LEMMA EntryOK ==
  ASSUME Storage, NEW s \in Held
  PROVE  Entry(s) \in Seq(AtLines)
<1> DEFINE m == storage[s]
           head == Line("head", m, s)
           rest == [i \in DOMAIN Text[m] |-> Line(Text[m][i], Nobody, Slots)]
<1>1. s \in 1..Slots /\ m \in Messages /\ m # Nobody
  BY DEF Held, Storage, Msgs
<1>2. s \in 0..Slots /\ Slots \in 0..Slots /\ Slots # 0 /\ s # 0 /\ "head" \in Looks
  BY <1>1, ConstantsOK DEF ConstantsOK, Looks
<1>3. At(s) = m
  BY DEF At
<1>4. Text[m] \in Seq(Looks)
  BY <1>1, ConstantsOK DEF ConstantsOK
<1> HIDE DEF m
<1>5. head \in AtLines
  BY <1>1, <1>2, <1>3 DEF AtLines, Line, Msgs
<1>6. ASSUME NEW t \in Looks PROVE Line(t, Nobody, Slots) \in AtLines
  BY <1>2, <1>6 DEF AtLines, Line, Msgs
<1>7. rest \in Seq(AtLines)
  <2> DEFINE L(t) == Line(t, Nobody, Slots)
  <2>1. \A t \in Looks : L(t) \in AtLines
    BY <1>6
  <2>2. rest = [i \in 1..Len(Text[m]) |-> L(Text[m][i])]
    BY <1>4
  <2>3. \A i \in 1..Len(Text[m]) : Text[m][i] \in Looks
    BY <1>4
  <2>4. Len(Text[m]) \in Nat
    BY <1>4
  <2> HIDE DEF L, rest
  <2>5. rest \in [1..Len(Text[m]) -> AtLines]
    BY <2>1, <2>2, <2>3
  <2> QED BY <2>4, <2>5
<1>8. Entry(s) = <<head>> \o rest
  BY DEF Entry, m
<1> HIDE DEF head, rest
<1> QED BY <1>5, <1>7, <1>8

\* The answer.
LEMMA AnswerOK ==
  ASSUME Storage
  PROVE  /\ Line("ok", Nobody, 0) \in AtLines
         /\ Answer \in Seq(AtLines) /\ 1 \in DOMAIN Answer
<1>1. ASSUME NEW s \in Held PROVE Entry(s) \in Seq(AtLines)
  BY EntryOK
<1>2. Entries \in [0..Slots -> Seq(AtLines)]
  <2> DEFINE S == Seq(AtLines)
  <2>1. <<>> \in S
    OBVIOUS
  <2>2. \A x \in S : \A i \in 1..Slots : x \o (IF i \in Held THEN Entry(i) ELSE <<>>) \in S
    <3> TAKE x \in S
    <3> TAKE i \in 1..Slots
    <3>1. CASE i \in Held
      BY <3>1, <1>1
    <3>2. CASE i \notin Held
      BY <3>2
    <3> QED BY <3>1, <3>2
  <2> HIDE DEF S
  <2>3. Entries \in [0..Slots -> S]
    BY <2>1, <2>2, EntriesIs
  <2> QED BY <2>3 DEF S
<1> DEFINE ok == Line("ok", Nobody, 0)
           e == Entries[Slots]
<1>3. Slots \in 0..Slots /\ 0 \in 0..Slots
  BY ConstantsOK DEF ConstantsOK
<1>4. ok \in AtLines
  BY <1>3 DEF AtLines, Line, Msgs, Looks
<1>5. e \in Seq(AtLines)
  BY <1>2, <1>3
<1>6. Answer = e \o <<ok>>
  BY DEF Answer
<1>7. Answer \in Seq(AtLines) /\ 1 \in DOMAIN Answer
  <2> HIDE DEF e, ok
  <2>1. e \o <<ok>> \in Seq(AtLines) /\ 1 \in DOMAIN (e \o <<ok>>)
    BY <1>4, <1>5
  <2> QED BY <2>1, <1>6
<1> QED BY <1>4, <1>7

\* A length, up to a bound.
LEMMA UptoIs ==
  ASSUME NEW n \in Nat, NEW most \in Nat
  PROVE  Upto(n, most) \in 0..n /\ Upto(n, most) <= most /\ (n <= most => Upto(n, most) = n)
                              /\ (n > most => Upto(n, most) = most)
BY DEF Upto

\* What the parser's buffer keeps of the body of a row.
LEMMA KeptRow ==
  ASSUME NEW r \in AtRowSet
  PROVE  [r EXCEPT !.body = Fitting(@)] \in AtRowSet
<1>1. r \in RowSet /\ r.body \in Seq(Looks)
  BY DEF AtRowSet, RowSet
<1> DEFINE b == r.body
           k == Fitting(b)
<1>2. k \in Seq(Looks)
  <2> DEFINE u == Upto(Len(b), Room)
  <2>1. k = SubSeq(b, 1, u)
    BY DEF Fitting
  <2>2. u \in 0..Len(b)
    <3>1. Len(b) \in Nat /\ Room \in Nat
      BY <1>1, ConstantsOK DEF ConstantsOK
    <3> HIDE DEF b
    <3> QED BY <3>1, UptoIs
  <2>3. b \in Seq(Looks) /\ Len(b) \in Nat /\ \A i \in 1..Len(b) : b[i] \in Looks
    BY <1>1
  <2> HIDE DEF u, b, k
  <2>4. u \in Nat /\ \A i \in 1..u : b[i] \in Looks
    BY <2>2, <2>3
  <2> QED BY <2>1, <2>4, SubSeqProperties
<1> HIDE DEF k
<1>3. [r EXCEPT !.body = k] \in RowSet /\ [r EXCEPT !.body = k].index = r.index
      /\ [r EXCEPT !.body = k].msg = r.msg
  BY <1>1, <1>2 DEF RowSet
<1>4. [r EXCEPT !.body = k] \in AtRowSet
  BY <1>3 DEF AtRowSet
<1> QED BY <1>4 DEF k

\* The rows.
LEMMA AtRowsOK ==
  ASSUME Storage
  PROVE  AtRows \in Seq(AtRowSet)
<1>1. Answer \in Seq(AtLines) /\ 1 \in DOMAIN Answer
  BY AnswerOK
<1> DEFINE p == Payload(Answer)
<1>2. p \in Seq(AtLines)
  <2> DEFINE one == <<Answer[1]>>
  <2>1. one \in Seq(AtLines)
    BY <1>1
  <2>2. p = Answer \/ p = one
    BY DEF Payload
  <2> HIDE DEF p, one
  <2> QED BY <1>1, <2>1, <2>2
<1> DEFINE items == AtItems(p)
<1>3. AtRows = [i \in DOMAIN items |-> [items[i] EXCEPT !.body = Fitting(@)]]
  BY DEF AtRows
<1> HIDE DEF p
<1>4. Len(p) \in Nat /\ \A i \in 1..Len(p) : p[i] \in AtLines
  BY <1>2
<1>5. [rows |-> <<>>, open |-> FALSE] \in AtStates
  BY DEF AtStates
<1>6. \A acc \in AtStates : \A i \in 1..Len(p) : AtLine(acc, p[i]) \in AtStates
  BY <1>4, AtLineStays
<1>7. AtRun(p) \in [0..Len(p) -> AtStates]
  BY <1>4, <1>5, <1>6, AtRunIs
<1>8. Upto(Len(p), AtCap) \in 0..Len(p)
  BY <1>4, UptoIs, ConstantsOK DEF ConstantsOK
<1>9. AtRun(p)[Upto(Len(p), AtCap)] \in AtStates
  BY <1>7, <1>8
<1>10. items \in Seq(AtRowSet)
  BY <1>9 DEF AtStates, AtItems
<1> HIDE DEF items
<1>11. \A i \in 1..Len(items) : [items[i] EXCEPT !.body = Fitting(@)] \in AtRowSet
  BY <1>10, KeptRow
<1>12. DOMAIN items = 1..Len(items) /\ Len(items) \in Nat
  BY <1>10
<1>13. AtRows \in [1..Len(items) -> AtRowSet]
  BY <1>3, <1>11, <1>12
<1> QED BY <1>12, <1>13

-----------------------------------------------------------------------------
(* A listing over ofono: every row carries its place, and a message that    *)
(* arrives later moves none of them.                                        *)

\* What a line that is still in the capture does.
LEMMA TakenStays ==
  ASSUME NEW acc \in OfonoStates, NEW line \in OfonoLines
  PROVE  /\ Taken(acc, line) \in OfonoStates /\ Keeps(acc, Taken(acc, line))
         /\ Taken(acc, line).left = acc.left
<1> DEFINE new == Taken(acc, line)
           Json == {"good", "broken"}
<1>1. /\ acc.rows \in Seq(RowSet) /\ acc.key \in Keys /\ acc.json \in Json /\ acc.left \in Nat
      /\ acc = [rows |-> acc.rows, key |-> acc.key, json |-> acc.json, left |-> acc.left]
      /\ \A i \in DOMAIN acc.rows : acc.rows[i].index = i
  BY DEF OfonoStates
<1>2. line.msg \in Msgs /\ line.about \in Seq(Looks) /\ line.tag \in Looks
  BY DEF OfonoLines
<1>a. KeyLines \subseteq Keys /\ "none" \in Keys /\ "closed" \in Keys
  BY DEF Keys
<1>3. ASSUME NEW k \in Keys, NEW s \in Json, new = [acc EXCEPT !.key = k, !.json = s]
      PROVE  new \in OfonoStates /\ Keeps(acc, new) /\ new.left = acc.left
  <2> HIDE DEF new, Json
  <2>1. new = [rows |-> acc.rows, key |-> k, json |-> s, left |-> acc.left]
    BY <1>1, <1>3
  <2>2. new.rows = acc.rows /\ new.left = acc.left
    BY <2>1
  <2> QED BY <2>1, <2>2, <1>1 DEF OfonoStates, Keeps, Json
<1>b. ASSUME NEW k \in Keys, new = [acc EXCEPT !.key = k]
      PROVE  new \in OfonoStates /\ Keeps(acc, new) /\ new.left = acc.left
  <2>1. [acc EXCEPT !.key = k] = [acc EXCEPT !.key = k, !.json = acc.json]
    BY <1>1
  <2> HIDE DEF new
  <2> QED BY <2>1, <1>1, <1>3, <1>b
<1>4. ASSUME NEW r, new = [acc EXCEPT !.rows = [acc.rows EXCEPT ![Len(acc.rows)] = r], !.key = "none"],
             Len(acc.rows) # 0 => /\ r \in RowSet /\ r.index = acc.rows[Len(acc.rows)].index
                                  /\ r.msg = acc.rows[Len(acc.rows)].msg
      PROVE  new \in OfonoStates /\ Keeps(acc, new) /\ new.left = acc.left
  <2> DEFINE R == [acc.rows EXCEPT ![Len(acc.rows)] = r]
  <2> HIDE DEF new
  <2>1. /\ R \in Seq(RowSet) /\ DOMAIN R = DOMAIN acc.rows
        /\ \A i \in DOMAIN acc.rows : R[i] = IF i = Len(acc.rows) THEN r ELSE acc.rows[i]
    BY <1>1, <1>4, ChangeLast
  <2>2. new = [acc EXCEPT !.rows = R, !.key = "none"]
    BY <1>4
  <2> HIDE DEF R, Json
  <2>3. new = [rows |-> R, key |-> "none", json |-> acc.json, left |-> acc.left]
    BY <1>1, <2>2
  <2>4. new.rows = R /\ new.left = acc.left
    BY <2>3
  <2>5. \A i \in DOMAIN acc.rows : Len(acc.rows) # 0
    BY <1>1
  <2>6. \A i \in DOMAIN acc.rows : R[i].index = acc.rows[i].index /\ R[i].msg = acc.rows[i].msg
    BY <1>4, <2>1, <2>5
  <2>7. new \in OfonoStates
    BY <1>1, <1>a, <2>1, <2>3, <2>4, <2>6 DEF OfonoStates, Json
  <2>8. Keeps(acc, new)
    BY <2>1, <2>4, <2>6 DEF Keeps
  <2> QED BY <2>4, <2>7, <2>8
<1>5. CASE line.tag = "path"
  <2> DEFINE r == Row(Len(acc.rows) + 1, line.msg, Nobody, <<>>)
             R == Append(acc.rows, r)
  <2>1. new = [acc EXCEPT !.rows = R, !.key = "none"]
    BY <1>5 DEF Taken, KeyLines
  <2>2. Len(acc.rows) + 1 \in Numbers /\ <<>> \in Seq(Looks) /\ Nobody \in Msgs
    BY <1>1 DEF Numbers, Msgs
  <2>3. r = [index |-> Len(acc.rows) + 1, msg |-> line.msg, sender |-> Nobody, body |-> <<>>]
    BY DEF Row
  <2> HIDE DEF r, new, Json
  <2>4. r \in RowSet /\ r.index = Len(acc.rows) + 1
    BY <1>2, <2>2, <2>3 DEF RowSet
  <2>5. /\ R \in Seq(RowSet) /\ DOMAIN R = 1..(Len(acc.rows) + 1) /\ R[Len(acc.rows) + 1] = r
        /\ DOMAIN acc.rows = 1..Len(acc.rows) /\ Len(acc.rows) \in Nat
        /\ \A i \in DOMAIN acc.rows : i \in DOMAIN R /\ R[i] = acc.rows[i]
    BY <1>1, <2>4
  <2> HIDE DEF R
  <2>6. new = [rows |-> R, key |-> "none", json |-> acc.json, left |-> acc.left]
    BY <1>1, <2>1
  <2>7. new.rows = R /\ new.left = acc.left
    BY <2>6
  <2>8. ASSUME NEW i \in DOMAIN R PROVE R[i].index = i
    <3>1. CASE i = Len(acc.rows) + 1
      BY <3>1, <2>4, <2>5
    <3>2. CASE i # Len(acc.rows) + 1
      <4>1. i \in DOMAIN acc.rows
        BY <3>2, <2>5
      <4> QED BY <4>1, <2>5, <1>1
    <3> QED BY <3>1, <3>2
  <2>9. new \in OfonoStates
    BY <1>1, <1>a, <2>5, <2>6, <2>7, <2>8 DEF OfonoStates, Json
  <2>10. Keeps(acc, new)
    BY <2>5, <2>7 DEF Keeps
  <2> QED BY <2>7, <2>9, <2>10 DEF new
<1>6. CASE line.tag = "bare"
  <2>1. new = [acc EXCEPT !.key = "closed"]
    BY <1>6 DEF Taken, KeyLines
  <2> QED BY <2>1, <1>a, <1>b
<1>7. CASE line.tag \in KeyLines /\ acc.key = "none"
  <2>1. new = [acc EXCEPT !.key = line.tag]
    BY <1>7 DEF Taken, KeyLines
  <2> QED BY <2>1, <1>7, <1>a, <1>b
<1>8. CASE line.tag = "value" /\ acc.key = "text"
  <2> DEFINE r == [acc.rows[Len(acc.rows)] EXCEPT !.body = line.about]
  <2>1. new = [acc EXCEPT !.rows[Len(acc.rows)].body = line.about, !.key = "none"]
    BY <1>8 DEF Taken, KeyLines
  <2>2. new = [acc EXCEPT !.rows = [acc.rows EXCEPT ![Len(acc.rows)] = r], !.key = "none"]
    BY <2>1
  <2>3. Len(acc.rows) # 0 => acc.rows[Len(acc.rows)] \in RowSet
    BY <1>1
  <2>4. Len(acc.rows) # 0 => /\ r \in RowSet /\ r.index = acc.rows[Len(acc.rows)].index
                             /\ r.msg = acc.rows[Len(acc.rows)].msg
    BY <1>2, <2>3 DEF RowSet
  <2> HIDE DEF r
  <2> QED BY <2>2, <2>4, <1>4
<1>9. CASE line.tag = "value" /\ acc.key = "sender"
  <2> DEFINE r == [acc.rows[Len(acc.rows)] EXCEPT !.sender = line.msg]
  <2>1. new = [acc EXCEPT !.rows[Len(acc.rows)].sender = line.msg, !.key = "none"]
    BY <1>9 DEF Taken, KeyLines
  <2>2. new = [acc EXCEPT !.rows = [acc.rows EXCEPT ![Len(acc.rows)] = r], !.key = "none"]
    BY <2>1
  <2>3. Len(acc.rows) # 0 => acc.rows[Len(acc.rows)] \in RowSet
    BY <1>1
  <2>4. Len(acc.rows) # 0 => /\ r \in RowSet /\ r.index = acc.rows[Len(acc.rows)].index
                             /\ r.msg = acc.rows[Len(acc.rows)].msg
    BY <1>2, <2>3 DEF RowSet
  <2> HIDE DEF r
  <2> QED BY <2>2, <2>4, <1>4
<1>10. CASE line.tag = "value" /\ acc.key = "key"
  <2>1. new = [acc EXCEPT !.key = "none"]
    BY <1>10 DEF Taken, KeyLines
  <2> QED BY <2>1, <1>a, <1>b
<1>11. CASE line.tag = "token" /\ acc.key \in KeyLines
  <2>1. new = [acc EXCEPT !.key = "none", !.json = "broken"]
    BY <1>11 DEF Taken, KeyLines
  <2> QED BY <2>1, <1>a, <1>3
<1>c. new = acc => new \in OfonoStates /\ Keeps(acc, new) /\ new.left = acc.left
  <2> HIDE DEF new
  <2> QED BY DEF Keeps
<1>12. CASE line.tag = "close"
  <2>1. new = Closed(acc)
    BY <1>12 DEF Taken, KeyLines
  <2>2. CASE acc.key = "closed"
    BY <2>1, <2>2, <1>c DEF Closed
  <2>3. CASE acc.key # "closed"
    <3>1. new = [acc EXCEPT !.key = "none"]
      BY <2>1, <2>3 DEF Closed
    <3> QED BY <3>1, <1>a, <1>b
  <2> QED BY <2>2, <2>3
<1>13. CASE /\ line.tag \notin {"path", "bare", "close"}
            /\ ~ (line.tag \in KeyLines /\ acc.key = "none")
            /\ ~ (line.tag = "value" /\ acc.key \in KeyLines)
            /\ ~ (line.tag = "token" /\ acc.key \in KeyLines)
  <2>1. new = acc
    BY <1>13 DEF Taken, KeyLines
  <2> QED BY <2>1, <1>c
<1> QED BY <1>5, <1>6, <1>7, <1>8, <1>9, <1>10, <1>11, <1>12, <1>13 DEF KeyLines

\* One line.
LEMMA OfonoLineStays ==
  ASSUME NEW acc \in OfonoStates, NEW line \in OfonoLines
  PROVE  /\ OfonoLine(acc, line) \in OfonoStates /\ Keeps(acc, OfonoLine(acc, line))
         /\ acc.left = 0 => OfonoLine(acc, line) = acc
         /\ acc.left # 0 => /\ OfonoLine(acc, line).rows = Taken(acc, line).rows
                            /\ OfonoLine(acc, line).key = Taken(acc, line).key
<1> DEFINE took == Taken(acc, line)
           new == OfonoLine(acc, line)
<1>1. took \in OfonoStates /\ Keeps(acc, took) /\ took.left = acc.left
  BY TakenStays
<1>2. acc.left \in Nat
  BY DEF OfonoStates
<1>3. CASE acc.left = 0
  <2>1. new = acc
    BY <1>3 DEF OfonoLine
  <2> HIDE DEF new
  <2>2. new \in OfonoStates /\ Keeps(acc, new)
    BY <2>1 DEF Keeps
  <2> QED BY <2>1, <2>2, <1>3 DEF new
<1>4. CASE acc.left # 0
  <2>1. new = [took EXCEPT !.left = acc.left - 1]
    BY <1>4 DEF OfonoLine
  <2> HIDE DEF new, took
  <2>2. acc.left - 1 \in Nat
    BY <1>2, <1>4
  <2>3. new \in OfonoStates /\ new.rows = took.rows /\ new.key = took.key
    BY <2>1, <2>2, <1>1 DEF OfonoStates
  <2>4. Keeps(acc, new)
    BY <2>3, <1>1 DEF Keeps
  <2> QED BY <2>3, <2>4, <1>4 DEF new, took
<1> QED BY <1>3, <1>4

\* The lines of one message.
LEMMA OfonoRunOK ==
  ASSUME NEW start \in OfonoStates, NEW lines \in Seq(OfonoLines)
  PROVE  /\ OfonoRun(start, lines)[Len(lines)] \in OfonoStates
         /\ Keeps(start, OfonoRun(start, lines)[Len(lines)])
<1> DEFINE S == {b \in OfonoStates : Keeps(start, b)}
<1>1. Len(lines) \in Nat /\ \A i \in 1..Len(lines) : lines[i] \in OfonoLines
  OBVIOUS
<1>2. start \in S
  BY DEF Keeps
<1>3. ASSUME NEW x \in S, NEW line \in OfonoLines PROVE OfonoLine(x, line) \in S
  <2>1. x \in OfonoStates /\ Keeps(start, x)
    OBVIOUS
  <2>2. OfonoLine(x, line) \in OfonoStates /\ Keeps(x, OfonoLine(x, line))
    BY <2>1, OfonoLineStays
  <2>3. Keeps(start, OfonoLine(x, line))
    BY <2>1, <2>2 DEF Keeps
  <2> QED BY <2>2, <2>3
<1> HIDE DEF S
<1>4. \A x \in S : \A i \in 1..Len(lines) : OfonoLine(x, lines[i]) \in S
  BY <1>1, <1>3
<1>5. OfonoRun(start, lines) \in [0..Len(lines) -> S]
  BY <1>1, <1>2, <1>4, OfonoRunIs
<1>6. OfonoRun(start, lines)[Len(lines)] \in S
  BY <1>1, <1>5
<1> QED BY <1>6 DEF S

\* The parts ofono prints of a message.
LEMMA PrintedParts ==
  ASSUME NEW m \in Messages
  PROVE  /\ Line("path", m, <<>>) \in OfonoLines
         /\ \A key \in KeyLines, text \in Seq(Looks) : Property(m, key, text) \in Seq(OfonoLines)
<1>1. m \in Msgs /\ Nobody \in Msgs /\ <<>> \in Seq(Looks)
  BY DEF Msgs
<1>2. ASSUME NEW tag \in Looks, NEW who \in Msgs, NEW about \in Seq(Looks)
      PROVE  Line(tag, who, about) \in OfonoLines
  BY DEF OfonoLines, Line
<1>3. KeyLines \subseteq Looks /\ {"path", "value", "close"} \subseteq Looks
  BY DEF Looks
<1>4. ASSUME NEW key \in KeyLines, NEW text \in Seq(Looks)
      PROVE  Property(m, key, text) \in Seq(OfonoLines)
  <2> DEFINE k == Line(key, m, <<>>)
             v == Line("value", m, First(text))
             rest == [i \in DOMAIN Rest(text) |-> Line(Rest(text)[i], Nobody, <<Rest(text)[i]>>)]
             c == Line("close", m, <<>>)
  <2>1. First(text) \in Seq(Looks) /\ Rest(text) \in Seq(Looks)
    BY DEF First, Rest
  <2>2. k \in OfonoLines /\ c \in OfonoLines /\ v \in OfonoLines
    <3>1. key \in Looks /\ "close" \in Looks /\ "value" \in Looks
      BY <1>3, <1>4
    <3> QED BY <3>1, <1>1, <1>2, <2>1
  <2>3. rest \in Seq(OfonoLines)
    <3> DEFINE L(t) == Line(t, Nobody, <<t>>)
               R == Rest(text)
    <3>1. \A t \in Looks : L(t) \in OfonoLines
      <4>1. \A t \in Looks : <<t>> \in Seq(Looks)
        OBVIOUS
      <4> QED BY <4>1, <1>1, <1>2
    <3>2. R \in Seq(Looks)
      BY <2>1
    <3>3. rest = [i \in DOMAIN R |-> L(R[i])]
      OBVIOUS
    <3> HIDE DEF L, R, rest
    <3>4. Len(R) \in Nat /\ DOMAIN R = 1..Len(R) /\ \A i \in 1..Len(R) : R[i] \in Looks
      BY <3>2
    <3>5. rest \in [1..Len(R) -> OfonoLines]
      BY <3>1, <3>3, <3>4
    <3> QED BY <3>4, <3>5
  <2>4. Property(m, key, text) = <<k, v>> \o rest \o <<c>>
    BY DEF Property
  <2> HIDE DEF k, v, rest, c
  <2> QED BY <2>2, <2>3, <2>4
<1>5. Line("path", m, <<>>) \in OfonoLines
  BY <1>1, <1>2, <1>3
<1> QED BY <1>4, <1>5

\* All it prints of one.
LEMMA PrintedOK ==
  ASSUME NEW m \in Messages
  PROVE  Printed(m) \in Seq(OfonoLines)
<1> DEFINE p == Line("path", m, <<>>)
           t == Property(m, "text", Text[m])
           s == Property(m, "sender", <<>>)
<1>1. Text[m] \in Seq(Looks) /\ <<>> \in Seq(Looks)
  BY ConstantsOK DEF ConstantsOK
<1>2. p \in OfonoLines /\ t \in Seq(OfonoLines) /\ s \in Seq(OfonoLines)
  BY <1>1, PrintedParts DEF KeyLines
<1>3. Printed(m) = <<p>> \o t \o s
  BY DEF Printed
<1> HIDE DEF p, t, s
<1> QED BY <1>2, <1>3

\* All messages.
LEMMA ParsedOK ==
  ASSUME NEW o \in Seq(Messages)
  PROVE  /\ Len(o) \in Nat
         /\ ParsedOf(o) \in [0..Len(o) -> OfonoStates]
         /\ ParsedOf(o)[0] = [rows |-> <<>>, key |-> "closed", json |-> "good", left |-> OfonoCap]
         /\ \A i \in 1..Len(o) : ParsedOf(o)[i] =
              OfonoRun(ParsedOf(o)[i - 1], Printed(o[i]))[Len(Printed(o[i]))]
<1>1. Len(o) \in Nat /\ \A i \in 1..Len(o) : o[i] \in Messages
  OBVIOUS
<1>2. [rows |-> <<>>, key |-> "closed", json |-> "good", left |-> OfonoCap] \in OfonoStates
  BY ConstantsOK DEF OfonoStates, Keys, ConstantsOK
<1>3. \A x \in OfonoStates : \A i \in 1..Len(o) :
        OfonoRun(x, Printed(o[i]))[Len(Printed(o[i]))] \in OfonoStates
  BY <1>1, PrintedOK, OfonoRunOK
<1> QED BY <1>1, <1>2, <1>3, ParsedIs

\* One more message.
LEMMA ParsedGrows ==
  ASSUME NEW o \in Seq(Messages), NEW m \in Messages
  PROVE  Keeps(ParsedOf(o)[Len(o)], ParsedOf(Append(o, m))[Len(Append(o, m))])
<1> DEFINE q == Append(o, m)
           n == Len(o)
           P == {p \in 0..n : ParsedOf(q)[p] = ParsedOf(o)[p]}
<1>1. q \in Seq(Messages) /\ n \in Nat /\ Len(q) = n + 1 /\ q[n + 1] = m /\ \A i \in 1..n : q[i] = o[i]
  OBVIOUS
<1>2. \A i \in 1..n : i \in 1..Len(q) /\ i - 1 \in 0..n
  BY <1>1
<1> DEFINE a == ParsedOf(o)
           b == ParsedOf(q)
<1>3. /\ a \in [0..n -> OfonoStates] /\ a[0] = [rows |-> <<>>, key |-> "closed", json |-> "good", left |-> OfonoCap]
      /\ \A i \in 1..n : a[i] = OfonoRun(a[i - 1], Printed(o[i]))[Len(Printed(o[i]))]
  BY ParsedOK
<1> HIDE DEF q
<1>4. /\ b[0] = [rows |-> <<>>, key |-> "closed", json |-> "good", left |-> OfonoCap]
      /\ \A i \in 1..Len(q) : b[i] = OfonoRun(b[i - 1], Printed(q[i]))[Len(Printed(q[i]))]
  BY <1>1, ParsedOK
<1>5. P = {p \in 0..n : b[p] = a[p]}
  OBVIOUS
<1> HIDE DEF n, a, b, P
<1>6. ASSUME NEW i \in 1..n, i - 1 \in P PROVE i \in P
  <2>1. b[i - 1] = a[i - 1] /\ q[i] = o[i] /\ i \in 1..Len(q)
    BY <1>1, <1>2, <1>5, <1>6
  <2>2. b[i] = a[i]
    BY <1>3, <1>4, <2>1
  <2> QED BY <2>2, <1>5
<1>7. P \subseteq Nat /\ 0 \in P
  BY <1>1, <1>3, <1>4, <1>5
<1>8. 0..n \subseteq P
  BY <1>1, <1>6, <1>7, Steps
<1>9. n \in 0..n /\ n + 1 \in 1..Len(q) /\ (n + 1) - 1 = n
  BY <1>1
<1>10. b[n] = a[n] /\ a[n] \in OfonoStates
  BY <1>3, <1>5, <1>8, <1>9
<1>11. b[n + 1] = OfonoRun(a[n], Printed(m))[Len(Printed(m))]
  BY <1>1, <1>4, <1>9, <1>10
<1>12. Keeps(a[n], b[n + 1])
  BY <1>10, <1>11, PrintedOK, OfonoRunOK
<1> QED BY <1>1, <1>12 DEF a, b, n, q

\* The rows.
LEMMA OfonoRowsOK ==
  ASSUME order \in Seq(Messages)
  PROVE  OfonoRows \in Seq(RowSet) /\ \A i \in DOMAIN OfonoRows : OfonoRows[i].index = i
<1>1. OfonoRows = ParsedOf(order)[Len(order)].rows
  BY DEF OfonoRows, OfonoParsed, ParsedOf
<1>2. ParsedOf(order)[Len(order)] \in OfonoStates
  BY ParsedOK
<1> QED BY <1>1, <1>2 DEF OfonoStates

\* The rows after a message arrived.
LEMMA OfonoRowsGrow ==
  ASSUME order \in Seq(Messages), NEW m \in Messages, order' = Append(order, m)
  PROVE  \A i \in DOMAIN OfonoRows : i \in DOMAIN OfonoRows' /\ OfonoRows'[i].msg = OfonoRows[i].msg
<1>1. OfonoRows = ParsedOf(order)[Len(order)].rows
  BY DEF OfonoRows, OfonoParsed, ParsedOf
<1>2. OfonoRows' = ParsedOf(order')[Len(order')].rows
  BY DEF OfonoRows, OfonoParsed, ParsedOf
<1>3. Keeps(ParsedOf(order)[Len(order)], ParsedOf(order')[Len(order')])
  BY ParsedGrows
<1> QED BY <1>1, <1>2, <1>3 DEF Keeps

-----------------------------------------------------------------------------
(* The modem: a message is stored in one slot, and listed once.             *)

ModemOK ==
  /\ coming \subseteq Messages /\ storage \in [1..Slots -> Msgs]
  /\ order \in Seq(Messages) /\ ToSet(order) = {storage[s] : s \in Held}
Once ==
  /\ Injective(order) /\ ToSet(order) \cap coming = {}
  /\ \A s, t \in Held : storage[s] = storage[t] => s = t

\* A slot in use holds a message that is listed, so is not erased.
LEMMA HeldIs ==
  ASSUME ModemOK
  PROVE  /\ Held \subseteq 1..Slots
         /\ \A s \in Held : /\ storage[s] \in Messages /\ storage[s] # Nobody
                            /\ storage[s] \in ToSet(order) /\ storage[s] \notin Erased
<1>1. Held \subseteq 1..Slots /\ \A s \in Held : storage[s] # Nobody /\ storage[s] \in Messages
  BY DEF Held, ModemOK, Msgs
<1>2. \A s \in Held : storage[s] \in ToSet(order)
  BY DEF ModemOK
<1> QED BY <1>1, <1>2 DEF Erased

\* An arrival moves no message.
LEMMA ArriveModem ==
  ASSUME ModemOK, Once, NEW m \in Messages, NEW s \in 1..Slots, Arrive(m, s)
  PROVE  /\ ModemOK' /\ Once' /\ Erased' = Erased /\ order' = Append(order, m)
         /\ \A x : At(x) # Nobody => At(x)' = At(x)
<1>1. /\ m \in coming /\ s \notin Held /\ coming' = coming \ {m}
      /\ storage' = [storage EXCEPT ![s] = m] /\ order' = Append(order, m)
  BY DEF Arrive
<1>2. m \in Msgs /\ m # Nobody
  BY ConstantsOK DEF ConstantsOK, Msgs
<1>3. storage \in [1..Slots -> Msgs] /\ coming \subseteq Messages /\ order \in Seq(Messages)
  BY DEF ModemOK
<1>4. storage' \in [1..Slots -> Msgs] /\ \A t \in 1..Slots : storage'[t] = IF t = s THEN m ELSE storage[t]
  BY <1>1, <1>2, <1>3
<1>5. Held' = Held \cup {s}
  BY <1>2, <1>4 DEF Held
<1>6. Held \subseteq 1..Slots /\ \A t \in Held : storage'[t] = storage[t] /\ storage[t] # Nobody
  BY <1>1, <1>4 DEF Held
<1>7. storage'[s] = m
  BY <1>4
<1>8. /\ order' \in Seq(Messages) /\ Len(order) \in Nat /\ DOMAIN order = 1..Len(order)
      /\ DOMAIN order' = 1..(Len(order) + 1) /\ order'[Len(order) + 1] = m
      /\ \A i \in 1..Len(order) : order'[i] = order[i]
  BY <1>1, <1>3
<1>9. ToSet(order') = ToSet(order) \cup {m}
  <2>1. ASSUME NEW i \in DOMAIN order' PROVE order'[i] \in ToSet(order) \cup {m}
    <3>1. CASE i = Len(order) + 1
      BY <3>1, <1>8
    <3>2. CASE i # Len(order) + 1
      BY <3>2, <1>8 DEF ToSet
    <3> QED BY <3>1, <3>2
  <2>2. ASSUME NEW i \in DOMAIN order PROVE order[i] \in ToSet(order')
    <3>1. i \in DOMAIN order' /\ order'[i] = order[i]
      BY <1>8
    <3> QED BY <3>1 DEF ToSet
  <2>3. m \in ToSet(order')
    <3>1. Len(order) + 1 \in DOMAIN order'
      BY <1>8
    <3> QED BY <3>1, <1>8 DEF ToSet
  <2> QED BY <2>1, <2>2, <2>3 DEF ToSet
<1>10. m \notin ToSet(order)
  BY <1>1 DEF Once
<1>11. ModemOK'
  <2>1. ToSet(order) = {storage[t] : t \in Held}
    BY DEF ModemOK
  <2>2. {storage'[t] : t \in Held'} = {storage[t] : t \in Held} \cup {m}
    BY <1>5, <1>6, <1>7
  <2>3. coming' \subseteq Messages
    BY <1>1, <1>3
  <2> QED BY <2>1, <2>2, <2>3, <1>4, <1>8, <1>9 DEF ModemOK
<1>12. Injective(order')
  <2> SUFFICES ASSUME NEW i \in DOMAIN order', NEW j \in DOMAIN order', order'[i] = order'[j] PROVE i = j
    BY DEF Injective
  <2>1. \A k \in 1..Len(order) : order[k] # m
    BY <1>8, <1>10 DEF ToSet
  <2>2. i \in 1..Len(order) \/ i = Len(order) + 1
    BY <1>8
  <2>3. j \in 1..Len(order) \/ j = Len(order) + 1
    BY <1>8
  <2>4. \A x, y \in 1..Len(order) : order[x] = order[y] => x = y
    BY <1>8 DEF Once, Injective
  <2> QED BY <2>1, <2>2, <2>3, <2>4, <1>8
<1>13. Once'
  <2>1. ToSet(order') \cap coming' = {}
    BY <1>1, <1>9 DEF Once
  <2>2. \A t \in Held : storage[t] \in ToSet(order)
    BY HeldIs
  <2>3. \A t, u \in Held' : storage'[t] = storage'[u] => t = u
    <3>1. \A t, u \in Held : storage[t] = storage[u] => t = u
      BY DEF Once
    <3> QED BY <3>1, <2>2, <1>5, <1>6, <1>7, <1>10
  <2> QED BY <1>12, <2>1, <2>3 DEF Once
<1>14. Erased' = Erased
  BY <1>1, <1>9 DEF Erased
<1>15. ASSUME NEW x, At(x) # Nobody PROVE At(x)' = At(x)
  <2>1. x \in Held
    BY <1>15 DEF At
  <2> QED BY <2>1, <1>5, <1>6 DEF At
<1> QED BY <1>1, <1>11, <1>13, <1>14, <1>15

\* Erasing moves no message, and erases from the listing what it erases from
\* the storage.
LEMMA EraseModem ==
  ASSUME ModemOK, Once, NEW s, Erase(s)
  PROVE  /\ ModemOK' /\ Once' /\ Erased \subseteq Erased'
         /\ Erased' = Erased => order' = order
         /\ \A x : At(x) # Nobody /\ At(x) \notin Erased' => At(x)' = At(x)
<1>1. /\ storage' = [t \in 1..Slots |-> IF t = s THEN Nobody ELSE storage[t]] /\ coming' = coming
      /\ IF s \in Held THEN \E i \in DOMAIN order : order[i] = storage[s] /\ order' = RemoveAt(order, i)
                       ELSE order' = order
  BY DEF Erase
<1>2. storage \in [1..Slots -> Msgs] /\ coming \subseteq Messages /\ order \in Seq(Messages)
  BY DEF ModemOK
<1>3. storage' \in [1..Slots -> Msgs] /\ \A t \in 1..Slots : storage'[t] = IF t = s THEN Nobody ELSE storage[t]
  BY <1>1, <1>2 DEF Msgs
<1>4. Held' = Held \ {s}
  BY <1>3 DEF Held
<1>5. Held \subseteq 1..Slots /\ \A t \in Held' : storage'[t] = storage[t]
  BY <1>3, <1>4 DEF Held
<1>6. \A t, u \in Held : storage[t] = storage[u] => t = u
  BY DEF Once
<1>7. ToSet(order) = {storage[t] : t \in Held}
  BY DEF ModemOK
<1>8. Once' /\ ModemOK' /\ Erased \subseteq Erased' /\ (Erased' = Erased => order' = order)
      /\ \A t \in Held : t # s \/ storage[t] \in Erased'
  <2>1. CASE s \notin Held
    <3>1. order' = order /\ Held' = Held
      BY <2>1, <1>1, <1>4
    <3>2. \A t \in Held : storage'[t] = storage[t] /\ t # s
      BY <2>1, <3>1, <1>5
    <3>3. {storage'[t] : t \in Held'} = {storage[t] : t \in Held}
      BY <3>1, <3>2
    <3>4. ModemOK'
      BY <3>1, <3>3, <1>1, <1>2, <1>3, <1>7 DEF ModemOK
    <3>5. Once'
      BY <3>1, <3>2, <1>1 DEF Once, Injective
    <3>6. Erased' = Erased
      BY <3>1, <1>1 DEF Erased
    <3> QED BY <3>1, <3>2, <3>4, <3>5, <3>6
  <2>2. CASE s \in Held
    <3>1. PICK i \in DOMAIN order : order[i] = storage[s] /\ order' = RemoveAt(order, i)
      BY <2>2, <1>1
    <3>2. Injective(order) /\ ToSet(order) \cap coming = {}
      BY DEF Once
    <3>3. order' \in Seq(Messages) /\ Injective(order') /\ ToSet(order') = ToSet(order) \ {storage[s]}
      BY <3>1, <3>2, <1>2, Removed
    <3>4. {storage'[t] : t \in Held'} = {storage[t] : t \in Held} \ {storage[s]}
      BY <1>4, <1>5, <1>6, <2>2
    <3>5. ModemOK'
      BY <3>3, <3>4, <1>1, <1>2, <1>3, <1>7 DEF ModemOK
    <3>6. Once'
      <4>1. \A t, u \in Held' : storage'[t] = storage'[u] => t = u
        BY <1>4, <1>5, <1>6
      <4> QED BY <4>1, <3>2, <3>3, <1>1 DEF Once
    <3>7. storage[s] \in Messages /\ storage[s] \in ToSet(order) /\ storage[s] \notin Erased
      BY <2>2, HeldIs
    <3>8. Erased' = Erased \cup {storage[s]}
      BY <3>2, <3>3, <3>7, <1>1 DEF Erased
    <3> QED BY <3>5, <3>6, <3>7, <3>8
  <2> QED BY <2>1, <2>2
<1>9. ASSUME NEW x, At(x) # Nobody, At(x) \notin Erased' PROVE At(x)' = At(x)
  <2>1. x \in Held /\ At(x) = storage[x]
    BY <1>9 DEF At
  <2>2. x # s
    BY <2>1, <1>8, <1>9
  <2> QED BY <2>1, <2>2, <1>4, <1>5 DEF At
<1> QED BY <1>8, <1>9

-----------------------------------------------------------------------------
(* The page: what its rows and its selected number still mean.              *)

\* A row listed over AT carries the slot of its message until that is erased.
ListedAt == from = "at" => \A i \in DOMAIN rows :
  rows[i].msg # Nobody /\ rows[i].msg \notin Erased => At(rows[i].index) = rows[i].msg
\* A row listed by ofono carries its place, and what stands there is its message
\* as long as nothing was erased.
ListedOfono == from = "ofono" => \A i \in DOMAIN rows :
  /\ rows[i].index = i
  /\ gone = Erased => i \in DOMAIN OfonoRows /\ OfonoRows[i].msg = rows[i].msg
\* The same of the message shown, whether picked or read.
PickedAt == source = "at" /\ shown # Nobody /\ shown \notin Erased => At(selected) = shown
PickedOfono == source = "ofono" /\ before = Erased /\ shown # Nobody =>
  selected \in DOMAIN OfonoRows /\ OfonoRows[selected].msg = shown
Page    == ListedAt /\ ListedOfono /\ PickedAt /\ PickedOfono

\* What a request was answered.
Answers == DeleteHitsShown /\ ReadShowsPicked

\* The rest of the type.
ListOK ==
  /\ from \in Sources \cup {"none"} /\ rows \in Seq(RowSet)
  /\ from = "at" => \A i \in DOMAIN rows : rows[i].index <= Slots
  /\ gone \subseteq Erased
PickOK ==
  /\ source \in Sources \cup {"none"} /\ selected \in Nat /\ shown \in Msgs /\ before \subseteq Erased
LastOK == last.got \in Msgs /\ last.want \in Msgs

LEMMA Types == TypeOK <=> ModemOK /\ escapes \in Escapes /\ ListOK /\ PickOK /\ LastOK
BY DEF TypeOK, ModemOK, ListOK, PickOK, LastOK, RowSet, Msgs

\* The inductive invariant.
IInv == ModemOK /\ Once /\ escapes \in Escapes /\ ListOK /\ PickOK /\ LastOK /\ Page /\ Answers

LEMMA Initially == Init => IInv
<1> SUFFICES ASSUME Init PROVE IInv
  OBVIOUS
<1>1. Held = {} /\ coming = Messages /\ order = <<>> /\ storage = [t \in 1..Slots |-> Nobody]
  BY DEF Init, Held
<1>2. ToSet(order) = {} /\ Erased = {}
  BY <1>1 DEF ToSet, Erased
<1>3. ModemOK
  BY <1>1, <1>2 DEF ModemOK, Msgs
<1>4. Once
  BY <1>1, <1>2 DEF Once, Injective
<1>5. ListOK /\ PickOK /\ escapes \in Escapes
  BY DEF Init, ListOK, PickOK, Msgs
<1>6. last = Did("none", "none", Nobody) /\ shown = Nobody /\ from = "none" /\ source = "none"
  BY DEF Init
<1>7. last.op = "none" /\ last.got = Nobody /\ last.want = Nobody
  BY <1>6 DEF Did
<1> QED BY <1>3, <1>4, <1>5, <1>6, <1>7 DEF IInv, LastOK, Msgs, Page, ListedAt, ListedOfono,
           PickedAt, PickedOfono, Answers, DeleteHitsShown, ReadShowsPicked

\* A step of the modem that moves nothing it keeps leaves the page right.
LEMMA PageStays ==
  ASSUME IInv, ModemOK', Erased \subseteq Erased', UNCHANGED <<escapes, list, pick>>,
         \A x : At(x) # Nobody /\ At(x) \notin Erased' => At(x)' = At(x),
         Erased' = Erased => \A i \in DOMAIN OfonoRows :
           i \in DOMAIN OfonoRows' /\ OfonoRows'[i].msg = OfonoRows[i].msg
  PROVE  ListOK' /\ PickOK' /\ Page'
<1>1. /\ rows' = rows /\ from' = from /\ gone' = gone
      /\ selected' = selected /\ shown' = shown /\ source' = source /\ before' = before
  BY DEF list, pick
<1>2. ListOK /\ PickOK /\ ListedAt /\ ListedOfono /\ PickedAt /\ PickedOfono
  BY DEF IInv, Page
<1>3. ListOK' /\ PickOK'
  BY <1>1, <1>2 DEF ListOK, PickOK
<1>4. (gone = Erased' => Erased' = Erased) /\ (before = Erased' => Erased' = Erased)
  BY <1>2 DEF ListOK, PickOK
<1>5. ListedAt'
  <2> SUFFICES ASSUME from = "at", NEW i \in DOMAIN rows, rows[i].msg # Nobody, rows[i].msg \notin Erased'
               PROVE  At(rows[i].index)' = rows[i].msg
    BY <1>1 DEF ListedAt
  <2>1. At(rows[i].index) = rows[i].msg
    BY <1>2 DEF ListedAt
  <2>2. rows'[i] = rows[i]
    BY <1>1
  <2> DEFINE x == rows[i].index
  <2>3. At(x) # Nobody /\ At(x) \notin Erased'
    BY <2>1
  <2>4. IF x \in Held' THEN storage'[x] = At(x) ELSE Nobody = At(x)
    BY <2>3 DEF At
  <2> QED BY <2>1, <2>2, <2>3, <2>4, <1>1 DEF At
<1>6. ListedOfono'
  <2> SUFFICES ASSUME from = "ofono", NEW i \in DOMAIN rows
               PROVE  /\ rows[i].index = i
                      /\ gone = Erased' => i \in DOMAIN OfonoRows' /\ OfonoRows'[i].msg = rows[i].msg
    BY <1>1 DEF ListedOfono
  <2>1. rows[i].index = i /\ (gone = Erased => i \in DOMAIN OfonoRows /\ OfonoRows[i].msg = rows[i].msg)
    BY <1>2 DEF ListedOfono
  <2> QED BY <2>1, <1>4
<1>7. PickedAt'
  <2> SUFFICES ASSUME source = "at", shown # Nobody, shown \notin Erased'
               PROVE  At(selected)' = shown
    BY <1>1 DEF PickedAt
  <2>1. At(selected) = shown
    BY <1>2 DEF PickedAt
  <2> DEFINE x == selected
  <2>2. At(x) # Nobody /\ At(x) \notin Erased'
    BY <2>1
  <2>3. IF x \in Held' THEN storage'[x] = At(x) ELSE Nobody = At(x)
    BY <2>2 DEF At
  <2> QED BY <2>1, <2>2, <2>3, <1>1 DEF At
<1>8. PickedOfono'
  <2> SUFFICES ASSUME source = "ofono", before = Erased', shown # Nobody
               PROVE  selected \in DOMAIN OfonoRows' /\ OfonoRows'[selected].msg = shown
    BY <1>1 DEF PickedOfono
  <2>1. selected \in DOMAIN OfonoRows /\ OfonoRows[selected].msg = shown
    BY <1>2, <1>4 DEF PickedOfono
  <2> QED BY <2>1, <1>4
<1> QED BY <1>3, <1>5, <1>6, <1>7, <1>8 DEF Page

\* A step of the page leaves the modem and its answers alone.
LEMMA Same ==
  ASSUME UNCHANGED modem
  PROVE  /\ Held' = Held /\ Erased' = Erased /\ OfonoRows' = OfonoRows
         /\ ModemOK' = ModemOK /\ Once' = Once
         /\ \A x : At(x)' = At(x)
<1>1. coming' = coming /\ storage' = storage /\ order' = order
  BY DEF modem
<1>2. Held' = Held
  BY <1>1 DEF Held
<1>3. OfonoRows' = OfonoRows
  <2>1. OfonoRows = ParsedOf(order)[Len(order)].rows
    BY DEF OfonoRows, OfonoParsed, ParsedOf
  <2>2. OfonoRows' = ParsedOf(order')[Len(order')].rows
    BY DEF OfonoRows, OfonoParsed, ParsedOf
  <2> QED BY <2>1, <2>2, <1>1
<1>4. \A x : At(x)' = At(x)
  BY <1>1, <1>2 DEF At
<1> QED BY <1>1, <1>2, <1>3, <1>4 DEF Erased, ModemOK, Once

LEMMA SameOrder ==
  ASSUME order' = order
  PROVE  OfonoRows' = OfonoRows
<1>1. OfonoRows = ParsedOf(order)[Len(order)].rows
  BY DEF OfonoRows, OfonoParsed, ParsedOf
<1>2. OfonoRows' = ParsedOf(order')[Len(order')].rows
  BY DEF OfonoRows, OfonoParsed, ParsedOf
<1> QED BY <1>1, <1>2

\* What readSms finds among rows of ofono has the selected number.
LEMMA FoundOfono ==
  ASSUME NEW q \in Seq(RowSet), \A i \in DOMAIN q : q[i].index = i,
         Found(q, Nobody) # Nobody
  PROVE  selected \in DOMAIN q /\ Found(q, Nobody) = q[selected].msg
<1>1. Len(q) \in Nat /\ DOMAIN q = 1..Len(q)
  OBVIOUS
<1>2. Found(q, Nobody) = IF \E i \in DOMAIN q : q[i].index = selected THEN q[Place(q, selected)].msg
                         ELSE IF selected \in DOMAIN q THEN q[selected].msg ELSE Nobody
  BY DEF Found, SelectInSeq, Place
<1>3. CASE \E i \in DOMAIN q : q[i].index = selected
  <2>1. Place(q, selected) \in DOMAIN q /\ q[Place(q, selected)].index = selected
    BY <1>1, <1>3, Placed
  <2>2. Place(q, selected) = selected
    BY <2>1
  <2> QED BY <2>1, <2>2, <1>2, <1>3
<1>4. CASE ~ \E i \in DOMAIN q : q[i].index = selected
  BY <1>2, <1>4
<1> QED BY <1>3, <1>4

LEMMA FoundListed ==
  ASSUME NEW q \in Seq(RowSet), \A i \in DOMAIN q : q[i].index = i, selected \in DOMAIN q
  PROVE  Found(q, Nobody) = q[selected].msg
<1>1. Len(q) \in Nat /\ DOMAIN q = 1..Len(q)
  OBVIOUS
<1>2. \E i \in DOMAIN q : q[i].index = selected
  OBVIOUS
<1>3. Found(q, Nobody) = q[Place(q, selected)].msg
  BY <1>2 DEF Found, SelectInSeq, Place
<1>4. Place(q, selected) \in DOMAIN q /\ q[Place(q, selected)].index = selected
  BY <1>1, <1>2, Placed
<1> QED BY <1>3, <1>4

\* What it finds in the single item of AT+CMGR is that item.
LEMMA FoundAt ==
  ASSUME NEW m
  PROVE  Found(<<Row(1, m, m, <<>>)>>, m) = m
<1> DEFINE q == <<Row(1, m, m, <<>>)>>
<1>1. Len(q) = 1 /\ DOMAIN q = 1..Len(q) /\ q[1].index = 1 /\ q[1].msg = m
  BY DEF Row
<1>2. \A i \in DOMAIN q : i = 1
  BY <1>1
<1>3. Found(q, m) = IF \E i \in DOMAIN q : q[i].index = selected THEN q[Place(q, selected)].msg
                    ELSE IF selected \in DOMAIN q THEN q[selected].msg ELSE m
  BY DEF Found, SelectInSeq, Place
<1> SUFFICES Found(q, m) = m
  OBVIOUS
<1> HIDE DEF q
<1>4. CASE \E i \in DOMAIN q : q[i].index = selected
  <2>1. Place(q, selected) \in DOMAIN q
    BY <1>1, <1>4, Placed
  <2> QED BY <2>1, <1>1, <1>2, <1>3, <1>4
<1>5. CASE ~ \E i \in DOMAIN q : q[i].index = selected
  BY <1>1, <1>2, <1>3, <1>5
<1> QED BY <1>4, <1>5

LEMMA ListStep ==
  ASSUME IInv, List
  PROVE  IInv'
<1>1. UNCHANGED <<modem, escapes, pick, last>>
  BY DEF List, Listed
<1>2. /\ Erased' = Erased /\ OfonoRows' = OfonoRows /\ ModemOK' = ModemOK /\ Once' = Once
      /\ \A x : At(x)' = At(x)
  BY <1>1, Same
<1>3. /\ selected' = selected /\ shown' = shown /\ source' = source /\ before' = before
      /\ last' = last /\ escapes' = escapes
  BY <1>1 DEF pick
<1>4. gone' = Erased /\ (\/ "ofono" \in Sources /\ rows' = OfonoRows /\ from' = "ofono"
                         \/ "at" \in Sources /\ rows' = AtRows /\ from' = "at"
                         \/ rows' = <<>> /\ from' = "none")
  BY DEF List, Listed
<1>5. ModemOK /\ Once /\ escapes \in Escapes /\ PickOK /\ LastOK /\ Page /\ Answers
  BY DEF IInv
<1>6. ModemOK' /\ Once' /\ (escapes \in Escapes)' /\ PickOK' /\ LastOK' /\ Answers'
  BY <1>2, <1>3, <1>5 DEF PickOK, LastOK, Answers, DeleteHitsShown, ReadShowsPicked
<1>7. PickedAt' /\ PickedOfono'
  <2>1. Held' = Held /\ storage' = storage
    BY <1>1, Same DEF modem
  <2>2. At(selected)' = At(selected)
    BY <2>1, <1>3 DEF At
  <2> QED BY <2>2, <1>2, <1>3, <1>5 DEF Page, PickedAt, PickedOfono
<1>8. ListOK' /\ ListedAt' /\ ListedOfono'
  <2>1. CASE "ofono" \in Sources /\ rows' = OfonoRows /\ from' = "ofono"
    <3>1. OfonoRows \in Seq(RowSet) /\ \A i \in DOMAIN OfonoRows : OfonoRows[i].index = i
      BY <1>5, OfonoRowsOK DEF ModemOK
    <3>2. ListOK' /\ ListedAt'
      BY <2>1, <3>1, <1>2, <1>4 DEF ListOK, ListedAt
    <3>3. ListedOfono'
      BY <2>1, <3>1, <1>2 DEF ListedOfono
    <3> QED BY <3>2, <3>3
  <2>2. CASE "at" \in Sources /\ rows' = AtRows /\ from' = "at"
    <3>1. AtRows \in Seq(AtRowSet)
      BY <1>5, AtRowsOK DEF ModemOK, Storage
    <3>2. Len(AtRows) \in Nat /\ DOMAIN AtRows = 1..Len(AtRows) /\ \A i \in DOMAIN AtRows : AtRows[i] \in AtRowSet
      BY <3>1
    <3>3. \A i \in DOMAIN AtRows : /\ AtRows[i] \in RowSet /\ AtRows[i].index <= Slots
                                   /\ AtRows[i].msg # Nobody => At(AtRows[i].index) = AtRows[i].msg
      BY <3>2 DEF AtRowSet
    <3>4. AtRows \in Seq(RowSet)
      <4> DEFINE q == AtRows
      <4>1. q \in Seq(AtRowSet)
        BY <3>1
      <4> HIDE DEF q
      <4>2. AtRowSet \subseteq RowSet
        BY DEF AtRowSet
      <4>3. q \in Seq(RowSet)
        BY <4>1, <4>2
      <4> QED BY <4>3 DEF q
    <3>5. ListOK' /\ ListedOfono'
      BY <2>2, <3>3, <3>4, <1>2, <1>4 DEF ListOK, ListedOfono
    <3>6. ListedAt'
      <4> SUFFICES ASSUME NEW i \in DOMAIN AtRows, AtRows[i].msg # Nobody
                   PROVE  At(rows[i].index)' = AtRows[i].msg
        BY <2>2 DEF ListedAt
      <4> DEFINE x == AtRows[i].index
      <4>1. At(x) = AtRows[i].msg
        BY <3>3
      <4>2. rows'[i].index = x
        BY <2>2
      <4>3. Held' = Held /\ storage' = storage
        BY <1>1, Same DEF modem
      <4>4. At(rows[i].index)' = At(x)
        BY <4>2, <4>3 DEF At
      <4> QED BY <4>1, <4>4
    <3> QED BY <3>5, <3>6
  <2>3. CASE rows' = <<>> /\ from' = "none"
    BY <2>3, <1>2, <1>4 DEF ListOK, ListedAt, ListedOfono
  <2> QED BY <1>4, <2>1, <2>2, <2>3
<1> QED BY <1>6, <1>7, <1>8 DEF IInv, Page

LEMMA PickStep ==
  ASSUME IInv, NEW i \in DOMAIN rows, Pick(i)
  PROVE  IInv'
<1> DEFINE k == rows[i].index
           j == Place(rows, k)
<1>1. /\ selected' = k /\ shown' = rows[j].msg /\ source' = from /\ before' = gone
      /\ UNCHANGED <<modem, escapes, list, last>>
  BY DEF Pick, SelectInSeq, Place
<1>2. rows' = rows /\ from' = from /\ gone' = gone /\ escapes' = escapes /\ last' = last
  BY <1>1 DEF list
<1>3. /\ Erased' = Erased /\ OfonoRows' = OfonoRows /\ ModemOK' = ModemOK /\ Once' = Once
      /\ storage' = storage /\ Held' = Held
  BY <1>1, Same DEF modem
<1>4. ModemOK /\ Once /\ escapes \in Escapes /\ ListOK /\ PickOK /\ LastOK /\ ListedAt /\ ListedOfono /\ Answers
  BY DEF IInv, Page
<1>5. rows \in Seq(RowSet)
  BY <1>4 DEF ListOK
<1>6. Len(rows) \in Nat /\ DOMAIN rows = 1..Len(rows)
  BY <1>5
<1>7. j \in DOMAIN rows /\ rows[j].index = k
  BY <1>6, Placed
<1> HIDE DEF j
<1>8. rows[j] \in RowSet /\ rows[i] \in RowSet
  BY <1>5, <1>6, <1>7
<1>9. rows[j].msg \in Msgs /\ k \in Nat
  BY <1>8 DEF RowSet, Numbers
<1>10. ListOK' /\ PickOK' /\ LastOK' /\ (escapes \in Escapes)' /\ Answers'
  BY <1>1, <1>2, <1>3, <1>4, <1>9 DEF ListOK, PickOK, LastOK, Answers, DeleteHitsShown, ReadShowsPicked
<1>11. ListedAt' /\ ListedOfono'
  <2>1. ListedOfono'
    BY <1>2, <1>3, <1>4 DEF ListedOfono
  <2>2. ListedAt'
    BY <1>2, <1>3, <1>4 DEF ListedAt, At
  <2> QED BY <2>1, <2>2
<1> HIDE DEF k
<1>12. PickedAt'
  <2> SUFFICES ASSUME from = "at", rows[j].msg # Nobody, rows[j].msg \notin Erased
               PROVE  At(selected)' = rows[j].msg
    BY <1>1, <1>3 DEF PickedAt
  <2>1. At(k) = rows[j].msg
    BY <1>4, <1>7 DEF ListedAt
  <2> QED BY <2>1, <1>1, <1>3 DEF At
<1>13. PickedOfono'
  <2> SUFFICES ASSUME from = "ofono", gone = Erased
               PROVE  k \in DOMAIN OfonoRows /\ OfonoRows[k].msg = rows[j].msg
    BY <1>1, <1>3 DEF PickedOfono
  <2> QED BY <1>4, <1>7 DEF ListedOfono
<1> QED BY <1>3, <1>4, <1>10, <1>11, <1>12, <1>13 DEF IInv, Page

LEMMA ReadStep ==
  ASSUME IInv, Read
  PROVE  IInv'
<1> DEFINE m == AtItem(selected)
<1>1. PICK via, got :
        /\ ReadDone(via, got)
        /\ \/ via = "ofono" /\ "ofono" \in Sources /\ got = Found(OfonoRows, Nobody)
           \/ via = "at" /\ "at" \in Sources /\ got = Found(<<Row(1, m, m, <<>>)>>, m)
  BY DEF Read
<1>2. /\ shown' = got /\ source' = via /\ before' = Erased /\ last' = Did("read", via, got)
      /\ UNCHANGED <<modem, escapes, list, selected>>
  BY <1>1 DEF ReadDone
<1>3. /\ rows' = rows /\ from' = from /\ gone' = gone /\ escapes' = escapes /\ selected' = selected
  BY <1>2 DEF list
<1>4. /\ Erased' = Erased /\ OfonoRows' = OfonoRows /\ ModemOK' = ModemOK /\ Once' = Once
      /\ storage' = storage /\ Held' = Held
  BY <1>2, Same DEF modem
<1>5. ModemOK /\ Once /\ escapes \in Escapes /\ ListOK /\ PickOK /\ LastOK
      /\ ListedAt /\ ListedOfono /\ PickedAt /\ PickedOfono /\ Answers
  BY DEF IInv, Page
<1>6. OfonoRows \in Seq(RowSet) /\ \A i \in DOMAIN OfonoRows : OfonoRows[i].index = i
  BY <1>5, OfonoRowsOK DEF ModemOK
<1>7. via = "ofono" /\ got # Nobody => selected \in DOMAIN OfonoRows /\ got = OfonoRows[selected].msg
  BY <1>1, <1>6, FoundOfono
<1>8. via = "at" => got = m
  BY <1>1, FoundAt
<1>9. At(selected) \in Msgs /\ Nobody \in Msgs
  <2>1. selected \in Held => storage[selected] \in Messages
    BY <1>5, HeldIs
  <2> QED BY <2>1 DEF At, Msgs
<1>10. via \in Sources /\ got \in Msgs
  <2>1. CASE via = "at"
    BY <2>1, <1>1, <1>8, <1>9 DEF AtItem
  <2>2. CASE via = "ofono"
    <3>1. ASSUME selected \in DOMAIN OfonoRows PROVE OfonoRows[selected].msg \in Msgs
      <4>1. OfonoRows[selected] \in RowSet
        BY <3>1, <1>6
      <4> QED BY <4>1 DEF RowSet
    <3> QED BY <2>2, <3>1, <1>1, <1>7, <1>9
  <2> QED BY <2>1, <2>2, <1>1
<1>11. last'.op = "read" /\ last'.via = via /\ last'.got = got /\ last'.want = shown
       /\ last'.source = source /\ last'.moved = Moved
  BY <1>2 DEF Did
<1>12. ListOK' /\ PickOK' /\ LastOK' /\ (escapes \in Escapes)'
  BY <1>2, <1>3, <1>4, <1>5, <1>10, <1>11 DEF ListOK, PickOK, LastOK
<1>13. ListedAt' /\ ListedOfono'
  <2>1. ListedOfono'
    BY <1>3, <1>4, <1>5 DEF ListedOfono
  <2>2. ListedAt'
    BY <1>3, <1>4, <1>5 DEF ListedAt, At
  <2> QED BY <2>1, <2>2
<1>14. PickedAt'
  <2>1. via = "at" /\ got # Nobody => At(selected) = got
    BY <1>8 DEF AtItem
  <2>2. At(selected)' = At(selected)
    BY <1>3, <1>4 DEF At
  <2> QED BY <2>1, <2>2, <1>2 DEF PickedAt
<1>15. PickedOfono'
  BY <1>2, <1>3, <1>4, <1>7 DEF PickedOfono
<1>16. Answers'
  <2>1. DeleteHitsShown'
    BY <1>11 DEF DeleteHitsShown
  <2>2. ReadShowsPicked'
    <3> SUFFICES ASSUME source = via, ~ Moved, escapes PROVE got = shown
      BY <1>3, <1>11 DEF ReadShowsPicked
    <3>1. shown # Nobody /\ (source = "at" => shown \notin Erased) /\ (source = "ofono" => before = Erased)
      BY DEF Moved
    <3>2. CASE via = "at"
      <4>1. At(selected) = shown
        BY <3>1, <3>2, <1>5 DEF PickedAt
      <4> QED BY <4>1, <3>2, <1>8 DEF AtItem
    <3>3. CASE via = "ofono"
      <4>1. selected \in DOMAIN OfonoRows /\ OfonoRows[selected].msg = shown
        BY <3>1, <3>3, <1>5 DEF PickedOfono
      <4>2. got # Nobody => got = shown
        BY <4>1, <3>3, <1>7
      <4>3. Found(OfonoRows, Nobody) = shown
        BY <4>1, <1>6, FoundListed
      <4> QED BY <4>3, <3>3, <1>1
    <3> QED BY <3>2, <3>3, <1>1
  <2> QED BY <2>1, <2>2 DEF Answers
<1> QED BY <1>4, <1>5, <1>12, <1>13, <1>14, <1>15, <1>16 DEF IInv, Page

LEMMA DeleteStep ==
  ASSUME IInv, NEW confirm, Delete(confirm)
  PROVE  IInv'
<1>1. /\ Erase(selected) /\ last' = Did("delete", "at", At(selected)) /\ selected > 0
      /\ UNCHANGED <<escapes, list, pick>>
  BY DEF Delete, Slot
<1>2. ModemOK /\ Once /\ escapes \in Escapes /\ PickOK /\ PickedAt
  BY DEF IInv, Page
<1>3. /\ ModemOK' /\ Once' /\ Erased \subseteq Erased'
      /\ Erased' = Erased => order' = order
      /\ \A x : At(x) # Nobody /\ At(x) \notin Erased' => At(x)' = At(x)
  BY <1>1, <1>2, EraseModem
<1>4. Erased' = Erased => \A i \in DOMAIN OfonoRows : i \in DOMAIN OfonoRows' /\ OfonoRows'[i].msg = OfonoRows[i].msg
  BY <1>3, SameOrder
<1>5. ListOK' /\ PickOK' /\ Page'
  BY <1>1, <1>3, <1>4, PageStays
<1>6. last'.op = "delete" /\ last'.got = At(selected) /\ last'.want = shown
      /\ last'.source = source /\ last'.moved = Moved
  BY <1>1 DEF Did
<1>7. At(selected) \in Msgs
  <2>1. selected \in Held => storage[selected] \in Messages
    BY <1>2, HeldIs
  <2> QED BY <2>1 DEF At, Msgs
<1>8. LastOK'
  BY <1>2, <1>6, <1>7 DEF LastOK, PickOK
<1>9. Answers'
  <2>1. DeleteHitsShown'
    <3> SUFFICES ASSUME source = "at", ~ Moved PROVE At(selected) = shown
      BY <1>6 DEF DeleteHitsShown
    <3>1. shown # Nobody /\ shown \notin Erased
      BY DEF Moved
    <3> QED BY <3>1, <1>2 DEF PickedAt
  <2>2. ReadShowsPicked'
    BY <1>6 DEF ReadShowsPicked
  <2> QED BY <2>1, <2>2 DEF Answers
<1>10. escapes' = escapes
  BY <1>1
<1> QED BY <1>2, <1>3, <1>5, <1>8, <1>9, <1>10 DEF IInv

LEMMA ErasedStep ==
  ASSUME IInv, NEW s \in 1..Slots, ErasedElsewhere(s)
  PROVE  IInv'
<1>1. Erase(s) /\ UNCHANGED <<escapes, list, pick, last>>
  BY DEF ErasedElsewhere
<1>2. ModemOK /\ Once /\ escapes \in Escapes /\ LastOK /\ Answers
  BY DEF IInv
<1>3. /\ ModemOK' /\ Once' /\ Erased \subseteq Erased'
      /\ Erased' = Erased => order' = order
      /\ \A x : At(x) # Nobody /\ At(x) \notin Erased' => At(x)' = At(x)
  BY <1>1, <1>2, EraseModem
<1>4. Erased' = Erased => \A i \in DOMAIN OfonoRows : i \in DOMAIN OfonoRows' /\ OfonoRows'[i].msg = OfonoRows[i].msg
  BY <1>3, SameOrder
<1>5. ListOK' /\ PickOK' /\ Page'
  BY <1>1, <1>3, <1>4, PageStays
<1>6. last' = last /\ escapes' = escapes
  BY <1>1
<1>7. LastOK' /\ Answers'
  BY <1>2, <1>6 DEF LastOK, Answers, DeleteHitsShown, ReadShowsPicked
<1> QED BY <1>2, <1>3, <1>5, <1>6, <1>7 DEF IInv

LEMMA ArriveStep ==
  ASSUME IInv, NEW m \in Messages, NEW s \in 1..Slots, Arrive(m, s)
  PROVE  IInv'
<1>1. UNCHANGED <<escapes, list, pick, last>>
  BY DEF Arrive
<1>2. ModemOK /\ Once /\ escapes \in Escapes /\ LastOK /\ Answers
  BY DEF IInv
<1>3. /\ ModemOK' /\ Once' /\ Erased' = Erased /\ order' = Append(order, m)
      /\ \A x : At(x) # Nobody => At(x)' = At(x)
  BY <1>2, ArriveModem
<1>4. \A i \in DOMAIN OfonoRows : i \in DOMAIN OfonoRows' /\ OfonoRows'[i].msg = OfonoRows[i].msg
  BY <1>2, <1>3, OfonoRowsGrow DEF ModemOK
<1>5. ListOK' /\ PickOK' /\ Page'
  BY <1>1, <1>3, <1>4, PageStays
<1>6. last' = last /\ escapes' = escapes
  BY <1>1
<1>7. LastOK' /\ Answers'
  BY <1>2, <1>6 DEF LastOK, Answers, DeleteHitsShown, ReadShowsPicked
<1> QED BY <1>2, <1>3, <1>5, <1>6, <1>7 DEF IInv

LEMMA Stutter ==
  ASSUME IInv, UNCHANGED vars
  PROVE  IInv'
<1>1. UNCHANGED <<modem, escapes, list, pick, last>>
  BY DEF vars
<1>2. ModemOK /\ Once /\ escapes \in Escapes /\ LastOK /\ Answers
  BY DEF IInv
<1>3. ModemOK' /\ Once' /\ Erased' = Erased /\ OfonoRows' = OfonoRows /\ \A x : At(x)' = At(x)
  BY <1>1, <1>2, Same
<1>4. ListOK' /\ PickOK' /\ Page'
  BY <1>1, <1>3, PageStays
<1>5. last' = last /\ escapes' = escapes
  BY <1>1
<1>6. LastOK' /\ Answers'
  BY <1>2, <1>5 DEF LastOK, Answers, DeleteHitsShown, ReadShowsPicked
<1> QED BY <1>2, <1>3, <1>4, <1>5, <1>6 DEF IInv

\* Every action keeps the invariant.
LEMMA Inductive == Spec => []IInv
<1>1. IInv /\ [Next]_vars => IInv'
  <2> SUFFICES ASSUME IInv, [Next]_vars PROVE IInv'
    OBVIOUS
  <2>1. ASSUME NEW m \in Messages, NEW s \in 1..Slots, Arrive(m, s) PROVE IInv'
    BY <2>1, ArriveStep
  <2>2. ASSUME NEW s \in 1..Slots, ErasedElsewhere(s) PROVE IInv'
    BY <2>2, ErasedStep
  <2>3. CASE List
    BY <2>3, ListStep
  <2>4. ASSUME NEW i \in DOMAIN rows, Pick(i) PROVE IInv'
    BY <2>4, PickStep
  <2>5. CASE Read
    BY <2>5, ReadStep
  <2>6. ASSUME NEW confirm \in Confirms, Delete(confirm) PROVE IInv'
    BY <2>6, DeleteStep
  <2>7. CASE UNCHANGED vars
    BY <2>7, Stutter
  <2> QED BY <2>1, <2>2, <2>3, <2>4, <2>5, <2>6, <2>7 DEF Next
<1> QED BY Initially, <1>1, PTL DEF Spec

-----------------------------------------------------------------------------
(* What ofono prints for a message becomes the row of that message.         *)

\* The lines of a property.
LEMMA PropertyLines ==
  ASSUME NEW m, NEW key, NEW text \in Seq(Looks), NEW S,
         Property(m, key, text) \in Seq(S)
  PROVE  /\ Len(Rest(text)) \in Nat /\ Rest(text) \in Seq(Looks)
         /\ Len(Property(m, key, text)) = Len(Rest(text)) + 3
         /\ Property(m, key, text)[1] = Line(key, m, <<>>)
         /\ Property(m, key, text)[2] = Line("value", m, First(text))
         /\ \A i \in 1..Len(Rest(text)) :
              Property(m, key, text)[i + 2] = Line(Rest(text)[i], Nobody, <<Rest(text)[i]>>)
         /\ Property(m, key, text)[Len(Rest(text)) + 3] = Line("close", m, <<>>)
<1> DEFINE k == Line(key, m, <<>>)
           v == Line("value", m, First(text))
           R == Rest(text)
           rest == [i \in DOMAIN R |-> Line(R[i], Nobody, <<R[i]>>)]
           c == Line("close", m, <<>>)
<1>1. R \in Seq(Looks) /\ Len(R) \in Nat /\ DOMAIN R = 1..Len(R)
  BY DEF Rest
<1>2. Property(m, key, text) = <<k, v>> \o rest \o <<c>>
  BY DEF Property
<1>3. \A i \in 1..Len(R) : rest[i] = Line(R[i], Nobody, <<R[i]>>)
  BY <1>1
<1>4. DOMAIN rest = 1..Len(R)
  BY <1>1
<1> DEFINE A == {k, v, c} \cup {rest[i] : i \in 1..Len(R)}
<1>5. rest \in Seq(A) /\ Len(rest) = Len(R)
  <2>1. \A i \in 1..Len(R) : rest[i] \in A
    OBVIOUS
  <2>2. rest = [i \in 1..Len(R) |-> rest[i]]
    BY <1>4
  <2> HIDE DEF rest, A, R
  <2>3. rest \in [1..Len(R) -> A]
    BY <2>1, <2>2
  <2> QED BY <2>3, <1>1
<1>6. k \in A /\ v \in A /\ c \in A
  OBVIOUS
<1> HIDE DEF k, v, c, rest, A
<1> DEFINE q == <<k, v>> \o rest \o <<c>>
<1>7. /\ Len(q) = Len(R) + 3 /\ q[1] = k /\ q[2] = v /\ q[Len(R) + 3] = c
      /\ \A i \in 1..Len(R) : q[i + 2] = rest[i]
  <2> HIDE DEF R
  <2> DEFINE h == <<k, v>> \o rest
  <2>1. h \in Seq(A) /\ Len(h) = Len(R) + 2 /\ h[1] = k /\ h[2] = v /\ \A i \in 1..Len(R) : h[i + 2] = rest[i]
    BY <1>1, <1>5, <1>6
  <2>2. q = h \o <<c>>
    OBVIOUS
  <2> HIDE DEF h, q
  <2>3. Len(q) = Len(R) + 3 /\ q[Len(R) + 3] = c /\ \A i \in 1..(Len(R) + 2) : q[i] = h[i]
    BY <2>1, <2>2, <1>1, <1>6
  <2> QED BY <2>1, <2>3, <1>1
<1>8. Property(m, key, text) = q
  BY <1>2
<1> HIDE DEF q
<1> QED BY <1>1, <1>3, <1>7, <1>8 DEF k, v, c

\* The lines of a message.
LEMMA PrintedLines ==
  ASSUME NEW m \in Messages, NEW R, R = Rest(Text[m])
  PROVE  /\ R \in Seq(Looks) /\ Len(R) \in Nat /\ Len(Printed(m)) = Len(R) + 7
         /\ Printed(m)[1] = Line("path", m, <<>>)
         /\ Printed(m)[2] = Line("text", m, <<>>)
         /\ Printed(m)[3] = Line("value", m, First(Text[m]))
         /\ \A i \in 1..Len(R) : Printed(m)[i + 3] = Line(R[i], Nobody, <<R[i]>>)
         /\ Printed(m)[Len(R) + 4] = Line("close", m, <<>>)
         /\ Printed(m)[Len(R) + 5] = Line("sender", m, <<>>)
         /\ Printed(m)[Len(R) + 6] = Line("value", m, <<>>)
         /\ Printed(m)[Len(R) + 7] = Line("close", m, <<>>)
<1> DEFINE p == Line("path", m, <<>>)
           t == Property(m, "text", Text[m])
           s == Property(m, "sender", <<>>)
           A == OfonoLines \cup {p}
<1>1. Text[m] \in Seq(Looks) /\ <<>> \in Seq(Looks) /\ Rest(<<>>) = <<>> /\ First(<<>>) = <<>>
  BY ConstantsOK DEF ConstantsOK, Rest, First
<1>2. p \in OfonoLines /\ t \in Seq(OfonoLines) /\ s \in Seq(OfonoLines)
  BY <1>1, PrintedParts DEF KeyLines
<1>3. /\ R \in Seq(Looks) /\ Len(R) \in Nat /\ Len(t) = Len(R) + 3
      /\ t[1] = Line("text", m, <<>>) /\ t[2] = Line("value", m, First(Text[m]))
      /\ \A i \in 1..Len(R) : t[i + 2] = Line(R[i], Nobody, <<R[i]>>)
      /\ t[Len(R) + 3] = Line("close", m, <<>>)
  BY <1>1, <1>2, PropertyLines
<1>4. Len(s) = 3 /\ s[1] = Line("sender", m, <<>>) /\ s[2] = Line("value", m, <<>>) /\ s[3] = Line("close", m, <<>>)
  <2>1. ASSUME NEW z \in Seq(Looks)
        PROVE  /\ Len(Property(m, "sender", z)) = Len(Rest(z)) + 3
               /\ Property(m, "sender", z)[1] = Line("sender", m, <<>>)
               /\ Property(m, "sender", z)[2] = Line("value", m, First(z))
               /\ Property(m, "sender", z)[Len(Rest(z)) + 3] = Line("close", m, <<>>)
    <3>1. Property(m, "sender", z) \in Seq(OfonoLines)
      BY PrintedParts DEF KeyLines
    <3> QED BY <3>1, PropertyLines
  <2>2. Len(Rest(<<>>)) + 3 = 3
    BY <1>1
  <2>3. /\ Len(s) = Len(Rest(<<>>)) + 3 /\ s[1] = Line("sender", m, <<>>)
        /\ s[2] = Line("value", m, First(<<>>)) /\ s[Len(Rest(<<>>)) + 3] = Line("close", m, <<>>)
    BY <2>1, <1>1
  <2> HIDE DEF s
  <2> QED BY <2>2, <2>3, <1>1
<1>5. Printed(m) = <<p>> \o t \o s
  BY DEF Printed
<1> DEFINE h == <<p>> \o t
           q == h \o s
           n == Len(R)
<1>6. Printed(m) = q
  BY <1>5
<1> HIDE DEF p, t, s, A
<1>7. h \in Seq(OfonoLines) /\ Len(h) = n + 4 /\ h[1] = p /\ \A i \in 1..(n + 3) : h[i + 1] = t[i]
  BY <1>2, <1>3
<1>8. n \in Nat
  BY <1>3
<1> HIDE DEF h, n
<1>9. /\ Len(q) = n + 7 /\ \A i \in 1..(n + 4) : q[i] = h[i]
      /\ q[n + 5] = s[1] /\ q[n + 6] = s[2] /\ q[n + 7] = s[3]
  <2>1. h \in Seq(OfonoLines) /\ s \in Seq(OfonoLines) /\ Len(h) = n + 4 /\ Len(s) = 3
    BY <1>2, <1>4, <1>7
  <2>2. Len(q) = Len(h) + Len(s)
    BY <2>1, ConcatProperties
  <2>3. \A i \in 1..(Len(h) + Len(s)) : q[i] = IF i <= Len(h) THEN h[i] ELSE s[i - Len(h)]
    BY <2>1, ConcatProperties
  <2> HIDE DEF q
  <2>4. \A i \in 1..(n + 7) : q[i] = IF i <= n + 4 THEN h[i] ELSE s[i - (n + 4)]
    BY <2>1, <2>3, <1>8
  <2>5. (n + 5) - (n + 4) = 1 /\ (n + 6) - (n + 4) = 2 /\ (n + 7) - (n + 4) = 3
        /\ {n + 5, n + 6, n + 7} \subseteq 1..(n + 7) /\ ~ (n + 5 <= n + 4) /\ ~ (n + 6 <= n + 4) /\ ~ (n + 7 <= n + 4)
    BY <1>8
  <2>6. \A i \in 1..(n + 4) : i \in 1..(n + 7) /\ i <= n + 4
    BY <1>8
  <2>7. q[n + 5] = s[1] /\ q[n + 6] = s[2] /\ q[n + 7] = s[3]
    <3>1. q[n + 5] = s[(n + 5) - (n + 4)] /\ q[n + 6] = s[(n + 6) - (n + 4)] /\ q[n + 7] = s[(n + 7) - (n + 4)]
      BY <2>4, <2>5
    <3> QED BY <3>1, <2>5
  <2> QED BY <2>1, <2>2, <2>4, <2>6, <2>7, <1>8
<1> HIDE DEF q
<1>10. q[1] = p /\ q[2] = t[1] /\ q[3] = t[2] /\ q[n + 4] = t[n + 3] /\ \A i \in 1..n : q[i + 3] = t[i + 2]
  <2>1. \A i \in 1..(n + 3) : i + 1 \in 1..(n + 4) /\ q[i + 1] = t[i]
    BY <1>7, <1>9, <1>8
  <2>2. 1 \in 1..(n + 3) /\ 2 \in 1..(n + 3) /\ n + 3 \in 1..(n + 3) /\ 1 \in 1..(n + 4)
        /\ 1 + 1 = 2 /\ 2 + 1 = 3 /\ (n + 3) + 1 = n + 4
    BY <1>8
  <2>3. ASSUME NEW i \in 1..n PROVE q[i + 3] = t[i + 2]
    <3>1. i + 2 \in 1..(n + 3) /\ (i + 2) + 1 = i + 3
      BY <1>8
    <3>2. q[(i + 2) + 1] = t[i + 2]
      BY <2>1, <3>1
    <3> QED BY <3>1, <3>2
  <2> QED BY <2>1, <2>2, <2>3, <1>7, <1>9
<1> QED BY <1>3, <1>4, <1>6, <1>9, <1>10 DEF n, p

\* What a line that is still in the capture does to the rows and the key.
LEMMA Effect ==
  ASSUME NEW x \in OfonoStates, x.left # 0, NEW line \in OfonoLines, NEW y, y = OfonoLine(x, line)
  PROVE  \/ y.rows = x.rows /\ (y.key = "closed" => x.key = "closed" \/ line.tag = "bare")
                            /\ (y.key = "text" => x.key = "text" \/ line.tag = "text")
         \/ /\ line.tag = "path" /\ y.key = "none"
            /\ y.rows = Append(x.rows, Row(Len(x.rows) + 1, line.msg, Nobody, <<>>))
         \/ /\ line.tag = "value" /\ x.key = "text" /\ y.key = "none"
            /\ y.rows = [x.rows EXCEPT ![Len(x.rows)] = [x.rows[Len(x.rows)] EXCEPT !.body = line.about]]
         \/ /\ line.tag = "value" /\ x.key = "sender" /\ y.key = "none"
            /\ y.rows = [x.rows EXCEPT ![Len(x.rows)] = [x.rows[Len(x.rows)] EXCEPT !.sender = line.msg]]
<1> DEFINE z == Taken(x, line)
<1>1. y.rows = z.rows /\ y.key = z.key
  BY OfonoLineStays
<1>2. x.key \in KeyLines \cup {"none", "closed"}
  BY DEF OfonoStates, Keys
<1> HIDE DEF z
<1>3. ASSUME NEW k, z = [x EXCEPT !.key = k] PROVE z.rows = x.rows /\ z.key = k
  BY <1>3 DEF OfonoStates
<1>4. CASE line.tag = "path"
  <2>1. z = [x EXCEPT !.rows = Append(x.rows, Row(Len(x.rows) + 1, line.msg, Nobody, <<>>)), !.key = "none"]
    BY <1>4 DEF Taken, KeyLines, z
  <2>2. z.rows = Append(x.rows, Row(Len(x.rows) + 1, line.msg, Nobody, <<>>)) /\ z.key = "none"
    BY <2>1 DEF OfonoStates
  <2> QED BY <2>2, <1>1, <1>4 DEF KeyLines
<1>5. CASE line.tag = "bare"
  <2>1. z = [x EXCEPT !.key = "closed"]
    BY <1>5 DEF Taken, KeyLines, z
  <2> QED BY <2>1, <1>1, <1>3, <1>5 DEF KeyLines
<1>6. CASE line.tag \in KeyLines /\ x.key = "none"
  <2>1. z = [x EXCEPT !.key = line.tag]
    BY <1>6 DEF Taken, KeyLines, z
  <2> QED BY <2>1, <1>1, <1>3, <1>6 DEF KeyLines
<1>7. CASE line.tag = "value" /\ x.key = "text"
  <2>1. z = [x EXCEPT !.rows[Len(x.rows)].body = line.about, !.key = "none"]
    BY <1>7 DEF Taken, KeyLines, z
  <2>2. /\ z.rows = [x.rows EXCEPT ![Len(x.rows)] = [x.rows[Len(x.rows)] EXCEPT !.body = line.about]]
        /\ z.key = "none"
    BY <2>1 DEF OfonoStates
  <2> QED BY <2>2, <1>1, <1>7 DEF KeyLines
<1>8. CASE line.tag = "value" /\ x.key = "sender"
  <2>1. z = [x EXCEPT !.rows[Len(x.rows)].sender = line.msg, !.key = "none"]
    BY <1>8 DEF Taken, KeyLines, z
  <2>2. /\ z.rows = [x.rows EXCEPT ![Len(x.rows)] = [x.rows[Len(x.rows)] EXCEPT !.sender = line.msg]]
        /\ z.key = "none"
    BY <2>1 DEF OfonoStates
  <2> QED BY <2>2, <1>1, <1>8 DEF KeyLines
<1>9. CASE line.tag = "value" /\ x.key = "key"
  <2>1. z = [x EXCEPT !.key = "none"]
    BY <1>9 DEF Taken, KeyLines, z
  <2> QED BY <2>1, <1>1, <1>3, <1>9 DEF KeyLines
<1>10. CASE line.tag = "token" /\ x.key \in KeyLines
  <2>1. z = [x EXCEPT !.key = "none", !.json = "broken"]
    BY <1>10 DEF Taken, KeyLines, z
  <2>2. z.rows = x.rows /\ z.key = "none"
    BY <2>1 DEF OfonoStates
  <2> QED BY <2>2, <1>1, <1>10 DEF KeyLines
<1>11. CASE line.tag = "close" /\ x.key = "closed"
  <2>1. z = x
    BY <1>11 DEF Taken, KeyLines, Closed, z
  <2> QED BY <2>1, <1>1, <1>11 DEF KeyLines
<1>12. CASE line.tag = "close" /\ x.key # "closed"
  <2>1. z = [x EXCEPT !.key = "none"]
    BY <1>12 DEF Taken, KeyLines, Closed, z
  <2> QED BY <2>1, <1>1, <1>3, <1>12 DEF KeyLines
<1>13. CASE /\ line.tag \notin {"path", "bare", "close"}
            /\ ~ (line.tag \in KeyLines /\ x.key = "none")
            /\ ~ (line.tag = "value" /\ x.key \in KeyLines)
            /\ ~ (line.tag = "token" /\ x.key \in KeyLines)
  <2>1. z = x
    BY <1>13 DEF Taken, KeyLines, z
  <2> QED BY <2>1, <1>1, <1>13 DEF KeyLines
<1> QED BY <1>4, <1>5, <1>6, <1>7, <1>8, <1>9, <1>10, <1>11, <1>12, <1>13 DEF KeyLines

LEMMA EffectOfKey ==
  ASSUME NEW x \in OfonoStates, x.left # 0, NEW line \in OfonoLines, NEW y, y = OfonoLine(x, line),
         line.tag \in KeyLines
  PROVE  y.rows = x.rows /\ y.key = IF x.key = "none" THEN line.tag ELSE x.key
<1> DEFINE z == Taken(x, line)
<1>1. y.rows = z.rows /\ y.key = z.key
  BY OfonoLineStays
<1> HIDE DEF z
<1>2. CASE x.key = "none"
  <2>1. z = [x EXCEPT !.key = line.tag]
    BY <1>2 DEF Taken, KeyLines, z
  <2>2. z.rows = x.rows /\ z.key = line.tag
    BY <2>1 DEF OfonoStates
  <2> QED BY <2>2, <1>1, <1>2
<1>3. CASE x.key # "none"
  <2>1. z = x
    BY <1>3 DEF Taken, KeyLines, z
  <2> QED BY <2>1, <1>1, <1>3
<1> QED BY <1>2, <1>3

LEMMA EffectOfClose ==
  ASSUME NEW x \in OfonoStates, x.left # 0, NEW line \in OfonoLines, NEW y, y = OfonoLine(x, line),
         line.tag = "close"
  PROVE  y.rows = x.rows /\ y.key = IF x.key = "closed" THEN "closed" ELSE "none"
<1> DEFINE z == Taken(x, line)
<1>1. y.rows = z.rows /\ y.key = z.key
  BY OfonoLineStays
<1> HIDE DEF z
<1>2. CASE x.key = "closed"
  <2>1. z = x
    BY <1>2 DEF Taken, KeyLines, Closed, z
  <2> QED BY <2>1, <1>1, <1>2
<1>3. CASE x.key # "closed"
  <2>1. z = [x EXCEPT !.key = "none"]
    BY <1>3 DEF Taken, KeyLines, Closed, z
  <2>2. z.rows = x.rows /\ z.key = "none"
    BY <2>1 DEF OfonoStates
  <2> QED BY <2>2, <1>1, <1>3
<1> QED BY <1>2, <1>3

\* No further line of the text looks like a path, or like a key Text and a value.
One(m)   == ToSet(Rest(Text[m])) \cap {"path", "bare"} = {}
Plain(m) == ~ ({"text", "value"} \subseteq ToSet(Rest(Text[m])))

\* The rows of a as they were, and after them, in place j, the row of m.
Old(a, x) ==
  Len(a.rows) <= Len(x.rows) /\ \A k \in 1..Len(a.rows) : x.rows[k] = a.rows[k]
Own(j, m, x) ==
  /\ j <= Len(x.rows) /\ x.rows[j].msg = m
  /\ One(m) => Len(x.rows) = j /\ x.key # "closed"
  /\ Plain(m) => x.rows[j].body = First(Text[m])
  /\ "text" \notin ToSet(Rest(Text[m])) => x.key # "text"

\* The last of some rows changed: those before it are as they were.
LEMMA LastChanged ==
  ASSUME NEW q \in Seq(RowSet), NEW p \in Seq(RowSet), NEW r, p = [q EXCEPT ![Len(q)] = r]
  PROVE  Len(p) = Len(q) /\ \A k \in 1..Len(q) : p[k] = IF k = Len(q) THEN r ELSE q[k]
<1>1. DOMAIN q = 1..Len(q) /\ Len(q) \in Nat /\ DOMAIN p = 1..Len(p) /\ Len(p) \in Nat
  OBVIOUS
<1>2. DOMAIN p = DOMAIN q
  OBVIOUS
<1>3. Len(p) = Len(q)
  BY <1>1, <1>2, SameLength
<1> QED BY <1>1, <1>3

\* Any line but a path, or a value for the text, leaves the row of m.
LEMMA OwnStays ==
  ASSUME NEW a \in OfonoStates, NEW m, NEW j, j = Len(a.rows) + 1,
         NEW x \in OfonoStates, NEW line \in OfonoLines, NEW y, y = OfonoLine(x, line),
         Old(a, x), x.left # 0 => Own(j, m, x),
         line.tag \in {"path", "bare"} => ~ One(m),
         line.tag = "text" => "text" \in ToSet(Rest(Text[m])),
         line.tag = "value" /\ x.key = "text" /\ x.left # 0 => ~ Plain(m)
  PROVE  y \in OfonoStates /\ Old(a, y) /\ (y.left # 0 => x.left # 0 /\ Own(j, m, y))
<1>1. y \in OfonoStates
  BY OfonoLineStays
<1>2. CASE x.left = 0
  <2>1. y = x
    BY <1>2, OfonoLineStays
  <2> QED BY <2>1, <1>2
<1>3. CASE x.left # 0
  <2> DEFINE n == Len(x.rows)
             c == Len(a.rows)
  <2>1. /\ x.rows \in Seq(RowSet) /\ y.rows \in Seq(RowSet) /\ n \in Nat /\ c \in Nat
        /\ j \in Nat /\ j >= 1 /\ j = c + 1
    BY <1>1 DEF OfonoStates
  <2>2. Own(j, m, x)
    BY <1>3
  <2>3. j <= n /\ x.rows[j].msg = m /\ \A k \in 1..c : x.rows[k] = a.rows[k]
    BY <2>2 DEF Own, Old
  <2>4. ASSUME y.rows = x.rows, y.key = "closed" => x.key = "closed" \/ line.tag = "bare",
               y.key = "text" => x.key = "text" \/ line.tag = "text"
        PROVE  Old(a, y) /\ Own(j, m, y)
    <3>1. Old(a, y)
      BY <2>4 DEF Old
    <3>2. Own(j, m, y)
      <4> DEFINE T == "text" \in ToSet(Rest(Text[m]))
      <4>1. One(m) => Len(y.rows) = j /\ y.key # "closed"
        BY <2>2, <2>4 DEF Own
      <4>2. ~ T => y.key # "text"
        BY <2>2, <2>4 DEF Own
      <4>3. Plain(m) => y.rows[j].body = First(Text[m])
        BY <2>2, <2>4 DEF Own
      <4>4. j <= Len(y.rows) /\ y.rows[j].msg = m
        BY <2>3, <2>4
      <4> QED BY <4>1, <4>2, <4>3, <4>4 DEF Own
    <3> QED BY <3>1, <3>2
  <2>5. ASSUME y.key = "none", n <= Len(y.rows), Len(y.rows) # n => ~ One(m),
               \A k \in 1..n : k # n => y.rows[k] = x.rows[k],
               y.rows[n].msg = x.rows[n].msg, Plain(m) => y.rows[n].body = x.rows[n].body
        PROVE  Old(a, y) /\ Own(j, m, y)
    <3>1. \A k \in 1..c : k \in 1..n /\ k # n
      BY <2>1, <2>3
    <3>2. c <= Len(y.rows) /\ j <= Len(y.rows)
      <4> DEFINE h == Len(y.rows)
      <4>1. h \in Nat /\ n <= h
        BY <2>1, <2>5
      <4> HIDE DEF h, n, c
      <4>2. c <= h /\ j <= h
        BY <4>1, <2>1, <2>3
      <4> QED BY <4>2 DEF h, c
    <3>3. Old(a, y)
      BY <3>1, <3>2, <2>3, <2>5 DEF Old
    <3>4. y.rows[j].msg = m /\ (Plain(m) => y.rows[j].body = x.rows[j].body)
      <4>1. CASE j = n
        BY <4>1, <2>3, <2>5
      <4>2. CASE j # n
        <5>1. j \in 1..n
          BY <2>1, <2>3
        <5> QED BY <5>1, <4>2, <2>3, <2>5
      <4> QED BY <4>1, <4>2
    <3>5. Plain(m) => y.rows[j].body = First(Text[m])
      BY <3>4, <2>2 DEF Own
    <3>6. One(m) => Len(y.rows) = j
      BY <2>2, <2>5 DEF Own
    <3> HIDE DEF n, c
    <3> QED BY <3>2, <3>3, <3>4, <3>5, <3>6, <2>5 DEF Own
  <2>6. CASE y.rows = x.rows /\ (y.key = "closed" => x.key = "closed" \/ line.tag = "bare")
                             /\ (y.key = "text" => x.key = "text" \/ line.tag = "text")
    BY <2>6, <2>4, <1>1, <1>3
  <2>7. CASE /\ line.tag = "path" /\ y.key = "none"
             /\ y.rows = Append(x.rows, Row(Len(x.rows) + 1, line.msg, Nobody, <<>>))
    <3> DEFINE w == Row(Len(x.rows) + 1, line.msg, Nobody, <<>>)
               q == x.rows
    <3>1. y.rows = Append(q, w) /\ q \in Seq(RowSet) /\ n = Len(q)
      BY <2>7, <2>1
    <3> HIDE DEF w, q
    <3>2. Len(Append(q, w)) = Len(q) + 1 /\ \A k \in 1..Len(q) : Append(q, w)[k] = q[k]
      BY <3>1
    <3>3. n \in 1..n
      BY <2>1, <2>3
    <3>4. n <= Len(y.rows) /\ \A k \in 1..n : y.rows[k] = x.rows[k]
      BY <3>1, <3>2, <2>1 DEF q
    <3>5. ~ One(m) /\ y.key = "none"
      BY <2>7
    <3> HIDE DEF n, c
    <3> QED BY <3>3, <3>4, <3>5, <2>5, <1>1, <1>3
  <2>8. ASSUME NEW r, y.key = "none", y.rows = [x.rows EXCEPT ![Len(x.rows)] = r],
               r.msg = x.rows[n].msg, Plain(m) => r.body = x.rows[n].body
        PROVE  Old(a, y) /\ Own(j, m, y)
    <3>1. Len(y.rows) = Len(x.rows)
          /\ \A k \in 1..Len(x.rows) : y.rows[k] = IF k = Len(x.rows) THEN r ELSE x.rows[k]
      BY <2>1, <2>8, LastChanged
    <3>2. n \in 1..n
      BY <2>1, <2>3
    <3>3. y.rows[n] = r /\ \A k \in 1..n : k # n => y.rows[k] = x.rows[k]
      BY <3>1, <3>2
    <3> QED BY <3>1, <3>3, <2>1, <2>5, <2>8
  <2>9. x.rows[n] \in RowSet
    <3>1. n \in 1..n
      BY <2>1, <2>3
    <3> QED BY <3>1, <2>1
  <2>10. CASE /\ line.tag = "value" /\ x.key = "text" /\ y.key = "none"
              /\ y.rows = [x.rows EXCEPT ![Len(x.rows)] = [x.rows[Len(x.rows)] EXCEPT !.body = line.about]]
    <3>1. [x.rows[Len(x.rows)] EXCEPT !.body = line.about].msg = x.rows[n].msg
      BY <2>9 DEF RowSet
    <3>2. ~ Plain(m)
      BY <2>10, <1>3
    <3> QED BY <3>1, <3>2, <2>8, <2>10, <1>1, <1>3
  <2>11. CASE /\ line.tag = "value" /\ x.key = "sender" /\ y.key = "none"
              /\ y.rows = [x.rows EXCEPT ![Len(x.rows)] = [x.rows[Len(x.rows)] EXCEPT !.sender = line.msg]]
    <3>1. /\ [x.rows[Len(x.rows)] EXCEPT !.sender = line.msg].msg = x.rows[n].msg
          /\ [x.rows[Len(x.rows)] EXCEPT !.sender = line.msg].body = x.rows[n].body
      BY <2>9 DEF RowSet
    <3> QED BY <3>1, <2>8, <2>11, <1>1, <1>3
  <2> HIDE DEF n, c
  <2> QED BY <2>6, <2>7, <2>10, <2>11, <1>3, Effect
<1> QED BY <1>2, <1>3

\* The lines of one message leave the rows before it, and as long as the capture
\* holds them add its row.
LEMMA MessageRow ==
  ASSUME NEW a \in OfonoStates, NEW m \in Messages,
         NEW b, b = OfonoRun(a, Printed(m))[Len(Printed(m))],
         NEW j, j = Len(a.rows) + 1
  PROVE  /\ \A i \in DOMAIN a.rows : i \in DOMAIN b.rows /\ b.rows[i] = a.rows[i]
         /\ b.left # 0 =>
              /\ a.left # 0
              /\ j \in DOMAIN b.rows /\ b.rows[j].msg = m
              /\ Plain(m) => b.rows[j].body = First(Text[m])
              /\ One(m) => Len(b.rows) = j /\ b.rows[j].sender = m
<1> DEFINE lines == Printed(m)
           R == Rest(Text[m])
           L == Len(R)
           r == OfonoRun(a, lines)
           Good(x) == x \in OfonoStates /\ Old(a, x) /\ (x.left # 0 => Own(j, m, x) /\ a.left # 0)
<1>1. lines \in Seq(OfonoLines) /\ Len(lines) \in Nat /\ \A i \in 1..Len(lines) : lines[i] \in OfonoLines
  BY PrintedOK
<1>2. \A x \in OfonoStates : \A i \in 1..Len(lines) : OfonoLine(x, lines[i]) \in OfonoStates
  BY <1>1, OfonoLineStays
<1>3. /\ r \in [0..Len(lines) -> OfonoStates] /\ r[0] = a
      /\ \A i \in 1..Len(lines) : r[i] = OfonoLine(r[i - 1], lines[i])
  BY <1>1, <1>2, OfonoRunIs
<1>4. /\ R \in Seq(Looks) /\ L \in Nat /\ Len(lines) = L + 7
      /\ lines[1] = Line("path", m, <<>>) /\ lines[2] = Line("text", m, <<>>)
      /\ lines[3] = Line("value", m, First(Text[m]))
      /\ \A i \in 1..L : lines[i + 3] = Line(R[i], Nobody, <<R[i]>>)
      /\ lines[L + 4] = Line("close", m, <<>>) /\ lines[L + 5] = Line("sender", m, <<>>)
      /\ lines[L + 6] = Line("value", m, <<>>) /\ lines[L + 7] = Line("close", m, <<>>)
  BY PrintedLines
<1>5. b = r[L + 7]
  BY <1>4
<1>6. \A i \in 1..L : R[i] \in Looks /\ R[i] \in ToSet(R)
  BY <1>4 DEF ToSet
<1>7. a.rows \in Seq(RowSet) /\ Len(a.rows) \in Nat /\ j \in Nat /\ j >= 1 /\ DOMAIN a.rows = 1..(j - 1)
  BY DEF OfonoStates
<1>8. \A x \in OfonoStates : x.rows \in Seq(RowSet) /\ Len(x.rows) \in Nat /\ DOMAIN x.rows = 1..Len(x.rows)
  BY DEF OfonoStates
<1> HIDE DEF lines, L, r
<1>9. ASSUME NEW i \in 0..(L + 6)
      PROVE  /\ r[i] \in OfonoStates /\ r[i + 1] \in OfonoStates /\ r[i + 1] = OfonoLine(r[i], lines[i + 1])
             /\ lines[i + 1] \in OfonoLines
  <2>1. i \in 0..Len(lines) /\ i + 1 \in 0..Len(lines) /\ i + 1 \in 1..Len(lines) /\ (i + 1) - 1 = i
    BY <1>4
  <2> QED BY <2>1, <1>1, <1>3
<1> HIDE DEF R
<1>10. Good(r[3])
  <2> DEFINE new == Row(j, m, Nobody, <<>>)
  <2>1. /\ r[1] = OfonoLine(a, lines[1]) /\ r[1] \in OfonoStates /\ lines[1] \in OfonoLines
        /\ lines[1].tag = "path" /\ lines[1].msg = m
    <3>1. 0 \in 0..(L + 6) /\ 0 + 1 = 1
      BY <1>4
    <3> QED BY <3>1, <1>3, <1>4, <1>9 DEF Line
  <2>2. /\ r[2] = OfonoLine(r[1], lines[2]) /\ r[2] \in OfonoStates /\ lines[2] \in OfonoLines
        /\ lines[2].tag = "text"
    <3>1. 1 \in 0..(L + 6) /\ 1 + 1 = 2
      BY <1>4
    <3> QED BY <3>1, <1>4, <1>9 DEF Line
  <2>3. /\ r[3] = OfonoLine(r[2], lines[3]) /\ r[3] \in OfonoStates /\ lines[3] \in OfonoLines
        /\ lines[3].tag = "value" /\ lines[3].about = First(Text[m])
    <3>1. 2 \in 0..(L + 6) /\ 2 + 1 = 3
      BY <1>4
    <3> QED BY <3>1, <1>4, <1>9 DEF Line
  <2>4. Old(a, a)
    BY <1>7 DEF Old
  <2>5. CASE a.left = 0
    <3>1. r[1] = a
      BY <2>1, <2>5, OfonoLineStays
    <3>2. r[2] = a
      BY <3>1, <2>2, <2>5, OfonoLineStays
    <3>3. r[3] = a
      BY <3>2, <2>3, <2>5, OfonoLineStays
    <3> QED BY <3>3, <2>4, <2>5
  <2>6. CASE a.left # 0
    <3>1. r[1].rows = Append(a.rows, new) /\ r[1].key = "none"
      <4>1. /\ r[1].rows = Append(a.rows, Row(Len(a.rows) + 1, lines[1].msg, Nobody, <<>>))
            /\ r[1].key = "none"
        <5> DEFINE z == Taken(a, lines[1])
        <5>1. z = [a EXCEPT !.rows = Append(a.rows, Row(Len(a.rows) + 1, lines[1].msg, Nobody, <<>>)), !.key = "none"]
          BY <2>1 DEF Taken, KeyLines
        <5>2. r[1].rows = z.rows /\ r[1].key = z.key
          BY <2>1, <2>6, OfonoLineStays
        <5> HIDE DEF z
        <5> QED BY <5>1, <5>2 DEF OfonoStates
      <4> QED BY <4>1, <2>1
    <3> DEFINE q == Append(a.rows, new)
    <3>2. /\ Len(q) = j /\ q[j] = new /\ \A k \in 1..Len(a.rows) : q[k] = a.rows[k]
      <4> HIDE DEF new
      <4> QED BY <1>7
    <3>3. Len(a.rows) <= j /\ j <= j
      BY <1>7
    <3> HIDE DEF q
    <3>4. ASSUME NEW x, x.rows = q PROVE Old(a, x)
      BY <3>2, <3>3, <3>4 DEF Old
    <3>5. r[1].rows = q
      BY <3>1 DEF q
    <3>6. CASE r[1].left = 0
      <4>1. r[2] = r[1]
        BY <2>1, <2>2, <3>6, OfonoLineStays
      <4>2. r[3] = r[1]
        BY <4>1, <2>1, <2>3, <3>6, OfonoLineStays
      <4> QED BY <4>2, <2>1, <3>4, <3>5, <3>6
    <3>7. CASE r[1].left # 0
      <4>1. r[2].rows = q /\ r[2].key = "text"
        <5>1. lines[2].tag \in KeyLines
          BY <2>2 DEF KeyLines
        <5>2. r[2].rows = r[1].rows /\ r[2].key = IF r[1].key = "none" THEN lines[2].tag ELSE r[1].key
          BY <5>1, <2>1, <2>2, <3>7, EffectOfKey
        <5> QED BY <5>2, <2>2, <3>1, <3>5
      <4>2. CASE r[2].left = 0
        <5>1. r[3] = r[2]
          BY <4>2, <2>2, <2>3, OfonoLineStays
        <5> QED BY <5>1, <4>1, <4>2, <2>2, <3>4
      <4>3. CASE r[2].left # 0
        <5> DEFINE row == [q[Len(q)] EXCEPT !.body = First(Text[m])]
        <5>1. r[3].rows = [q EXCEPT ![Len(q)] = row] /\ r[3].key = "none"
          <6> DEFINE z == Taken(r[2], lines[3])
                     x == r[2]
          <6>1. z = [x EXCEPT !.rows[Len(x.rows)].body = lines[3].about, !.key = "none"]
            BY <2>3, <4>1 DEF Taken, KeyLines
          <6>2. r[3].rows = z.rows /\ r[3].key = z.key
            BY <2>2, <2>3, <4>3, OfonoLineStays
          <6>3. x \in OfonoStates /\ x.rows = q /\ lines[3].about = First(Text[m])
            BY <2>2, <2>3, <4>1
          <6> HIDE DEF z, x
          <6>4. z.rows = [x.rows EXCEPT ![Len(x.rows)] = [x.rows[Len(x.rows)] EXCEPT !.body = lines[3].about]]
                /\ z.key = "none"
            BY <6>1, <6>3 DEF OfonoStates
          <6> QED BY <6>2, <6>3, <6>4
        <5>2. row = [new EXCEPT !.body = First(Text[m])]
          BY <3>2
        <5>3. row.msg = m /\ row.body = First(Text[m])
          BY <5>2 DEF Row, new
        <5>4. q \in Seq(RowSet) /\ r[3].rows \in Seq(RowSet)
          BY <2>1, <2>3, <3>5, <1>8
        <5> HIDE DEF row
        <5>5. Len(r[3].rows) = Len(q) /\ \A k \in 1..Len(q) : r[3].rows[k] = IF k = Len(q) THEN row ELSE q[k]
          BY <5>1, <5>4, LastChanged
        <5>6. j \in 1..j /\ \A k \in 1..Len(a.rows) : k \in 1..j /\ k # j
          BY <1>7
        <5>7. Len(r[3].rows) = j /\ r[3].rows[j] = row /\ \A k \in 1..Len(a.rows) : r[3].rows[k] = a.rows[k]
          BY <5>5, <5>6, <3>2
        <5>8. Old(a, r[3])
          BY <5>7, <3>3 DEF Old
        <5>9. Own(j, m, r[3])
          BY <5>1, <5>3, <5>7, <3>3 DEF Own
        <5> QED BY <5>8, <5>9, <2>3, <2>6
      <4> QED BY <4>2, <4>3
    <3> QED BY <3>6, <3>7
  <2> QED BY <2>5, <2>6
<1>11. ASSUME NEW i \in 3..(L + 6), Good(r[i]),
              lines[i + 1].tag \in {"path", "bare"} => ~ One(m),
              lines[i + 1].tag = "text" => "text" \in ToSet(Rest(Text[m])),
              lines[i + 1].tag = "value" /\ r[i].key = "text" /\ r[i].left # 0 => ~ Plain(m)
       PROVE  Good(r[i + 1]) /\ (r[i + 1].left # 0 => r[i].left # 0)
  <2>1. i \in 0..(L + 6)
    BY <1>4
  <2> DEFINE x == r[i]
             y == r[i + 1]
             l == lines[i + 1]
  <2>2. x \in OfonoStates /\ l \in OfonoLines /\ y = OfonoLine(x, l)
    BY <2>1, <1>9
  <2>3. Old(a, x) /\ (x.left # 0 => Own(j, m, x) /\ a.left # 0)
    BY <1>11
  <2>4. /\ l.tag \in {"path", "bare"} => ~ One(m)
        /\ l.tag = "text" => "text" \in ToSet(Rest(Text[m]))
        /\ l.tag = "value" /\ x.key = "text" /\ x.left # 0 => ~ Plain(m)
    BY <1>11
  <2> HIDE DEF x, y, l
  <2>5. y \in OfonoStates /\ Old(a, y) /\ (y.left # 0 => x.left # 0 /\ Own(j, m, y))
    BY <2>2, <2>3, <2>4, OwnStays
  <2>6. (y.left # 0 => x.left # 0) /\ Good(y)
    BY <2>3, <2>5
  <2> QED BY <2>6 DEF x, y
<1> HIDE DEF Good
<1>12. ASSUME NEW i \in 1..L, Good(r[i + 2]) PROVE Good(r[i + 3])
  <2>1. i + 2 \in 3..(L + 6) /\ (i + 2) + 1 = i + 3
    BY <1>4
  <2>a. lines[i + 3] = Line(R[i], Nobody, <<R[i]>>) /\ R[i] \in ToSet(R)
    BY <1>4, <1>6
  <2>2. lines[i + 3].tag = R[i] /\ R[i] \in ToSet(Rest(Text[m]))
    BY <2>a DEF Line, R
  <2>3. lines[i + 3].tag \in {"path", "bare"} => ~ One(m)
    BY <2>2 DEF One
  <2>4. lines[i + 3].tag = "text" => "text" \in ToSet(Rest(Text[m]))
    BY <2>2
  <2>5. ASSUME lines[i + 3].tag = "value", r[i + 2].key = "text", r[i + 2].left # 0 PROVE ~ Plain(m)
    <3>1. Own(j, m, r[i + 2])
      BY <1>12, <2>5 DEF Good
    <3>2. "text" \in ToSet(Rest(Text[m]))
      BY <3>1, <2>5 DEF Own
    <3> QED BY <3>2, <2>2, <2>5 DEF Plain
  <2> QED BY <2>1, <2>3, <2>4, <2>5, <1>11, <1>12
<1>13. Good(r[L + 3])
  <2> DEFINE f == [i \in 0..L |-> r[i + 3]]
             T == {x \in OfonoStates : Good(x)}
  <2>a. \A x : Good(x) <=> x \in T
    BY DEF Good
  <2> HIDE DEF T
  <2>1. f[0] \in T /\ L \in Nat
    BY <2>a, <1>4, <1>10
  <2>2. ASSUME NEW i \in 1..L, f[i - 1] \in T PROVE f[i] \in T
    <3>1. (i - 1) + 3 = i + 2 /\ i - 1 \in 0..L /\ i \in 0..L
      BY <1>4
    <3>2. f[i - 1] = r[i + 2] /\ f[i] = r[i + 3]
      BY <3>1
    <3> HIDE DEF f
    <3> QED BY <3>2, <2>2, <2>a, <1>12
  <2>3. L \in 0..L
    BY <1>4
  <2>4. f[L] = r[L + 3]
    BY <2>3
  <2> HIDE DEF f
  <2>5. \A i \in 0..L : f[i] \in T
    BY <2>1, <2>2, Stays
  <2> QED BY <2>3, <2>4, <2>5, <2>a
<1>14. /\ {L + 3, L + 4, L + 5, L + 6} \subseteq 3..(L + 6)
       /\ {L + 3, L + 4, L + 5, L + 6} \subseteq 0..(L + 6)
       /\ (L + 3) + 1 = L + 4 /\ (L + 4) + 1 = L + 5 /\ (L + 5) + 1 = L + 6 /\ (L + 6) + 1 = L + 7
  BY <1>4
<1>15. /\ lines[L + 4].tag = "close" /\ lines[L + 5].tag = "sender" /\ lines[L + 7].tag = "close"
       /\ lines[L + 6].tag = "value" /\ lines[L + 6].msg = m
  BY <1>4 DEF Line
<1>16. Good(r[L + 4]) /\ (r[L + 4].left # 0 => r[L + 4].key \in {"none", "closed"})
  <2>1. Good(r[L + 4]) /\ (r[L + 4].left # 0 => r[L + 3].left # 0)
    BY <1>11, <1>13, <1>14, <1>15
  <2>2. ASSUME r[L + 4].left # 0 PROVE r[L + 4].key \in {"none", "closed"}
    <3>1. /\ r[L + 3] \in OfonoStates /\ r[L + 4] = OfonoLine(r[L + 3], lines[L + 4])
          /\ lines[L + 4] \in OfonoLines
      BY <1>9, <1>14
    <3>2. r[L + 3].left # 0
      BY <2>1, <2>2
    <3>3. r[L + 4].key = IF r[L + 3].key = "closed" THEN "closed" ELSE "none"
      BY <3>1, <3>2, <1>15, EffectOfClose
    <3> QED BY <3>3
  <2> QED BY <2>1, <2>2
<1>17. /\ Good(r[L + 5]) /\ (r[L + 5].left # 0 => r[L + 5].key \in {"sender", "closed"})
  <2> DEFINE T == "text" \in ToSet(Rest(Text[m]))
  <2>1. Good(r[L + 5]) /\ (r[L + 5].left # 0 => r[L + 4].left # 0)
    BY <1>11, <1>14, <1>15, <1>16
  <2>2. ASSUME r[L + 5].left # 0 PROVE r[L + 5].key \in {"sender", "closed"}
    <3>1. /\ r[L + 4] \in OfonoStates /\ r[L + 5] = OfonoLine(r[L + 4], lines[L + 5])
          /\ lines[L + 5] \in OfonoLines
      BY <1>9, <1>14
    <3>2. r[L + 4].left # 0 /\ lines[L + 5].tag \in KeyLines
      BY <2>1, <2>2, <1>15 DEF KeyLines
    <3>3. r[L + 5].key = IF r[L + 4].key = "none" THEN lines[L + 5].tag ELSE r[L + 4].key
      BY <3>1, <3>2, EffectOfKey
    <3> QED BY <3>2, <3>3, <1>15, <1>16
  <2> QED BY <2>1, <2>2
<1>18. /\ Good(r[L + 6])
       /\ r[L + 6].left # 0 => (One(m) => r[L + 6].rows[j].sender = m)
  <2>1. Good(r[L + 6]) /\ (r[L + 6].left # 0 => r[L + 5].left # 0)
    <3>1. r[L + 5].left # 0 => r[L + 5].key # "text"
      BY <1>17
    <3> QED BY <3>1, <1>11, <1>14, <1>15, <1>17
  <2>2. ASSUME r[L + 6].left # 0, One(m) PROVE r[L + 6].rows[j].sender = m
    <3> DEFINE x == r[L + 5]
               y == r[L + 6]
               l == lines[L + 6]
    <3>1. x \in OfonoStates /\ y \in OfonoStates /\ y = OfonoLine(x, l) /\ l \in OfonoLines
      BY <1>9, <1>14
    <3>2. x.left # 0 /\ Own(j, m, x)
      BY <2>1, <2>2, <1>17 DEF Good
    <3>3. x.key = "sender" /\ Len(x.rows) = j
      BY <3>2, <2>2, <1>17 DEF Own
    <3>4. l.tag = "value" /\ l.msg = m
      BY <1>15
    <3> HIDE DEF x, y, l
    <3> DEFINE row == [x.rows[Len(x.rows)] EXCEPT !.sender = m]
    <3>5. y.rows = [x.rows EXCEPT ![Len(x.rows)] = row]
      <4> DEFINE z == Taken(x, l)
      <4>1. z = [x EXCEPT !.rows[Len(x.rows)].sender = m, !.key = "none"]
        BY <3>3, <3>4 DEF Taken, KeyLines
      <4>2. y.rows = z.rows
        BY <3>1, <3>2, OfonoLineStays
      <4> HIDE DEF z
      <4> QED BY <4>1, <4>2, <3>1 DEF OfonoStates
    <3>6. x.rows \in Seq(RowSet) /\ y.rows \in Seq(RowSet)
      BY <3>1, <1>8
    <3>7. j \in 1..Len(x.rows)
      BY <3>3, <1>7
    <3>8. x.rows[Len(x.rows)] \in RowSet
      BY <3>3, <3>6, <3>7
    <3>9. row.sender = m
      BY <3>8 DEF RowSet
    <3> HIDE DEF row
    <3>10. y.rows[j] = row
      BY <3>3, <3>5, <3>6, <3>7, LastChanged
    <3> QED BY <3>9, <3>10 DEF y
  <2> QED BY <2>1, <2>2
<1>19. /\ Good(r[L + 7])
       /\ r[L + 7].left # 0 => (One(m) => r[L + 7].rows[j].sender = m)
  <2>1. Good(r[L + 7]) /\ (r[L + 7].left # 0 => r[L + 6].left # 0)
    BY <1>11, <1>14, <1>15, <1>18
  <2>2. ASSUME r[L + 7].left # 0 PROVE r[L + 7].rows = r[L + 6].rows
    <3>1. /\ r[L + 6] \in OfonoStates /\ r[L + 7] = OfonoLine(r[L + 6], lines[L + 7])
          /\ lines[L + 7] \in OfonoLines
      BY <1>9, <1>14
    <3>2. r[L + 6].left # 0
      BY <2>1, <2>2
    <3> QED BY <3>1, <3>2, <1>15, EffectOfClose
  <2> QED BY <2>1, <2>2, <1>18
<1>20. b \in OfonoStates /\ Old(a, b) /\ (b.left # 0 => Own(j, m, b) /\ a.left # 0)
  BY <1>5, <1>19 DEF Good
<1>21. DOMAIN b.rows = 1..Len(b.rows) /\ Len(b.rows) \in Nat
  BY <1>8, <1>20
<1>22. \A i \in DOMAIN a.rows : i \in DOMAIN b.rows /\ b.rows[i] = a.rows[i]
  <2> TAKE i \in DOMAIN a.rows
  <2>1. i \in 1..Len(a.rows) /\ Len(a.rows) <= Len(b.rows) /\ b.rows[i] = a.rows[i]
    BY <1>7, <1>20 DEF Old
  <2> QED BY <2>1, <1>7, <1>21
<1>23. ASSUME b.left # 0
       PROVE  /\ a.left # 0 /\ j \in DOMAIN b.rows /\ b.rows[j].msg = m
              /\ Plain(m) => b.rows[j].body = First(Text[m])
              /\ One(m) => Len(b.rows) = j /\ b.rows[j].sender = m
  <2>1. Own(j, m, b) /\ a.left # 0
    BY <1>20, <1>23
  <2>2. j \in DOMAIN b.rows
    <3>1. j <= Len(b.rows)
      BY <2>1 DEF Own
    <3> QED BY <3>1, <1>7, <1>21
  <2>3. One(m) => b.rows[j].sender = m
    BY <1>5, <1>19, <1>23
  <2> QED BY <2>1, <2>2, <2>3 DEF Own
<1> QED BY <1>22, <1>23

\* A text up to the p-th has a further line that looks like a path.
PathIn(o, p) == \E q \in 1..p : ~ One(o[q])
IsRow(o, p, row) ==
  /\ row.msg = o[p] /\ (row.body = First(Text[o[p]]) \/ ~ Plain(o[p]))
  /\ row.index # p \/ row.sender # o[p] => PathIn(o, p)

\* So each message in the capture gets its row, in its place up to such a text.
LEMMA OfonoFaithful ==
  ASSUME NEW o \in Seq(Messages), NEW p \in DOMAIN o, ParsedOf(o)[p].left # 0
  PROVE  \E i \in DOMAIN ParsedOf(o)[Len(o)].rows : IsRow(o, p, ParsedOf(o)[Len(o)].rows[i])
<1> DEFINE A == ParsedOf(o)
           Has(n) == \A k \in 1..n : A[k].left # 0 => \E i \in DOMAIN A[n].rows : IsRow(o, k, A[n].rows[i])
           P == {n \in 0..Len(o) : Has(n) /\ (A[n].left # 0 /\ ~ PathIn(o, n) => Len(A[n].rows) = n)}
<1>1. Len(o) \in Nat /\ DOMAIN o = 1..Len(o) /\ \A i \in 1..Len(o) : o[i] \in Messages
  OBVIOUS
<1>2. /\ A \in [0..Len(o) -> OfonoStates]
      /\ A[0] = [rows |-> <<>>, key |-> "closed", json |-> "good", left |-> OfonoCap]
      /\ \A i \in 1..Len(o) : A[i] = OfonoRun(A[i - 1], Printed(o[i]))[Len(Printed(o[i]))]
  BY ParsedOK
<1>a. A[p].left # 0
  OBVIOUS
<1> HIDE DEF A
<1>3. 0 \in P
  <2>1. A[0].rows = <<>>
    BY <1>2
  <2> QED BY <2>1, <1>1
<1>4. ASSUME NEW n \in 1..Len(o), n - 1 \in P PROVE n \in P
  <2> DEFINE a == A[n - 1]
             b == A[n]
             j == Len(a.rows) + 1
             m == o[n]
  <2>1. n - 1 \in 0..Len(o) /\ n \in 0..Len(o) /\ n \in 1..n /\ \A k \in 1..n : k = n \/ k \in 1..(n - 1)
    BY <1>1
  <2>2. a \in OfonoStates /\ b \in OfonoStates /\ m \in Messages /\ b = OfonoRun(a, Printed(m))[Len(Printed(m))]
    BY <2>1, <1>1, <1>2
  <2>3. /\ \A i \in DOMAIN a.rows : i \in DOMAIN b.rows /\ b.rows[i] = a.rows[i]
        /\ b.left # 0 =>
             /\ a.left # 0
             /\ j \in DOMAIN b.rows /\ b.rows[j].msg = m
             /\ Plain(m) => b.rows[j].body = First(Text[m])
             /\ One(m) => Len(b.rows) = j /\ b.rows[j].sender = m
    <3>1. j = Len(a.rows) + 1
      OBVIOUS
    <3> HIDE DEF a, b, j, m, Has, P
    <3> QED BY <2>2, <3>1, MessageRow
  <2>4. b.left # 0 => b.rows[j].index = j
    BY <2>2, <2>3 DEF OfonoStates
  <2>5. Has(n - 1) /\ (a.left # 0 /\ ~ PathIn(o, n - 1) => Len(a.rows) = n - 1)
    BY <1>4
  <2>6. PathIn(o, n) <=> PathIn(o, n - 1) \/ ~ One(m)
    <3>1. \A k \in 1..(n - 1) : k \in 1..n
      BY <2>1
    <3> QED BY <3>1, <2>1 DEF PathIn
  <2>7. b.left # 0 /\ ~ PathIn(o, n) => j = n /\ Len(b.rows) = n /\ b.rows[j].sender = m
    <3>1. ASSUME b.left # 0, ~ PathIn(o, n) PROVE j = n /\ Len(b.rows) = j /\ b.rows[j].sender = m
      <4>1. a.left # 0 /\ ~ PathIn(o, n - 1) /\ One(m)
        BY <3>1, <2>3, <2>6
      <4>2. Len(a.rows) = n - 1
        BY <4>1, <2>5
      <4>3. j = n
        BY <4>2, <2>1
      <4> QED BY <4>1, <4>3, <3>1, <2>3
    <3> QED BY <3>1
  <2>8. b.left # 0 => IsRow(o, n, b.rows[j])
    <3> HIDE DEF j, a, b, Has, P
    <3> QED BY <2>3, <2>4, <2>7 DEF IsRow, m
  <2>9. Has(n)
    <3> SUFFICES ASSUME NEW k \in 1..n, A[k].left # 0 PROVE \E i \in DOMAIN b.rows : IsRow(o, k, b.rows[i])
      OBVIOUS
    <3>1. CASE k = n
      BY <3>1, <2>3, <2>8
    <3>2. CASE k # n
      <4>1. k \in 1..(n - 1)
        BY <3>2, <2>1
      <4>2. PICK i \in DOMAIN a.rows : IsRow(o, k, a.rows[i])
        BY <4>1, <2>5
      <4> HIDE DEF a, b
      <4> QED BY <4>2, <2>3
    <3> QED BY <3>1, <3>2
  <2> HIDE DEF Has
  <2> QED BY <2>1, <2>7, <2>9
<1>5. P \subseteq Nat
  OBVIOUS
<1> HIDE DEF P
<1>6. 0..Len(o) \subseteq P
  BY <1>1, <1>3, <1>4, <1>5, Steps
<1>7. Len(o) \in P /\ p \in 1..Len(o)
  BY <1>1, <1>6
<1> USE DEF P
<1>8. Has(Len(o))
  BY <1>7
<1> QED BY <1>7, <1>8, <1>a DEF A

\* The rows the page is given.
LEMMA OfonoRowsFaithful ==
  ASSUME ModemOK, NEW p \in DOMAIN order, OfonoParsed[p].left > 0
  PROVE  \E i \in DOMAIN OfonoRows :
           /\ OfonoRows[i].msg = order[p]
           /\ \/ OfonoRows[i].body = First(Text[order[p]])
              \/ {"text", "value"} \subseteq ToSet(Rest(Text[order[p]]))
           /\ OfonoRows[i].index # p \/ OfonoRows[i].sender # order[p] =>
                \E q \in 1..p : ToSet(Rest(Text[order[q]])) \cap {"path", "bare"} # {}
<1>1. order \in Seq(Messages)
  BY DEF ModemOK
<1>2. OfonoParsed = ParsedOf(order) /\ OfonoRows = ParsedOf(order)[Len(order)].rows
  BY DEF OfonoRows, OfonoParsed, ParsedOf
<1>a. ParsedOf(order)[p].left # 0
  <2>1. OfonoParsed[p].left # 0
    OBVIOUS
  <2> QED BY <2>1, <1>2
<1>3. \E i \in DOMAIN ParsedOf(order)[Len(order)].rows : IsRow(order, p, ParsedOf(order)[Len(order)].rows[i])
  BY <1>1, <1>a, OfonoFaithful
<1>4. \E i \in DOMAIN OfonoRows : IsRow(order, p, OfonoRows[i])
  BY <1>2, <1>3
<1> QED BY <1>4 DEF IsRow, PathIn, One, Plain

-----------------------------------------------------------------------------
(* What the modem prints for a slot becomes the row of that slot.           *)

\* The lines that end a row.
Stops == {"ok", "head"}

\* The entry of slot s in the answer of the modem, and the line after it.
Shown(lines, off, s) ==
  LET text == Text[storage[s]]
      L    == Len(text)
  IN  /\ off + L + 2 <= Len(lines)
      /\ lines[off + 1] = Line("head", storage[s], s)
      /\ \A i \in 1..L : lines[off + 1 + i].tag = text[i]
      /\ lines[off + L + 2].tag \in Stops

\* The lines of an entry.
LEMMA EntryLines ==
  ASSUME ModemOK, NEW s \in Held, NEW text, text = Text[storage[s]]
  PROVE  /\ text \in Seq(Looks) /\ Len(text) \in Nat
         /\ Entry(s) \in Seq(AtLines) /\ Len(Entry(s)) = Len(text) + 1
         /\ Entry(s)[1] = Line("head", storage[s], s)
         /\ \A i \in 1..Len(text) : Entry(s)[i + 1].tag = text[i]
<1> DEFINE head == Line("head", storage[s], s)
           rest == [i \in DOMAIN text |-> Line(text[i], Nobody, Slots)]
<1>1. Entry(s) \in Seq(AtLines)
  BY EntryOK DEF ModemOK, Storage
<1>2. text \in Seq(Looks) /\ Len(text) \in Nat /\ DOMAIN text = 1..Len(text)
  BY HeldIs, ConstantsOK DEF ConstantsOK
<1>3. Entry(s) = <<head>> \o rest
  BY DEF Entry
<1>4. \A i \in 1..Len(text) : rest[i].tag = text[i]
  BY <1>2 DEF Line
<1> DEFINE S == {head} \cup {rest[i] : i \in 1..Len(text)}
<1>5. rest \in Seq(S) /\ Len(rest) = Len(text)
  <2>1. \A i \in 1..Len(text) : rest[i] \in S
    OBVIOUS
  <2>2. rest = [i \in 1..Len(text) |-> rest[i]]
    BY <1>2
  <2> HIDE DEF rest, S
  <2>3. rest \in [1..Len(text) -> S]
    BY <2>1, <2>2
  <2> QED BY <2>3, <1>2
<1>6. head \in S
  OBVIOUS
<1> HIDE DEF head, rest, S
<1> DEFINE e == <<head>> \o rest
<1>7. Len(e) = Len(text) + 1 /\ e[1] = head /\ \A i \in 1..Len(text) : e[i + 1] = rest[i]
  BY <1>2, <1>5, <1>6
<1> HIDE DEF e
<1>8. Entry(s) = e
  BY <1>3 DEF e
<1> QED BY <1>1, <1>2, <1>4, <1>7, <1>8 DEF head

\* The entry of a slot in use comes after those of the slots before it.
LEMMA EntriesAre ==
  ASSUME ModemOK, NEW s \in Held
  PROVE  Entries[s] = Entries[s - 1] \o Entry(s)
<1> DEFINE S == Seq(AtLines)
           Add(i) == IF i \in Held THEN Entry(i) ELSE <<>>
<1>1. \A i \in 1..Slots : Add(i) \in S
  <2>1. \A i \in Held : Entry(i) \in S
    BY EntryOK DEF ModemOK, Storage
  <2>2. <<>> \in S
    OBVIOUS
  <2> HIDE DEF S
  <2> QED BY <2>1, <2>2
<1>2. <<>> \in S /\ \A x \in S : \A i \in 1..Slots : x \o Add(i) \in S
  BY <1>1
<1> HIDE DEF S
<1>3. \A i \in 1..Slots : Entries[i] = Entries[i - 1] \o Add(i)
  BY <1>2, EntriesIs
<1>4. s \in 1..Slots
  BY HeldIs
<1> QED BY <1>3, <1>4

\* Entries come after one another.
LEMMA EntriesGrow ==
  ASSUME ModemOK, NEW s \in Held, NEW a, a = Entries[s - 1], NEW t \in s..Slots, NEW b, b = Entries[t]
  PROVE  /\ a \in Seq(AtLines) /\ b \in Seq(AtLines)
         /\ Len(a) + Len(Entry(s)) <= Len(b)
         /\ \A i \in 1..Len(Entry(s)) : b[Len(a) + i] = Entry(s)[i]
         /\ Len(b) > Len(a) + Len(Entry(s)) => b[Len(a) + Len(Entry(s)) + 1].tag = "head"
<1> DEFINE S == Seq(AtLines)
           Add(i) == IF i \in Held THEN Entry(i) ELSE <<>>
           e == Entry(s)
           c == Len(a) + Len(e)
           Good(q) == /\ c <= Len(q) /\ (\A i \in 1..Len(e) : q[Len(a) + i] = e[i])
                      /\ Len(q) > c => q[c + 1].tag = "head"
           P == {k \in Nat : s + k <= Slots => Good(Entries[s + k])}
<1>1. s \in 1..Slots /\ Slots \in Nat /\ t \in 1..Slots /\ s - 1 \in 0..Slots /\ s <= t
  BY HeldIs, ConstantsOK DEF ConstantsOK
<1>2. \A i \in 1..Slots : Add(i) \in S
  <2>1. \A i \in Held : Entry(i) \in S
    BY EntryOK DEF ModemOK, Storage
  <2>2. <<>> \in S
    OBVIOUS
  <2> HIDE DEF S
  <2> QED BY <2>1, <2>2
<1>3. <<>> \in S /\ \A x \in S : \A i \in 1..Slots : x \o Add(i) \in S
  BY <1>2
<1>4. /\ Entries \in [0..Slots -> S]
      /\ \A i \in 1..Slots : Entries[i] = Entries[i - 1] \o Add(i)
  <2> HIDE DEF S
  <2> QED BY <1>3, EntriesIs
<1>5. a \in S /\ b \in S /\ e \in S
  <2>1. e \in S
    BY EntryOK DEF ModemOK, Storage
  <2> QED BY <2>1, <1>1, <1>4
<1>6. /\ Len(e) \in Nat /\ Len(e) >= 1 /\ e[1].tag = "head" /\ Len(a) \in Nat /\ c \in Nat
      /\ \A i \in Held : Len(Entry(i)) \in Nat /\ Len(Entry(i)) >= 1 /\ Entry(i)[1].tag = "head"
  <2>1. ASSUME NEW i \in Held PROVE Len(Entry(i)) \in Nat /\ Len(Entry(i)) >= 1 /\ Entry(i)[1].tag = "head"
    <3> DEFINE text == Text[storage[i]]
    <3>1. text = Text[storage[i]]
      OBVIOUS
    <3> HIDE DEF text
    <3>2. Len(text) \in Nat /\ Len(Entry(i)) = Len(text) + 1 /\ Entry(i)[1] = Line("head", storage[i], i)
      BY <3>1, EntryLines
    <3>3. Line("head", storage[i], i).tag = "head"
      BY DEF Line
    <3> QED BY <3>2, <3>3
  <2>2. Len(a) \in Nat
    BY <1>5
  <2> QED BY <2>1, <2>2
<1>7. 0 \in P
  <2>1. Entries[s] = a \o e
    BY <1>1, <1>4
  <2> HIDE DEF e
  <2>2. Len(a \o e) = c /\ \A i \in 1..Len(e) : (a \o e)[Len(a) + i] = e[i]
    BY <1>5
  <2>3. Good(Entries[s])
    BY <2>1, <2>2, <1>6
  <2>4. s + 0 = s
    BY <1>1
  <2> HIDE DEF Good
  <2> QED BY <2>3, <2>4
<1>8. ASSUME NEW k \in 1..(t - s), k - 1 \in P PROVE k \in P
  <2> DEFINE i == s + k
             x == Entries[i - 1]
             y == Add(i)
  <2>1. i \in 1..Slots /\ s + (k - 1) = i - 1 /\ s + (k - 1) <= Slots /\ k \in Nat /\ i - 1 \in 0..Slots
    BY <1>1
  <2>2. Good(x)
    <3>1. k - 1 \in {h \in Nat : s + h <= Slots => Good(Entries[s + h])}
      BY <1>8
    <3> HIDE DEF Good, P
    <3>2. Good(Entries[s + (k - 1)])
      BY <3>1, <2>1
    <3> QED BY <3>2, <2>1
  <2>3. Entries[i] = x \o y /\ x \in S /\ y \in S
    BY <2>1, <1>2, <1>4
  <2>4. y = <<>> \/ (Len(y) >= 1 /\ y[1].tag = "head")
    BY <1>6
  <2> HIDE DEF x, y, e, c, Add
  <2>5. Len(x) \in Nat /\ Len(y) \in Nat /\ Len(x \o y) = Len(x) + Len(y)
        /\ (\A h \in 1..Len(x) : (x \o y)[h] = x[h]) /\ (\A h \in 1..Len(y) : (x \o y)[Len(x) + h] = y[h])
    BY <2>3
  <2> DEFINE z == x \o y
  <2>6. Len(z) \in Nat /\ Len(z) = Len(x) + Len(y) /\ (\A h \in 1..Len(x) : z[h] = x[h])
        /\ (Len(y) >= 1 => z[Len(x) + 1] = y[1]) /\ (y = <<>> => Len(y) = 0)
    <3>1. Len(y) >= 1 => 1 \in 1..Len(y)
      BY <2>5
    <3> QED BY <3>1, <2>5
  <2> HIDE DEF z
  <2>7. c <= Len(z)
    BY <2>2, <2>5, <2>6, <1>6
  <2>8. \A h \in 1..Len(e) : z[Len(a) + h] = e[h]
    <3>1. \A h \in 1..Len(e) : Len(a) + h \in 1..Len(x)
      BY <2>2, <2>5, <1>6 DEF c
    <3> QED BY <3>1, <2>2, <2>6
  <2>9. ASSUME Len(z) > c PROVE z[c + 1].tag = "head"
    <3>1. CASE Len(x) > c
      <4>1. c + 1 \in 1..Len(x)
        BY <3>1, <2>5, <1>6
      <4> QED BY <3>1, <4>1, <2>2, <2>6
    <3>2. CASE ~ (Len(x) > c)
      <4>1. Len(x) = c /\ Len(y) >= 1
        BY <3>2, <2>2, <2>5, <2>6, <2>9, <1>6
      <4>2. y # <<>>
        BY <4>1, <2>6
      <4> QED BY <4>1, <4>2, <2>4, <2>6
    <3> QED BY <3>1, <3>2
  <2>10. Good(Entries[s + k])
    BY <2>3, <2>7, <2>8, <2>9 DEF z
  <2> HIDE DEF Good
  <2> QED BY <2>1, <2>10
<1>9. P \subseteq Nat /\ t - s \in Nat
  BY <1>1
<1> HIDE DEF P
<1>10. t - s \in P
  <2>1. 0..(t - s) \subseteq P
    BY <1>7, <1>8, <1>9, Steps
  <2> QED BY <2>1, <1>9
<1>11. Good(b)
  <2>1. s + (t - s) = t /\ t <= Slots
    BY <1>1
  <2>2. t - s \in {h \in Nat : s + h <= Slots => Good(Entries[s + h])}
    BY <1>10 DEF P
  <2> HIDE DEF Good
  <2>3. Good(Entries[t])
    BY <2>1, <2>2
  <2> QED BY <2>3
<1> QED BY <1>5, <1>11

\* The answer has the entry of every slot in use.
LEMMA AnswerShows ==
  ASSUME ModemOK, NEW s \in Held
  PROVE  \E off \in Nat : Shown(Answer, off, s) /\ off + Len(Text[storage[s]]) + 1 = Len(Entries[s])
<1> DEFINE a == Entries[s - 1]
           e == Entries[Slots]
           text == Text[storage[s]]
           L == Len(text)
           c == Len(a) + L + 1
           ok == Line("ok", Nobody, 0)
           off == Len(a)
<1>1. s \in 1..Slots /\ Slots \in s..Slots
  BY HeldIs, ConstantsOK DEF ConstantsOK
<1>2. /\ L \in Nat /\ Len(Entry(s)) = L + 1 /\ Entry(s)[1] = Line("head", storage[s], s)
      /\ \A i \in 1..L : Entry(s)[i + 1].tag = text[i]
  <2>1. text = Text[storage[s]]
    OBVIOUS
  <2> HIDE DEF text
  <2> QED BY <2>1, EntryLines
<1>3. /\ a \in Seq(AtLines) /\ e \in Seq(AtLines) /\ Len(a) + Len(Entry(s)) <= Len(e)
      /\ \A i \in 1..Len(Entry(s)) : e[Len(a) + i] = Entry(s)[i]
      /\ Len(e) > Len(a) + Len(Entry(s)) => e[Len(a) + Len(Entry(s)) + 1].tag = "head"
  <2>1. a = Entries[s - 1] /\ e = Entries[Slots]
    OBVIOUS
  <2> HIDE DEF a, e
  <2> QED BY <1>1, <2>1, EntriesGrow
<1>4. Answer = e \o <<ok>> /\ ok \in AtLines
  BY AnswerOK DEF Answer, ModemOK, Storage
<1>5. ok.tag = "ok"
  BY DEF Line
<1> HIDE DEF e, ok
<1>6. /\ Len(Answer) = Len(e) + 1 /\ (\A i \in 1..Len(e) : Answer[i] = e[i]) /\ Answer[Len(e) + 1] = ok
      /\ Len(e) \in Nat
  BY <1>3, <1>4
<1>7. off \in Nat
  BY <1>3
<1> HIDE DEF text, L, off, a
<1>8. off + (L + 1) <= Len(e) /\ \A i \in 1..(L + 1) : e[off + i] = Entry(s)[i]
  BY <1>2, <1>3 DEF off
<1>9. Len(e) > off + (L + 1) => e[off + (L + 1) + 1].tag = "head"
  BY <1>2, <1>3 DEF off
<1>10. \A i \in 1..(L + 1) : Answer[off + i] = Entry(s)[i]
  <2>1. \A i \in 1..(L + 1) : off + i \in 1..Len(e)
    BY <1>2, <1>6, <1>7, <1>8
  <2> QED BY <2>1, <1>6, <1>8
<1>11. Answer[off + 1] = Line("head", storage[s], s)
  <2>1. 1 \in 1..(L + 1)
    BY <1>2
  <2> QED BY <2>1, <1>2, <1>10
<1>12. \A i \in 1..L : Answer[off + 1 + i].tag = text[i]
  <2>1. \A i \in 1..L : i + 1 \in 1..(L + 1) /\ off + (i + 1) = off + 1 + i
    BY <1>2, <1>7
  <2>2. \A i \in 1..L : Answer[off + (i + 1)] = Entry(s)[i + 1]
    BY <2>1, <1>10
  <2> QED BY <2>1, <2>2, <1>2
<1>13. off + L + 2 <= Len(Answer) /\ Answer[off + L + 2].tag \in Stops
  <2> DEFINE z == Len(e)
  <2>1. L \in Nat /\ z \in Nat /\ off + (L + 1) <= z /\ Len(Answer) = z + 1
    BY <1>2, <1>6, <1>8
  <2> HIDE DEF z
  <2>2. off + (L + 1) + 1 = off + L + 2 /\ off + L + 2 <= z + 1
    BY <2>1, <1>7
  <2>3. off + L + 2 <= Len(Answer)
    BY <2>2, <2>1
  <2>4. CASE Len(e) > off + (L + 1)
    <3>1. off + L + 2 \in 1..z
      BY <2>4, <2>1, <1>7 DEF z
    <3>2. Answer[off + L + 2] = e[off + L + 2]
      BY <3>1, <1>6 DEF z
    <3>3. e[off + L + 2].tag = "head"
      BY <2>2, <2>4, <1>9
    <3> QED BY <3>2, <3>3, <2>3 DEF Stops
  <2>5. CASE ~ (Len(e) > off + (L + 1))
    <3>1. off + L + 2 = z + 1
      BY <2>5, <2>1, <1>7 DEF z
    <3>2. Answer[off + L + 2] = ok
      BY <3>1, <1>6 DEF z
    <3> QED BY <3>2, <2>3, <1>5 DEF Stops
  <2> QED BY <2>4, <2>5
<1>14. Shown(Answer, off, s)
  BY <1>11, <1>12, <1>13 DEF Shown, L, text
<1>15. off + L + 1 = Len(Entries[s])
  <2> DEFINE x == Entry(s)
  <2>1. a \in Seq(AtLines) /\ x \in Seq(AtLines)
    BY <1>3, EntryOK DEF ModemOK, Storage
  <2>2. Entries[s] = a \o x
    BY <1>1, EntriesAre DEF a
  <2> HIDE DEF x
  <2>3. Len(a \o x) = Len(a) + Len(x)
    BY <2>1
  <2>4. Len(a) = off /\ Len(x) = L + 1
    BY <1>2 DEF x, off, L, a, text
  <2> QED BY <2>2, <2>3, <2>4, <1>2, <1>7
<1> QED BY <1>7, <1>14, <1>15 DEF L, text

\* What each kind of line does.
LEMMA AtHead ==
  ASSUME NEW acc \in AtStates, NEW line, line.tag = "head", NEW new, new = AtLine(acc, line)
  PROVE  new.rows = Append(acc.rows, Row(line.about, line.msg, line.msg, <<>>)) /\ new.open = TRUE
<1>1. new = [rows |-> Append(acc.rows, Row(line.about, line.msg, line.msg, <<>>)), open |-> TRUE]
  BY DEF AtLine, RowIndex
<1> QED BY <1>1

LEMMA AtClose ==
  ASSUME NEW acc \in AtStates, NEW line, line.tag = "ok", NEW new, new = AtLine(acc, line)
  PROVE  new.rows = acc.rows /\ new.open = FALSE
<1>1. new = [acc EXCEPT !.open = FALSE]
  BY DEF AtLine, Closes
<1> QED BY <1>1 DEF AtStates

\* The rows q with the line l joined to the last of them.
Joined(q, l) == [q EXCEPT ![Len(q)] = [q[Len(q)] EXCEPT !.body = Append(@, l)]]

LEMMA AtText ==
  ASSUME NEW acc \in AtStates, NEW line, line.tag \notin Stops, NEW new, new = AtLine(acc, line)
  PROVE  /\ acc.open => new.rows = Joined(acc.rows, line.tag)
         /\ ~ acc.open => new.rows = acc.rows
         /\ new.open = acc.open
<1>1. acc.open => new = [acc EXCEPT !.rows[Len(acc.rows)].body = Append(@, line.tag)]
  BY DEF AtLine, Closes, Stops
<1>2. ~ acc.open => new = acc
  BY DEF AtLine, Closes, Stops
<1>3. acc.open \in BOOLEAN
  BY DEF AtStates
<1> QED BY <1>1, <1>2, <1>3 DEF AtStates, Joined

\* The text up to its first stop.
LEMMA UntilIs ==
  ASSUME NEW text \in Seq(Looks), NEW e \in 1..(Len(text) + 1),
         e <= Len(text) => text[e] \in Stops,
         \A i \in 1..(e - 1) : text[i] \notin Stops
  PROVE  SubSeq(text, 1, e - 1) = Until(text, Stops)
<1> DEFINE ends == {i \in DOMAIN text : text[i] \in Stops}
<1>1. DOMAIN text = 1..Len(text) /\ Len(text) \in Nat
  OBVIOUS
<1>2. Until(text, Stops) = IF ends = {} THEN text ELSE SubSeq(text, 1, Min(ends) - 1)
  BY DEF Until
<1>3. CASE e = Len(text) + 1
  <2>1. e - 1 = Len(text)
    BY <1>1, <1>3
  <2>2. ends = {}
    BY <1>1, <2>1
  <2>3. SubSeq(text, 1, Len(text)) = text
    BY SubSeqFull
  <2> QED BY <2>1, <2>2, <2>3, <1>2
<1>4. CASE e # Len(text) + 1
  <2>1. e \in ends
    BY <1>1, <1>4
  <2>2. \A i \in ends : e <= i
    BY <1>1
  <2>3. ends \subseteq Nat
    BY <1>1
  <2> HIDE DEF ends
  <2>4. Min(ends) = e
    <3> DEFINE Smallest(x) == x \in ends /\ \A y \in ends : x <= y
               c == CHOOSE x : Smallest(x)
    <3>1. Min(ends) = c
      BY DEF Min
    <3>2. Smallest(e)
      BY <2>1, <2>2
    <3>3. Smallest(c)
      <4> HIDE DEF Smallest
      <4> QED BY <3>2
    <3> HIDE DEF c
    <3>4. c \in Nat /\ e \in Nat /\ c <= e /\ e <= c
      BY <3>2, <3>3, <2>3
    <3> QED BY <3>1, <3>4
  <2> QED BY <2>1, <2>4, <1>2
<1> QED BY <1>3, <1>4

\* A header opens the row, the text fills it up to its first stop, and no later
\* line reaches it.
LEMMA AtFaithful ==
  ASSUME ModemOK, escapes, NEW s \in Held, Len(Entries[s]) < AtCap
  PROVE  \E i \in DOMAIN AtItems(Answer) : AtItems(Answer)[i] =
           Row(s, storage[s], storage[s], Until(Text[storage[s]], {"ok", "head"}))
<1> DEFINE lines == Answer
           all == Len(lines)
           n == Upto(all, AtCap)
           m == storage[s]
           text == Text[m]
           L == Len(text)
           r == AtRun(lines)
<1>a. lines \in Seq(AtLines) /\ all \in Nat /\ \A i \in 1..all : lines[i] \in AtLines
  BY AnswerOK DEF ModemOK, Storage
<1>b. AtCap \in Nat /\ n \in 0..all /\ n <= AtCap /\ (all <= AtCap => n = all) /\ (all > AtCap => n = AtCap)
  BY <1>a, UptoIs, ConstantsOK DEF ConstantsOK
<1>1. n \in Nat /\ \A i \in 1..n : lines[i] \in AtLines
  <2> HIDE DEF n, lines, all
  <2> QED BY <1>a, <1>b
<1>2. AtItems(Answer) = r[n].rows
  BY DEF AtItems
<1>3. PICK off \in Nat : Shown(lines, off, s) /\ off + Len(Text[storage[s]]) + 1 = Len(Entries[s])
  BY AnswerShows
<1>4. text \in Seq(Looks) /\ L \in Nat
  <2>1. m \in Messages
    BY HeldIs
  <2> QED BY <2>1, ConstantsOK DEF ConstantsOK
<1>c. /\ off + L + 2 <= all /\ lines[off + 1] = Line("head", m, s)
      /\ \A i \in 1..L : lines[off + 1 + i].tag = text[i]
      /\ lines[off + L + 2].tag \in Stops
  BY <1>3 DEF Shown
<1>d. off + L + 1 < AtCap
  BY <1>3
<1> HIDE DEF lines, all, n, text, m, L
<1>e. off + L + 2 <= n
  BY <1>a, <1>b, <1>c, <1>d, <1>4
<1>5. /\ off + L + 2 <= n /\ lines[off + 1] = Line("head", m, s)
      /\ \A i \in 1..L : lines[off + 1 + i].tag = text[i]
      /\ lines[off + L + 2].tag \in Stops
  BY <1>c, <1>e
<1>6. /\ \A i \in 0..n : r[i] \in AtStates
      /\ \A i \in 1..n : r[i] = AtLine(r[i - 1], lines[i])
  <2>1. [rows |-> <<>>, open |-> FALSE] \in AtStates
    BY DEF AtStates
  <2>2. \A acc \in AtStates : \A i \in 1..Len(lines) : AtLine(acc, lines[i]) \in AtStates
    BY <1>a, AtLineStays DEF all
  <2>3. /\ r \in [0..all -> AtStates]
        /\ \A i \in 1..all : r[i] = AtLine(r[i - 1], lines[i])
    BY <1>a, <2>1, <2>2, AtRunIs DEF all
  <2> HIDE DEF r
  <2>4. n \in Nat /\ all \in Nat /\ n <= all
    BY <1>a, <1>b
  <2>5. \A i \in 1..n : i \in 1..all
    BY <2>4
  <2>6. \A i \in 0..n : i \in 0..all
    BY <2>4
  <2> QED BY <2>3, <2>5, <2>6
<1> HIDE DEF r
<1>7. \A x \in AtStates : x.rows \in Seq(AtRowSet) /\ Len(x.rows) \in Nat /\ DOMAIN x.rows = 1..Len(x.rows) /\ x.open \in BOOLEAN
  BY DEF AtStates
<1> DEFINE d == off + 1
           a == r[off]
           j == Len(a.rows) + 1
<1>8. off \in 0..n /\ d \in 1..n /\ d \in 0..n /\ d - 1 = off /\ d \in Nat
  BY <1>1, <1>4, <1>5
<1>9. a \in AtStates /\ j \in Nat /\ j >= 1 /\ Len(a.rows) \in Nat /\ a.rows \in Seq(AtRowSet)
  BY <1>6, <1>7, <1>8
\* The first line that closes the row or opens another.
<1> DEFINE J == {i \in 1..(L + 1) : lines[d + i].tag \in Stops}
<1>10. PICK e \in J : \A i \in J : e <= i
  <2>1. L + 1 \in J
    <3>1. d + (L + 1) = off + L + 2 /\ L + 1 \in 1..(L + 1)
      BY <1>4
    <3> QED BY <3>1, <1>5
  <2>2. J \in SUBSET Nat /\ J # {}
    BY <2>1
  <2> HIDE DEF J
  <2> QED BY <2>2, Less
<1>11. /\ e \in 1..(L + 1) /\ e \in Nat /\ lines[d + e].tag \in Stops
       /\ \A i \in 1..(e - 1) : i \in 1..L /\ lines[d + i].tag \notin Stops
  <2>1. e \in 1..(L + 1) /\ e \in Nat /\ lines[d + e].tag \in Stops
    BY <1>4
  <2>2. ASSUME NEW i \in 1..(e - 1) PROVE i \in 1..L /\ lines[d + i].tag \notin Stops
    <3>1. i \in 1..L /\ i \in 1..(L + 1) /\ ~ (e <= i)
      BY <2>1, <1>4
    <3> QED BY <3>1, <1>10
  <2> QED BY <2>1, <2>2
<1> HIDE DEF J
<1>12. \A i \in 0..(L + 1) : d + i \in 0..n
  BY <1>1, <1>4, <1>5, <1>8
<1>13. \A i \in 1..(L + 1) : d + i \in 1..n /\ (d + i) - 1 = d + (i - 1)
  BY <1>1, <1>4, <1>5, <1>8
<1>14. \A i \in 1..L : lines[d + i].tag = text[i]
  BY <1>5
<1> DEFINE B(i) == Row(s, m, m, SubSeq(text, 1, i))
           Grown(i) == Len(r[d + i].rows) = j /\ r[d + i].open = TRUE /\ r[d + i].rows[j] = B(i)
           P == {i \in 0..(e - 1) : Grown(i)}
<1>15. 0 \in P
  <2>1. lines[d] = Line("head", m, s) /\ r[d] = AtLine(a, lines[d]) /\ r[d] \in AtStates
    BY <1>5, <1>6, <1>8
  <2>2. lines[d].tag = "head" /\ lines[d].about = s /\ lines[d].msg = m
    BY <2>1 DEF Line
  <2> DEFINE l == lines[d]
             z == r[d]
  <2>3. l.tag = "head" /\ l.about = s /\ l.msg = m /\ z = AtLine(a, l) /\ a \in AtStates
    BY <2>1, <2>2, <1>9
  <2> HIDE DEF l, z
  <2>4. z.rows = Append(a.rows, Row(s, m, m, <<>>)) /\ z.open = TRUE
    BY <2>3, AtHead
  <2>5. r[d].rows = Append(a.rows, Row(s, m, m, <<>>)) /\ r[d].open = TRUE
    BY <2>4 DEF z
  <2>6. SubSeq(text, 1, 0) = <<>>
    BY SubSeqEmpty
  <2> DEFINE q == a.rows
             w == Row(s, m, m, <<>>)
  <2>7. Len(q) \in Nat /\ q \in Seq(AtRowSet)
    BY <1>9
  <2> HIDE DEF q, w
  <2>8. Len(Append(q, w)) = Len(q) + 1 /\ Append(q, w)[Len(q) + 1] = w
    BY <2>7
  <2>9. Len(r[d].rows) = j /\ r[d].rows[j] = w
    BY <2>5, <2>8 DEF q, w
  <2>10. d + 0 = d /\ 0 \in 0..(e - 1)
    BY <1>8, <1>11
  <2>11. w = B(0)
    BY <2>6 DEF w
  <2> HIDE DEF j, d, B, a
  <2> QED BY <2>5, <2>9, <2>10, <2>11
<1>16. ASSUME NEW i \in 1..(e - 1), i - 1 \in P PROVE i \in P
  <2> DEFINE x == r[d + (i - 1)]
             y == r[d + i]
             q == x.rows
  <2>1. i \in 1..L /\ i \in 1..(L + 1) /\ i - 1 \in 0..(L + 1) /\ i \in 0..(L + 1) /\ i \in 0..(e - 1)
    BY <1>4, <1>11
  <2>2. y = AtLine(x, lines[d + i]) /\ x \in AtStates /\ y \in AtStates
    BY <2>1, <1>6, <1>12, <1>13
  <2>3. lines[d + i].tag = text[i] /\ lines[d + i].tag \notin Stops
    BY <2>1, <1>11, <1>14
  <2>4. Len(q) = j /\ x.open = TRUE /\ q[j] = B(i - 1)
    BY <1>16
  <2> HIDE DEF P, B, Grown
  <2> DEFINE w == [q[Len(q)] EXCEPT !.body = Append(@, lines[d + i].tag)]
  <2>5. y.rows = [q EXCEPT ![Len(q)] = w] /\ y.open = TRUE
    <3> DEFINE l == lines[d + i]
    <3>1. x \in AtStates /\ y = AtLine(x, l) /\ l.tag \notin Stops /\ x.open = TRUE /\ q = x.rows /\ l = lines[d + i]
      BY <2>2, <2>3, <2>4
    <3> HIDE DEF x, y, l, q, d, w
    <3>2. y.rows = Joined(x.rows, l.tag) /\ y.open = x.open
      BY <3>1, AtText
    <3>3. Joined(q, l.tag) = [q EXCEPT ![Len(q)] = w]
      BY DEF Joined, w, l
    <3> QED BY <3>1, <3>2, <3>3
  <2>6. q \in Seq(AtRowSet) /\ DOMAIN q = 1..Len(q) /\ Len(q) \in Nat
    BY <2>2, <1>7
  <2>7. w = B(i)
    <3>1. SubSeq(text, 1, i) = SubSeq(text, 1, i - 1) \o <<text[i]>>
      <4>1. 1 \in 1..Len(text) /\ i \in 1..Len(text)
        BY <2>1, <1>4 DEF L
      <4> QED BY <4>1, <1>4, SubSeqRecursiveSecond
    <3>2. SubSeq(text, 1, i - 1) \in Seq(Looks)
      <4>1. \A h \in 1..(i - 1) : text[h] \in Looks
        BY <2>1, <1>4 DEF L
      <4> QED BY <4>1, <2>1, SubSeqProperties
    <3> DEFINE z == SubSeq(text, 1, i - 1)
               t == text[i]
    <3> HIDE DEF z, t
    <3>3. z \in Seq(Looks) /\ t \in Looks /\ SubSeq(text, 1, i) = z \o <<t>>
      BY <3>1, <3>2, <2>1, <1>4 DEF z, t, L
    <3>4. Append(z, t) = z \o <<t>>
      BY <3>3
    <3>5. q[Len(q)] = Row(s, m, m, z)
      BY <2>4 DEF B, z
    <3>6. w = [Row(s, m, m, z) EXCEPT !.body = Append(@, t)]
      BY <3>5, <2>3 DEF t
    <3>7. [Row(s, m, m, z) EXCEPT !.body = Append(@, t)] = Row(s, m, m, Append(z, t))
      <4>1. Row(s, m, m, z) = [index |-> s, msg |-> m, sender |-> m, body |-> z]
        BY DEF Row
      <4> DEFINE o == [index |-> s, msg |-> m, sender |-> m, body |-> z]
                 z2 == Append(z, t)
      <4>2. o.body = z /\ o = Row(s, m, m, z)
        BY <4>1
      <4>3. [o EXCEPT !.body = z2] = [index |-> s, msg |-> m, sender |-> m, body |-> z2]
        <5> HIDE DEF z2
        <5> QED OBVIOUS
      <4>4. Row(s, m, m, z2) = [index |-> s, msg |-> m, sender |-> m, body |-> z2]
        BY DEF Row
      <4>5. [o EXCEPT !.body = Append(@, t)] = [o EXCEPT !.body = z2]
        <5>1. Append(o.body, t) = z2
          BY <4>2
        <5> HIDE DEF o, z2
        <5> QED BY <5>1
      <4> HIDE DEF o
      <4> QED BY <4>2, <4>3, <4>4, <4>5
    <3> QED BY <3>3, <3>4, <3>6, <3>7 DEF B
  <2>8. Len(y.rows) = j /\ y.rows[j] = w
    <3> DEFINE p == y.rows
    <3>1. p = [q EXCEPT ![Len(q)] = w]
      BY <2>5
    <3>2. DOMAIN p = 1..Len(p) /\ Len(p) \in Nat
      BY <2>2, <1>7
    <3>3. Len(q) \in DOMAIN q
      BY <2>4, <2>6, <1>9
    <3> HIDE DEF p, q, w
    <3>4. DOMAIN p = DOMAIN q /\ p[Len(q)] = w
      BY <3>1, <3>3
    <3>5. Len(p) = Len(q)
      BY <3>2, <3>4, <2>6, SameLength
    <3> QED BY <3>4, <3>5, <2>4 DEF p
  <2>9. Grown(i)
    BY <2>5, <2>7, <2>8 DEF Grown
  <2> QED BY <2>1, <2>9 DEF P
<1>17. Grown(e - 1)
  <2>1. P \subseteq Nat /\ e - 1 \in Nat /\ e - 1 \in 0..(e - 1)
    BY <1>11
  <2> HIDE DEF P
  <2>2. 0..(e - 1) \subseteq P
    BY <2>1, <1>15, <1>16, Steps
  <2>3. e - 1 \in P
    BY <2>1, <2>2
  <2> HIDE DEF Grown
  <2> QED BY <2>3 DEF P
<1>18. SubSeq(text, 1, e - 1) = Until(text, Stops)
  <2>1. e <= Len(text) => text[e] \in Stops
    BY <1>4, <1>11, <1>14 DEF L
  <2>2. \A i \in 1..(e - 1) : text[i] \notin Stops
    BY <1>11, <1>14
  <2>3. e \in 1..(Len(text) + 1)
    BY <1>11 DEF L
  <2> QED BY <2>1, <2>2, <2>3, <1>4, UntilIs
<1> DEFINE row == Row(s, m, m, Until(text, Stops))
           T == {x \in AtStates : j \in 1..Len(x.rows) /\ x.rows[j] = row /\ (x.open => Len(x.rows) > j)}
<1>19. B(e - 1) = row
  BY <1>18
<1> HIDE DEF B, row, j, P
<1>20. j \in Nat /\ j >= 1
  BY <1>9 DEF j
<1>21. r[d + e] \in T
  <2> DEFINE x == r[d + (e - 1)]
             y == r[d + e]
             q == x.rows
  <2>1. e \in 1..(L + 1) /\ e - 1 \in 0..(L + 1) /\ e \in 0..(L + 1)
    BY <1>4, <1>11
  <2>2. y = AtLine(x, lines[d + e]) /\ x \in AtStates /\ y \in AtStates
    BY <2>1, <1>6, <1>12, <1>13
  <2>3. Len(q) = j /\ q[j] = row
    BY <1>17, <1>19
  <2>4. lines[d + e].tag \in Stops
    BY <1>11
  <2>5. q \in Seq(AtRowSet) /\ Len(q) \in Nat
    BY <2>2, <1>7
  <2> HIDE DEF y, q, d
  <2>6. CASE lines[d + e].tag = "ok"
    <3>1. y.rows = q /\ y.open = FALSE
      <4> HIDE DEF x
      <4> QED BY <2>2, <2>6, AtClose DEF q
    <3> QED BY <3>1, <2>2, <2>3, <1>20 DEF y
  <2>7. CASE lines[d + e].tag = "head"
    <3> DEFINE l == lines[d + e]
               w == Row(l.about, l.msg, l.msg, <<>>)
    <3>1. y.rows = Append(q, w) /\ y.open = TRUE
      <4>1. x \in AtStates /\ y = AtLine(x, l) /\ l.tag = "head" /\ q = x.rows
        BY <2>2, <2>7 DEF q
      <4> HIDE DEF x, l, w
      <4>2. y.rows = Append(x.rows, Row(l.about, l.msg, l.msg, <<>>)) /\ y.open = TRUE
        BY <4>1, AtHead
      <4> QED BY <4>1, <4>2 DEF w
    <3> HIDE DEF w, l, T, x
    <3>2. Len(Append(q, w)) = Len(q) + 1 /\ \A k \in 1..Len(q) : Append(q, w)[k] = q[k]
      BY <2>5
    <3>3. Len(y.rows) = j + 1 /\ y.rows[j] = row /\ j \in 1..(j + 1) /\ j + 1 > j
      BY <3>1, <3>2, <2>3, <1>20
    <3> QED BY <3>3, <2>2 DEF T, y
  <2> QED BY <2>4, <2>6, <2>7 DEF Stops
<1>22. ASSUME NEW x \in T, NEW line \in AtLines PROVE AtLine(x, line) \in T
  <2> DEFINE y == AtLine(x, line)
             q == x.rows
  <2>1. x \in AtStates /\ y \in AtStates
    BY AtLineStays
  <2>2. q \in Seq(AtRowSet) /\ Len(q) \in Nat /\ DOMAIN q = 1..Len(q) /\ x.open \in BOOLEAN
    BY <2>1, <1>7
  <2>3. j \in 1..Len(q) /\ q[j] = row /\ (x.open => Len(q) > j)
    OBVIOUS
  <2> HIDE DEF T
  <2>4. ASSUME j \in 1..Len(y.rows), y.rows[j] = row, y.open => Len(y.rows) > j PROVE y \in T
    <3> HIDE DEF y
    <3> QED BY <2>1, <2>4 DEF T
  <2>5. CASE line.tag = "head"
    <3> DEFINE w == Row(line.about, line.msg, line.msg, <<>>)
    <3>1. y.rows = Append(q, w)
      BY <2>1, <2>5, AtHead
    <3> HIDE DEF w, y, q
    <3>2. Len(Append(q, w)) = Len(q) + 1 /\ \A k \in 1..Len(q) : Append(q, w)[k] = q[k]
      BY <2>2
    <3>3. Len(y.rows) = Len(q) + 1 /\ y.rows[j] = row
      BY <3>1, <3>2, <2>3
    <3>4. j \in 1..Len(y.rows) /\ Len(y.rows) > j
      BY <3>3, <2>2, <2>3
    <3> QED BY <3>3, <3>4, <2>4 DEF y
  <2>6. CASE line.tag = "ok"
    <3>1. y.rows = q /\ y.open = FALSE
      BY <2>1, <2>6, AtClose
    <3> HIDE DEF y, q
    <3> QED BY <3>1, <2>3, <2>4 DEF y
  <2>7. CASE line.tag \notin Stops
    <3> DEFINE w == [q[Len(q)] EXCEPT !.body = Append(@, line.tag)]
    <3>1. /\ x.open => y.rows = Joined(q, line.tag)
          /\ ~ x.open => y.rows = q
          /\ y.open = x.open
      BY <2>1, <2>7, AtText
    <3> DEFINE p == y.rows
    <3>2. p \in Seq(AtRowSet) /\ Len(p) \in Nat /\ DOMAIN p = 1..Len(p)
      BY <2>1, <1>7
    <3>3. CASE x.open
      <4>1. p = [q EXCEPT ![Len(q)] = w]
        BY <3>1, <3>3 DEF Joined
      <4> HIDE DEF p, q, w
      <4>2. DOMAIN p = DOMAIN q /\ \A k \in DOMAIN q : k # Len(q) => p[k] = q[k]
        BY <4>1
      <4>3. Len(p) = Len(q)
        BY <4>2, <3>2, <2>2, SameLength
      <4> DEFINE z == Len(q)
      <4>4. z > j /\ z \in Nat /\ DOMAIN q = 1..z /\ j \in 1..z
        BY <2>2, <2>3, <3>3
      <4> HIDE DEF z
      <4>5. j # z /\ j \in DOMAIN q
        BY <4>4
      <4>6. Len(q) > j /\ j # Len(q) /\ j \in DOMAIN q
        BY <4>4, <4>5 DEF z
      <4>7. p[j] = row /\ j \in 1..Len(p) /\ Len(p) > j
        BY <4>2, <4>3, <4>6, <2>3
      <4> HIDE DEF y
      <4> QED BY <4>7, <2>4 DEF p, y
    <3>4. CASE ~ x.open
      <4>1. y.rows = q /\ ~ y.open
        BY <3>1, <3>4
      <4> HIDE DEF y, q
      <4> QED BY <4>1, <2>3, <2>4 DEF y
    <3> QED BY <3>3, <3>4
  <2> QED BY <2>5, <2>6, <2>7 DEF Stops
<1>23. r[n] \in T
  <2> DEFINE c == d + e
             f == [i \in 0..(n - c) |-> r[c + i]]
             k == n - c
  <2>1. c \in 0..n /\ k \in Nat /\ c \in Nat /\ c + k = n /\ c + 0 = c
    <3>1. e \in 0..(L + 1)
      BY <1>4, <1>11
    <3>2. c \in 0..n
      BY <3>1, <1>12
    <3> HIDE DEF c
    <3> QED BY <3>2, <1>1
  <2>2. \A i \in 0..k : f[i] = r[c + i]
    OBVIOUS
  <2> HIDE DEF c, f, T
  <2>3. f[0] \in T
    BY <2>1, <2>2, <1>21 DEF c
  <2>4. ASSUME NEW i \in 1..k, f[i - 1] \in T PROVE f[i] \in T
    <3>1. i \in 0..k /\ i - 1 \in 0..k /\ c + i \in 1..n /\ (c + i) - 1 = c + (i - 1)
      BY <2>1, <1>1
    <3>2. r[c + i] = AtLine(r[c + (i - 1)], lines[c + i]) /\ lines[c + i] \in AtLines
      BY <3>1, <1>1, <1>6 DEF n
    <3>3. f[i] = r[c + i] /\ f[i - 1] = r[c + (i - 1)]
      BY <3>1, <2>2
    <3> QED BY <3>2, <3>3, <2>4, <1>22
  <2> HIDE DEF k
  <2>5. \A i \in 0..k : f[i] \in T
    BY <2>1, <2>3, <2>4, Stays
  <2>6. k \in 0..k
    BY <2>1
  <2> QED BY <2>1, <2>2, <2>5, <2>6
<1>24. j \in DOMAIN AtItems(Answer) /\ AtItems(Answer)[j] = row
  <2>1. r[n] \in AtStates /\ j \in 1..Len(r[n].rows) /\ r[n].rows[j] = row
    BY <1>23
  <2>2. DOMAIN r[n].rows = 1..Len(r[n].rows)
    BY <2>1, <1>7
  <2> QED BY <2>1, <2>2, <1>2
<1> QED BY <1>24 DEF row, m, text, Stops

\* The page is given as much of it as the parser's buffer holds.
LEMMA AtRowsFaithful ==
  ASSUME ModemOK, escapes, NEW s \in Held, Len(Entries[s]) < AtCap
  PROVE  \E i \in DOMAIN AtRows : AtRows[i] =
           Row(s, storage[s], storage[s], Fitting(Until(Text[storage[s]], {"ok", "head"})))
<1> DEFINE items == AtItems(Answer)
           body == Until(Text[storage[s]], {"ok", "head"})
           m == storage[s]
<1>1. AtRows = [i \in DOMAIN items |-> [items[i] EXCEPT !.body = Fitting(@)]]
  BY DEF AtRows, Payload
<1>2. PICK i \in DOMAIN items : items[i] = Row(s, m, m, body)
  BY AtFaithful
<1>3. AtRows[i] = [items[i] EXCEPT !.body = Fitting(@)] /\ i \in DOMAIN AtRows
  BY <1>1
<1> DEFINE k == Fitting(body)
           o == items[i]
<1>4. o = [index |-> s, msg |-> m, sender |-> m, body |-> body]
  BY <1>2 DEF Row
<1>5. Fitting(o.body) = k
  BY <1>4
<1>6. AtRows[i] = [o EXCEPT !.body = k]
  BY <1>3, <1>5
<1> HIDE DEF items, body, m, k, o
<1>7. [o EXCEPT !.body = k] = [index |-> s, msg |-> m, sender |-> m, body |-> k]
  BY <1>4
<1>8. Row(s, m, m, k) = [index |-> s, msg |-> m, sender |-> m, body |-> k]
  BY DEF Row
<1> QED BY <1>3, <1>6, <1>7, <1>8 DEF k, m, body

-----------------------------------------------------------------------------
(* The theorems.                                                            *)

\* Every variable keeps its type; what ofono lists is what the slots hold
\* (the modem, as parsers.c and http.c read it).
THEOREM TypeCorrect == Spec => []TypeOK
<1>1. IInv => TypeOK
  BY Types DEF IInv
<1> QED BY <1>1, Inductive, PTL

\* A delete of a message shown by AT erases that message, if it still can, whatever
\* arrived or was erased since it was picked (http.c 498-508, deleteSms).
THEOREM Deletes == Spec => []DeleteHitsShown
<1>1. IInv => DeleteHitsShown
  BY DEF IInv, Answers
<1> QED BY <1>1, Inductive, PTL

\* A read answered by the source the message was picked from shows that message
\* (http.c 417-469, readSms).
THEOREM Reads == Spec => []ReadShowsPicked
<1>1. IInv => ReadShowsPicked
  BY DEF IInv, Answers
<1> QED BY <1>1, Inductive, PTL

\* Whenever the listing changes, every stored message whose lines the capture holds
\* has its row, whatever the lines of the texts look like, with the exceptions the
\* property names (parsers.c 364-396, 528-650, dbus_cmd.c 153).
THEOREM Faithful == Spec => ListIsFaithful
<1> DEFINE AtRow(s, i) ==
             rows'[i] = Row(s, storage[s], storage[s], Fitting(Until(Text[storage[s]], {"ok", "head"})))
           AtRight == \A s \in Held : Len(Entries[s]) < AtCap => \E i \in DOMAIN rows' : AtRow(s, i)
           OfonoRow(p, i) ==
             /\ rows'[i].msg = order[p]
             /\ \/ rows'[i].body = First(Text[order[p]])
                \/ {"text", "value"} \subseteq ToSet(Rest(Text[order[p]]))
             /\ rows'[i].index # p \/ rows'[i].sender # order[p] =>
                  \E q \in 1..p : ToSet(Rest(Text[order[q]])) \cap {"path", "bare"} # {}
           OfonoRight == \A p \in DOMAIN order : OfonoParsed[p].left > 0 =>
                           \E i \in DOMAIN rows' : OfonoRow(p, i)
<1>1. ASSUME ModemOK, List
      PROVE  (from' = "at" /\ escapes => AtRight) /\ (from' = "ofono" => OfonoRight)
  <2>1. \/ rows' = OfonoRows /\ from' = "ofono"
        \/ rows' = AtRows /\ from' = "at"
        \/ from' = "none"
    BY <1>1 DEF List, Listed
  <2>2. ASSUME from' = "at", escapes PROVE AtRight
    <3>1. rows' = AtRows
      BY <2>1, <2>2
    <3> SUFFICES ASSUME NEW s \in Held, Len(Entries[s]) < AtCap PROVE \E i \in DOMAIN rows' : AtRow(s, i)
      OBVIOUS
    <3>2. \E i \in DOMAIN AtRows :
            AtRows[i] = Row(s, storage[s], storage[s], Fitting(Until(Text[storage[s]], {"ok", "head"})))
      BY <1>1, <2>2, AtRowsFaithful
    <3> QED BY <3>1, <3>2
  <2>3. ASSUME from' = "ofono" PROVE OfonoRight
    <3>1. rows' = OfonoRows
      BY <2>1, <2>3
    <3> SUFFICES ASSUME NEW p \in DOMAIN order, OfonoParsed[p].left > 0
                 PROVE  \E i \in DOMAIN rows' : OfonoRow(p, i)
      OBVIOUS
    <3> QED BY <1>1, <3>1, OfonoRowsFaithful
  <2> QED BY <2>2, <2>3
<1>2. Next => List \/ rows' = rows
  BY DEF Next, Arrive, ErasedElsewhere, Pick, Read, ReadDone, Delete, list
<1>3. ASSUME IInv, [Next]_vars, rows' # rows PROVE ModemOK /\ List
  <2>1. rows' = rows \/ Next
    BY <1>3 DEF vars, list
  <2> QED BY <2>1, <1>2, <1>3 DEF IInv
<1>4. IInv /\ [Next]_vars =>
        [rows' # rows => (from' = "at" /\ escapes => AtRight) /\ (from' = "ofono" => OfonoRight)]_vars
  <2> HIDE DEF AtRight, OfonoRight
  <2> QED BY <1>1, <1>3
<1> QED BY <1>4, Inductive, PTL DEF Spec, ListIsFaithful

-----------------------------------------------------------------------------
(* The thread of the D-Bus monitor and its process.                         *)

LEMMA MonitorStep ==
  ASSUME DbusTypeOK, DbusNext
  PROVE  DbusTypeOK'
<1>1. {MaxSignals, MaxCrashes, MaxDeaths} \subseteq Nat /\ PipeSize \in Nat \ {0}
  BY DbusConstantsOK
<1>2. CASE MakePipe \/ Fork \/ ForkFails \/ EndOfFile \/ Wake
  BY <1>2 DEF MakePipe, Fork, ForkFails, EndOfFile, AtEof, Wake, DbusTypeOK, process, outside, table
<1>3. CASE Inherit \/ HolderEnds \/ Restart \/ Listen
  BY <1>3 DEF Inherit, HolderEnds, Restart, Listen, DbusTypeOK, process, outside, table
<1>4. CASE Reap
  <2>1. <<>> \in Seq(Signals) /\ <<>> \in Seq(Signals \cup {0}) /\ Len(<<>>) <= PipeSize
    BY <1>1
  <2> QED BY <1>4, <2>1 DEF Reap, DbusTypeOK, outside, table
<1>5. CASE ReadLine
  <2>1. Head(pipe) \in Signals \cup {0} /\ Tail(pipe) \in Seq(Signals \cup {0}) /\ Len(Tail(pipe)) <= PipeSize
    BY <1>1, <1>5 DEF ReadLine, DbusTypeOK
  <2>2. stored' \in Seq(Signals) /\ lost' \subseteq Signals
    <3>1. CASE Kept(Head(pipe))
      <4>1. Head(pipe) \in Signals
        BY <2>1, <3>1 DEF Kept
      <4>2. (stored' = Append(stored, Head(pipe)) /\ lost' = lost) \/ (stored' = stored /\ lost' = lost \cup {Head(pipe)})
        BY <1>5, <3>1 DEF ReadLine
      <4>3. stored \in Seq(Signals) /\ lost \subseteq Signals
        BY DEF DbusTypeOK
      <4>4. Append(stored, Head(pipe)) \in Seq(Signals) /\ lost \cup {Head(pipe)} \subseteq Signals
        BY <4>1, <4>3
      <4> QED BY <4>2, <4>3, <4>4
    <3>2. CASE ~Kept(Head(pipe))
      <4>1. stored' = stored /\ lost' = lost
        BY <1>5, <3>2 DEF ReadLine, table
      <4> QED BY <4>1 DEF DbusTypeOK
    <3> QED BY <3>1, <3>2
  <2> QED BY <1>5, <2>1, <2>2 DEF ReadLine, DbusTypeOK, outside, table
<1>6. CASE Emit
  <2>1. emitted' \in 0..MaxSignals /\ inbox' \in Seq(Signals)
    <3>1. CASE emitted < MaxSignals
      <4>1. emitted + 1 \in Signals
        BY <1>1, <3>1 DEF DbusTypeOK, Signals
      <4>2. emitted + 1 \in 0..MaxSignals
        BY <1>1, <3>1 DEF DbusTypeOK
      <4>3. Append(inbox, emitted + 1) \in Seq(Signals)
        BY <4>1 DEF DbusTypeOK
      <4> QED BY <1>6, <3>1, <4>2, <4>3 DEF Emit, DbusTypeOK
    <3>2. CASE ~ (emitted < MaxSignals)
      BY <1>6, <3>2 DEF Emit, DbusTypeOK
    <3> QED BY <3>1, <3>2
  <2>2. orphan' \in BOOLEAN
    BY <1>6, Zenon DEF Emit
  <2> QED BY <1>6, <2>1, <2>2 DEF Emit, DbusTypeOK, table
<1>7. CASE Prints
  <2>1. inbox # <<>> => Head(inbox) \in Signals /\ Tail(inbox) \in Seq(Signals)
    BY DEF DbusTypeOK
  <2>2. ASSUME NEW line \in Signals \cup {0}
        PROVE  Append(pipe, line) \in Seq(Signals \cup {0}) /\ Len(Append(pipe, line)) <= PipeSize
    BY <1>1, <1>7 DEF Prints, DbusTypeOK
  <2>3. pipe' \in Seq(Signals \cup {0}) /\ Len(pipe') <= PipeSize /\ inbox' \in Seq(Signals)
    <3>1. CASE inbox # <<>> /\ pipe' = Append(pipe, Head(inbox)) /\ inbox' = Tail(inbox)
      BY <2>1, <2>2, <3>1
    <3>2. CASE pipe' = Append(pipe, 0) /\ inbox' = inbox
      BY <2>2, <3>2 DEF DbusTypeOK
    <3> QED BY <1>7, <3>1, <3>2 DEF Prints
  <2> QED BY <1>7, <2>3 DEF Prints, DbusTypeOK, outside, table
<1>8. CASE Dies
  BY <1>1, <1>8 DEF Dies, DbusTypeOK, outside, table
<1>9. CASE Crash \/ BindFails
  <2>1. <<>> \in Seq(Signals) /\ <<>> \in Seq(Signals \cup {0}) /\ Len(<<>>) <= PipeSize
    BY <1>1
  <2>2. orphan' \in BOOLEAN /\ crashes' \in 0..MaxCrashes
    BY <1>1, <1>9 DEF Crash, BindFails, DbusTypeOK
  <2> QED BY <1>9, <2>1, <2>2 DEF Crash, BindFails, DbusTypeOK, table
<1> QED BY <1>2, <1>3, <1>4, <1>5, <1>6, <1>7, <1>8, <1>9 DEF DbusNext

\* The monitor's variables keep their types for any number of signals, deaths and
\* crashes and any pipe: the thread never leaves a living process behind, to start
\* another or to sleep, and only lines that were signals are stored
\* (dbus_monitor.c 12-60).
THEOREM MonitorTypeCorrect == DbusSpec => []DbusTypeOK
<1>1. DbusInit => DbusTypeOK
  <2>1. <<>> \in Seq(Signals) /\ <<>> \in Seq(Signals \cup {0}) /\ Len(<<>>) = 0
    OBVIOUS
  <2>2. 0 \in 0..MaxSignals /\ 0 \in 0..MaxCrashes /\ 0 \in 0..MaxDeaths /\ 0 <= PipeSize
    BY DbusConstantsOK
  <2> QED BY <2>1, <2>2 DEF DbusInit, DbusTypeOK
<1>2. DbusTypeOK /\ [DbusNext]_dbusVars => DbusTypeOK'
  <2> SUFFICES ASSUME DbusTypeOK, UNCHANGED dbusVars PROVE DbusTypeOK'
    BY MonitorStep
  <2> QED BY DEF dbusVars, process, outside, table, DbusTypeOK
<1> QED BY <1>1, <1>2, PTL DEF DbusSpec
===============================================================================
