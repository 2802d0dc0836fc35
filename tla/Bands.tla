--------------------------------- MODULE Bands ---------------------------------
(***************************************************************************)
(* The band panel: append_fibocom_band_items (parsers.c 159-228) turns the *)
(* modem's list into the rows the page shows, and the codes of the ticked  *)
(* rows into the text of a field, which is what a lock takes and which the *)
(* operator may also edit by hand.                                         *)
(*                                                                         *)
(* The modem names a band (BAND_LTE_3) or gives its code: 103 for LTE B3,  *)
(* and for NR 50 followed by the band, 501 for n1 and 5010 for n10.        *)
(***************************************************************************)
EXTENDS Integers, SequencesExt

CONSTANTS Names,     \* [rat, band]: what may be named
          Numbers,   \* the numbers that may be in the reply, codes and others
          MaxBands,  \* bound on the length of a reply
          Typed,     \* the lists of codes an operator types
          SeenSize   \* size of the array seen, 256 in the code

VARIABLES
  reply,    \* what the modem listed: names and [rat |-> "none", band |-> number]
  rows,     \* the rows of the table: [rat, code, band]
  ticked,   \* the boxes that are ticked, each the index of its row
  list,     \* the codes in the field #bandList, as they follow each other
  writer    \* what the field was last written by, the boxes or the hand

Tokens == Names \cup {[rat |-> "none", band |-> n] : n \in Numbers}

TypeOK ==
  /\ reply \in Seq(Tokens) /\ Len(reply) <= MaxBands
  /\ \A i \in DOMAIN rows : rows[i].rat \in {"LTE", "NR", "WCDMA"} /\ rows[i].band \in Nat
  /\ ticked \subseteq DOMAIN rows /\ list \in Seq(Nat) /\ writer \in {"boxes", "hand"}

-----------------------------------------------------------------------------
(* The parser.                                                             *)

Row(rat, code, band) == [rat |-> rat, code |-> code, band |-> band]

NameCode(rat, band) == IF rat = "NR" THEN 5000 + band ELSE 100 + band

\* The codes that have a row, as many of them as the array holds.
Noted(seen, code) == IF Len(seen) < SeenSize THEN Append(seen, code) ELSE seen

Noting(acc, row) == [rows |-> Append(acc.rows, row), seen |-> Noted(acc.seen, row.code)]

\* First pass: the names, each as often as it is given.
ScanName(acc, t) ==
  IF t.rat = "none" THEN acc ELSE Noting(acc, Row(t.rat, NameCode(t.rat, t.band), t.band))

FirstPass(r) ==
  LET at[i \in 0..Len(r)] == IF i = 0 THEN [rows |-> <<>>, seen |-> <<>>] ELSE ScanName(at[i - 1], r[i])
  IN  at

NumberRow(n) == IF n >= 5000 THEN Row("NR", n, n - 5000) ELSE Row("LTE", n, n - 100)

\* Second pass: every run of digits, those of the names too; numbers below 100
\* and codes that were seen are passed over.
Skips_Seen(acc, n) == n \in ToSet(acc.seen)
Skips_NotNr(acc, n) == n < 5000 \/ n \in ToSet(acc.seen)
Skips(acc, n) == n < 100 \/ n \in ToSet(acc.seen)
ScanNumber(acc, t) == IF Skips(acc, t.band) THEN acc ELSE Noting(acc, NumberRow(t.band))

SecondPass(start, r) ==
  LET at[i \in 0..Len(r)] == IF i = 0 THEN start ELSE ScanNumber(at[i - 1], r[i])
  IN  at

BandItems(r) == SecondPass(FirstPass(r)[Len(r)], r)[Len(r)].rows

-----------------------------------------------------------------------------
(* The panel.                                                              *)

Init == reply = <<>> /\ rows = <<>> /\ ticked = {} /\ list = <<>> /\ writer = "boxes"

\* A reply is parsed and shown; the field keeps its text.
Show ==
  /\ reply' \in UNION {[1..n -> Tokens] : n \in 0..MaxBands}
  /\ rows' = BandItems(reply') /\ ticked' = {}
  /\ UNCHANGED <<list, writer>>

Value_Band(row) == row.band
\* The value of the box of a row.
Value(row) == row.code

\* The values of the boxes ts of a table, in its order.
CodesAt(table, ts) ==
  LET at[i \in 0..Len(table)] ==
        IF i = 0 THEN <<>> ELSE IF i \in ts THEN Append(at[i - 1], Value(table[i])) ELSE at[i - 1]
  IN  at
Codes(table, ts) == CodesAt(table, ts)[Len(table)]

\* onchange of a box: updateBandList.
Tick ==
  /\ \E i \in DOMAIN rows : ticked' = IF i \in ticked THEN ticked \ {i} ELSE ticked \cup {i}
  /\ list' = Codes(rows, ticked') /\ writer' = "boxes"
  /\ UNCHANGED <<reply, rows>>

\* The field is an input like any other; no box follows what is typed.
TypeList ==
  /\ list' \in Typed /\ writer' = "hand"
  /\ UNCHANGED <<reply, rows, ticked>>

-----------------------------------------------------------------------------
(* What the modem means.                                                   *)

\* What the modem makes of a code.
Meaning(code) ==
  CASE code \in 100..499   -> <<"LTE", code - 100>>
    [] code \in 501..509   -> <<"NR", code - 500>>
    [] code \in 5010..5999 -> <<"NR", code - 5000>>
    [] OTHER               -> <<"none", code>>

\* The codes that are the number of the band behind the offset of its RAT, and
\* the bands that have one.
OffsetCodes == 100..499 \cup 5010..5999
ByOffset(t) == (t.rat = "LTE" /\ t.band \in 0..399) \/ (t.rat = "NR" /\ t.band \in 10..999)

\* A reply is clear if the digits of its names read as no code, its codes are those
\* of the offsets, and none is the code that a WCDMA band of the reply is given.
Clear(r) ==
  \A t \in ToSet(r) :
    IF t.rat = "none" THEN t.band < 100 \/ t.band \in OffsetCodes
    ELSE /\ t.band < 100
         /\ t.rat = "WCDMA" => \A u \in ToSet(r) : u.rat = "none" => u.band # NameCode(t.rat, t.band)

\* What an entry of a reply stands for; a number below 100 stands for nothing.
Listed(t) == IF t.rat = "none" THEN Meaning(t.band) ELSE <<t.rat, t.band>>
===============================================================================
