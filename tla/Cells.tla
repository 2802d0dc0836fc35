--------------------------------- MODULE Cells ---------------------------------
(***************************************************************************)
(* The cell panel: parse_gtccinfo (parsers.c 293-353) turns the answer to  *)
(* AT+GTCCINFO? into rows, and picking a row fills the fields a cell or    *)
(* frequency lock is sent from (web_assets.c 82-83).                       *)
(*                                                                         *)
(* A line is [titled, fields]: titled if it starts with +GTCCINFO:, and    *)
(* its fields between commas as numbers.  Empty is an empty field; a band  *)
(* printed by name, n28, is -28, of which atoi makes 0.                    *)
(***************************************************************************)
EXTENDS Integers, FiniteSets, SequencesExt

CONSTANTS Lines,     \* the lines a reply is made of
          MaxLines   \* bound on their number

VARIABLES
  cellReply,   \* the lines the modem printed
  cellRows,    \* the rows of the table: [earfcn, pci, band, line]
  picked,      \* the row whose values are in the form, or NoRow
  form         \* [rat, earfcn, pci]: the fields of the form

Empty == -1000
NoRow == [earfcn |-> 0, pci |-> 0, band |-> Empty, line |-> <<>>]

TypeOK ==
  /\ cellReply \in Seq(Lines) /\ Len(cellReply) <= MaxLines
  /\ Len(cellRows) <= Len(cellReply)
  /\ \A i \in DOMAIN cellRows : cellRows[i].earfcn \in Nat /\ cellRows[i].pci \in Nat
  /\ picked.earfcn \in Nat /\ form.rat \in 0..1 /\ form.earfcn \in Int /\ form.pci \in Int

-----------------------------------------------------------------------------
(* The parser.                                                             *)

AtoI(f) == IF f < 0 THEN 0 ELSE f

\* strtok_r: commas that follow each other are one separator.
Tokens(f) ==
  LET at[i \in 0..Len(f)] ==
        IF i = 0 THEN <<>> ELSE IF f[i] = Empty THEN at[i - 1] ELSE Append(at[i - 1], f[i])
  IN  at
Fields(line) == Tokens(line.fields)[Len(line.fields)]

\* OK, titles and lines with fewer than eight fields are passed over, and a line
\* that starts with +GTCCINFO: whatever follows.
IsRow(line) == ~line.titled /\ Len(Fields(line)) >= 8

\* The band is the ninth field, if there is one.
CellRow(line) ==
  LET f == Fields(line)
  IN [earfcn |-> AtoI(f[7]), pci |-> AtoI(f[8]),
      band |-> IF Len(f) > 8 THEN f[9] ELSE Empty, line |-> line.fields]

ItemsAt(r) ==
  LET at[i \in 0..Len(r)] ==
        IF i = 0 THEN <<>> ELSE IF IsRow(r[i]) THEN Append(at[i - 1], CellRow(r[i])) ELSE at[i - 1]
  IN  at
CellItems(r) == ItemsAt(r)[Len(r)]

-----------------------------------------------------------------------------
(* The panel.                                                              *)

Init ==
  /\ cellReply = <<>> /\ cellRows = <<>> /\ picked = NoRow
  /\ form = [rat |-> 0, earfcn |-> 0, pci |-> 0]

Show ==
  /\ cellReply' \in UNION {[1..n -> Lines] : n \in 0..MaxLines}
  /\ cellRows' = CellItems(cellReply')
  /\ UNCHANGED <<picked, form>>

\* inferLockRat: from the number of the channel, or a band that starts with n.
LockRat_Lower(row) == IF row.earfcn > 600000 \/ row.band \in -999..-1 THEN 1 ELSE 0
LockRat(row) == IF row.earfcn > 400000 \/ row.band \in -999..-1 THEN 1 ELSE 0

\* onclick of a row.
Pick ==
  /\ \E i \in DOMAIN cellRows :
       /\ picked' = cellRows[i]
       /\ form' = [rat |-> LockRat(cellRows[i]), earfcn |-> cellRows[i].earfcn, pci |-> cellRows[i].pci]
  /\ UNCHANGED <<cellReply, cellRows>>

\* The operator changes a field by hand: to a channel or a PCI that nobody picked,
\* or to one that is none.
Type ==
  /\ \/ \E r \in 0..1 : form' = [form EXCEPT !.rat = r]
     \/ \E e \in {-1, 1300} : form' = [form EXCEPT !.earfcn = e]
     \/ \E p \in {-1, 40} : form' = [form EXCEPT !.pci = p]
  /\ picked' = NoRow
  /\ UNCHANGED <<cellReply, cellRows>>

-----------------------------------------------------------------------------
(* What the modem means: rat 9 is NR and the others are LTE, and the       *)
(* places of the fields are those of the commas.                           *)

IsCell(line) == Len(line.fields) >= 8

\* No field before the band is empty, and the channel and the PCI are numbers.
Whole(fields) == (\A i \in 1..8 : fields[i] # Empty) /\ {fields[7], fields[8]} \subseteq Nat

Cell(fields) == [rat |-> IF fields[2] = 9 THEN 1 ELSE 0, earfcn |-> fields[7], pci |-> fields[8]]

Band(fields) == IF Len(fields) > 8 THEN fields[9] ELSE Empty

\* NR bands that lie above 2 GHz, and a band that is given by its name.
HighBands == {5000 + b : b \in {1, 7, 30, 34, 38, 40, 41, 48, 65, 66, 77, 78, 79}}
ByName(band) == band \in -999..-1

\* What 3GPP makes of channels: those of LTE end at 262143 (36.101, 5.7.3); those
\* of NR count steps of 5 kHz, so that 2 GHz is 400000 (38.104, 5.4.2).  No LTE band
\* is called n.
Standard(fields) ==
  IF fields[2] = 9 THEN Band(fields) \in HighBands => fields[7] > 400000
  ELSE fields[7] <= 262143 /\ ~ByName(Band(fields))

\* An LTE cell, or an NR cell that is not of a low band given by its code.
NotLow(fields) == fields[2] = 9 => Band(fields) \in HighBands \/ ByName(Band(fields))

\* How many of the first n lines are cells.
CellsIn(r, n) == Cardinality({i \in 1..n : IsCell(r[i])})
===============================================================================
