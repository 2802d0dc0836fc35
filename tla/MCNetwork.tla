------------------------------- MODULE MCNetwork -------------------------------
(* Bands whose codes follow the offsets, one whose code does not (501), and a
   WCDMA band whose code is that of an LTE band; serving and neighbour cells,
   whole and with empty fields; profiles written in different orders, with
   members missing or empty, with names that stand elsewhere, with a command
   written with an escape and with one that is longer than the buffers. *)
EXTENDS Network

MCNames == {[rat |-> "LTE", band |-> 3], [rat |-> "NR", band |-> 41], [rat |-> "WCDMA", band |-> 3]}

-----------------------------------------------------------------------------

Blank == -1000    \* Empty of Cells
Line(rat, area, earfcn, pci, band) ==
  [titled |-> FALSE, fields |-> <<1, rat, 460, 0, area, 7, earfcn, pci, band, 20, 5>>]

\* What an operator types: the code of a band that may be listed, and no code.
MCTyped == {<<5041>>, <<7>>}

MCLines ==
  {Line(4, 9, 1850, 33, 103), Line(4, Blank, 1850, 34, 103), Line(9, 9, 504990, 35, 5041),
   Line(9, 9, 154570, 36, 5028), Line(9, 9, 154570, 37, -28),
   [titled |-> TRUE, fields |-> Line(4, 9, 1300, 38, 103).fields],
   [titled |-> FALSE, fields |-> <<1, 4, 460, 0, 9, 7, 1850>>],
   [titled |-> FALSE, fields |-> <<1, 4, 460, 0, 9, 7, 1850, 39>>]}

-----------------------------------------------------------------------------

Join(members) == FoldLeft(LAMBDA text, m : IF text = <<>> THEN m ELSE text \o <<Mark(",")>> \o m, <<>>, members)
Object(members) == <<Mark("{")>> \o Join(members) \o <<Mark("}")>>
Key(name, value) == <<Str(name), Mark(":")>> \o value
Text1(name, s) == Key(name, <<Str(s)>>)

Discover1 == Key("discovery", Object(<<Text1("command", "AT+GTACT=?"), Key("cache_ttl_sec", <<Number("600")>>)>>))
Discover2 == Key("discovery", Object(<<Text1("note", "set_template"), Text1("command", "AT+GTACT=?")>>))
BandSet   == Text1("set_template", "AT+GTACT={bands}")
LongSet   == Text1("set_template", "AT+GTACT={bands} and 500 more")
MCLong    == {"AT+GTACT={bands} and 500 more"}

Profile(caps) == Object(<<Key("capabilities", Object(caps))>>)

BandValues ==
  {Object(<<Discover1, BandSet>>), Object(<<BandSet, Discover1>>), Object(<<Discover2, BandSet>>),
   Object(<<Discover1, LongSet>>), Object(<<Discover1, Text1("set_template", "")>>),
   Object(<<Text1("discovery.command", "AT+GTACT?")>>),
   Object(<<Key("discovery", <<Null>>), Key("rules", Object(<<Text1("command", "AT+GTRULE")>>))>>),
   <<Null>>}

CellLocks ==
  {Object(<<Discover1, Text1("set_template", "AT+GTCELLLOCK={pci}"), Text1("unlock", "AT+GTCELLLOCK=9")>>),
   Object(<<Text1("frequency_template", "AT+GTCELLLOCK={earfcn}"),
            Key("unlock", <<Escaped("AT+GTCELLLOCK=0", "ATu002BGTCELLLOCK=0")>>)>>)}

\* No command but empty ones, and a read that another capability than the one
\* mentioned first has.
EmptyCells ==
  Profile(<<Key("network.cell_lock",
                Object(<<Text1("set_template", ""), Text1("frequency_template", ""), Text1("unlock", "")>>)),
            Key("network.cell_info", Object(<<Text1("read", "")>>))>>)
ProbeCells ==
  Object(<<Text1("probe", "network.cell_lock"),
           Key("capabilities", Object(<<Key("network.cell_info", Object(<<Text1("read", "AT+CELL?")>>))>>))>>)

MCDocs ==
  [bands |-> {Profile(<<Key("network.band", b), Key("network.cell_lock", CHOOSE l \in CellLocks : TRUE)>>) :
                b \in BandValues},
   cells |-> {Profile(<<Key("network.cell_lock", l)>>) : l \in CellLocks} \cup {EmptyCells, ProbeCells}]
===============================================================================
