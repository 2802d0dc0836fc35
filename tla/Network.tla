-------------------------------- MODULE Network --------------------------------
(***************************************************************************)
(* The network page: what it shows of bands and cells, and the commands    *)
(* that it has the modem carry out (http.c 962-1186), which come from the  *)
(* active profile.                                                         *)
(*                                                                         *)
(* The two panels share the profile and the last command, and otherwise    *)
(* nothing: a behaviour uses the one that view names.  The requests are    *)
(* those the page makes, except that they confirm with 1: its own          *)
(* confirm:true is refused (ModemCommands), so that today no lock leaves   *)
(* the page but by another client.  A request that is refused changes      *)
(* nothing: one without a template or with a negative channel or PCI.      *)
(*                                                                         *)
(* Init, Next and the like bear a prefix here, so that this module and     *)
(* HttpServer can be extended together, as WebProofs does.                 *)
(***************************************************************************)
EXTENDS ProfileDoc

CONSTANTS Names, Numbers, MaxBands, Typed, SeenSize,   \* see Bands
          Lines, MaxLines,                             \* see Cells
          Docs,    \* the profiles, for each panel
          Fits,    \* how many codes a filled template of 511 characters always holds
          Long     \* the templates that are longer than that themselves

\* The template of the daemon itself for a frequency lock.
FrequencyTemplate == "AT+GTCELLLOCK={mode},{rat},1,{earfcn}"

ASSUME NetConstantsOK ==
  /\ \A n \in Names : n.rat \in {"LTE", "NR", "WCDMA"} /\ n.band \in Nat
  /\ Numbers \subseteq Nat /\ {MaxBands, SeenSize, MaxLines, Fits} \subseteq Nat
  /\ Typed \subseteq Seq(Nat) /\ FrequencyTemplate \notin Long
  /\ \A l \in Lines : l.titled \in BOOLEAN /\ l.fields \in Seq(Int)
  /\ \A d \in Docs.bands \cup Docs.cells : IsDocument(d)

VARIABLES
  reply, rows, ticked, list, writer,   \* the band panel
  cellReply, cellRows, picked, form,   \* the cell panel
  profile,                                 \* the active profile
  view,                                \* the panel in use
  asked                                \* what the request just made sent, Nothing after other steps

B == INSTANCE Bands
C == INSTANCE Cells

page     == <<profile, view>>
bandVars == <<reply, rows, ticked, list, writer>>
cellVars == <<cellReply, cellRows, picked, form>>
netVars == <<bandVars, cellVars, page, asked>>

Caps   == {"network.band", "network.cell_lock", "network.cell_info"}
Nothing == [cap |-> None, field |-> None, cmd |-> None, ttl |-> None, codes |-> {}, cell |-> <<>>]

NetTypeOK ==
  /\ B!TypeOK /\ C!TypeOK
  /\ view \in {"bands", "cells"} /\ profile \in Docs[view]
  /\ asked = Nothing \/ asked.cap \in Caps

NetInit ==
  /\ B!Init /\ C!Init
  /\ view \in {"bands", "cells"} /\ profile \in Docs[view] /\ asked = Nothing

-----------------------------------------------------------------------------

\* profile_cmd_or_default: the fallback is for a field that is missing, not for an
\* empty one.
ProfileCommand(cap, field, fallback) ==
  LET own == CapabilityCommand(profile, cap, field) IN IF own = None THEN fallback ELSE own

\* network_template_command, whose callers look for an empty one.
NetworkTemplate(cap, field) == ProfileCommand(cap, field, "")
OrFixed_Unchecked(template, fixed) == template
OrFixed(template, fixed) == IF template = "" THEN fixed ELSE template

\* replace_token into buffers of 512 bytes: of a template that is longer the start
\* is left.
Filled(template) == IF template \in Long THEN "its start" ELSE template

\* The codes of the list that are left in the buffer: all of them, or from Fits on
\* any number of them and a piece of the next; what the template has after them
\* is then lost as well.
Pieces(code) == {{}} \cup {{p} : p \in {code \div 10, code \div 100, code \div 1000} \ {0}}
Sent(codes) ==
  {ToSet(codes)} \cup
    UNION {{ToSet(SubSeq(codes, 1, n)) \cup p : p \in Pieces(codes[n + 1])} : n \in Fits..(Len(codes) - 1)}

Ask(cap, field, cmd, ttl, codes, cell) ==
  asked' = [cap |-> cap, field |-> field, cmd |-> cmd, ttl |-> ttl, codes |-> codes, cell |-> cell]

\* api_network_bands, when nothing is cached; an empty command is sent as it is.
DiscoverBands ==
  LET own == CapabilityCommand(profile, "network.band", "discovery.command") IN
  /\ view = "bands" /\ own # None
  /\ Ask("network.band", "discovery.command", own, CapabilityTtl(profile, "network.band", "86400"), {}, <<>>)
  /\ B!Show
  /\ UNCHANGED <<cellVars, page>>

TickBand ==
  /\ view = "bands" /\ (B!Tick \/ B!TypeList) /\ asked' = Nothing
  /\ UNCHANGED <<cellVars, page>>

\* api_network_lock_band.
LockBand ==
  LET template == NetworkTemplate("network.band", "set_template") IN
  /\ view = "bands" /\ template # ""
  /\ \E codes \in Sent(list) : Ask("network.band", "set_template", Filled(template), None, codes, <<>>)
  /\ UNCHANGED <<bandVars, cellVars, page>>

\* api_network_cells; an empty command is sent as it is.
ScanCells ==
  /\ view = "cells"
  /\ Ask("network.cell_info", "read", ProfileCommand("network.cell_info", "read", "AT+GTCCINFO?"), None, {}, <<>>)
  /\ C!Show
  /\ UNCHANGED <<bandVars, page>>

PickCell ==
  /\ view = "cells" /\ (C!Pick \/ C!Type) /\ asked' = Nothing
  /\ UNCHANGED <<bandVars, page>>

\* api_network_lock_cell; the page sends no type, which is then 1.
LockCell ==
  LET template == NetworkTemplate("network.cell_lock", "set_template") IN
  /\ view = "cells" /\ form.earfcn >= 0 /\ form.pci >= 0 /\ template # ""
  /\ Ask("network.cell_lock", "set_template", Filled(template), None, {},
         <<1, form.rat, 1, form.earfcn, form.pci>>)
  /\ UNCHANGED <<bandVars, cellVars, page>>

\* api_network_lock_frequency.
LockFrequency ==
  /\ view = "cells" /\ form.earfcn >= 0
  /\ Ask("network.cell_lock", "frequency_template",
         Filled(OrFixed(NetworkTemplate("network.cell_lock", "frequency_template"), FrequencyTemplate)),
         None, {}, <<1, form.rat, 1, form.earfcn>>)
  /\ UNCHANGED <<bandVars, cellVars, page>>

\* api_network_unlock.
Unlock ==
  /\ view = "cells"
  /\ Ask("network.cell_lock", "unlock",
         OrFixed(NetworkTemplate("network.cell_lock", "unlock"), "AT+GTCELLLOCK=0"), None, {}, <<>>)
  /\ UNCHANGED <<bandVars, cellVars, page>>

NetNext ==
  \/ DiscoverBands \/ TickBand \/ LockBand
  \/ ScanCells \/ PickCell \/ LockCell \/ LockFrequency \/ Unlock

NetSpec == NetInit /\ [][NetNext]_netVars

-----------------------------------------------------------------------------
(* Properties.                                                             *)

\* The fields whose command the daemon itself has.
FixedCommands ==
  {<<"read", "AT+GTCCINFO?">>, <<"unlock", "AT+GTCELLLOCK=0">>,
   <<"frequency_template", FrequencyTemplate>>}

\* The rows are what the modem listed.  Every band it names or gives the code
\* of has a row and no row shows another (parsers.c 165-226), as long as no name
\* carries a number that reads as a code (BAND_NR_257), the codes are those of the
\* offsets (n1 is 501, which is not) and none is also that of a WCDMA band.  Every
\* cell has its row, in order, with its own channel and PCI (parsers.c 303-345),
\* as long as no field before the band is empty and no cell stands on the title's
\* line.
RowsAreTheReply ==
  /\ B!Clear(reply) =>
       {<<rows[i].rat, rows[i].band>> : i \in DOMAIN rows}
         = {B!Listed(t) : t \in {u \in ToSet(reply) : u.rat # "none" \/ u.band >= 100}}
  /\ (\A l \in ToSet(cellReply) : C!IsCell(l) => C!Whole(l.fields) /\ ~l.titled) =>
       /\ Len(cellRows) = C!CellsIn(cellReply, Len(cellReply))
       /\ \A i \in DOMAIN cellReply :
            C!IsCell(cellReply[i]) =>
              LET row == cellRows[C!CellsIn(cellReply, i)]
              IN  row.earfcn = cellReply[i].fields[7] /\ row.pci = cellReply[i].fields[8]

\* A lock names what is ticked or picked on the page (web_assets.c 80-83, http.c
\* 1050-1066, 1087-1110).  A band lock names the bands of the ticked rows, if the
\* boxes wrote the field last and their codes follow the offsets and surely fit;
\* not if none is ticked, when the field may hold the codes of an earlier reply.
\* A cell lock has the channel and the PCI of the row picked last, in the places of
\* its line that the commas give, if no field of it was empty and nothing was
\* changed by hand; and by the channels 3GPP assigns it has its RAT, except for an
\* NR band below 2 GHz whose row does not give it by name, which is taken for LTE.
LocksWhatIsPicked ==
  /\ /\ asked.field = "set_template" /\ asked.cap = "network.band"
     /\ ticked # {} /\ writer = "boxes" /\ Len(list) <= Fits
     /\ \A i \in ticked : B!ByOffset(rows[i])
     => {B!Meaning(c) : c \in asked.codes} = {<<rows[i].rat, rows[i].band>> : i \in ticked}
  /\ asked.cell # <<>> /\ picked # C!NoRow /\ C!Whole(picked.line) =>
       LET line == picked.line
           cell == C!Cell(line) IN
       /\ asked.cell[4] = cell.earfcn
       /\ asked.field = "set_template" => asked.cell[5] = cell.pci
       /\ (Len(line) > 8 => line[9] # C!Empty) /\ C!Standard(line) /\ C!NotLow(line) =>
            asked.cell[2] = cell.rat

\* The fields whose command is filled in, and the ones where an empty command counts
\* as a missing one.
FilledFields == {"set_template", "frequency_template"}
Missing(field) == IF field \in FilledFields \cup {"unlock"} THEN {None, ""} ELSE {None}

\* The command sent is the one the profile has for that capability and field, or
\* if it has none the fixed one of that field, and never another capability's or
\* another object's (profile.c 4-55, 120-137, http.c 304-314, 1055, 1097, 1139, 1169),
\* for every profile in which the names stand once, as keys, and the command has no
\* escape that is not understood; nothing is sent where there is neither.  Of a
\* template longer than the buffers it says nothing.
CommandIsOwn ==
  asked # Nothing /\ Plain(profile, asked.cap, asked.field) =>
    LET own == OwnCommand(profile, asked.cap, asked.field) IN
    /\ IF own \in Missing(asked.field) THEN <<asked.field, asked.cmd>> \in FixedCommands
       ELSE (asked.field \in FilledFields /\ own \in Long) \/ asked.cmd = own
    /\ asked.ttl # None => asked.ttl = OwnTtl(profile, asked.cap, "86400")
===============================================================================
