------------------------------- MODULE SmsInbox -------------------------------
(***************************************************************************)
(* The SMS page: list, read and delete (http.c 316-520, the two parsers of *)
(* parsers.c, and the page's own loadSms, readSms and deleteSms).          *)
(*                                                                         *)
(* A listing comes from ofono, whose rows are numbered 1, 2, ... as they   *)
(* are printed, or, when ofono fails, from AT+CMGL, whose rows carry the   *)
(* slot of the modem's storage.  A read asks ofono again and falls back to *)
(* AT+CMGR; a delete always sends AT+CMGD with the number of the row.      *)
(***************************************************************************)
EXTENDS Integers, SequencesExt

CONSTANTS Slots,      \* size of the modem's storage
          Messages,   \* the messages that may arrive, each once
          Text,       \* each one's lines, by what a line looks like (below)
          OfonoCap,   \* lines of an answer of ofono that fit in a capture, 8 KB
          AtCap,      \* lines of an answer of the modem that do
          Room,       \* lines of a body that fit in the parser's 511 bytes
          Sources,    \* which of "ofono" and "at" ever answer a request
          Escapes,    \* whether the printer of replies escapes quotes
          Confirms,   \* the forms of confirm a client sends: "1", "true"
          Others      \* whether anyone else may erase messages

Nobody == "nobody"

\* A line of a text is a "word" or looks like a line of an answer: "ok" its end,
\* "head" an entry of AT+CMGL for the last slot; of ofono's, "path" an object's
\* path and "bare" one without its name, "text", "sender" and "key" the name of
\* a property, "value" a variant, "token" a variant that JSON has no form for,
\* "close" a closing bracket.
KeyLines == {"text", "sender", "key"}
Looks    == KeyLines \cup {"word", "ok", "head", "path", "bare", "value", "token", "close"}

ASSUME ConstantsOK ==
  /\ Slots \in Nat \ {0} /\ Nobody \notin Messages
  /\ Text \in [Messages -> Seq(Looks)] /\ Room \in Nat
  /\ OfonoCap \in Nat \ {0} /\ AtCap \in Nat \ {0}
  /\ Sources \subseteq {"ofono", "at"} /\ Escapes \subseteq BOOLEAN
  /\ Confirms \subseteq {"1", "true"} /\ Others \in BOOLEAN

VARIABLES
  coming,    \* messages that have not arrived yet
  storage,   \* slot -> message or Nobody
  order,     \* the stored messages as ofono lists them: as they came
  escapes,   \* fixed
  rows,      \* what the page lists: [index, msg, sender, body]
  from,      \* where that listing came from
  gone,      \* the messages that had been erased by then
  selected,  \* the page's selectedSms, 0 at first
  shown,     \* the message the page shows for it
  source,    \* where that came from
  before,    \* the messages that had been erased by then
  last       \* the last request about one message

modem == <<coming, storage, order>>
list  == <<rows, from, gone>>
pick  == <<selected, shown, source, before>>
vars  == <<modem, escapes, list, pick, last>>

Held   == {s \in 1..Slots : storage[s] # Nobody}
At(s)  == IF s \in Held THEN storage[s] ELSE Nobody
Erased == Messages \ (coming \cup ToSet(order))

\* The page's number for the message it shows no longer means that message in
\* the source it was taken from.
Moved == \/ shown = Nobody
         \/ source = "at" /\ shown \in Erased
         \/ source = "ofono" /\ before # Erased

\* A request about the selected number: answered by via, it concerned got.
Did(op, via, got) ==
  [op |-> op, via |-> via, got |-> got, want |-> shown, source |-> source, moved |-> Moved]

Numbers == Nat \ {0}
TypeOK ==
  /\ coming \subseteq Messages /\ storage \in [1..Slots -> Messages \cup {Nobody}]
  /\ order \in Seq(Messages) /\ ToSet(order) = {storage[s] : s \in Held}
  /\ escapes \in Escapes /\ {from, source} \subseteq Sources \cup {"none"}
  /\ rows \in Seq([index : Numbers, msg : Messages \cup {Nobody},
                    sender : Messages \cup {Nobody}, body : Seq(Looks)])
  /\ from = "at" => \A i \in DOMAIN rows : rows[i].index <= Slots
  /\ selected \in Nat /\ {shown, last.got, last.want} \subseteq Messages \cup {Nobody}
  /\ gone \cup before \subseteq Erased

Init ==
  /\ coming = Messages /\ storage = [s \in 1..Slots |-> Nobody] /\ order = <<>>
  /\ escapes \in Escapes
  /\ rows = <<>> /\ from = "none" /\ gone = {}
  /\ selected = 0 /\ shown = Nobody /\ source = "none" /\ before = {}
  /\ last = Did("none", "none", Nobody)

-----------------------------------------------------------------------------
(* Listings: parse_dbus_messages_json and parse_sms_list_or_read.  A line of *)
(* an answer has what it looks like, the message it stands in, and the slot   *)
(* or the text it carries.  run_capture keeps as many lines as fit, the Caps. *)

Row(i, m, sender, body) == [index |-> i, msg |-> m, sender |-> sender, body |-> body]
Line(tag, m, about) == [tag |-> tag, msg |-> m, about |-> about]

First(text) == IF text = <<>> THEN <<>> ELSE <<Head(text)>>
Rest(text)  == IF text = <<>> THEN <<>> ELSE Tail(text)

\* ofono's answer as dbus-send prints it.  The first line of a text stands after
\* its variant, the others on lines of their own.
Property(m, key, text) ==
  <<Line(key, m, <<>>), Line("value", m, First(text))>>
  \o [i \in DOMAIN Rest(text) |-> Line(Rest(text)[i], Nobody, <<Rest(text)[i]>>)]
  \o <<Line("close", m, <<>>)>>
Printed(m) == <<Line("path", m, <<>>)>>
              \o Property(m, "text", Text[m]) \o Property(m, "sender", <<>>)

\* An object path closes the open row; one with a name opens the next.  In an
\* open row a string is a key if none waits for its value, a variant the value
\* of the key that waits: a second value of a key replaces the first on the
\* page, and a token breaks the document.  A closing bracket drops the key.
Closed_Never(acc) == acc
Closed(acc) == IF acc.key = "closed" THEN acc ELSE [acc EXCEPT !.key = "none"]
Taken(acc, line) ==
  CASE line.tag = "path" ->
         [acc EXCEPT !.rows = Append(@, Row(Len(@) + 1, line.msg, Nobody, <<>>)), !.key = "none"]
    [] line.tag = "bare" -> [acc EXCEPT !.key = "closed"]
    [] line.tag \in KeyLines /\ acc.key = "none" -> [acc EXCEPT !.key = line.tag]
    [] line.tag = "value" /\ acc.key = "text" ->
         [acc EXCEPT !.rows[Len(acc.rows)].body = line.about, !.key = "none"]
    [] line.tag = "value" /\ acc.key = "sender" ->
         [acc EXCEPT !.rows[Len(acc.rows)].sender = line.msg, !.key = "none"]
    [] line.tag = "value" /\ acc.key = "key" -> [acc EXCEPT !.key = "none"]
    [] line.tag = "token" /\ acc.key \in KeyLines -> [acc EXCEPT !.key = "none", !.json = "broken"]
    [] line.tag = "close" -> Closed(acc)
    [] OTHER -> acc
OfonoLine(acc, line) ==
  IF acc.left = 0 THEN acc ELSE [Taken(acc, line) EXCEPT !.left = acc.left - 1]

\* The parser's states before and after each line, and after each message.
OfonoRun(start, lines) ==
  LET at[i \in 0..Len(lines)] == IF i = 0 THEN start ELSE OfonoLine(at[i - 1], lines[i])
  IN  at
OfonoParsed ==
  LET after[p \in 0..Len(order)] ==
        IF p = 0 THEN [rows |-> <<>>, key |-> "closed", json |-> "good", left |-> OfonoCap]
        ELSE OfonoRun(after[p - 1], Printed(order[p]))[Len(Printed(order[p]))]
  IN  after
OfonoRows == OfonoParsed[Len(order)].rows
OfonoJson == OfonoParsed[Len(order)].json

\* The modem's answer to AT+CMGL, one entry per slot in use, closed by OK.
Entry(s) == <<Line("head", storage[s], s)>>
            \o [i \in DOMAIN Text[storage[s]] |-> Line(Text[storage[s]][i], Nobody, Slots)]
Entries ==
  LET upTo[s \in 0..Slots] == IF s = 0 THEN <<>>
                             ELSE upTo[s - 1] \o (IF s \in Held THEN Entry(s) ELSE <<>>)
  IN  upTo
Answer == Entries[Slots] \o <<Line("ok", Nobody, 0)>>

\* normalized_at_payload: when the printer leaves quotes alone the reply ends at
\* the first of them, in the header of the first message.
Payload(answer) ==
  IF escapes \/ answer[1].tag # "head" THEN answer ELSE <<answer[1]>>

\* A header opens a row with the slot it names, a line OK closes it, any other
\* line joins the open row.
RowIndex_FromZero(acc, line) == line.about - 1
RowIndex(acc, line) == line.about
Closes(line) == line.tag = "ok"
AtLine(acc, line) ==
  IF line.tag = "head"
    THEN [rows |-> Append(acc.rows, Row(RowIndex(acc, line), line.msg, line.msg, <<>>)), open |-> TRUE]
  ELSE IF Closes(line) THEN [acc EXCEPT !.open = FALSE]
  ELSE IF acc.open THEN [acc EXCEPT !.rows[Len(acc.rows)].body = Append(@, line.tag)]
  ELSE acc

AtRun(lines) ==
  LET at[i \in 0..Len(lines)] ==
        IF i = 0 THEN [rows |-> <<>>, open |-> FALSE] ELSE AtLine(at[i - 1], lines[i])
  IN  at

Upto(n, most) == IF n <= most THEN n ELSE most
Fitting(body) == SubSeq(body, 1, Upto(Len(body), Room))
AtItems(lines) == AtRun(lines)[Upto(Len(lines), AtCap)].rows
AtRows ==
  [i \in DOMAIN AtItems(Payload(Answer)) |->
     [AtItems(Payload(Answer))[i] EXCEPT !.body = Fitting(@)]]

\* AT+CMGR of a slot: one item, numbered 1 whatever the slot, and empty when
\* the slot is or when the reply ends at its first quote.
AtItem(s) == IF escapes THEN At(s) ELSE Nobody

\* readSms: the item with the selected number, else the item at that place,
\* else the single message of the answer.
Found_Place(items, message) ==
  IF selected \in DOMAIN items THEN items[selected].msg ELSE Nobody
Found(items, message) ==
  IF \E i \in DOMAIN items : items[i].index = selected
    THEN items[SelectInSeq(items, LAMBDA r : r.index = selected)].msg
  ELSE IF selected \in DOMAIN items THEN items[selected].msg
  ELSE message

-----------------------------------------------------------------------------
(* The modem.                                                              *)

Arrive(m, s) ==
  /\ m \in coming /\ s \notin Held
  /\ coming' = coming \ {m} /\ storage' = [storage EXCEPT ![s] = m]
  /\ order' = Append(order, m)
  /\ UNCHANGED <<escapes, list, pick, last>>

Erase(s) ==
  /\ storage' = [t \in 1..Slots |-> IF t = s THEN Nobody ELSE storage[t]]
  /\ IF s \in Held THEN \E i \in DOMAIN order : order[i] = storage[s] /\ order' = RemoveAt(order, i)
                  ELSE UNCHANGED order
  /\ UNCHANGED coming

ErasedElsewhere(s) ==
  /\ Others /\ s \in Held
  /\ Erase(s)
  /\ UNCHANGED <<escapes, list, pick, last>>

-----------------------------------------------------------------------------
(* api_sms_list with loadSms, and a click on a row.                        *)

Listed(newRows, via) ==
  /\ rows' = newRows /\ from' = via /\ gone' = Erased
  /\ UNCHANGED <<modem, escapes, pick, last>>

\* A broken document ends loadSms and readSms before they change the page.
List ==
  \/ "ofono" \in Sources /\ OfonoJson = "good" /\ Listed(OfonoRows, "ofono")
  \/ "at" \in Sources /\ Listed(AtRows, "at")
  \/ Listed(<<>>, "none")               \* neither answers: the table is emptied

Pick(i) ==
  /\ selected' = rows[i].index
  /\ shown' = rows[SelectInSeq(rows, LAMBDA r : r.index = rows[i].index)].msg
  /\ source' = from /\ before' = gone
  /\ UNCHANGED <<modem, escapes, list, last>>

-----------------------------------------------------------------------------
(* api_sms_read with readSms, and api_sms_delete with the button's code.   *)
(* A request that fails changes neither the page nor the modem.            *)

ReadDone(via, got) ==
  /\ shown' = got /\ source' = via /\ before' = Erased
  /\ last' = Did("read", via, got)
  /\ UNCHANGED <<modem, escapes, list, selected>>

Read ==
  /\ selected > 0
  /\ \/ "ofono" \in Sources /\ OfonoJson = "good" /\ ReadDone("ofono", Found(OfonoRows, Nobody))
     \/ "at" \in Sources
          /\ ReadDone("at", Found(<<Row(1, AtItem(selected), AtItem(selected), <<>>)>>,
                                AtItem(selected)))

\* The modem may erase and the answer still be an error or come too late.
Slot_Next == (selected % Slots) + 1
Slot == selected
Delete(confirm) ==
  /\ confirm # "true"                 \* json_get_int reads true as 0: refused
  /\ selected > 0
  /\ Erase(Slot)                     \* a number without a slot erases nothing
  /\ last' = Did("delete", "at", At(Slot))
  /\ UNCHANGED <<escapes, list, pick>>

Next ==
  \/ \E m \in Messages, s \in 1..Slots : Arrive(m, s)
  \/ \E s \in 1..Slots : ErasedElsewhere(s)
  \/ List
  \/ \E i \in DOMAIN rows : Pick(i)
  \/ Read
  \/ \E confirm \in Confirms : Delete(confirm)

Spec == Init /\ [][Next]_vars

-----------------------------------------------------------------------------
(* Properties.                                                             *)

\* A delete of a message picked from an AT listing (or just read over AT)
\* erases that message, whatever arrived or was erased since, unless it is
\* itself already gone (parsers.c 375-388, http.c 498-508).
DeleteHitsShown ==
  last.op = "delete" /\ last.source = "at" /\ ~last.moved => last.got = last.want

\* A read answered by the source the message was picked from shows that
\* message, although AT+CMGR's item is always numbered 1 (parsers.c 423-430,
\* http.c 417-469, readSms).
ReadShowsPicked ==
  last.op = "read" /\ last.source = last.via /\ ~last.moved /\ escapes => last.got = last.want

\* The lines of a text before the first that looks like one of stops.
Until(text, stops) ==
  LET ends == {i \in DOMAIN text : text[i] \in stops}
  IN  IF ends = {} THEN text ELSE SubSeq(text, 1, Min(ends) - 1)

\* Every stored message whose lines the capture holds has its row, whatever the
\* lines of any text look like: over AT (this needs a printer that escapes
\* quotes) under its slot and with as much of its text as the buffer holds, up
\* to the first line that looks like an end or an entry; over ofono with its
\* first line unless it also looks like a key Text and a value, and under its
\* place and with its sender as long as no text up to it has a further line that
\* looks like a path (parsers.c 364-396, 528-650, dbus_cmd.c 153).
ListIsFaithful ==
  [][rows' # rows =>
       /\ from' = "at" /\ escapes =>
            \A s \in Held : Len(Entries[s]) < AtCap => \E i \in DOMAIN rows' :
               rows'[i] = Row(s, storage[s], storage[s],
                              Fitting(Until(Text[storage[s]], {"ok", "head"})))
       /\ from' = "ofono" =>
            \A p \in DOMAIN order : OfonoParsed[p].left > 0 => \E i \in DOMAIN rows' :
               /\ rows'[i].msg = order[p]
               /\ \/ rows'[i].body = First(Text[order[p]])
                  \/ {"text", "value"} \subseteq ToSet(Rest(Text[order[p]]))
               /\ rows'[i].index # p \/ rows'[i].sender # order[p] =>
                    \E q \in 1..p : ToSet(Rest(Text[order[q]])) \cap {"path", "bare"} # {}]_vars
===============================================================================
