------------------------------ MODULE MCSmsInbox ------------------------------
(* Three messages for two slots.  Two have lines that look like those of an    *)
(* answer; the third breaks ofono's listing as JSON unless the end of its text *)
(* is cut off.  OfonoCap holds the answer of the pair <<a, b>> and cuts that   *)
(* of <<a, c>>, AtCap cuts the modem's answers with c, and Room its texts.     *)
EXTENDS SmsInbox, TLC
MCMessages == {"a", "b", "c"}
Words(n) == [i \in 1..n |-> "word"]
MCText == "a" :> <<"word", "text", "value", "key">>
          @@ "b" :> <<"word", "ok", "path", "sender", "value", "bare">>
          @@ "c" :> <<"word", "head", "close">> \o Words(7) \o <<"key", "token">>
===============================================================================
