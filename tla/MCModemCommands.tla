--------------------------- MODULE MCModemCommands ---------------------------
(* One or more requests of each kind, and what the interesting ones lack.    *)
EXTENDS ModemCommands
MCForm(op, confirm, complete, class) ==
  [op |-> op, confirm |-> confirm, complete |-> complete, class |-> class]
MCForms ==
  {MCForm(op, c, TRUE, "none") : op \in {"lockBand", "unlock", "online", "power"}, c \in {"1", "none"}}
  \cup {MCForm("lockFrequency", "1", FALSE, "none"), MCForm("lockCell", "true", TRUE, "none"),
        MCForm("sendSms", "none", TRUE, "none"), MCForm("dropCaches", "none", TRUE, "none"),
        MCForm("test", "none", TRUE, "listed"), MCForm("radio", "none", TRUE, "none"),
        MCForm("dbusTest", "none", TRUE, "none")}
  \cup {MCForm("console", "none", TRUE, c) : c \in {"query", "listed", "unlisted", "other"}}
===============================================================================
