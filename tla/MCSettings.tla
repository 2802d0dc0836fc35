------------------------------ MODULE MCSettings ------------------------------
(* What ofono lists: nothing, one modem, or two of which the second scores   *)
(* more.                                                                     *)
EXTENDS Settings
MCFull == {"NetworkRegistration", "MessageManager"}
MCBare == {"SimManager", "Modem", "RadioSettings"}
MCModem(p, i) == [path |-> p, ifaces |-> i]
MCListings == {<<>>, <<MCModem(2, {})>>,
               <<MCModem(1, MCBare), MCModem(2, MCFull)>>}
===============================================================================
