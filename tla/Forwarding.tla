------------------------------ MODULE Forwarding ------------------------------
(***************************************************************************)
(* What the owner of the device expects of forwarding one message: the     *)
(* relay takes it or not, and the daemon then says which of the two it was.*)
(* Once the text or the relay is out of the ordinary, anything may be said.*)
(***************************************************************************)
VARIABLES taken,   \* whether the relay has taken the message, whole
          report,  \* "pending", "sent", "failed" or "killed"
          trouble  \* whether the text or the relay is out of the ordinary

vars == <<taken, report, trouble>>

Init == taken = FALSE /\ report = "pending" /\ trouble \in BOOLEAN

Take == /\ report = "pending" \/ trouble
        /\ taken' = TRUE
        /\ UNCHANGED <<report, trouble>>

\* The relay may still take the message, as a late webhook does.
Disturb == /\ trouble' = TRUE
           /\ taken' \in {taken, TRUE}
           /\ UNCHANGED report

Report == /\ report = "pending" /\ ~ trouble
          /\ report' = IF taken THEN "sent" ELSE "failed"
          /\ UNCHANGED <<taken, trouble>>

Guess == /\ report = "pending" /\ trouble
         /\ report' \in {"sent", "failed", "killed"}
         /\ UNCHANGED <<taken, trouble>>

Next == Take \/ Disturb \/ Report \/ Guess

Spec == Init /\ [][Next]_vars /\ WF_vars(Report)
=============================================================================
