---------------------------- MODULE MCProfileStore ----------------------------
(* The id in the profile file, one added by the user, and - "cut" - what is    *)
(* left in cfg.active_profile of the user's id, which is too long.             *)
EXTENDS ProfileStore

MCIds  == {"fm650", "mine", "cut"}
MCDocs == {"shipped", "edited"}
MCTtl  == [d \in MCDocs |-> IF d = "shipped" THEN 1 ELSE 0]
MCClip == [i \in MCIds |-> IF i = "mine" THEN "cut" ELSE i]
=============================================================================
