------------------------------ MODULE RoleGate ------------------------------
(***************************************************************************)
(* What the keeper promises of everything it puts on a node for one CARP   *)
(* role only (the source-MAC rewrite for a master, the backup's route to   *)
(* its peer): it goes up on a confirmed reading of that role and on        *)
(* nothing else, it may come down at any time, and it does come down on a  *)
(* node that stays in the other role.                                      *)
(***************************************************************************)
CONSTANT Holder     \* the role that may carry it, one of Role

VARIABLES
    carp,       \* this node's CARP role
    reading,    \* what the keeper's last probe answered
    up          \* it is installed

vars == <<carp, reading, up>>

Role == {"master", "backup"}

(* A predecessor may have left it behind. *)
Init == carp \in Role /\ reading = "unknown" /\ up \in BOOLEAN

Failover ==
    /\ carp' \in Role \ {carp}
    /\ UNCHANGED <<reading, up>>

(* A probe answers the role of the moment, or nothing. *)
Probe ==
    /\ reading' \in {carp, "unknown"}
    /\ UNCHANGED <<carp, up>>

Raise ==
    /\ ~up /\ reading = Holder
    /\ up' = TRUE
    /\ UNCHANGED <<carp, reading>>

Lower ==
    /\ up /\ up' = FALSE
    /\ UNCHANGED <<carp, reading>>

Next == Failover \/ Probe \/ Raise \/ Lower

Safe == Init /\ [][Next]_vars

Live == WF_vars(carp # Holder /\ Lower)

Spec == Safe /\ Live
=============================================================================
