------------------------------ MODULE FailStop ------------------------------
(***************************************************************************)
(* What a keeper promises the CARP eligibility hook of the demote token it *)
(* publishes (carp.py, RoleWatcher.demote_ok): only a heartbeat publishes  *)
(* it, by what the keeper knows at that moment; it orders a demotion after *)
(* a grace in which every heartbeat found a master without a lease; and an *)
(* order that is due is published.                                         *)
(***************************************************************************)
VARIABLES
    adopts,     \* a lease may come between two heartbeats (fixed): a follower
                \* takes over the address it saw its peer be given
    was,        \* the role the keeper last knew
    bound,      \* it holds a lease
    grace,      \* since the first lease-less heartbeat: none, running or over
    token       \* the file says demote

vars == <<adopts, was, bound, grace, token>>

Definite  == {"master", "backup"}
Leaseless == was = "master" /\ ~bound

(* A keeper starts; the file may be a predecessor's. *)
Init ==
    /\ adopts \in BOOLEAN /\ was \in Definite \cup {"unknown"} /\ bound = FALSE
    /\ grace = "none" /\ token \in BOOLEAN

(* A heartbeat, with what was learnt for it; a role once known stays known. *)
Beat ==
    /\ was' \in Definite \cup {was} /\ bound' \in BOOLEAN
    /\ grace' = IF ~Leaseless' THEN "none" ELSE IF grace = "none" THEN "running" ELSE grace
    /\ token' = (grace' = "over")
    /\ UNCHANGED adopts

Ripen ==
    /\ grace = "running" /\ grace' = "over"
    /\ UNCHANGED <<adopts, was, bound, token>>

(* Between two heartbeats a first role is learnt, a lease is lost, or adopted. *)
Learn ==
    /\ \/ was = "unknown" /\ was' \in Definite /\ UNCHANGED bound
       \/ UNCHANGED was /\ (bound' = FALSE \/ (adopts /\ bound' = TRUE))
    /\ UNCHANGED <<adopts, grace, token>>

(* The process ends, its file stays; another one begins with what it probes. *)
Restart ==
    /\ was' \in Definite \cup {"unknown"} /\ bound' = FALSE /\ grace' = "none"
    /\ UNCHANGED <<adopts, token>>

(* The order is replaced by another fault, or goes with its file. *)
Retract ==
    /\ token /\ token' = FALSE
    /\ UNCHANGED <<adopts, was, bound, grace>>

Next == Beat \/ Ripen \/ Learn \/ Restart \/ Retract

Safe == Init /\ [][Next]_vars

Due == grace = "over" /\ ~token

Live == WF_vars(Ripen) /\ WF_vars(Due /\ Beat)

Spec == Safe /\ Live

-----------------------------------------------------------------------------
(* Properties *)

(* A grace that runs, or ran out, is a master's, and one without a lease       *)
(* throughout unless it adopts: demote_ok "is cleared the moment the node      *)
(* binds or leaves master".                                                    *)
GraceIsLeaseless == grace # "none" => was = "master" /\ (~adopts => ~bound)

(* The token goes up only on a master that was one through the whole grace and *)
(* has no lease as the order is written.                                       *)
OrderedWhenOver == [][token' /\ ~token => was = "master" /\ Leaseless' /\ grace = "over"]_vars
=============================================================================
