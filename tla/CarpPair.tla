------------------------------ MODULE CarpPair ------------------------------
(***************************************************************************)
(* The two nodes of one VIP under "Enforce reservation and fail over on    *)
(* loss" (demote=1): each node's keeper (leasekeeper/keeper.py, in the     *)
(* states its peer can tell apart), the heartbeat file it leaves, the CARP *)
(* eligibility hook that reads it (rc.carp_service_status.d) and the CARP  *)
(* election, which prefers one node, and an eligible node to a demoted     *)
(* one. The three see each other late: the hook a file, the keeper a role  *)
(* it probes, CARP the hook's last answer. Keeper has the loop of one node *)
(* in detail.                                                              *)
(***************************************************************************)
EXTENDS Naturals

CONSTANTS
    Node,       \* the two nodes
    Preferred,  \* the one with the lower advskew (net.inet.carp.preempt is on)
    MaxFaults   \* bound: line changes, stops, deaths, failed probes and failed acquires

ASSUME PreferredAssumption == Preferred \in Node
ASSUME FaultsAssumption    == MaxFaults \in Nat

VARIABLES
    master,     \* the node CARP has as master
    demoted,    \* the hook's last answer
    line,       \* what the ISP gives to the node: the reserved address, another, none
    service,    \* the service is started
    file,       \* what the hook makes of the heartbeat file
    pc,         \* where the keeper stands
    was,        \* RoleWatcher.was_master
    bound,      \* binding.yiaddr is set
    grace,      \* _unbound_master_since: none, within DEMOTE_GRACE or past it
    faults
vars == <<master, demoted, line, service, file, pc, was, bound, grace, faults>>

world  == <<master, demoted, line, service>>
keeper == <<pc, was, bound, grace>>

(* Types; of the role a keeper remembers, that a failed probe never blurs it.  *)
TypeOK ==
    /\ master \in Node /\ demoted \in [Node -> BOOLEAN]
    /\ line \in [Node -> {"lease", "other", "dead"}] /\ service \in [Node -> BOOLEAN]
    /\ file \in [Node -> {"none", "eligible", "demote", "mismatch"}]
    /\ pc \in [Node -> {"down", "head", "passive", "hold", "acquiring", "unbound"}]
    /\ was \in [Node -> {"master", "backup"}] /\ bound \in [Node -> BOOLEAN]
    /\ grace \in [Node -> {"none", "running", "over"}]
    /\ faults \in 0 .. MaxFaults

(* Both nodes boot: /var/run is empty and no keeper runs yet. *)
Init ==
    /\ master \in Node /\ demoted = [n \in Node |-> FALSE]
    /\ line \in [Node -> {"lease", "other", "dead"}] /\ service = [n \in Node |-> TRUE]
    /\ file = [n \in Node |-> "none"] /\ pc = [n \in Node |-> "down"]
    /\ was = [n \in Node |-> "backup"] /\ bound = [n \in Node |-> FALSE]
    /\ grace = [n \in Node |-> "none"] /\ faults = 0

-----------------------------------------------------------------------------
(* Helpers *)

Fault == faults < MaxFaults /\ faults' = faults + 1

Put(f, n, v) == [f EXCEPT ![n] = v]

Role(n) == IF n = master THEN "master" ELSE "backup"

Goto(n, l) == pc' = Put(pc, n, l)

(* carp_master: the role, or None. *)
Probe(n, r) ==
    \/ r = Role(n) /\ UNCHANGED faults
    \/ r = "unknown" /\ Fault

\* Mutant: a failed probe counts as a role.
MutPoll(n, r) == was' = Put(was, n, r)

(* RoleWatcher.poll keeps the last definite role. *)
Poll(n, r) == was' = IF r = "unknown" THEN was ELSE Put(was, n, r)

(* demote_ok's epoch, set by the first heartbeat of a lease-less master. *)
Epoch(n, w, b) ==
    IF w = "master" /\ ~b THEN IF grace[n] = "none" THEN "running" ELSE grace[n]
                          ELSE "none"

(* _hb *)
Heartbeat(n, b) ==
    /\ grace' = Put(grace, n, Epoch(n, was'[n], b))
    /\ file' = Put(file, n, IF grace'[n] = "over" THEN "demote" ELSE "eligible")

(* _hb_mismatch: the answer was another address, refused by enforce. *)
Mismatch(n) == file' = Put(file, n, "mismatch") /\ UNCHANGED grace

-----------------------------------------------------------------------------
(* The keeper *)

(* rc.d or daemon(8) starts it; log_initial seeds the role. *)
Start(n) ==
    /\ pc[n] = "down" /\ service[n]
    /\ was' = Put(was, n, Role(n))
    /\ Goto(n, "head")
    /\ UNCHANGED <<world, file, bound, grace, faults>>

MutUpkeep(n, arm) ==
    IF arm # "acquiring" /\ was' = was THEN UNCHANGED <<grace, file>> ELSE Heartbeat(n, bound[n])
(* A passive backup and an acquire begin with a heartbeat; the bound arm only  *)
(* writes one when the role changed.                                           *)
Upkeep(n, arm) ==
    IF arm = "hold" /\ was' = was THEN UNCHANGED <<grace, file>> ELSE Heartbeat(n, bound[n])

(* The head of the loop, also after a sleep: a backup is passive, a bound      *)
(* keeper holds, an unbound one acquires.                                      *)
Head(n) ==
    /\ pc[n] \in {"head", "passive", "unbound"}
    /\ \E r \in {"master", "backup", "unknown"} : Probe(n, r) /\ Poll(n, r)
    /\ LET arm == IF was'[n] = "backup" THEN "passive" ELSE IF bound[n] THEN "hold" ELSE "acquiring"
       IN  Goto(n, arm) /\ Upkeep(n, arm)
    /\ UNCHANGED <<world, bound>>

(* SIGUSR2, or the tick of a hold, finds another role; a promotion ends the    *)
(* sleep of a passive keeper.                                                  *)
Notice(n) ==
    /\ pc[n] \in {"passive", "hold", "unbound"} /\ was[n] # Role(n)
    /\ Poll(n, Role(n))
    /\ Heartbeat(n, bound[n])
    /\ Goto(n, IF was[n] = "backup" /\ pc[n] # "hold" THEN "head" ELSE pc[n])
    /\ UNCHANGED <<world, bound, faults>>

MutPublish(n) == UNCHANGED <<grace, file>>
(* The heartbeat that follows a bind. *)
Publish(n) == Heartbeat(n, TRUE)

Acquired(n) ==
    /\ pc[n] = "acquiring" /\ line[n] = "lease"
    /\ bound' = Put(bound, n, TRUE) /\ UNCHANGED was
    /\ Publish(n)
    /\ Goto(n, "head")
    /\ UNCHANGED <<world, faults>>

(* No answer (or no carrier to ask on), or another address. *)
NotAcquired(n) ==
    /\ pc[n] = "acquiring"
    /\ \/ line[n] = "dead" /\ UNCHANGED <<file, grace, faults>>
       \/ line[n] = "other" /\ Mismatch(n) /\ UNCHANGED faults
       \/ line[n] = "lease" /\ Fault /\ UNCHANGED <<file, grace>>
    /\ Goto(n, "unbound")
    /\ UNCHANGED <<world, was, bound>>

(* One RENEW or REBIND of a held lease, at T1 or for a promotion and then      *)
(* until T2, with the heartbeat around it; a keeper noticed demoted goes back  *)
(* to the head of the loop instead.                                            *)
Renew(n) ==
    /\ pc[n] = "hold" /\ UNCHANGED was
    /\ \/ was[n] = "backup" /\ Goto(n, "head") /\ UNCHANGED <<file, grace>>
       \/ was[n] # "backup" /\ line[n] = "other" /\ Mismatch(n) /\ UNCHANGED pc
       \/ was[n] # "backup" /\ Heartbeat(n, TRUE) /\ UNCHANGED pc
    /\ UNCHANGED <<world, bound, faults>>

(* T2, or a NAK. *)
Expire(n) ==
    /\ pc[n] = "hold" /\ was[n] # "backup" /\ line[n] # "lease"
    /\ bound' = Put(bound, n, FALSE)
    /\ Goto(n, "head")
    /\ UNCHANGED <<world, file, was, grace, faults>>

(* DEMOTE_GRACE has passed since the epoch. *)
GraceEnds(n) ==
    /\ grace[n] = "running" /\ pc[n] # "down"
    /\ grace' = Put(grace, n, "over")
    /\ UNCHANGED <<world, file, pc, was, bound, faults>>

(* The process ends: its memory goes, its heartbeat file stays. *)
Ended(n) ==
    /\ Goto(n, "down")
    /\ bound' = Put(bound, n, FALSE) /\ grace' = Put(grace, n, "none")
    /\ UNCHANGED <<file, was>>

Die(n) == pc[n] # "down" /\ Fault /\ Ended(n) /\ UNCHANGED world

-----------------------------------------------------------------------------
(* The service, the hook, CARP and the ISP *)

StopService(n) ==
    /\ service[n] /\ Fault
    /\ service' = Put(service, n, FALSE) /\ Ended(n)
    /\ UNCHANGED <<master, demoted, line>>

StartService(n) ==
    /\ ~service[n]
    /\ service' = Put(service, n, TRUE)
    /\ UNCHANGED <<master, demoted, line, file, keeper, faults>>

(* MAX_AGE of the hook: only a keeper that does not run leaves a file alone    *)
(* for an hour.                                                                *)
Age(n) ==
    /\ pc[n] = "down" /\ ~service[n] /\ file[n] # "none"
    /\ file' = Put(file, n, "none")
    /\ UNCHANGED <<world, keeper, faults>>

MutFails(n) == file[n] \in {"demote", "mismatch"}
Fails(n) == file[n] # "eligible"

(* The CARP service status runs the hook and demotes the node by its answer. *)
Hook(n) ==
    /\ demoted[n] # Fails(n)
    /\ demoted' = Put(demoted, n, Fails(n))
    /\ UNCHANGED <<master, line, service, file, keeper, faults>>

Eligible == {n \in Node : ~demoted[n]}

(* A demotion is an adjustment of the demotion counter, not an order to yield: *)
(* with both demoted the skew decides again.                                   *)
Winner ==
    IF Preferred \in Eligible \/ Eligible = {} THEN Preferred
    ELSE CHOOSE n \in Eligible : TRUE

Elect ==
    /\ master # Winner
    /\ master' = Winner
    /\ UNCHANGED <<demoted, line, service, file, keeper, faults>>

Line(n) ==
    /\ Fault
    /\ \E l \in {"lease", "other", "dead"} \ {line[n]} : line' = Put(line, n, l)
    /\ UNCHANGED <<master, demoted, service, file, keeper>>

-----------------------------------------------------------------------------
KeeperStep(n) ==
    Start(n) \/ Head(n) \/ Acquired(n) \/ NotAcquired(n) \/ Renew(n)

Next ==
    \/ Elect
    \/ \E n \in Node :
        \/ KeeperStep(n) \/ Notice(n) \/ Expire(n) \/ GraceEnds(n) \/ Die(n)
        \/ StopService(n) \/ StartService(n) \/ Age(n) \/ Hook(n) \/ Line(n)

Spec == Init /\ [][Next]_vars

(* Keepers run, timers run out and the hook is run; CARP moves a role within    *)
(* seconds of the hook's answer, and a spell as master is longer than the       *)
(* keeper needs to notice it and to ask for its lease.                          *)
FairSpec ==
    /\ Spec /\ SF_vars(Elect)
    /\ \A n \in Node :
         /\ WF_vars(KeeperStep(n)) /\ WF_vars(Expire(n)) /\ WF_vars(GraceEnds(n))
         /\ WF_vars(Age(n)) /\ WF_vars(Hook(n)) /\ WF_vars(Notice(n))
         /\ SF_vars(n = master /\ Notice(n))
         /\ SF_vars(n = master /\ (Head(n) \/ Acquired(n)))

-----------------------------------------------------------------------------
(* Properties *)

Serves(n) == n = master /\ bound[n]

(* "handing the CARP virtual IP to the peer": whatever one node lost, the      *)
(* address comes back to a node whose line and keeper work (again and again    *)
(* only: a preferred node that yielded is eligible again as a backup and       *)
(* takes the role back for another grace).                                     *)
HealthyNodeServes ==
    \A n \in Node : <>[](line[n] = "lease" /\ service[n]) =>
        []<>(\E m \in Node : Serves(m))

(* A pair that works stays put: no token of an earlier spell, no file of a     *)
(* dead keeper keeps demoting the preferred node.                              *)
SettlesOnPreferred ==
    <>[](\A n \in Node : line[n] = "lease" /\ service[n]) =>
        <>[]Serves(Preferred)

(* A stopped service freezes the heartbeat; the node then demotes and the      *)
(* address goes to the peer for good, in whatever state the file froze.        *)
StoppedNodeYields ==
    \A n, m \in Node : n # m /\ <>[](~service[n] /\ service[m] /\ line[m] = "lease") =>
        <>[]Serves(m)

(* What each node's file says of a demotion keeps FailStop's promise, as the   *)
(* detailed Keeper's does: the pair rests on no more than the loop provides.   *)
Token(n) == INSTANCE FailStop WITH adopts <- FALSE, was <- was[n], bound <- bound[n],
                grace <- grace[n], token <- (file[n] = "demote")
ImplementsFailStop ==
    /\ \A n \in Node : Token(n)!Init
    /\ [][\A n \in Node : [Token(n)!Next]_(Token(n)!vars)]_vars
    /\ \A n \in Node : Token(n)!Live

(* "We only act on a truly stalled keeper, never a mid-cycle one": the hook    *)
(* does not demote a node whose keeper holds the reserved address, nor a       *)
(* passive backup, nor a master within its grace; only a keeper that does not  *)
(* run or has not come to its first heartbeat, one that was given another      *)
(* address, and a master without a lease for longer than the grace.            *)
DemotedForCause ==
    [][\A n \in Node : demoted'[n] /\ ~demoted[n] =>
         \/ pc[n] = "down" \/ (pc[n] = "head" /\ ~bound[n])
         \/ file[n] = "mismatch"
         \/ was[n] = "master" /\ ~bound[n] /\ grace[n] = "over"]_vars
=============================================================================
