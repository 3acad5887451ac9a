---------------------------- MODULE BackupEgress ----------------------------
(***************************************************************************)
(* Backup egress (leasekeeper/route.py, BackupEgressReconciler, enforce):  *)
(* the routes by which a CARP backup reaches the internet through its      *)
(* peer, and which would loop the traffic of a master. The prefixes are    *)
(* also those of a VPN, so what the keeper may touch is told by next hop:  *)
(* the configured gateway, or one it has confirmed in this process.        *)
(*                                                                         *)
(* The table is read as a whole and changed by one command per prefix; in  *)
(* between others edit it, the role moves, reads and commands fail, the    *)
(* peer is renumbered and the keeper dies.                                 *)
(***************************************************************************)
EXTENDS Naturals

CONSTANTS
    Split,      \* the prefixes of the /1-split
    Listed,     \* the configured prefixes
    MaxFaults   \* bound: failures and interferences in one behaviour

ASSUME FaultsAssumption == MaxFaults \in Nat

VARIABLES
    \* the machine
    carp,       \* this node's CARP role
    table,      \* the route of each prefix
    peer,       \* the peer's address on the interface to derive it from
    faults,     \* failures so far
    \* the configuration
    explicit,   \* a gateway is configured; otherwise the peer is derived
    form,       \* BackupEgressForm
    \* the keeper
    pc,         \* where its pass stands; "down" when it does not run
    cont,       \* what follows a removal
    reading,    \* the role it last read (RoleWatcher.was_master) and acts on
    gateway,    \* the gateway the pass resolved
    have,       \* the table as the pass read it
    todo,       \* prefixes it has yet to write
    installed,  \* _backup_installed_gws
    \* history
    retired,    \* next hops that are none of this process's
    calm        \* nothing has failed since the pass began

machine == <<carp, peer, explicit, form>>
pass    == <<pc, cont, gateway, have, todo>>
vars    == <<machine, table, faults, pass, reading, installed, retired, calm>>

Prefix  == Split \cup Listed
Role    == {"master", "backup"}
Peers   == {"p", "q"}
Hop     == Peers \cup {"g"}     \* g: the configured gateway
None    == "none"
Unread  == [x \in Prefix |-> None]
NoRoute == [hop |-> None, by |-> "nobody"]
(* by: this process, an earlier one, or another program. *)
Route   == [hop : Hop, by : {"us", "before", "other"}] \cup {NoRoute}

TypeOK ==
    /\ carp \in Role /\ peer \in Peers /\ form \in {"split", "prefixes"}
    /\ table \in [Prefix -> Route] /\ have \in [Prefix -> Hop \cup {None}]
    /\ faults \in 0 .. MaxFaults
    /\ {explicit, calm} \subseteq BOOLEAN
    /\ pc \in {"down", "idle", "read", "write", "confirm", "find", "delete", "check"}
    /\ cont \in {"start", "stop", "pass"}
    /\ reading \in Role \cup {"unknown"}
    /\ gateway \in Hop \cup {None}
    /\ todo \subseteq Prefix
    /\ installed \subseteq Hop /\ retired \subseteq Hop

(* A predecessor, or another program, may have left routes behind. *)
Init ==
    /\ carp \in Role /\ peer = "p" /\ form \in {"split", "prefixes"} /\ explicit \in BOOLEAN
    /\ \E mine, vpn \in {{}, Split} :
         /\ mine \cap vpn = {}
         /\ table = [x \in Prefix |->
                IF x \in mine THEN [hop |-> IF explicit THEN "g" ELSE peer, by |-> "before"]
                ELSE IF x \in vpn THEN [hop |-> "q", by |-> "other"]
                ELSE NoRoute]
    /\ faults = 0 /\ pc = "down" /\ cont = "pass" /\ reading = "unknown"
    /\ gateway = None /\ have = Unread /\ todo = {}
    /\ installed = {} /\ retired = {} /\ calm = FALSE

-----------------------------------------------------------------------------
(* Helpers *)

Fault == faults < MaxFaults /\ faults' = faults + 1 /\ calm' = FALSE

Answers(ok) == IF ok THEN UNCHANGED <<faults, calm>> ELSE Fault

(* _fib_routes *)
Fib == [x \in Prefix |-> table[x].hop]

(* _backup_route_set, and _backup_removal_set: every form's prefixes. *)
RouteSet == IF form = "split" THEN Split ELSE Listed
MutRemovalSet == RouteSet
RemovalSet == Split \cup Listed

Configured == IF explicit THEN {"g"} ELSE {}

(* _backup_owned_gateways *)
Owned == installed \cup Configured

MutPending == {x \in RouteSet : Fib[x] = None}
(* _classify_backup_prefixes: absent, or at a next hop of ours. *)
Pending == {x \in RouteSet : Fib[x] # gateway /\ Fib[x] \in Owned \cup {None}}

Present == {x \in RemovalSet : Fib[x] \in Owned}

MutPruned(gws, routes, set) == gws
(* _prune_backup_ownership: what no prefix stands at any more is not ours. *)
Pruned(gws, routes, set) == {g \in gws : \E x \in set : routes[x] = g}

(* The next hops no prefix stands at. *)
Absent(routes) == {g \in Hop : \A x \in Prefix : routes[x] # g}

(* A pass is over; the process goes on, or is gone. *)
Rest ==
    /\ pc' = IF cont = "stop" THEN "down" ELSE "idle"
    /\ cont' = "pass" /\ gateway' = None /\ have' = Unread /\ todo' = {}

-----------------------------------------------------------------------------
(* Process boundaries *)

(* withdraw_unless_master cleans the set first, whatever the role. At the     *)
(* start it does so by the configured gateway alone.                          *)
Start ==
    /\ pc = "down"
    /\ pc' = "find" /\ cont' = "start" /\ installed' = {} /\ reading' = "unknown"
    /\ form' \in {"split", "prefixes"}
    /\ retired' = Hop \ Configured
    /\ table' = [x \in Prefix |-> IF table[x].by = "us" THEN [table[x] EXCEPT !.by = "before"]
                                  ELSE table[x]]
    /\ UNCHANGED <<carp, peer, explicit, faults, gateway, have, todo, calm>>

Stop ==
    /\ pc = "idle"
    /\ pc' = "find" /\ cont' = "stop"
    /\ UNCHANGED <<machine, table, faults, gateway, have, todo, reading, installed,
                   retired, calm>>

Crash ==
    /\ pc # "down" /\ Fault
    /\ pc' = "down" /\ cont' = "pass" /\ gateway' = None /\ have' = Unread /\ todo' = {}
    /\ installed' = {}
    /\ UNCHANGED <<machine, table, reading, retired>>

-----------------------------------------------------------------------------
(* A pass of reconcile_backup_egress *)

(* A master removes, a backup installs. *)
Direction(r) == IF r = "master" THEN "find" ELSE "read"

(* The role: the probe, or after a failed one nothing (_role_tick) or the     *)
(* last known role (_maintain_step). A backup's gateway that cannot be        *)
(* resolved (_resolve_backup_gateway) leaves the table alone.                 *)
Tick ==
    /\ pc = "idle"
    /\ \E r \in {carp, reading}, resolved \in BOOLEAN :
         /\ r # "unknown"
         /\ IF r = carp /\ resolved THEN UNCHANGED faults /\ calm' = TRUE ELSE Fault
         /\ resolved \/ r = "backup"
         /\ reading' = r
         /\ IF ~resolved THEN UNCHANGED <<pc, gateway>>
            ELSE /\ pc' = Direction(r)
                 /\ gateway' = IF r = "master" THEN None
                               ELSE IF explicit THEN "g" ELSE peer
    /\ UNCHANGED <<machine, table, cont, have, todo, installed, retired>>

-----------------------------------------------------------------------------
(* _backup_install *)

(* What a confirmed table says of ownership (_record_backup_ownership). *)
Record(routes) ==
    /\ installed' = Pruned(installed \cup {gateway}, routes, RouteSet)
    /\ retired' = (retired \cup Absent(routes)) \ (Configured \cup {gateway})

ReadTable ==
    /\ pc = "read"
    /\ \E ok \in BOOLEAN :
         /\ Answers(ok)
         /\ CASE ok /\ Pending # {} ->
                   /\ pc' = "write" /\ have' = Fib /\ todo' = Pending
                   /\ UNCHANGED <<cont, gateway, installed, retired>>
              [] ok /\ Pending = {} -> Record(Fib) /\ Rest
              [] OTHER -> Rest /\ UNCHANGED <<installed, retired>>
    /\ UNCHANGED <<machine, table, reading>>

(* `route add` of what was absent, `route change` of what was there: each     *)
(* fails on a table that has changed meanwhile.                               *)
Write ==
    /\ pc = "write"
    /\ \E x \in todo, ok \in BOOLEAN :
         /\ Answers(ok)
         /\ todo' = todo \ {x}
         /\ pc' = IF todo' = {} THEN "confirm" ELSE pc
         /\ table' = IF ok /\ (have[x] = None) = (table[x] = NoRoute)
                     THEN [table EXCEPT ![x] = [hop |-> gateway, by |-> "us"]] ELSE table
    /\ UNCHANGED <<machine, cont, gateway, have, reading, installed, retired>>

(* The second read. Without it nothing is recorded. *)
Confirm ==
    /\ pc = "confirm"
    /\ \E ok \in BOOLEAN :
         /\ Answers(ok)
         /\ IF ok THEN Record(Fib) ELSE UNCHANGED <<installed, retired>>
    /\ Rest
    /\ UNCHANGED <<machine, table, reading>>

-----------------------------------------------------------------------------
(* _backup_remove *)

Drop(routes) ==
    /\ installed' = Pruned(installed, routes, RemovalSet)
    /\ retired' = (retired \cup Absent(routes)) \ Configured

FindRoutes ==
    /\ pc = "find"
    /\ \E ok \in BOOLEAN :
         /\ Answers(ok)
         /\ CASE ok /\ Present # {} ->
                   /\ pc' = "delete" /\ have' = Fib /\ todo' = Present
                   /\ UNCHANGED <<cont, gateway, installed, retired>>
              [] ok /\ Present = {} -> Drop(Fib) /\ Rest
              [] OTHER -> Rest /\ UNCHANGED <<installed, retired>>
    /\ UNCHANGED <<machine, table, reading>>

(* `route delete` takes whatever route the prefix has by then. *)
Delete ==
    /\ pc = "delete"
    /\ \E x \in todo, ok \in BOOLEAN :
         /\ Answers(ok)
         /\ todo' = todo \ {x}
         /\ pc' = IF todo' = {} THEN "check" ELSE pc
         /\ table' = IF ok THEN [table EXCEPT ![x] = NoRoute] ELSE table
    /\ UNCHANGED <<machine, cont, gateway, have, reading, installed, retired>>

CheckGone ==
    /\ pc = "check"
    /\ \E ok \in BOOLEAN :
         /\ Answers(ok)
         /\ IF ok THEN Drop(Fib) ELSE UNCHANGED <<installed, retired>>
    /\ Rest
    /\ UNCHANGED <<machine, table, reading>>

-----------------------------------------------------------------------------
(* Everyone else *)

Failover ==
    /\ carp' \in Role \ {carp}
    /\ UNCHANGED <<peer, explicit, form, table, faults, pass, reading, installed,
                   retired, calm>>

(* Another program adds, replaces or removes a route. *)
Interfere ==
    /\ Fault
    /\ \E x \in Prefix : \E r \in [hop : Peers, by : {"other"}] \cup {NoRoute} :
         r # table[x] /\ table' = [table EXCEPT ![x] = r]
    /\ UNCHANGED <<machine, pass, reading, installed, retired>>

(* It takes its own route back. *)
Vacate ==
    /\ \E x \in Prefix : table[x].by = "other" /\ table' = [table EXCEPT ![x] = NoRoute]
    /\ UNCHANGED <<machine, faults, pass, reading, installed, retired, calm>>

(* The point-to-point network to the peer is renumbered. *)
Renumber ==
    /\ Fault
    /\ peer' \in Peers \ {peer}
    /\ UNCHANGED <<carp, explicit, form, table, pass, reading, installed, retired>>

-----------------------------------------------------------------------------
PassStep == ReadTable \/ Write \/ Confirm \/ FindRoutes \/ Delete \/ CheckGone

Next ==
    \/ Start \/ Stop \/ Crash \/ Tick \/ PassStep
    \/ Failover \/ Interfere \/ Vacate \/ Renumber

Spec == Init /\ [][Next]_vars

(* daemon(8) respawns the keeper, a started pass runs to its end, and the     *)
(* main loop ticks again and again.                                           *)
FairSpec == Spec /\ WF_vars(Start) /\ WF_vars(PassStep) /\ SF_vars(Tick)

-----------------------------------------------------------------------------
(* Properties *)

Ours(x) == table[x].by \in {"us", "before"}

(* The routes as something only a backup carries: a route goes in by a pass   *)
(* that acts on the role backup, and with a configured gateway a node that    *)
(* stays master gets rid of every one, a dead predecessor's included.         *)
Gate == INSTANCE RoleGate WITH Holder <- "backup", up <- (\E x \in Prefix : Ours(x))
ImplementsRoleGate == Gate!Safe /\ (explicit => Gate!Live)

(* "Ownership, not shape": a route of another program that stood where the    *)
(* pass read it is not replaced or removed, not even one whose next hop the   *)
(* keeper used earlier and has since given up.                                *)
ForeignKept ==
    [][(Write \/ Delete) => \A x \in Prefix :
         table[x].by = "other" /\ table[x].hop = have[x] /\ have[x] \in retired
           => table'[x] = table[x]]_vars

Desired == IF explicit THEN "g" ELSE peer

(* A node that stays backup, with no next hop on its prefixes that it does    *)
(* not own, ends with all its routes at the gateway of the day.               *)
BackupEndsRouted ==
    <>[]( /\ carp = "backup" /\ pc # "down"
          /\ \A x \in RouteSet : table[x].hop \in Owned \cup {Desired, None})
        => <>[](\A x \in RouteSet : table[x].hop = Desired)

(* A pass on a master that nothing disturbs leaves none of the routes this    *)
(* process installed: their gateway is one "it installed this session".       *)
SessionCleared ==
    pc = "idle" /\ calm /\ reading = "master" => \A x \in Prefix : table[x].by # "us"
=============================================================================
