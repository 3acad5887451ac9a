---------------------------- MODULE DefaultRoute ----------------------------
(***************************************************************************)
(* Ownership of the IPv4 default route (leasekeeper/route.py,              *)
(* DefaultRouteReconciler) together with the points of the keeper that     *)
(* drive it (keeper.py) and the process boundaries around it.              *)
(*                                                                         *)
(* One reconcile pass is not atomic: the keeper decides what it wants,     *)
(* then asks route(8) what is installed, then issues at most one command.  *)
(* CARP, other programs and the kernel move between those steps, any       *)
(* command or read may fail, and the process may die at every one of them. *)
(***************************************************************************)
EXTENDS Naturals

CONSTANTS
    Gateway,    \* the gateways a lease or the kernel default may carry
    Usable,     \* those _sane_ipv4 accepts
    None,       \* no gateway / no default
    Strikes,    \* DEFAULT_UNREADABLE_ROLE_STRIKES
    Mode,       \* defaultRouteMode
    MaxFaults   \* bound: failures and interferences in one behaviour

ASSUME GatewayAssumption == Usable \subseteq Gateway /\ None \notin Gateway
ASSUME StrikesAssumption == Strikes \in Nat \ {0}
ASSUME ModeAssumption    == Mode \in {"off", "observe", "enforce"}
ASSUME FaultsAssumption  == MaxFaults \in Nat

VARIABLES
    \* the machine
    carp,       \* this node's CARP role for the vhid
    fib,        \* gateway of the kernel default route
    synced,     \* the redistributing router still knows the kernel default
    faults,     \* failures so far
    \* the keeper process
    pc,         \* where the process stands; "down" when it does not run
    after,      \* where the pass in flight returns to
    wasMaster,  \* RoleWatcher.was_master
    bound,      \* binding.yiaddr is set
    router,     \* binding.lease_router
    strikes,    \* _UnreadableRole._strikes
    requested,  \* _ResyncGate._requested
    gateOpen,   \* _ResyncGate._gate would answer ready
    goal,       \* gateway the last pass wanted, None for no default
    \* history
    reading,    \* what the last CARP probe answered
    clean,      \* nothing failed or interfered since the last pass began
    blind       \* passes in a row that were given no role

machine == <<carp, fib, synced>>
memory  == <<wasMaster, bound, router, strikes, requested, gateOpen>>
pass    == <<pc, after, goal>>
history == <<reading, clean, blind>>
vars    == <<machine, faults, memory, pass, history>>

Role == {"master", "backup"}
Busy == {"read", "add", "change", "delete", "reassert"}

TypeOK ==
    /\ carp \in Role
    /\ fib \in Gateway \cup {None}
    /\ synced \in BOOLEAN
    /\ faults \in 0 .. MaxFaults
    /\ pc \in Busy \cup {"down", "seed", "idle"}
    /\ after \in {"down", "seed", "idle"}
    /\ wasMaster \in Role \cup {"unknown"}
    /\ bound \in BOOLEAN
    /\ router \in Gateway \cup {None}
    /\ strikes \in 0 .. Strikes
    /\ requested \in BOOLEAN
    /\ gateOpen \in BOOLEAN
    /\ goal \in Usable \cup {None}
    /\ reading \in Role \cup {"unknown"}
    /\ clean \in BOOLEAN
    /\ blind \in 0 .. Strikes

(* A node boots with whatever default its predecessor left behind. *)
Init ==
    /\ carp \in Role
    /\ fib \in Gateway \cup {None}
    /\ synced = TRUE /\ faults = 0
    /\ pc = "down" /\ after = "down" /\ goal = None
    /\ wasMaster = "unknown" /\ bound = FALSE /\ router = None
    /\ strikes = 0 /\ requested = FALSE /\ gateOpen = FALSE
    /\ reading = "unknown" /\ clean = FALSE /\ blind = 0

-----------------------------------------------------------------------------
(* Helpers *)

Fault == faults < MaxFaults /\ faults' = faults + 1

(* ifconfig answers with the current role, or cannot be read. *)
Probe(r) ==
    /\ reading' = r
    /\ \/ r = carp /\ UNCHANGED faults
       \/ r = "unknown" /\ Fault

UsableLease(b, gw) == b /\ gw \in Usable

(* One more unreadable check (counted up to the limit, where it saturates). *)
CountTo(n) == IF n < Strikes THEN n + 1 ELSE Strikes

MutStrikeOut(n) == n > Strikes
StrikeOut(n) == n >= Strikes

MutStrikesAfterReadable(n) == n
StrikesAfterReadable(n) == 0

MutWantedAnyRole(m, b, gw) == IF UsableLease(b, gw) THEN gw ELSE None
MutWantedStale(m, b, gw) == IF m = "master" /\ gw \in Usable THEN gw ELSE None
(* What reconcile() drives the FIB to for a role it could read. *)
Wanted(m, b, gw) == IF m = "master" /\ UsableLease(b, gw) THEN gw ELSE None

(* reconcile(is_master, bound, gateway) up to its first look at the FIB; the *)
(* pass returns to ret.                                                      *)
Reconcile(m, b, gw, ret) ==
    /\ after' = ret
    /\ IF Mode = "off"
       THEN pc' = ret /\ UNCHANGED <<strikes, goal, clean>>
       ELSE IF m = "unknown" /\ UsableLease(b, gw)
       THEN /\ strikes' = CountTo(strikes)
            /\ IF StrikeOut(strikes')
               THEN pc' = "read" /\ goal' = None /\ clean' = TRUE
               ELSE pc' = ret /\ UNCHANGED <<goal, clean>>
       ELSE /\ strikes' = StrikesAfterReadable(strikes)
            /\ goal' = Wanted(m, b, gw)
            /\ pc' = "read" /\ clean' = TRUE

(* RoleWatcher.poll as far as routing sees it: commit a definite role, and   *)
(* on backup -> master ask for a resync (_on_carp_promote).                  *)
Poll(r) ==
    /\ wasMaster' = IF r = "unknown" THEN wasMaster ELSE r
    /\ requested' = (requested \/ (wasMaster = "backup" /\ r = "master"))

(* History: a pass of the main loop is given role, a reading or what stands  *)
(* in for it, with or without a lease.                                       *)
Given(role) == blind' = IF role = "unknown" THEN CountTo(blind) ELSE 0

-----------------------------------------------------------------------------
(* Process boundaries *)

(* withdraw_unless_master: a confirmed master keeps its default, any other   *)
(* reading withdraws; ret is what the process does next.                     *)
WithdrawUnlessMaster(ret) ==
    \E r \in Role \cup {"unknown"} :
        /\ Probe(r) /\ blind' = 0
        /\ IF Mode = "off" \/ r = "master"
           THEN /\ pc' = ret /\ after' = ret /\ strikes' = 0
                /\ UNCHANGED <<goal, clean>>
           ELSE Reconcile("backup", FALSE, None, ret)

(* main() up to Keeper.run(): a new process, empty memory, the startup       *)
(* fail-stop. daemon(8) -r restarts a keeper that died.                      *)
Start ==
    /\ pc = "down"
    /\ wasMaster' = "unknown" /\ bound' = FALSE /\ router' = None
    /\ requested' = FALSE /\ gateOpen' = FALSE
    /\ WithdrawUnlessMaster("seed")
    /\ UNCHANGED machine

(* RoleWatcher.log_initial: seed a definite role, no promotion effects. *)
LogInitial ==
    /\ pc = "seed"
    /\ \E r \in Role \cup {"unknown"} :
         /\ Probe(r)
         /\ wasMaster' = IF r = "unknown" THEN wasMaster ELSE r
    /\ pc' = "idle" /\ after' = "idle"
    /\ UNCHANGED <<machine, bound, router, strikes, requested, gateOpen,
                   goal, clean, blind>>

(* SIGTERM: Keeper.run leaves its loop and withdraws unless master. *)
Stop ==
    /\ pc = "idle"
    /\ WithdrawUnlessMaster("down")
    /\ UNCHANGED <<machine, wasMaster, bound, router, requested, gateOpen>>

(* The process dies between any two steps. *)
Crash ==
    /\ pc # "down" /\ Fault
    /\ pc' = "down" /\ after' = "down"
    /\ clean' = (clean /\ pc \notin Busy)
    /\ blind' = 0
    /\ UNCHANGED <<machine, memory, goal, reading>>

-----------------------------------------------------------------------------
(* Calls from the main loop *)

(* _role_tick: heartbeat tick, SIGUSR2 edge, REBIND step -- the raw probe. *)
RoleTick ==
    /\ pc = "idle"
    /\ \E r \in Role \cup {"unknown"} :
         Probe(r) /\ Poll(r) /\ Reconcile(r, bound, router, "idle") /\ Given(r)
    /\ UNCHANGED <<machine, bound, router, gateOpen>>

(* The head of _maintain_step: an unreadable probe is replaced by the last   *)
(* known role. A backup only does its upkeep; an unbound node first tries    *)
(* to acquire and withdraws only if that did not bind.                       *)
LoopHead ==
    /\ pc = "idle"
    /\ \E r \in Role \cup {"unknown"} :
         LET role == IF r = "unknown" THEN wasMaster ELSE r IN
         /\ Probe(r) /\ Poll(role)
         /\ \/ /\ role = "backup" \/ bound
               /\ Reconcile(role, bound, router, "idle") /\ Given(role)
               /\ UNCHANGED <<bound, router>>
            \/ /\ role # "backup" /\ ~bound
               /\ Reconcile("backup", bound, router, "idle") /\ Given(role)
               /\ UNCHANGED <<bound, router>>
            \/ /\ role # "backup" /\ ~bound
               /\ bound' = TRUE /\ router' \in Gateway \cup {None}
               /\ UNCHANGED <<pc, after, strikes, goal, clean, blind>>
    /\ UNCHANGED <<machine, gateOpen>>

(* An ACK for the binding held: a renew (option 3 may change), a followed     *)
(* address (its own option 3, or none), or the peer's ACK adopted in a sleep, *)
(* in any role and even after the binding it was observed under was lost.     *)
RenewLease ==
    /\ pc = "idle" /\ (bound \/ router # None)
    /\ bound' = TRUE /\ router' \in Gateway \cup {None}
    /\ UNCHANGED <<machine, faults, pass, history, wasMaster, strikes,
                   requested, gateOpen>>

(* NAK or expiry: expire() clears yiaddr and nothing else. *)
LoseLease ==
    /\ pc = "idle" /\ bound
    /\ bound' = FALSE
    /\ UNCHANGED <<machine, faults, pass, history, wasMaster, router, strikes,
                   requested, gateOpen>>

-----------------------------------------------------------------------------
(* The rest of a pass: one read of the FIB, at most one command *)

MutResyncDue == requested
ResyncDue == requested \/ gateOpen

MutWriteVerb(have) == "change"
WriteVerb(have) == IF have = None THEN "add" ELSE "change"

MayWrite == Mode = "enforce"

(* What the read makes the pass do: nothing, or one command. *)
NextStep(have) ==
    IF goal = None
    THEN IF have = None \/ ~MayWrite THEN after ELSE "delete"
    ELSE IF have = goal
         THEN IF MayWrite /\ ResyncDue THEN "reassert" ELSE after
         ELSE IF MayWrite THEN WriteVerb(have) ELSE after

(* _fib_default_gateway: any failure of `route get` reads as "no default". *)
ReadFib ==
    /\ pc = "read"
    /\ \E have \in {fib, None} :
         /\ \/ have = fib /\ UNCHANGED <<faults, clean>>
            \/ have # fib /\ Fault /\ clean' = FALSE
         /\ pc' = NextStep(have)
    /\ IF pc' = "reassert"
       THEN requested' = FALSE /\ gateOpen' = FALSE
       ELSE UNCHANGED <<requested, gateOpen>>
    /\ UNCHANGED <<machine, after, goal, wasMaster, bound, router, strikes,
                   reading, blind>>

(* The kernel side of `route add|change|delete default`: add wants an empty  *)
(* slot, change and delete an occupied one.                                  *)
Applies(verb) == (verb = "add") = (fib = None)

(* A command that runs to fib' = gw, or fails and leaves the FIB alone. *)
Command(verb, gw) ==
    \/ /\ Applies(verb)
       /\ fib' = gw /\ synced' = TRUE
       /\ UNCHANGED <<faults, clean>>
    \/ /\ ~Applies(verb)
       /\ UNCHANGED <<fib, synced, faults, clean>>
    \/ /\ Fault /\ clean' = FALSE
       /\ UNCHANGED <<fib, synced>>

(* _install and _withdraw: the read-back that follows is only logged. *)
Install ==
    /\ pc \in {"add", "change"}
    /\ Command(pc, goal)
    /\ pc' = after
    /\ UNCHANGED <<carp, after, goal, memory, reading, blind>>

Withdraw ==
    /\ pc = "delete"
    /\ Command("delete", None)
    /\ pc' = after
    /\ UNCHANGED <<carp, after, goal, memory, reading, blind>>

(* _reassert: `route change` to the gateway already installed; a failure is  *)
(* put back on the books.                                                    *)
Reassert ==
    /\ pc = "reassert"
    /\ Command("change", goal)
    /\ requested' = (~Applies("change") \/ faults' # faults)
    /\ pc' = after
    /\ UNCHANGED <<carp, after, goal, wasMaster, bound, router, strikes,
                   gateOpen, reading, blind>>

-----------------------------------------------------------------------------
(* Everyone else *)

Failover ==
    /\ carp' \in Role \ {carp}
    /\ UNCHANGED <<fib, synced, faults, memory, pass, history>>

(* Another program, or the kernel on an interface event, edits the default. *)
Interfere ==
    /\ Fault
    /\ fib' \in (Gateway \cup {None}) \ {fib}
    /\ synced' = TRUE /\ clean' = FALSE
    /\ UNCHANGED <<carp, memory, pass, reading, blind>>

(* An interface flap: the kernel keeps the default, the router drops it. *)
Flap ==
    /\ fib # None /\ synced /\ Fault
    /\ synced' = FALSE
    /\ UNCHANGED <<carp, fib, memory, pass, history>>

(* DEFAULT_RESYNC_INTERVAL has passed since the gate was last armed. *)
GateOpens ==
    /\ pc # "down" /\ ~gateOpen
    /\ gateOpen' = TRUE
    /\ UNCHANGED <<machine, faults, pass, history, wasMaster, bound, router,
                   strikes, requested>>

Step == ReadFib \/ Install \/ Withdraw \/ Reassert

Next ==
    \/ Start \/ LogInitial \/ Stop \/ Crash
    \/ RoleTick \/ LoopHead \/ RenewLease \/ LoseLease
    \/ Step
    \/ Failover \/ Interfere \/ Flap \/ GateOpens

Spec == Init /\ [][Next]_vars

(* The process is respawned, a started pass finishes, the 60 s gate opens,   *)
(* and the main loop always comes back to its head (T1 is finite).           *)
FairSpec ==
    /\ Spec
    /\ WF_vars(Start) /\ WF_vars(LogInitial) /\ WF_vars(Step)
    /\ WF_vars(GateOpens) /\ SF_vars(LoopHead)

-----------------------------------------------------------------------------
(* Properties *)

AtRest == pc \in {"down", "seed", "idle"}

(* One undisturbed pass is enough: whenever the keeper is between passes and *)
(* nothing failed or interfered since the last one began, the FIB holds      *)
(* exactly what that pass wanted (add / change / delete picked from a read). *)
Converged == Mode = "enforce" /\ AtRest /\ clean => fib = goal

(* Fail closed: Strikes passes in a row that were given no role leave no     *)
(* default, whatever lease came and went between them: role ticks that could *)
(* not read it, and loop heads that knew none to put in its place either     *)
(* (_on_unknown_role).  A loop head that does know one decides on that as if *)
(* it had been read (keeper.py:814), may install, and ends the row: over     *)
(* loop heads nothing of the kind holds, as UnreadableNeverInstalls shows.   *)
FailsClosed ==
    Mode = "enforce" /\ AtRest /\ clean /\ blind >= Strikes => fib = None

(* No flap: the keeper takes a default away only from a confirmed backup,    *)
(* from a node without a usable lease, at a boundary it could not read as    *)
(* master, or after Strikes passes without a role -- never on a shorter      *)
(* glitch and never for the restart of a master (withdraw_unless_master).    *)
MayTakeDown ==
    \/ after = "idle" /\ (\/ wasMaster = "backup"
                         \/ ~UsableLease(bound, router)
                         \/ blind >= Strikes)
    \/ after # "idle" /\ reading # "master"
NoNeedlessWithdraw == [][Withdraw /\ fib' # fib => MayTakeDown]_vars

(* The keeper points the default only at the usable gateway of the lease it  *)
(* holds, believing itself master; a gateway that lingers after a lost lease *)
(* is never used (reconcile's bound/gateway contract).                       *)
InstallsOwnLease ==
    [][Install /\ fib' # fib =>
         wasMaster = "master" /\ bound /\ fib' = router /\ router \in Usable]_vars

(* A node that stays backup ends without a default, whatever failed before.  *)
BackupEndsClean == <>[](carp = "backup") => <>[](fib = None)

(* A node that stays master on one usable lease ends owning the default and  *)
(* being redistributed, although flaps desynchronise the router silently.    *)
MasterEndsAdvertised ==
    \A g \in Usable :
        <>[](carp = "master" /\ bound /\ router = g) => <>[](fib = g /\ synced)

(* "An unreadable probe is fail-safe on the INSTALL side (do nothing)": the  *)
(* keeper never installs on a pass whose role probe could not be read.       *)
UnreadableNeverInstalls == [][Install /\ fib' # fib => reading = "master"]_vars
=============================================================================
