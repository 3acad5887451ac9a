------------------------------- MODULE Keeper -------------------------------
(***************************************************************************)
(* The main loop of one lease keeper (leasekeeper/keeper.py) with the CARP *)
(* role it watches (carp.py, RoleWatcher) and the signals that wake it     *)
(* (signals.py).  The loop is one thread: an action is the stretch of code *)
(* between two points where it looks at the world -- a role probe, a sleep *)
(* slice, a DHCP answer.  CARP moves, the syshook signals, SIGTERM arrives *)
(* and time passes at every one of them.  A DHCP exchange is what it does  *)
(* to the binding; where the lease's address moves to is not followed, only *)
(* that the binding is kept, lost or adopted.  A keeper with a configuration *)
(* error (it sends no DHCP) and one without a vhid (it has no role) are left *)
(* out.                                                                    *)
(***************************************************************************)
EXTENDS Integers

CONSTANTS
    HoldTicks,      \* heartbeat chunks in the wait until T1
    RebindSteps,    \* retransmit steps from T1 to T2
    Grace,          \* DEMOTE_GRACE in ticks of the clock
    ReleaseOnExit,  \* --release-on-exit
    Modes,          \* values of --follow to look at (TRUE: it adopts a changed address)
    MaxFaults,      \* bound: failed probes, dead links, raising hooks, crashes,
                    \* renews asked for by the network check
    None            \* no epoch

ASSUME TimersAssumption  == HoldTicks \in Nat \ {0} /\ RebindSteps \in Nat \ {0}
ASSUME GraceAssumption   == Grace \in Nat
ASSUME OptionAssumption  == ReleaseOnExit \in BOOLEAN /\ Modes \subseteq BOOLEAN
ASSUME FaultsAssumption  == MaxFaults \in Nat
ASSUME NoneAssumption    == None \notin Int

VARIABLES
    follow,     \* whether this keeper follows (fixed)
    carp,       \* this node's CARP role for the vhid
    faults,     \* failures so far
    stop,       \* _SignalFlags._stop
    recheck,    \* _SignalFlags._recheck_role
    pc,         \* where the loop stands; "down" when no process runs
    was,        \* RoleWatcher.was_master
    asap,       \* RoleWatcher._renew_asap
    since,      \* clock of RoleWatcher._unbound_master_since
    bound,      \* binding.yiaddr is set
    observed,   \* FollowPolicy._observed: the capture thread saw the peer's ACK
    left,       \* _hold_lease: chunks still to wait
    elapsed,    \* _renew_bound_lease: steps since T1
    demote,     \* demote_ok of the heartbeat file
    \* history
    reading,    \* what the last CARP probe answered
    leaseless,  \* clock since this node is master, as it knows, without a lease
    owed        \* promoted, and no DHCP sent since

env     == <<carp, follow>>
watcher == <<was, asap>>
flags   == <<stop, recheck>>
timers  == <<left, elapsed>>
lease   == <<bound, observed>>
hb      == <<since, demote>>
history == <<leaseless, owed>>
vars    == <<env, faults, flags, pc, watcher, hb, lease, timers, reading, history>>

Role     == {"master", "backup"}
Sleeping == {"passive", "chunk", "rebindwait", "unboundwait"}
Sending  == {"acquiring", "renewing", "rebinding"}
Other    == {"down", "seed", "head", "hold", "tick", "t1", "rebind", "rebindtick",
             "acquire", "error", "shutdown"}
Clock    == 0 .. Grace + 1

TypeOK ==
    /\ follow \in Modes
    /\ carp \in Role /\ faults \in 0 .. MaxFaults
    /\ stop \in BOOLEAN /\ recheck \in BOOLEAN
    /\ pc \in Sleeping \cup Sending \cup Other
    /\ was \in Role \cup {"unknown"} /\ asap \in BOOLEAN
    /\ since \in Clock \cup {None} /\ demote \in BOOLEAN
    /\ bound \in BOOLEAN /\ observed \in BOOLEAN
    /\ left \in 0 .. HoldTicks /\ elapsed \in 0 .. RebindSteps
    /\ reading \in Role \cup {"unknown"}
    /\ leaseless \in Clock /\ owed \in BOOLEAN

Init ==
    /\ follow \in Modes
    /\ carp \in Role /\ faults = 0
    /\ stop = FALSE /\ recheck = FALSE
    /\ pc = "down"
    /\ was = "unknown" /\ asap = FALSE
    /\ since = None /\ demote = FALSE
    /\ bound = FALSE /\ observed = FALSE
    /\ left = 0 /\ elapsed = 0
    /\ reading = "unknown" /\ leaseless = 0 /\ owed = FALSE

-----------------------------------------------------------------------------
(* Helpers *)

Fault == faults < MaxFaults /\ faults' = faults + 1

(* carp_master: the role, or None when ifconfig could not be read. *)
Probe(r) ==
    /\ reading' = r
    /\ \/ r = carp /\ UNCHANGED faults
       \/ r = "unknown" /\ Fault

Later(t) == IF t <= Grace THEN t + 1 ELSE t

MutEpoch(w, b) == IF ~b THEN IF since = None THEN 0 ELSE since ELSE None
MutEpochRestarts(w, b) == IF w = "master" /\ ~b THEN 0 ELSE None
(* demote_ok's epoch, set on the first lease-less heartbeat of a master. *)
Epoch(w, b) ==
    IF w = "master" /\ ~b THEN IF since = None THEN 0 ELSE since ELSE None

(* _hb: rewrite the heartbeat from a role and a binding. *)
Heartbeat(w, b) ==
    /\ since' = Epoch(w, b)
    /\ demote' = (since' # None /\ since' > Grace)

(* renew_pending: the latch is inert on a confirmed backup. *)
RenewPending(a, w) == a /\ w # "backup"

(* A backup -> master transition; the first definite role is not one. *)
Promotes(r) == was = "backup" /\ r = "master"

MutArmed(r) == asap
(* The early-renew latch after poll(r). *)
Armed(r) == asap \/ Promotes(r)

(* RoleWatcher.poll(r) when its hooks run to the end: commit the role, arm   *)
(* the renew on a promotion; hbs says whether the caller rewrites the        *)
(* heartbeat anyway (on_change does so on either transition).                *)
Poll(r, hbs) ==
    /\ was' = IF r = "unknown" THEN was ELSE r
    /\ asap' = Armed(r)
    /\ IF hbs \/ was \notin {"unknown", was'} THEN Heartbeat(was', bound)
                                             ELSE UNCHANGED hb

(* A promotion hook raises: the latch is armed, the role is not committed,   *)
(* and run() recovers.                                                       *)
PollRaises(r) ==
    /\ Promotes(r) /\ faults' = faults + 1 /\ faults < MaxFaults
    /\ asap' = TRUE /\ pc' = "error"
    /\ UNCHANGED was

Transmits == pc' \in Sending /\ pc # pc'

(* What the history variables record of a step. *)
Record ==
    /\ leaseless' = IF was' = "master" /\ ~bound' THEN leaseless ELSE 0
    /\ owed' = /\ pc' # "down" /\ was' # "backup" /\ ~Transmits
               /\ (owed \/ (was = "backup" /\ was' = "master"))

-----------------------------------------------------------------------------
(* The process *)

Start ==
    /\ pc = "down"
    /\ pc' = "seed"
    /\ stop' = FALSE /\ recheck' = FALSE
    /\ was' = "unknown" /\ asap' = FALSE
    /\ since' = None
    /\ bound' = FALSE /\ observed' = FALSE
    /\ UNCHANGED <<env, faults, demote, timers, reading>>
    /\ Record

(* log_initial seeds a definite role without promotion effects. *)
LogInitial ==
    /\ pc = "seed"
    /\ \E r \in Role \cup {"unknown"} :
         Probe(r) /\ was' = IF r = "unknown" THEN was ELSE r
    /\ pc' = "head"
    /\ UNCHANGED <<env, flags, asap, hb, lease, timers>>
    /\ Record

(* run() left its loop: RELEASE if asked to and if something is held. *)
Shutdown ==
    /\ pc = "shutdown"
    /\ pc' = "down"
    /\ UNCHANGED <<env, faults, flags, watcher, hb, lease, timers, reading>>
    /\ Record
Releases == Shutdown /\ ReleaseOnExit /\ bound

(* run()'s catch-all: heartbeat, back off, try again. *)
Recover ==
    /\ pc = "error"
    /\ Heartbeat(was, bound)
    /\ pc' = "head"
    /\ UNCHANGED <<env, faults, flags, watcher, lease, timers, reading>>
    /\ Record

Crash ==
    /\ pc # "down" /\ Fault
    /\ pc' = "down"
    /\ UNCHANGED <<env, flags, watcher, hb, lease, timers, reading>>
    /\ Record

-----------------------------------------------------------------------------
(* _maintain_step *)

MutGate(role) == role = "backup" \/ ~bound
(* Only a definite backup skips the transmit flow. *)
Gate(role) == role = "backup"

(* Where the head sends a keeper that knows its role as this one. *)
Dispatch(role) ==
    IF Gate(role) THEN pc' = "passive"
    ELSE IF bound THEN pc' = "hold"
    ELSE pc' = "acquire"

(* The head of the loop: probe, substitute the last known role for an        *)
(* unreadable one, commit, dispatch.  Every arm rewrites the heartbeat at    *)
(* once (passive tick, acquire) except the bound one.                        *)
Head ==
    /\ pc = "head" /\ ~stop
    /\ \E r \in Role \cup {"unknown"} :
         LET role == IF r = "unknown" THEN was ELSE r IN
         \/ Probe(r) /\ Poll(role, Gate(role) \/ ~bound) /\ Dispatch(role)
         \/ r = carp /\ reading' = r /\ PollRaises(role) /\ UNCHANGED hb
    /\ IF pc' = "hold" THEN left' = HoldTicks ELSE UNCHANGED left
    /\ UNCHANGED <<env, flags, lease, elapsed>>
    /\ Record

HeadStops ==
    /\ pc = "head" /\ stop
    /\ pc' = "shutdown"
    /\ UNCHANGED <<env, faults, flags, watcher, hb, lease, timers, reading>>
    /\ Record

-----------------------------------------------------------------------------
(* Sleeps (_sleep_interruptible) *)

(* What follows each sleep when it ends normally, and on a stop. *)
Woken(p) ==
    CASE p = "chunk" -> "tick" [] p = "rebindwait" -> "rebindtick" [] OTHER -> "head"
Broken(p) == IF p = "rebindwait" THEN "rebind" ELSE "head"

Timeout ==
    /\ pc \in Sleeping /\ ~stop
    /\ pc' = Woken(pc)
    /\ UNCHANGED <<env, faults, flags, watcher, hb, lease, timers, reading>>
    /\ Record

SleepStops ==
    /\ pc \in Sleeping /\ stop
    /\ pc' = Broken(pc)
    /\ UNCHANGED <<env, faults, flags, watcher, hb, lease, timers, reading>>
    /\ Record

(* SIGUSR2 seen by a sleep slice: one role tick, and an early end of the     *)
(* sleep when a renew is due.                                                *)
Recheck ==
    /\ pc \in Sleeping /\ ~stop /\ recheck
    /\ recheck' = FALSE
    /\ \E r \in Role \cup {"unknown"} :
         \/ /\ Probe(r) /\ Poll(r, FALSE)
            /\ pc' = IF RenewPending(asap', was') THEN Woken(pc) ELSE pc
         \/ r = carp /\ reading' = r /\ PollRaises(r) /\ UNCHANGED hb
    /\ UNCHANGED <<env, stop, lease, timers>>
    /\ Record

(* check_observed in a sleep slice: the policy adopts the peer's changed      *)
(* address or not, whatever became of the binding it was observed under.      *)
CheckObserved ==
    /\ pc \in Sleeping /\ ~stop /\ observed
    /\ observed' = FALSE
    /\ bound' \in {bound, TRUE}
    /\ UNCHANGED <<env, faults, flags, pc, watcher, hb, timers, reading>>
    /\ Record

-----------------------------------------------------------------------------
(* _hold_lease *)

HoldOver == left = 0

HoldTop ==
    /\ pc = "hold"
    /\ \/ /\ stop \/ HoldOver
          /\ pc' = IF stop THEN "head" ELSE "t1"
          /\ UNCHANGED asap
       \/ /\ ~stop /\ ~HoldOver /\ RenewPending(asap, was)
          /\ asap' = FALSE /\ pc' = "t1"
       \/ /\ ~stop /\ ~HoldOver /\ ~RenewPending(asap, was)
          /\ pc' = "chunk" /\ UNCHANGED asap
    /\ UNCHANGED <<env, faults, flags, was, hb, lease, timers, reading>>
    /\ Record

(* The maintenance tick after a chunk: heartbeat, then the role. *)
HoldTick ==
    /\ pc = "tick"
    /\ \E r \in Role \cup {"unknown"} :
         \/ Probe(r) /\ Poll(r, TRUE) /\ pc' = "hold"
         \/ r = carp /\ reading' = r /\ PollRaises(r) /\ Heartbeat(was, bound)
    /\ left' = left - 1
    /\ UNCHANGED <<env, flags, lease, elapsed>>
    /\ Record

-----------------------------------------------------------------------------
(* RENEW, REBIND, expiry (_renew_bound_lease, DhcpClient.renew) *)

MutMayRenew == TRUE
(* "Demoted during the wait: a renew now would move the shared vMAC." *)
MayRenew == was # "backup"

(* renew() sends nothing once the stop flag is up. *)
SendRenew ==
    /\ pc = "t1"
    /\ pc' = IF ~MayRenew THEN "head" ELSE IF stop THEN "rebind" ELSE "renewing"
    /\ elapsed' = 0
    /\ UNCHANGED <<env, faults, flags, watcher, hb, lease, left, reading>>
    /\ Record

(* An ACK; _on_lease_extended may ask for a confirming renew (check_network). *)
Extended ==
    /\ pc \in {"renewing", "rebinding"}
    /\ pc' = "head"
    /\ \/ UNCHANGED <<asap, faults>>
       \/ follow /\ Fault /\ asap' = TRUE
    /\ UNCHANGED <<was, lease>>
    /\ Heartbeat(was, bound)
    /\ UNCHANGED <<env, flags, timers, reading>>
    /\ Record

(* A NAK: renew() forgets the binding. *)
Revoked ==
    /\ pc \in {"renewing", "rebinding"}
    /\ bound' = FALSE /\ pc' = "head"
    /\ UNCHANGED <<env, faults, flags, watcher, hb, observed, timers, reading>>
    /\ Record

(* No answer to any attempt, a failed send, a stop between them, or a changed *)
(* address the policy refused (the binding stays).                            *)
Unanswered ==
    /\ pc \in {"renewing", "rebinding"}
    /\ pc' = "rebind"
    /\ UNCHANGED <<env, faults, flags, watcher, hb, lease, timers, reading>>
    /\ Record

RebindTop ==
    /\ pc = "rebind" /\ elapsed < RebindSteps /\ ~stop
    /\ pc' = "rebindwait"
    /\ UNCHANGED <<env, faults, flags, watcher, hb, lease, timers, reading>>
    /\ Record

Expire ==
    /\ pc = "rebind" /\ (elapsed >= RebindSteps \/ stop)
    /\ bound' = FALSE /\ pc' = "head"
    /\ UNCHANGED <<env, faults, flags, watcher, hb, observed, timers, reading>>
    /\ Record

(* _role_tick() is False: only a probe that reads backup ends the REBIND. *)
RebindStops(r) == r = "backup"

RebindTick ==
    /\ pc = "rebindtick"
    /\ elapsed' = elapsed + 1
    /\ \E r \in Role \cup {"unknown"} :
         \/ /\ Probe(r) /\ Poll(r, TRUE)
            /\ pc' = IF RebindStops(r) THEN "head"
                     ELSE IF stop THEN "rebind" ELSE "rebinding"
         \/ r = carp /\ reading' = r /\ PollRaises(r) /\ Heartbeat(was, bound)
    /\ UNCHANGED <<env, flags, lease, left>>
    /\ Record

-----------------------------------------------------------------------------
(* _acquire_step *)

(* INIT-REBOOT or DORA; held back while the link is certainly down. *)
SendAcquire ==
    /\ pc = "acquire"
    /\ \/ /\ pc' = IF stop THEN "unboundwait" ELSE "acquiring"
          /\ UNCHANGED faults
       \/ Fault /\ pc' = "unboundwait"
    /\ UNCHANGED <<env, flags, watcher, hb, lease, timers, reading>>
    /\ Record

(* A fresh bind supersedes the early renew (cancel_renew); the network check *)
(* that follows may ask for one again.                                       *)
Acquired ==
    /\ pc = "acquiring"
    /\ bound' = TRUE /\ pc' = "head"
    /\ UNCHANGED was
    /\ Heartbeat(was, TRUE)
    /\ \/ asap' = FALSE /\ UNCHANGED faults
       \/ follow /\ Fault /\ asap' = TRUE
    /\ UNCHANGED <<env, flags, observed, timers, reading>>
    /\ Record

NotAcquired ==
    /\ pc = "acquiring"
    /\ pc' = "unboundwait"
    /\ UNCHANGED <<env, faults, flags, watcher, hb, lease, timers, reading>>
    /\ Record

-----------------------------------------------------------------------------
(* The world *)

(* A CARP transition; the syshook's SIGUSR2 may be lost or coalesced. *)
Failover ==
    /\ carp' \in Role \ {carp}
    /\ recheck' \in {recheck, pc # "down"}
    /\ UNCHANGED <<follow, faults, stop, pc, watcher, hb, lease, timers, reading>>
    /\ Record

(* The capture thread records a peer's ACK for another address. *)
Observe ==
    /\ follow /\ bound /\ pc # "down"
    /\ observed' = TRUE
    /\ UNCHANGED <<env, faults, flags, pc, watcher, hb, bound, timers, reading>>
    /\ Record

Sigterm ==
    /\ pc # "down" /\ ~stop
    /\ stop' = TRUE
    /\ UNCHANGED <<env, faults, recheck, pc, watcher, hb, lease, timers, reading>>
    /\ Record

(* The clock moves while the loop sleeps or waits for an answer. *)
Waiting == Sleeping \cup Sending \cup {"error"}
Tick ==
    /\ pc \in Waiting
    /\ since' = IF since = None THEN None ELSE Later(since)
    /\ leaseless' = IF was = "master" /\ ~bound THEN Later(leaseless) ELSE 0
    /\ <<since', leaseless'>> # <<since, leaseless>>
    /\ UNCHANGED <<env, faults, flags, pc, watcher, demote, lease, timers, reading, owed>>

-----------------------------------------------------------------------------

Loop ==
    \/ LogInitial \/ Shutdown \/ Recover
    \/ Head \/ HeadStops
    \/ SleepStops \/ Recheck \/ CheckObserved
    \/ HoldTop \/ HoldTick
    \/ SendRenew \/ Extended \/ Revoked \/ Unanswered
    \/ RebindTop \/ Expire \/ RebindTick
    \/ SendAcquire \/ Acquired \/ NotAcquired

World == Start \/ Crash \/ Timeout \/ Failover \/ Observe \/ Sigterm \/ Tick

Next == Loop \/ World

Spec == Init /\ [][Next]_vars

(* The thread runs on, a sleep ends, and the clock does not stand still      *)
(* through ever new sleeps.                                                  *)
FairSpec ==
    /\ Spec
    /\ WF_vars(Start) /\ WF_vars(Loop)
    /\ SF_vars(Timeout) /\ SF_vars(Tick)

-----------------------------------------------------------------------------
(* Properties *)

(* A keeper that knows itself backup starts no DHCP exchange ("would move    *)
(* the shared vMAC"): not at T1, not from a latch armed before the demotion, *)
(* not unbound; a REBIND only when the probe right before it failed.         *)
BackupSilence ==
    [][Transmits => was' # "backup" \/ (pc' = "rebinding" /\ reading' = "unknown")]_vars

(* A promotion is acted on at once: no wait of a keeper that holds a lease   *)
(* (to T1, as backup, between REBINDs) runs out while the renew it owes is   *)
(* pending (take_renew, renew_pending).                                      *)
PromotionNotSleptOut == [][Timeout /\ pc # "unboundwait" => ~owed]_vars

(* demote_ok is earned: the heartbeat demotes this node only after it was    *)
(* master without a lease for more than DEMOTE_GRACE without a break; a      *)
(* demotion or a bind in between starts the grace anew (demote_ok).  For the  *)
(* policies whose keepers may demote, which do not follow; a follower adopts  *)
(* in its sleep and publishes that only with its next heartbeat.              *)
DemotionEarned == [][~follow /\ demote' /\ ~demote => leaseless > Grace]_vars

(* Every promotion ends in a DHCP exchange, a demotion or the process' end,  *)
(* whatever SIGUSR2 was lost and whatever hook raised on the way.            *)
PromotionRenews == owed ~> ~owed

(* A master that never gets a lease again ends demoted, and stays so.        *)
LeaselessMasterDemotes ==
    <>[](carp = "master" /\ ~bound /\ ~stop /\ pc # "down") => <>[]demote

(* The heartbeat file keeps FailStop's promise to the hook: the grace counts   *)
(* from one lease-less heartbeat to the next, whatever probes fail, hooks      *)
(* raise and processes die in between, and once over it is published.          *)
Stage(epoch) == IF epoch = None THEN "none" ELSE IF epoch > Grace THEN "over" ELSE "running"
Token == INSTANCE FailStop WITH adopts <- follow, grace <- Stage(since), token <- demote
ImplementsFailStop == Token!Safe /\ Token!Live

(* "A CARP backup must not transmit DHCP", at all. *)
BackupNeverTransmits == [][Transmits => was' # "backup"]_vars

(* The same for the RELEASE of a stop. *)
BackupNeverReleases == [][Releases => was # "backup"]_vars

(* "REBIND until T2, then expire": the binding is forgotten on time. *)
ExpiresOnTime == [][Expire => elapsed >= RebindSteps]_vars
=============================================================================
