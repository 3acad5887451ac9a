------------------------------- MODULE Follow -------------------------------
(***************************************************************************)
(* The address follow of one CARP VIP on one node: the keeper that notices *)
(* that the ISP moved the lease (policy.py, FollowPolicy), the script it   *)
(* asks for and never waits for (follow_update.php), the configuration,    *)
(* the VIP and keeper.conf that script rewrites, and the stop and start    *)
(* (rc.d/carpvipdhcp) that should replace the keeper by the next one.      *)
(*                                                                         *)
(* A keeper is named by the address its keeper.conf line had when it was   *)
(* started; the address it holds moves on while it waits to be replaced.   *)
(* Of a lease's network only the gateway is modelled (the prefix travels   *)
(* with the VIP), and ACKs the policy refuses are left out.                *)
(***************************************************************************)
EXTENDS Naturals

CONSTANTS
    Addr,       \* the addresses the ISP may lease to this VIP's MAC
    Net,        \* gateways
    NetOf,      \* the gateway of the lease of each address
    Slot,       \* bound: follow_update runs in flight
    None,
    Limit,      \* NET_REDRIVE_LIMIT
    Paces,      \* the kinds of behaviour to look at, of AllPaces
    MaxMoves,   \* bound: times the ISP moves the lease
    MaxFaults   \* bound: failed launches, failed or killed runs, crashes, reboots

ASSUME NetAssumption    == NetOf \in [Addr -> Net]
ASSUME PaceAssumption   == Paces \subseteq {"calm", "flawless", "hasty"}
ASSUME BoundsAssumption == Limit \in Nat /\ MaxMoves \in Nat /\ MaxFaults \in Nat

(* "calm": the ISP moves the lease only when its last move is settled.       *)
(* "flawless": it moves it at any time, and nothing fails.  "hasty": it moves *)
(* it at any time, and there are failures.  In the last two a run takes less  *)
(* than MIN_FOLLOW_INTERVAL.                                                  *)
VARIABLES
    pace,       \* which of these this behaviour is
    isp,        \* the address the ISP leases now
    moves,      \* how often it moved
    faults,     \* failures so far
    config,     \* config.xml: the VIP's (and the keeper's) address, the gateway
    vip,        \* the address CARP has on the interface
    conf,       \* what keeper.conf was last rendered from
    job,        \* the follow_update runs in flight
    lock,       \* the run that holds carpvipdhcp-follow_update.lock
    keeper,     \* the keepers, by the id daemon(8) supervises them under
    recent,     \* the persisted time of the last follow is under MIN_FOLLOW_INTERVAL
    cut         \* history: a run was killed after its stop, before its start

lease == <<pace, isp, moves>>
world == <<lease, faults>>
node  == <<config, vip, conf>>
runs  == <<job, lock>>
vars  == <<world, node, runs, keeper, recent, cut>>

Setting == [addr : Addr, net : Net]
Attempt == [followed : Addr \cup {None}, from : Addr \cup {None},
            args : Net \cup {None}, due : BOOLEAN, redrives : 0 .. Limit]
Keeper  == [up : BOOLEAN, target : Addr, net : Net, cand : BOOLEAN, att : Attempt]
Job     == [pc : {"exec", "lock", "write", "apply", "render", "stop", "start"},
            from : Addr, to : Addr, old : Net, new : Net \cup {None},
            snap : Setting, moved : BOOLEAN]

ASSUME NoneAssumption == None \notin Addr \cup Net /\ None \notin Keeper /\ None \notin Job

TypeOK ==
    /\ pace \in Paces
    /\ isp \in Addr /\ moves \in 0 .. MaxMoves /\ faults \in 0 .. MaxFaults
    /\ config \in Setting /\ conf \in Setting /\ vip \in Addr \cup {None}
    /\ job \in [Slot -> Job \cup {None}] /\ lock \in Slot \cup {None}
    /\ keeper \in [Addr -> Keeper \cup {None}]
    /\ recent \in BOOLEAN /\ cut \in BOOLEAN

NoAttempt == [followed |-> None, from |-> None, args |-> None, due |-> FALSE,
              redrives |-> 0]

(* A keeper that read its keeper.conf record. *)
Fresh(s) == [up |-> TRUE, target |-> s.addr, net |-> s.net, cand |-> FALSE,
             att |-> NoAttempt]

(* The configured gateway may be one the ISP has left.                       *)
Init ==
    /\ pace \in Paces
    /\ isp \in Addr /\ moves = 0 /\ faults = 0
    /\ \E n \in Net : config = [addr |-> isp, net |-> n]
    /\ vip = isp /\ conf = config
    /\ job = [s \in Slot |-> None] /\ lock = None
    /\ keeper = [a \in Addr |-> IF a = isp THEN Fresh(conf) ELSE None]
    /\ recent = FALSE /\ cut = FALSE

Up(a) == keeper[a] # None /\ keeper[a].up
Quiet == \A s \in Slot : job[s] = None
Prompt == pace # "calm"
Fault == pace # "flawless" /\ faults < MaxFaults /\ faults' = faults + 1

-----------------------------------------------------------------------------
(* The keeper (FollowPolicy) *)

(* _net_args: the gateway part of the request, nothing while the lease agrees *)
(* with the configuration the keeper was started with.                        *)
\* Mutant: of the address held so far.
MutNetArgs(a, got) ==
    LET n == NetOf[keeper[a].target] IN IF n # keeper[a].net THEN n ELSE None

NetArgs(a, got) == IF NetOf[got] # keeper[a].net THEN NetOf[got] ELSE None

(* _dispatch: configctl starts a run, or cannot be launched. *)
Launch(a, from, to, args) ==
    \E s \in Slot :
        /\ job[s] = None
        /\ job' = [job EXCEPT ![s] = [pc |-> "exec", from |-> from, to |-> to,
                       old |-> keeper[a].net, new |-> args, snap |-> conf,
                       moved |-> FALSE]]

(* on_changed_address: a lease, or the peer's observed, for another address.  *)
(* What the attempt remembers is overwritten before the request is launched.  *)
(* (followed, once set, is the target: "already asked" never happens here.)   *)
ChangedAddress(a) ==
    /\ Up(a) /\ isp # keeper[a].target /\ ~recent
    /\ LET k   == keeper[a]
           att == [k.att EXCEPT !.args = NetArgs(a, isp), !.from = k.target]
       IN \/ /\ Launch(a, k.target, isp, att.args)
             /\ keeper' = [keeper EXCEPT ![a] =
                    [k EXCEPT !.target = isp, !.cand = FALSE,
                              !.att = [att EXCEPT !.followed = isp, !.due = FALSE]]]
             /\ recent' = TRUE
             /\ UNCHANGED faults
          \/ /\ Fault
             /\ keeper' = [keeper EXCEPT ![a].att = att]
             /\ UNCHANGED <<job, recent>>
    /\ UNCHANGED <<lease, node, lock, cut>>

(* check_network: a lease for the address held.  A gateway unlike the        *)
(* configured one is confirmed by a second lease, then asked for once.       *)
CheckNetwork(a) ==
    /\ Up(a) /\ isp = keeper[a].target /\ keeper[a].att.followed = None
    /\ LET k   == keeper[a]
           new == NetArgs(a, isp)
           att == [k.att EXCEPT !.args = new, !.from = isp]
       IN \/ /\ k.cand # (new # None)
             /\ keeper' = [keeper EXCEPT ![a].cand = (new # None)]
             /\ UNCHANGED <<job, recent, faults>>
          \/ /\ new # None /\ k.cand /\ ~recent
             /\ \/ /\ Launch(a, isp, isp, new)
                   /\ keeper' = [keeper EXCEPT ![a] =
                          [k EXCEPT !.cand = FALSE,
                                    !.att = [att EXCEPT !.followed = isp, !.due = FALSE]]]
                   /\ recent' = TRUE
                   /\ UNCHANGED faults
                \/ /\ Fault
                   /\ keeper' = [keeper EXCEPT ![a] = [k EXCEPT !.cand = FALSE, !.att = att]]
                   /\ UNCHANGED <<job, recent>>
    /\ UNCHANGED <<lease, node, lock, cut>>

(* FOLLOW_RETRY_DEADLINE has passed since the last launch. *)
Deadline(a) ==
    /\ Up(a) /\ keeper[a].att.followed # None /\ ~keeper[a].att.due
    /\ Prompt => Quiet
    /\ keeper' = [keeper EXCEPT ![a].att.due = TRUE]
    /\ UNCHANGED <<world, node, runs, recent, cut>>

GaveUp(att) == att.redrives = Limit

(* watchdog: still here past the deadline, so ask again; a network-only      *)
(* update only Limit times.                                                  *)
Watchdog(a) ==
    /\ Up(a) /\ keeper[a].att.due
    /\ LET k    == keeper[a]
           same == k.att.from = k.att.followed
           att  == IF same THEN [k.att EXCEPT !.redrives = @ + 1] ELSE k.att
       IN IF same /\ GaveUp(k.att)
          THEN /\ keeper' = [keeper EXCEPT ![a].att = NoAttempt]
               /\ UNCHANGED <<job, faults>>
          ELSE \/ /\ Launch(a, k.att.from, k.att.followed, k.att.args)
                  /\ keeper' = [keeper EXCEPT ![a].att = [att EXCEPT !.due = FALSE]]
                  /\ UNCHANGED faults
               \/ /\ Fault
                  /\ keeper' = [keeper EXCEPT ![a].att = att]
                  /\ UNCHANGED job
    /\ UNCHANGED <<lease, node, lock, recent, cut>>

(* The process dies; its supervisor starts it again, which takes a           *)
(* keeper.conf record of its id (_find_record).                              *)
Die(a) ==
    /\ Up(a) /\ Fault
    /\ keeper' = [keeper EXCEPT ![a].up = FALSE]
    /\ UNCHANGED <<lease, node, runs, recent, cut>>

Respawn(a) ==
    /\ keeper[a] # None /\ ~keeper[a].up /\ conf.addr = a
    /\ keeper' = [keeper EXCEPT ![a] = Fresh(conf)]
    /\ UNCHANGED <<world, node, runs, recent, cut>>

-----------------------------------------------------------------------------
(* One run of follow_update.php *)

At(s, l) == job[s] # None /\ job[s].pc = l
Goto(s, l) == job' = [job EXCEPT ![s].pc = l]

(* exit(): the lock, if held, goes with the process. *)
Exit(s) ==
    /\ job' = [job EXCEPT ![s] = None]
    /\ lock' = IF lock = s THEN None ELSE lock

(* config.inc parses config.xml, before the lock is taken; a request that    *)
(* asks for nothing ends here.                                               *)
AsksNothing(j) == j.from = j.to /\ j.new = None

Load(s) ==
    /\ At(s, "exec")
    /\ IF AsksNothing(job[s]) THEN Exit(s)
       ELSE /\ job' = [job EXCEPT ![s].pc = "lock", ![s].snap = config]
            /\ UNCHANGED lock
    /\ UNCHANGED <<world, node, keeper, recent, cut>>

(* flock(LOCK_EX | LOCK_NB): another run under way, bow out. *)
Lock(s) ==
    /\ At(s, "lock")
    /\ \/ lock = None /\ lock' = s /\ Goto(s, "write")
       \/ lock # None /\ Exit(s)
    /\ UNCHANGED <<world, node, keeper, recent, cut>>

(* What a run makes of the configuration it loaded. *)
VipMoves(j)  == j.from # j.to /\ j.snap.addr = j.from
VipKnown(j)  == j.snap.addr \in {j.from, j.to}
GwMoves(j)   == j.new # None /\ VipKnown(j) /\ j.snap.net = j.old
GwCurrent(j) == j.new # None /\ VipKnown(j) /\ j.snap.net = j.new /\ ~GwMoves(j)
NoGateway(j) == j.new # None /\ VipKnown(j) /\ ~GwMoves(j) /\ ~GwCurrent(j)
Changes(j)   == VipMoves(j) \/ GwMoves(j)
\* Mutant: a retry finds nothing to rewrite and ends there.
MutGivesUp(j) == ~Changes(j)

GivesUp(j)   == \/ NoGateway(j) /\ j.from = j.to
                \/ ~Changes(j) /\ j.snap.addr # j.to

(* Rewrite VIP, keeper and gateway; nothing left to rewrite but the VIP is   *)
(* already at its new address: go on and repair.                             *)
Write(s) ==
    /\ At(s, "write")
    /\ LET j == job[s] IN
         IF GivesUp(j) THEN Exit(s) /\ UNCHANGED config
         ELSE /\ config' = IF ~Changes(j) THEN config
                           ELSE [addr |-> IF VipMoves(j) THEN j.to ELSE j.snap.addr,
                                 net  |-> IF GwMoves(j) THEN j.new ELSE j.snap.net]
              /\ job' = [job EXCEPT ![s].pc = "apply",
                                    ![s].moved = GwMoves(j) \/ GwCurrent(j)]
              /\ UNCHANGED lock
    /\ UNCHANGED <<world, vip, conf, keeper, recent, cut>>

(* reconfigure_vips puts the configured address on the interface, or fails;  *)
(* then the old one is taken off it.                                         *)
Apply(s) ==
    /\ At(s, "apply")
    /\ LET j == job[s] IN
         \/ /\ vip' = IF j.from # j.to /\ config.addr = j.from THEN None ELSE config.addr
            /\ Goto(s, "render")
            /\ UNCHANGED <<faults, lock>>
         \/ Fault /\ Exit(s) /\ UNCHANGED vip
    /\ UNCHANGED <<lease, config, conf, keeper, recent, cut>>

(* Reload keeper.conf until it shows the new address and no longer the moved *)
(* gateway, then let go of the lock; give up otherwise.                      *)
Rendered(j, c) == c.addr = j.to /\ (j.moved => c.net # j.old)

Render(s) ==
    /\ At(s, "render")
    /\ \/ /\ conf' = config
          /\ IF Rendered(job[s], config)
             THEN Goto(s, "stop") /\ lock' = None
             ELSE Exit(s)
          /\ UNCHANGED faults
       \/ Fault /\ Exit(s) /\ UNCHANGED conf
    /\ UNCHANGED <<lease, config, vip, keeper, recent, cut>>

\* Mutant: the new id.
MutRetired(j) == j.to

(* rc.d stop <old id> *)
Retired(j) == j.from

Stop(s) ==
    /\ At(s, "stop")
    /\ keeper' = [keeper EXCEPT ![Retired(job[s])] = None]
    /\ Goto(s, "start")
    /\ UNCHANGED <<world, node, lock, recent, cut>>

\* Mutant: "restart <old_id>".
MutStarted(j) == j.from

(* rc.d start <new id>: needs a line of that id, and none running under it. *)
Started(j) == j.to

Start(s) ==
    /\ At(s, "start")
    /\ LET to == Started(job[s]) IN
         keeper' = IF conf.addr = to /\ keeper[to] = None
                   THEN [keeper EXCEPT ![to] = Fresh(conf)] ELSE keeper
    /\ Exit(s)
    /\ UNCHANGED <<world, node, recent, cut>>

Run(s) == Load(s) \/ Lock(s) \/ Write(s) \/ Apply(s) \/ Render(s) \/ Stop(s) \/ Start(s)

-----------------------------------------------------------------------------
(* The world *)

(* The node agrees with the ISP: configuration, interface, keeper.conf and   *)
(* the one keeper, which asks for nothing.                                   *)
Agreed ==
    /\ config = [addr |-> isp, net |-> NetOf[isp]]
    /\ vip = isp /\ conf = config
    /\ keeper[isp] = Fresh(conf)
    /\ \A a \in Addr \ {isp} : keeper[a] = None

(* The ISP leases another address. *)
Renumber ==
    /\ pace = "calm" => Agreed /\ Quiet
    /\ moves < MaxMoves /\ moves' = moves + 1
    /\ isp' \in Addr \ {isp}
    /\ UNCHANGED <<pace, faults, node, runs, keeper, recent, cut>>

(* MIN_FOLLOW_INTERVAL has passed. *)
ThrottleEnds ==
    /\ recent /\ recent' = FALSE
    /\ Prompt => Quiet
    /\ UNCHANGED <<world, node, runs, keeper, cut>>

(* A run is killed. *)
Killed(s) ==
    /\ job[s] # None /\ Fault /\ Exit(s)
    /\ cut' = (cut \/ At(s, "start"))
    /\ UNCHANGED <<lease, node, keeper, recent>>

(* The node boots: the configuration is applied and rendered, and the start  *)
(* hook starts the keepers it names.                                         *)
Reboot ==
    /\ Fault
    /\ vip' = config.addr /\ conf' = config
    /\ job' = [s \in Slot |-> None] /\ lock' = None
    /\ keeper' = [a \in Addr |-> IF a = config.addr THEN Fresh(config) ELSE None]
    /\ recent' \in {recent, FALSE} /\ cut' = FALSE
    /\ UNCHANGED <<lease, config>>

Next ==
    \/ \E a \in Addr : \/ ChangedAddress(a) \/ CheckNetwork(a)
                       \/ Deadline(a) \/ Watchdog(a) \/ Die(a) \/ Respawn(a)
    \/ \E s \in Slot : Run(s) \/ Killed(s)
    \/ Renumber \/ ThrottleEnds \/ Reboot

Spec == Init /\ [][Next]_vars

FairSpec ==
    /\ Spec
    /\ \A s \in Slot : WF_vars(Run(s))
    /\ \A a \in Addr : /\ WF_vars(ChangedAddress(a)) /\ WF_vars(CheckNetwork(a))
                       /\ WF_vars(Deadline(a)) /\ WF_vars(Watchdog(a))
                       /\ WF_vars(Respawn(a))
    /\ WF_vars(ThrottleEnds)

-----------------------------------------------------------------------------
(* Properties *)

(* At any time at most one keeper of the VIP runs: two would renew the same  *)
(* lease against each other.                                                 *)
AtMostOneKeeper == \A a, b \in Addr : Up(a) /\ Up(b) => a = b

(* When no run is under way some keeper is supervised, unless a run was      *)
(* killed between its stop of the old one and its start of the new one: the  *)
(* lease is never left to lapse because a follow lost its keeper.            *)
KeeperSurvives ==
    Quiet /\ ~cut => \E a \in Addr : keeper[a] # None

(* A request that moves the gateway moves it to the one of the lease of the  *)
(* address it asks for, whatever was followed before.                        *)
NetworkOfAddress ==
    \A s \in Slot : job[s] # None => job[s].new \in {None, NetOf[job[s].to]}

(* Once the ISP stops moving the lease and a keeper stays up, configuration, *)
(* interface, keeper.conf and keeper agree with the lease, for good.         *)
Settles == <>[](\E a \in Addr : Up(a)) => <>[]Agreed

(* What watchdog() says of its retry: "it reconverges whether the config     *)
(* already moved or not, and its rc.d restart <old-id> eventually replaces   *)
(* us".  A keeper whose address moved on does not stay for good.             *)
MovedKeeperReplaced ==
    \A a \in Addr : LET Left == Up(a) /\ keeper[a].target # a IN Left ~> ~Left
=============================================================================
