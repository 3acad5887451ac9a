---------------------------- MODULE Follow_proofs ----------------------------
(***************************************************************************)
(* The follow for any addresses, gateways, runs in flight, moves and       *)
(* failures, as long as a move waits for the last one to settle or nothing *)
(* fails: never two keepers, one is never lost for good, and no request    *)
(* carries another address's gateway.                                      *)
(***************************************************************************)
EXTENDS Follow, TLAPS

(* A retry is due only of something asked, and asked of some address.        *)
Asked == \A a \in Addr : keeper[a] # None =>
    /\ keeper[a].att.due => keeper[a].att.followed # None
    /\ keeper[a].att.followed # None => keeper[a].att.from # None

-----------------------------------------------------------------------------
(* Calm: between the address left, o, and the one the ISP leases, everything *)
(* moves one way.                                                            *)

Follower(a) ==
    LET k == keeper[a] IN
    /\ k.target \in {a, isp}
    /\ k.att.followed \in {None, isp}
    /\ a # isp /\ k.target = isp => k.att.followed = isp
    /\ k.att.from \in {None, a}
    /\ k.att.args \in {None, NetOf[isp]}

(* A run on its way to the leased address: past its write the configuration  *)
(* has it, past its rendering keeper.conf, and from its stop on the keeper of *)
(* the address left is gone.                                                 *)
Towards(o, j) ==
    /\ j.to = isp /\ j.from \in {o, isp} /\ j.new \in {None, NetOf[isp]}
    /\ j.snap.addr \in {o, isp}
    /\ j.snap.addr = isp => config.addr = isp
    /\ j.pc \in {"apply", "render", "stop", "start"} => config.addr = isp
    /\ j.pc \in {"stop", "start"} => conf.addr = isp
    /\ o # isp /\ (j.from = isp \/ j.pc = "start") => keeper[o] = None

Between(o) ==
    /\ config.addr \in {o, isp} /\ conf.addr \in {o, isp}
    /\ conf.addr = isp => config.addr = isp
    /\ o # isp => keeper[o] = None \/ keeper[isp] = None
    /\ \A a \in Addr : keeper[a] # None => a \in {o, isp} /\ Follower(a)
    /\ \A s \in Slot : job[s] # None => Towards(o, job[s])

Calm == pace = "calm" => \E o \in Addr : Between(o)

(* A stopped keeper has a successor, or a run about to start it.             *)
Succeeded == pace = "calm" /\ ~cut =>
    \/ \E a \in Addr : keeper[a] # None
    \/ \E s \in Slot : At(s, "start")

-----------------------------------------------------------------------------
(* Flawless: one run at a time, and when none is under way one keeper, which *)
(* agrees with the configuration.                                            *)

Alone(a) == \A b \in Addr \ {a} : keeper[b] = None

Settled(a) ==
    /\ Quiet /\ lock = None
    /\ Up(a) /\ Alone(a)
    /\ keeper[a].target = a /\ keeper[a].net = config.net
    /\ ~keeper[a].att.due /\ keeper[a].att.followed = None
    /\ config.addr = a /\ conf = config

(* The keeper a run will stop waits for it. *)
Waits(j) ==
    /\ Up(j.from) /\ Alone(j.from)
    /\ keeper[j.from].target = j.to /\ keeper[j.from].att.followed = j.to
    /\ ~keeper[j.from].att.due

Written(j) == [addr |-> j.to, net |-> IF j.new = None THEN j.old ELSE j.new]

UnderWay(s) ==
    LET j == job[s] IN
    /\ j # None /\ (\A t \in Slot \ {s} : job[t] = None) /\ recent
    /\ j.old # j.new /\ (j.from = j.to => j.new # None) /\ j.new \in {None, NetOf[j.to]}
    /\ IF j.pc = "start" THEN \A a \in Addr : keeper[a] = None ELSE Waits(j)
    /\ lock = IF j.pc \in {"write", "apply", "render"} THEN s ELSE None
    /\ j.pc \in {"exec", "lock", "write"} =>
         conf = config /\ j.snap = config /\ config = [addr |-> j.from, net |-> j.old]
    /\ j.pc \in {"apply", "render", "stop", "start"} => config = Written(j)
    /\ j.pc \in {"apply", "render"} => j.moved = (j.new # None)
    /\ j.pc \in {"stop", "start"} => conf = config

Flawless == pace = "flawless" =>
    \/ \E a \in Addr : Settled(a)
    \/ \E s \in Slot : UnderWay(s)

IInv == TypeOK /\ Asked /\ Calm /\ Succeeded /\ Flawless

-----------------------------------------------------------------------------
(* Types *)

LEMMA FreshTyped == ASSUME NEW c \in Setting PROVE Fresh(c) \in Keeper /\ Fresh(c) # None
<1>1. Fresh(c) \in Keeper
  BY BoundsAssumption DEF Fresh, NoAttempt, Keeper, Attempt, Setting
<1> QED
  BY <1>1, NoneAssumption

LEMMA FaultTyped == TypeOK /\ Fault => faults' \in 0 .. MaxFaults
  BY BoundsAssumption DEF TypeOK, Fault

LEMMA LaunchTyped ==
    ASSUME TypeOK, NEW a \in Addr, keeper[a] \in Keeper,
           NEW from \in Addr, NEW to \in Addr, NEW args \in Net \cup {None},
           Launch(a, from, to, args)
    PROVE  job' \in [Slot -> Job \cup {None}]
<1>1. PICK s \in Slot :
         job' = [job EXCEPT ![s] = [pc |-> "exec", from |-> from, to |-> to,
                    old |-> keeper[a].net, new |-> args, snap |-> conf, moved |-> FALSE]]
  BY DEF Launch
<1>2. [pc |-> "exec", from |-> from, to |-> to, old |-> keeper[a].net, new |-> args,
       snap |-> conf, moved |-> FALSE] \in Job
  BY DEF TypeOK, Job, Keeper
<1> QED
  BY <1>1, <1>2 DEF TypeOK

LEMMA ArgsTyped ==
    ASSUME NEW a \in Addr, NEW got \in Addr PROVE NetArgs(a, got) \in {None, NetOf[got]} /\ NetOf[got] \in Net
  BY NetAssumption DEF NetArgs

LEMMA ExitTyped ==
    ASSUME TypeOK, NEW s \in Slot, Exit(s)
    PROVE  job' \in [Slot -> Job \cup {None}] /\ lock' \in Slot \cup {None}
  BY DEF TypeOK, Exit

LEMMA GotoTyped ==
    ASSUME TypeOK, NEW s \in Slot, job[s] # None,
           NEW l \in {"exec", "lock", "write", "apply", "render", "stop", "start"}, Goto(s, l)
    PROVE  job' \in [Slot -> Job \cup {None}]
  BY DEF TypeOK, Goto, Job

LEMMA InitTyped == Init => TypeOK /\ Asked
<1> SUFFICES ASSUME Init PROVE TypeOK /\ Asked
  OBVIOUS
<1>1. config \in Setting /\ conf \in Setting
  BY DEF Init, Setting
<1>2. keeper \in [Addr -> Keeper \cup {None}]
  BY <1>1, FreshTyped DEF Init
<1>3. TypeOK
  <2>1. job \in [Slot -> Job \cup {None}] /\ lock \in Slot \cup {None}
    BY DEF Init
  <2>2. moves \in 0 .. MaxMoves /\ faults \in 0 .. MaxFaults
    BY BoundsAssumption DEF Init
  <2> QED
    BY <1>1, <1>2, <2>1, <2>2 DEF Init, TypeOK
<1>4. Asked
  BY DEF Init, Asked, Fresh, NoAttempt
<1> QED
  BY <1>3, <1>4

LEMMA ChangedTyped == ASSUME TypeOK, Asked, NEW a \in Addr, ChangedAddress(a) PROVE TypeOK' /\ Asked' /\ keeper'[a] # None
<1> DEFINE k   == keeper[a]
           att == [k.att EXCEPT !.args = NetArgs(a, isp), !.from = k.target]
<1>1. k \in Keeper /\ isp \in Addr /\ k.target \in Addr
  BY DEF TypeOK, ChangedAddress, Up, Keeper
<1>2. NetArgs(a, isp) \in Net \cup {None}
  BY <1>1, ArgsTyped
<1>3. att \in Attempt /\ att.args = NetArgs(a, isp) /\ att.from = k.target
      /\ att.due = k.att.due /\ att.followed = k.att.followed
  BY <1>1, <1>2 DEF Keeper, Attempt
<1>4. CASE /\ Launch(a, k.target, isp, att.args)
           /\ keeper' = [keeper EXCEPT ![a] =
                  [k EXCEPT !.target = isp, !.cand = FALSE,
                            !.att = [att EXCEPT !.followed = isp, !.due = FALSE]]]
           /\ recent' = TRUE
           /\ UNCHANGED faults
  <2> DEFINE new == [k EXCEPT !.target = isp, !.cand = FALSE,
                              !.att = [att EXCEPT !.followed = isp, !.due = FALSE]]
  <2>1. [att EXCEPT !.followed = isp, !.due = FALSE] \in Attempt
    BY <1>1, <1>3 DEF Attempt
  <2>2. new \in Keeper /\ ~new.att.due /\ new.att.from = k.target
    BY <1>1, <1>3, <2>1 DEF Keeper, Attempt
  <2>3. job' \in [Slot -> Job \cup {None}]
    BY <1>1, <1>2, <1>3, <1>4, LaunchTyped
  <2>4. TypeOK'
    BY <1>4, <2>2, <2>3 DEF TypeOK, ChangedAddress, lease, node
  <2>5. Asked' /\ keeper'[a] # None
    BY <1>1, <1>4, <2>2, NoneAssumption DEF TypeOK, Asked
  <2> QED
    BY <2>4, <2>5
<1>5. CASE /\ Fault
           /\ keeper' = [keeper EXCEPT ![a].att = att]
           /\ UNCHANGED <<job, recent>>
  <2>1. [k EXCEPT !.att = att] \in Keeper
    BY <1>1, <1>3 DEF Keeper
  <2>2. TypeOK'
    BY <1>5, <2>1, FaultTyped DEF TypeOK, ChangedAddress, lease, node
  <2>3. Asked' /\ keeper'[a] # None
    BY <1>1, <1>3, <1>5, <2>1, NoneAssumption DEF TypeOK, Asked, Keeper
  <2> QED
    BY <2>2, <2>3
<1> QED
  BY <1>4, <1>5 DEF ChangedAddress

LEMMA NetworkTyped == ASSUME TypeOK, Asked, NEW a \in Addr, CheckNetwork(a) PROVE TypeOK' /\ Asked' /\ keeper'[a] # None
<1> DEFINE k   == keeper[a]
           new == NetArgs(a, isp)
           att == [k.att EXCEPT !.args = new, !.from = isp]
<1>1. k \in Keeper /\ isp \in Addr /\ k.att.followed = None
  BY DEF TypeOK, CheckNetwork, Up
<1>2. new \in Net \cup {None}
  BY <1>1, ArgsTyped
<1>3. att \in Attempt /\ att.args = new /\ att.from = isp
      /\ att.due = k.att.due /\ att.followed = k.att.followed
  BY <1>1, <1>2 DEF Keeper, Attempt
<1>4. CASE k.cand # (new # None) /\ keeper' = [keeper EXCEPT ![a].cand = (new # None)]
           /\ UNCHANGED <<job, recent, faults>>
  <2>1. [k EXCEPT !.cand = (new # None)] \in Keeper /\ [k EXCEPT !.cand = (new # None)].att = k.att
    BY <1>1 DEF Keeper
  <2>2. TypeOK'
    BY <1>4, <2>1 DEF TypeOK, CheckNetwork, lease, node
  <2>3. Asked' /\ keeper'[a] # None
    BY <1>1, <1>4, <2>1, NoneAssumption DEF TypeOK, Asked
  <2> QED
    BY <2>2, <2>3
<1>5. CASE /\ Launch(a, isp, isp, new)
           /\ keeper' = [keeper EXCEPT ![a] =
                  [k EXCEPT !.cand = FALSE, !.att = [att EXCEPT !.followed = isp, !.due = FALSE]]]
           /\ recent' = TRUE /\ UNCHANGED faults
  <2> DEFINE next == [k EXCEPT !.cand = FALSE, !.att = [att EXCEPT !.followed = isp, !.due = FALSE]]
  <2>1. [att EXCEPT !.followed = isp, !.due = FALSE] \in Attempt
    BY <1>1, <1>3 DEF Attempt
  <2>2. next \in Keeper /\ ~next.att.due /\ next.att.from = isp
    BY <1>1, <1>3, <2>1 DEF Keeper, Attempt
  <2>3. job' \in [Slot -> Job \cup {None}]
    BY <1>1, <1>2, <1>5, LaunchTyped
  <2>4. TypeOK'
    BY <1>5, <2>2, <2>3 DEF TypeOK, CheckNetwork, lease, node
  <2>5. Asked' /\ keeper'[a] # None
    BY <1>1, <1>5, <2>2, NoneAssumption DEF TypeOK, Asked
  <2> QED
    BY <2>4, <2>5
<1>6. CASE /\ Fault /\ keeper' = [keeper EXCEPT ![a] = [k EXCEPT !.cand = FALSE, !.att = att]]
           /\ UNCHANGED <<job, recent>>
  <2>1. [k EXCEPT !.cand = FALSE, !.att = att] \in Keeper
        /\ [k EXCEPT !.cand = FALSE, !.att = att].att = att
    BY <1>1, <1>3 DEF Keeper
  <2>2. TypeOK'
    BY <1>6, <2>1, FaultTyped DEF TypeOK, CheckNetwork, lease, node
  <2>3. Asked' /\ keeper'[a] # None
    BY <1>1, <1>3, <1>6, <2>1, NoneAssumption DEF TypeOK, Asked
  <2> QED
    BY <2>2, <2>3
<1> QED
  BY <1>4, <1>5, <1>6 DEF CheckNetwork

LEMMA WatchdogTyped == ASSUME TypeOK, Asked, NEW a \in Addr, Watchdog(a) PROVE TypeOK' /\ Asked' /\ keeper'[a] # None
<1> DEFINE k    == keeper[a]
           same == k.att.from = k.att.followed
           att  == IF same THEN [k.att EXCEPT !.redrives = @ + 1] ELSE k.att
<1>1. k \in Keeper /\ k.att \in Attempt /\ k.att.from \in Addr /\ k.att.followed \in Addr
  BY DEF TypeOK, Asked, Watchdog, Up, Keeper, Attempt
<1>2. CASE keeper' = [keeper EXCEPT ![a].att = NoAttempt] /\ UNCHANGED <<job, faults>>
  <2>0. NoAttempt \in Attempt
    BY BoundsAssumption DEF Attempt, NoAttempt
  <2>1. [k EXCEPT !.att = NoAttempt] \in Keeper /\ [k EXCEPT !.att = NoAttempt].att = NoAttempt
    BY <1>1, <2>0 DEF Keeper
  <2>2. TypeOK'
    BY <1>2, <2>1 DEF TypeOK, Watchdog, lease, node
  <2>3. keeper' = [keeper EXCEPT ![a] = [k EXCEPT !.att = NoAttempt]]
        /\ ~NoAttempt.due /\ NoAttempt.followed = None
    BY <1>2 DEF NoAttempt
  <2>4. keeper'[a].att = NoAttempt /\ keeper'[a] # None /\ \A b \in Addr \ {a} : keeper'[b] = keeper[b]
    BY <2>1, <2>3, NoneAssumption DEF TypeOK
  <2>5. Asked'
    BY <2>3, <2>4 DEF Asked
  <2> QED
    BY <2>2, <2>4, <2>5
<1>3. CASE ~(same /\ GaveUp(k.att))
  <2>1. att \in Attempt /\ att.due = k.att.due /\ att.followed = k.att.followed /\ att.from = k.att.from
    BY <1>1, <1>3, BoundsAssumption DEF Attempt, GaveUp
  <2>2. CASE Launch(a, k.att.from, k.att.followed, k.att.args)
             /\ keeper' = [keeper EXCEPT ![a].att = [att EXCEPT !.due = FALSE]] /\ UNCHANGED faults
    <3> DEFINE new == [k EXCEPT !.att = [att EXCEPT !.due = FALSE]]
    <3>1. [att EXCEPT !.due = FALSE] \in Attempt
      BY <2>1 DEF Attempt
    <3>2. new \in Keeper /\ ~new.att.due /\ new.att.from = k.att.from
      BY <1>1, <2>1, <3>1 DEF Keeper, Attempt
    <3>3. job' \in [Slot -> Job \cup {None}]
      BY <1>1, <2>2, LaunchTyped DEF Attempt
    <3>4. TypeOK'
      BY <2>2, <3>2, <3>3 DEF TypeOK, Watchdog, lease, node
    <3>5. Asked' /\ keeper'[a] # None
      BY <1>1, <2>2, <3>2, NoneAssumption DEF TypeOK, Asked
    <3> QED
      BY <3>4, <3>5
  <2>3. CASE Fault /\ keeper' = [keeper EXCEPT ![a].att = att] /\ UNCHANGED job
    <3>1. [k EXCEPT !.att = att] \in Keeper /\ [k EXCEPT !.att = att].att = att
      BY <1>1, <2>1 DEF Keeper
    <3>2. TypeOK'
      BY <2>3, <3>1, FaultTyped DEF TypeOK, Watchdog, lease, node
    <3>3. Asked' /\ keeper'[a] # None
      BY <1>1, <2>1, <2>3, <3>1, NoneAssumption DEF TypeOK, Asked
    <3> QED
      BY <3>2, <3>3
  <2> QED
    BY <1>3, <2>2, <2>3 DEF Watchdog
<1> QED
  BY <1>2, <1>3 DEF Watchdog

LEMMA KeeperTyped ==
    ASSUME TypeOK, Asked, NEW a \in Addr, Deadline(a) \/ Die(a) \/ Respawn(a)
    PROVE  TypeOK' /\ Asked' /\ keeper'[a] # None
<1>1. keeper[a] \in Keeper /\ conf \in Setting /\ Fresh(conf) \in Keeper
  BY FreshTyped DEF TypeOK, Deadline, Die, Respawn, Up
<1>2. CASE Deadline(a)
  <2> DEFINE new == [keeper[a] EXCEPT !.att.due = TRUE]
  <2>1. new \in Keeper /\ new.att.followed = keeper[a].att.followed /\ new.att.from = keeper[a].att.from
    BY <1>1 DEF Keeper, Attempt
  <2>2. TypeOK'
    BY <1>2, <2>1 DEF TypeOK, Deadline, world, lease, node, runs
  <2>3. Asked' /\ keeper'[a] # None
    BY <1>1, <1>2, <2>1, NoneAssumption DEF TypeOK, Asked, Deadline
  <2> QED
    BY <2>2, <2>3
<1>3. CASE Die(a)
  <2> DEFINE new == [keeper[a] EXCEPT !.up = FALSE]
  <2>1. new \in Keeper /\ new.att = keeper[a].att
    BY <1>1 DEF Keeper
  <2>2. TypeOK'
    BY <1>3, <2>1, FaultTyped DEF TypeOK, Die, lease, node, runs
  <2>3. Asked' /\ keeper'[a] # None
    BY <1>1, <1>3, <2>1, NoneAssumption DEF TypeOK, Asked, Die, Up
  <2> QED
    BY <2>2, <2>3
<1>4. CASE Respawn(a)
  <2>1. TypeOK'
    BY <1>1, <1>4 DEF TypeOK, Respawn, world, lease, node, runs
  <2>2. Asked' /\ keeper'[a] # None
    BY <1>1, <1>4, NoneAssumption DEF TypeOK, Asked, Respawn, Fresh, NoAttempt
  <2> QED
    BY <2>1, <2>2
<1> QED
  BY <1>2, <1>3, <1>4

LEMMA RunTyped == ASSUME TypeOK, Asked, NEW s \in Slot, Run(s) PROVE TypeOK' /\ Asked'
<1>1. job[s] \in Job /\ job[s] # None
  BY DEF TypeOK, Run, Load, Lock, Write, Apply, Render, Stop, Start, At
<1>2. CASE Load(s)
  <2>1. CASE Exit(s)
    BY <1>2, <2>1, ExitTyped DEF TypeOK, Asked, Load, world, lease, node
  <2>2. CASE job' = [job EXCEPT ![s].pc = "lock", ![s].snap = config] /\ UNCHANGED lock
    <3>1. job' \in [Slot -> Job \cup {None}]
      BY <1>1, <2>2 DEF TypeOK, Job
    <3> QED
      BY <1>2, <2>2, <3>1 DEF TypeOK, Asked, Load, world, lease, node
  <2> QED
    BY <1>2, <2>1, <2>2 DEF Load
<1>3. CASE Lock(s)
  <2>1. job' \in [Slot -> Job \cup {None}] /\ lock' \in Slot \cup {None}
    BY <1>1, <1>3, ExitTyped, GotoTyped DEF Lock
  <2> QED
    BY <1>3, <2>1 DEF TypeOK, Asked, Lock, world, lease, node
<1>4. CASE Write(s)
  <2>1. CASE Exit(s) /\ UNCHANGED config
    BY <1>4, <2>1, ExitTyped DEF TypeOK, Asked, Write, world, lease
  <2>2. CASE /\ config' = IF ~Changes(job[s]) THEN config
                          ELSE [addr |-> IF VipMoves(job[s]) THEN job[s].to ELSE job[s].snap.addr,
                                net  |-> IF GwMoves(job[s]) THEN job[s].new ELSE job[s].snap.net]
             /\ job' = [job EXCEPT ![s].pc = "apply", ![s].moved = GwMoves(job[s]) \/ GwCurrent(job[s])]
             /\ UNCHANGED lock
    <3>1. job' \in [Slot -> Job \cup {None}]
      <4>1. (GwMoves(job[s]) \/ GwCurrent(job[s])) \in BOOLEAN
        BY DEF GwMoves, GwCurrent
      <4> QED
        BY <1>1, <2>2, <4>1 DEF TypeOK, Job
    <3>2. config' \in Setting
      BY <1>1, <2>2 DEF TypeOK, Job, Setting, GwMoves
    <3> QED
      BY <1>4, <2>2, <3>1, <3>2 DEF TypeOK, Asked, Write, world, lease
  <2> QED
    BY <1>4, <2>1, <2>2 DEF Write
<1>5. CASE Apply(s)
  <2>1. job' \in [Slot -> Job \cup {None}] /\ lock' \in Slot \cup {None}
    BY <1>1, <1>5, ExitTyped, GotoTyped DEF Apply, TypeOK
  <2>2. vip' \in Addr \cup {None} /\ faults' \in 0 .. MaxFaults
    BY <1>5, FaultTyped DEF Apply, TypeOK, Setting
  <2> QED
    BY <1>5, <2>1, <2>2 DEF TypeOK, Asked, Apply, lease
<1>6. CASE Render(s)
  <2>1. job' \in [Slot -> Job \cup {None}] /\ lock' \in Slot \cup {None}
    BY <1>1, <1>6, ExitTyped, GotoTyped DEF Render, TypeOK
  <2>2. conf' \in Setting /\ faults' \in 0 .. MaxFaults
    BY <1>6, FaultTyped DEF Render, TypeOK
  <2> QED
    BY <1>6, <2>1, <2>2 DEF TypeOK, Asked, Render, lease
<1>7. CASE Stop(s)
  <2>1. job' \in [Slot -> Job \cup {None}]
    BY <1>1, <1>7, GotoTyped DEF Stop
  <2>2. keeper' \in [Addr -> Keeper \cup {None}]
    BY <1>7 DEF Stop, TypeOK
  <2>3. Asked'
    BY <1>7 DEF Stop, TypeOK, Asked
  <2> QED
    BY <1>7, <2>1, <2>2, <2>3 DEF TypeOK, Stop, world, lease, node
<1>8. CASE Start(s)
  <2>1. job' \in [Slot -> Job \cup {None}] /\ lock' \in Slot \cup {None}
    BY <1>8, ExitTyped DEF Start
  <2>2. Fresh(conf) \in Keeper
    BY FreshTyped DEF TypeOK
  <2>3. keeper' \in [Addr -> Keeper \cup {None}]
    BY <1>8, <2>2 DEF Start, TypeOK
  <2>4. Asked'
    BY <1>8 DEF Start, TypeOK, Asked, Fresh, NoAttempt
  <2> QED
    BY <1>8, <2>1, <2>3, <2>4 DEF TypeOK, Start, world, lease, node
<1> QED
  BY <1>2, <1>3, <1>4, <1>5, <1>6, <1>7, <1>8 DEF Run

LEMMA WorldTyped ==
    ASSUME TypeOK, Asked, Renumber \/ ThrottleEnds \/ Reboot \/ \E s \in Slot : Killed(s)
    PROVE  TypeOK' /\ Asked'
<1>1. CASE Renumber
  <2>1. moves' \in 0 .. MaxMoves
    BY <1>1, BoundsAssumption DEF Renumber, TypeOK
  <2> QED
    BY <1>1, <2>1 DEF TypeOK, Asked, Renumber, node, runs
<1>2. CASE ThrottleEnds
  BY <1>2 DEF TypeOK, Asked, ThrottleEnds, world, lease, node, runs
<1>3. CASE Reboot
  <2>1. keeper' \in [Addr -> Keeper \cup {None}]
    BY <1>3, FreshTyped DEF Reboot, TypeOK
  <2>2. TypeOK'
    BY <1>3, <2>1, FaultTyped DEF TypeOK, Reboot, lease, Setting
  <2>3. Asked'
    BY <1>3 DEF Asked, Reboot, Fresh, NoAttempt
  <2> QED
    BY <2>2, <2>3
<1>4. ASSUME NEW s \in Slot, Killed(s) PROVE TypeOK' /\ Asked'
  BY <1>4, ExitTyped, FaultTyped DEF TypeOK, Asked, Killed, lease, node, At
<1> QED
  BY <1>1, <1>2, <1>3, <1>4

LEMMA StepTyped == TypeOK /\ Asked /\ [Next]_vars => TypeOK' /\ Asked'
<1> SUFFICES ASSUME TypeOK, Asked, [Next]_vars PROVE TypeOK' /\ Asked'
  OBVIOUS
<1>1. CASE UNCHANGED vars
  BY <1>1 DEF TypeOK, Asked, vars, world, lease, node, runs
<1> QED
  BY <1>1, ChangedTyped, NetworkTyped, WatchdogTyped, KeeperTyped, RunTyped, WorldTyped DEF Next

-----------------------------------------------------------------------------
(* Calm steps *)

(* A run that a keeper launches is one towards the leased address.           *)
LEMMA LaunchTowards ==
    ASSUME TypeOK, NEW o \in Addr, Between(o), NEW a \in Addr, keeper[a] \in Keeper,
           NEW from \in {o, isp}, NEW args \in {None, NetOf[isp]}, Launch(a, from, isp, args),
           UNCHANGED <<config, conf, isp>>, keeper[o] = None => keeper'[o] = None,
           o # isp /\ from = isp => keeper[o] = None
    PROVE  \A s \in Slot : job'[s] # None => Towards(o, job[s])'
<1>1. PICK r \in Slot :
         job' = [job EXCEPT ![r] = [pc |-> "exec", from |-> from, to |-> isp,
                    old |-> keeper[a].net, new |-> args, snap |-> conf, moved |-> FALSE]]
  BY DEF Launch
<1>2. ASSUME NEW s \in Slot, job'[s] # None PROVE Towards(o, job[s])'
  <2>1. CASE s = r
    <3>1. job'[s] = [pc |-> "exec", from |-> from, to |-> isp,
                     old |-> keeper[a].net, new |-> args, snap |-> conf, moved |-> FALSE]
      BY <1>1, <2>1 DEF TypeOK
    <3> QED
      BY <3>1 DEF Towards, Between
  <2>2. CASE s # r
    <3>1. job'[s] = job[s]
      BY <1>1, <2>2 DEF TypeOK
    <3> QED
      BY <1>2, <3>1 DEF Towards, Between
  <2> QED
    BY <2>1, <2>2
<1> QED
  BY <1>2

(* A keeper that changes and is still one between the two addresses.         *)
LEMMA KeeperBetween ==
    ASSUME TypeOK, NEW o \in Addr, Between(o), NEW a \in Addr, keeper[a] # None,
           NEW new, keeper' = [keeper EXCEPT ![a] = new], UNCHANGED <<config, conf, isp>>,
           new.target \in {a, isp}, new.att.followed \in {None, isp},
           a # isp /\ new.target = isp => new.att.followed = isp,
           new.att.from \in {None, a}, new.att.args \in {None, NetOf[isp]},
           \A s \in Slot : job'[s] # None => Towards(o, job[s])'
    PROVE  Between(o)'
<1>1. keeper'[a] = new /\ \A b \in Addr \ {a} : keeper'[b] = keeper[b]
  BY DEF TypeOK
<1>2. \A b \in Addr : keeper[b] = None => keeper'[b] = None
  BY <1>1
<1>3. \A b \in Addr : keeper'[b] # None => b \in {o, isp} /\ Follower(b)'
  <2>1. ASSUME NEW b \in Addr, keeper'[b] # None PROVE b \in {o, isp} /\ Follower(b)'
    <3>1. b \in {o, isp}
      BY <1>1, <2>1 DEF Between
    <3>2. CASE b = a
      BY <1>1, <3>1, <3>2 DEF Follower
    <3>3. CASE b # a
      BY <1>1, <2>1, <3>3 DEF Follower, Between
    <3> QED
      BY <3>1, <3>2, <3>3
  <2> QED
    BY <2>1
<1>4. isp \in Addr
  BY DEF TypeOK
<1> QED
  BY <1>2, <1>3, <1>4 DEF Between

(* Jobs that stay as they are stay on their way. *)
LEMMA JobsBetween ==
    ASSUME NEW o \in Addr, Between(o), UNCHANGED <<config, conf, isp, job>>,
           keeper[o] = None => keeper'[o] = None
    PROVE  \A s \in Slot : job'[s] # None => Towards(o, job[s])'
  BY DEF Between, Towards

LEMMA ChangedCalm ==
    ASSUME TypeOK, Asked, NEW o \in Addr, Between(o), NEW a \in Addr, ChangedAddress(a)
    PROVE  Between(o)'
<1> DEFINE k   == keeper[a]
           att == [k.att EXCEPT !.args = NetArgs(a, isp), !.from = k.target]
<1>1. k \in Keeper /\ k # None /\ isp \in Addr /\ UNCHANGED <<config, conf, isp>>
  BY DEF TypeOK, ChangedAddress, Up, lease, node
<1>2. a = o /\ a # isp /\ k.target = a /\ k.att.followed \in {None, isp}
  BY <1>1 DEF Between, Follower, ChangedAddress
<1>3. NetArgs(a, isp) \in {None, NetOf[isp]}
  BY <1>1, ArgsTyped
<1>4. att.args = NetArgs(a, isp) /\ att.from = a /\ att.followed = k.att.followed /\ att \in Attempt
  BY <1>1, <1>2, <1>3, ArgsTyped DEF Keeper, Attempt
<1>5. CASE /\ Launch(a, k.target, isp, att.args)
           /\ keeper' = [keeper EXCEPT ![a] =
                  [k EXCEPT !.target = isp, !.cand = FALSE,
                            !.att = [att EXCEPT !.followed = isp, !.due = FALSE]]]
  <2> DEFINE new == [k EXCEPT !.target = isp, !.cand = FALSE,
                              !.att = [att EXCEPT !.followed = isp, !.due = FALSE]]
  <2>1. new.target = isp /\ new.att.followed = isp /\ new.att.from = a /\ new.att.args = NetArgs(a, isp)
    BY <1>1, <1>4 DEF Keeper, Attempt
  <2>2. keeper[o] # None
    BY <1>1, <1>2
  <2>3. \A s \in Slot : job'[s] # None => Towards(o, job[s])'
    BY <1>1, <1>2, <1>3, <1>4, <1>5, <2>2, LaunchTowards
  <2> HIDE DEF new
  <2> QED
    BY <1>1, <1>3, <1>5, <2>1, <2>3, KeeperBetween DEF new
<1>6. CASE keeper' = [keeper EXCEPT ![a].att = att] /\ UNCHANGED job
  <2> DEFINE new == [k EXCEPT !.att = att]
  <2>1. new.target = a /\ new.att = att
    BY <1>1, <1>2 DEF Keeper
  <2>2. \A s \in Slot : job'[s] # None => Towards(o, job[s])'
    BY <1>1, <1>2, <1>6, JobsBetween
  <2> HIDE DEF new
  <2> QED
    BY <1>1, <1>2, <1>3, <1>4, <1>6, <2>1, <2>2, KeeperBetween DEF new
<1> QED
  BY <1>5, <1>6 DEF ChangedAddress

LEMMA NetworkCalm ==
    ASSUME TypeOK, Asked, NEW o \in Addr, Between(o), NEW a \in Addr, CheckNetwork(a)
    PROVE  Between(o)'
<1> DEFINE k   == keeper[a]
           net == NetArgs(a, isp)
           att == [k.att EXCEPT !.args = net, !.from = isp]
<1>1. k \in Keeper /\ k # None /\ isp \in Addr /\ UNCHANGED <<config, conf, isp>>
  BY DEF TypeOK, CheckNetwork, Up, lease, node
<1>2. a = isp /\ k.target = a /\ k.att.followed = None /\ (o # isp => keeper[o] = None)
  <2>1. isp = k.target /\ k.att.followed = None
    BY DEF CheckNetwork
  <2>2. a \in {o, isp} /\ (a # isp /\ k.target = isp => k.att.followed = isp)
    BY <1>1 DEF Between, Follower
  <2>3. isp # None
    BY <1>1, NoneAssumption
  <2> QED
    BY <1>1, <2>1, <2>2, <2>3 DEF Between
<1>3. net \in {None, NetOf[isp]}
  BY <1>1, ArgsTyped
<1>4. att.args = net /\ att.from = a /\ att.followed = None /\ att \in Attempt
  BY <1>1, <1>2, <1>3, ArgsTyped DEF Keeper, Attempt
<1>5. CASE keeper' = [keeper EXCEPT ![a].cand = (net # None)] /\ UNCHANGED job
  <2> DEFINE new == [k EXCEPT !.cand = (net # None)]
  <2>1. new.target = a /\ new.att = k.att
    BY <1>1, <1>2 DEF Keeper
  <2>2. \A s \in Slot : job'[s] # None => Towards(o, job[s])'
    BY <1>1, <1>2, <1>5, JobsBetween DEF TypeOK
  <2>3. k.att.from \in {None, a} /\ k.att.args \in {None, NetOf[isp]}
    BY <1>1 DEF Between, Follower
  <2> HIDE DEF new
  <2> QED
    BY <1>1, <1>2, <1>5, <2>1, <2>2, <2>3, KeeperBetween DEF new
<1>6. CASE /\ Launch(a, isp, isp, net)
           /\ keeper' = [keeper EXCEPT ![a] =
                  [k EXCEPT !.cand = FALSE, !.att = [att EXCEPT !.followed = isp, !.due = FALSE]]]
  <2> DEFINE new == [k EXCEPT !.cand = FALSE, !.att = [att EXCEPT !.followed = isp, !.due = FALSE]]
  <2>1. new.target = a /\ new.att.followed = isp /\ new.att.from = a /\ new.att.args = net
    BY <1>1, <1>2, <1>4 DEF Keeper, Attempt
  <2>2. keeper[o] = None => keeper'[o] = None
    BY <1>1, <1>6 DEF TypeOK
  <2>3. \A s \in Slot : job'[s] # None => Towards(o, job[s])'
    BY <1>1, <1>2, <1>3, <1>6, <2>2, LaunchTowards
  <2> HIDE DEF new
  <2> QED
    BY <1>1, <1>2, <1>3, <1>6, <2>1, <2>3, KeeperBetween DEF new
<1>7. CASE keeper' = [keeper EXCEPT ![a] = [k EXCEPT !.cand = FALSE, !.att = att]] /\ UNCHANGED job
  <2> DEFINE new == [k EXCEPT !.cand = FALSE, !.att = att]
  <2>1. new.target = a /\ new.att = att
    BY <1>1, <1>2 DEF Keeper
  <2>2. \A s \in Slot : job'[s] # None => Towards(o, job[s])'
    BY <1>1, <1>2, <1>7, JobsBetween DEF TypeOK
  <2> HIDE DEF new
  <2> QED
    BY <1>1, <1>2, <1>3, <1>4, <1>7, <2>1, <2>2, KeeperBetween DEF new
<1> QED
  BY <1>5, <1>6, <1>7 DEF CheckNetwork

LEMMA WatchdogCalm ==
    ASSUME TypeOK, Asked, NEW o \in Addr, Between(o), NEW a \in Addr, Watchdog(a)
    PROVE  Between(o)'
<1> DEFINE k    == keeper[a]
           same == k.att.from = k.att.followed
           att  == IF same THEN [k.att EXCEPT !.redrives = @ + 1] ELSE k.att
<1>1. k \in Keeper /\ k # None /\ k.att \in Attempt /\ isp \in Addr /\ UNCHANGED <<config, conf, isp>>
  BY DEF TypeOK, Watchdog, Up, lease, node, Keeper
<1>2. k.att.followed = isp /\ k.att.from = a /\ a \in {o, isp} /\ k.att.args \in {None, NetOf[isp]}
  <2>1. k.att.followed # None /\ k.att.from # None
    BY <1>1 DEF Asked, Watchdog
  <2> QED
    BY <1>1, <2>1 DEF Between, Follower
<1>3. k.target \in {a, isp} /\ (o # isp /\ a = isp => keeper[o] = None)
  BY <1>1 DEF Between, Follower
<1>4. att.followed = isp /\ att.from = a /\ att.args = k.att.args /\ att \in [followed : Addr \cup {None},
        from : Addr \cup {None}, args : Net \cup {None}, due : BOOLEAN, redrives : Nat]
  BY <1>1, <1>2, BoundsAssumption DEF Attempt
<1>5. CASE keeper' = [keeper EXCEPT ![a].att = NoAttempt] /\ UNCHANGED job /\ same
  <2> DEFINE new == [k EXCEPT !.att = NoAttempt]
  <2>1. new.target = k.target /\ new.att = NoAttempt /\ a = isp
    BY <1>1, <1>2, <1>5 DEF Keeper
  <2>2. \A s \in Slot : job'[s] # None => Towards(o, job[s])'
    BY <1>1, <1>5, JobsBetween DEF TypeOK
  <2>3. new.att.followed = None /\ new.att.from = None /\ new.att.args = None
    BY <2>1 DEF NoAttempt
  <2> HIDE DEF new
  <2> QED
    BY <1>1, <1>3, <1>5, <2>1, <2>2, <2>3, KeeperBetween DEF new
<1>6. CASE /\ Launch(a, k.att.from, k.att.followed, k.att.args)
           /\ keeper' = [keeper EXCEPT ![a].att = [att EXCEPT !.due = FALSE]]
  <2> DEFINE new == [k EXCEPT !.att = [att EXCEPT !.due = FALSE]]
  <2>1. new.target = k.target /\ new.att.followed = isp /\ new.att.from = a /\ new.att.args = k.att.args
    BY <1>1, <1>4 DEF Keeper
  <2>2. keeper[o] = None => keeper'[o] = None
    BY <1>1, <1>6 DEF TypeOK
  <2>3. \A s \in Slot : job'[s] # None => Towards(o, job[s])'
    BY <1>1, <1>2, <1>3, <1>6, <2>2, LaunchTowards
  <2> HIDE DEF new
  <2> QED
    BY <1>1, <1>2, <1>3, <1>6, <2>1, <2>3, KeeperBetween DEF new
<1>7. CASE keeper' = [keeper EXCEPT ![a].att = att] /\ UNCHANGED job
  <2> DEFINE new == [k EXCEPT !.att = att]
  <2>1. new.target = k.target /\ new.att = att
    BY <1>1 DEF Keeper
  <2>2. \A s \in Slot : job'[s] # None => Towards(o, job[s])'
    BY <1>1, <1>7, JobsBetween DEF TypeOK
  <2> HIDE DEF new
  <2> QED
    BY <1>1, <1>2, <1>3, <1>4, <1>7, <2>1, <2>2, KeeperBetween DEF new
<1> QED
  BY <1>5, <1>6, <1>7 DEF Watchdog

LEMMA KeeperCalm ==
    ASSUME TypeOK, Asked, NEW o \in Addr, Between(o), NEW a \in Addr, Deadline(a) \/ Die(a) \/ Respawn(a)
    PROVE  Between(o)'
<1>1. keeper[a] \in Keeper /\ keeper[a] # None /\ isp \in Addr /\ UNCHANGED <<config, conf, isp, job>>
  BY DEF TypeOK, Deadline, Die, Respawn, Up, world, lease, node, runs
<1>2. Follower(a)
  BY <1>1 DEF Between
<1>3. CASE Deadline(a)
  <2> DEFINE new == [keeper[a] EXCEPT !.att.due = TRUE]
  <2>1. keeper' = [keeper EXCEPT ![a] = new]
    BY <1>3 DEF Deadline
  <2>2. new.target = keeper[a].target /\ new.att.followed = keeper[a].att.followed
        /\ new.att.from = keeper[a].att.from /\ new.att.args = keeper[a].att.args
    BY <1>1 DEF Keeper, Attempt
  <2>3. \A s \in Slot : job'[s] # None => Towards(o, job[s])'
    BY <1>1, <2>1, JobsBetween DEF TypeOK
  <2> HIDE DEF new
  <2> QED
    BY <1>1, <1>2, <2>1, <2>2, <2>3, KeeperBetween DEF Follower
<1>4. CASE Die(a)
  <2> DEFINE new == [keeper[a] EXCEPT !.up = FALSE]
  <2>1. keeper' = [keeper EXCEPT ![a] = new]
    BY <1>4 DEF Die
  <2>2. new.target = keeper[a].target /\ new.att = keeper[a].att
    BY <1>1 DEF Keeper
  <2>3. \A s \in Slot : job'[s] # None => Towards(o, job[s])'
    BY <1>1, <2>1, JobsBetween DEF TypeOK
  <2> HIDE DEF new
  <2> QED
    BY <1>1, <1>2, <2>1, <2>2, <2>3, KeeperBetween DEF Follower
<1>5. CASE Respawn(a)
  <2> DEFINE new == Fresh(conf)
  <2>1. keeper' = [keeper EXCEPT ![a] = new] /\ conf.addr = a
    BY <1>5 DEF Respawn
  <2>2. new.target = a /\ new.att.followed = None /\ new.att.from = None /\ new.att.args = None
    BY <2>1 DEF Fresh, NoAttempt
  <2>3. \A s \in Slot : job'[s] # None => Towards(o, job[s])'
    BY <1>1, <2>1, JobsBetween DEF TypeOK
  <2>4. a # isp => new.target # isp
    BY <2>2
  <2> HIDE DEF new
  <2> QED
    BY <1>1, <2>1, <2>2, <2>3, <2>4, KeeperBetween
<1> QED
  BY <1>3, <1>4, <1>5

(* The runs that do not move stay on their way: nothing turns back.          *)
LEMMA OthersTowards ==
    ASSUME NEW o \in Addr, Between(o), NEW s \in Slot, isp' = isp,
           job'[s] # None => Towards(o, job[s])',
           \A t \in Slot \ {s} : job'[t] = job[t],
           config.addr = isp => config'.addr = isp,
           conf.addr = isp => conf'.addr = isp,
           keeper[o] = None => keeper'[o] = None
    PROVE  \A t \in Slot : job'[t] # None => Towards(o, job[t])'
<1>1. ASSUME NEW t \in Slot, t # s, job'[t] # None PROVE Towards(o, job[t])'
  <2>1. job'[t] = job[t] /\ Towards(o, job[t])
    BY <1>1 DEF Between
  <2> QED
    BY <2>1 DEF Towards
<1> QED
  BY <1>1

LEMMA ExitMoves ==
    ASSUME TypeOK, NEW s \in Slot, Exit(s)
    PROVE  job'[s] = None /\ \A t \in Slot \ {s} : job'[t] = job[t]
  BY DEF TypeOK, Exit

LEMMA GotoMoves ==
    ASSUME TypeOK, NEW s \in Slot, job[s] # None, NEW l, Goto(s, l)
    PROVE  /\ job'[s] = [job[s] EXCEPT !.pc = l] /\ job'[s].pc = l
           /\ job'[s].from = job[s].from /\ job'[s].to = job[s].to /\ job'[s].new = job[s].new
           /\ job'[s].old = job[s].old /\ job'[s].snap = job[s].snap /\ job'[s].moved = job[s].moved
           /\ \A t \in Slot \ {s} : job'[t] = job[t]
  BY DEF TypeOK, Goto, Job

LEMMA RunCalm ==
    ASSUME TypeOK, Asked, NEW o \in Addr, Between(o), NEW s \in Slot, Run(s)
    PROVE  Between(o)'
<1>1. job[s] \in Job /\ job[s] # None /\ isp \in Addr /\ isp' = isp
  BY DEF TypeOK, Run, Load, Lock, Write, Apply, Render, Stop, Start, At, world, lease
<1>2. Towards(o, job[s])
  BY <1>1 DEF Between
<1>3. ASSUME Exit(s), UNCHANGED <<config, conf, keeper>> PROVE Between(o)'
  <2>1. \A t \in Slot : job'[t] # None => Towards(o, job[t])'
    BY <1>1, <1>3, ExitMoves, OthersTowards
  <2> QED
    BY <1>1, <1>3, <2>1 DEF Between, Follower
<1>4. CASE Load(s)
  <2>1. CASE job' = [job EXCEPT ![s].pc = "lock", ![s].snap = config]
    <3>1. job'[s].pc = "lock" /\ job'[s].snap = config /\ job'[s].from = job[s].from
          /\ job'[s].to = job[s].to /\ job'[s].new = job[s].new
          /\ \A t \in Slot \ {s} : job'[t] = job[t]
      BY <1>1, <2>1 DEF TypeOK, Job
    <3>2. UNCHANGED <<config, conf, keeper>>
      BY <1>4 DEF Load, node
    <3>3. Towards(o, job[s])'
      BY <1>1, <1>2, <3>1, <3>2 DEF Between, Towards
    <3>4. \A t \in Slot : job'[t] # None => Towards(o, job[t])'
      BY <1>1, <3>1, <3>2, <3>3, OthersTowards
    <3> QED
      BY <1>1, <3>2, <3>4 DEF Between, Follower
  <2> QED
    BY <1>3, <1>4, <2>1 DEF Load, node
<1>5. CASE Lock(s)
  <2>1. UNCHANGED <<config, conf, keeper>>
    BY <1>5 DEF Lock, node
  <2>2. CASE Goto(s, "write")
    <3>0. job'[s].pc = "write" /\ job'[s].from = job[s].from /\ job'[s].to = job[s].to
          /\ job'[s].new = job[s].new /\ job'[s].snap = job[s].snap
      BY <1>1, <2>2, GotoMoves
    <3>1. Towards(o, job[s])'
      BY <1>1, <1>2, <2>1, <3>0 DEF Towards
    <3>2. \A t \in Slot : job'[t] # None => Towards(o, job[t])'
      BY <1>1, <2>1, <2>2, <3>1, GotoMoves, OthersTowards
    <3> QED
      BY <1>1, <2>1, <3>2 DEF Between, Follower
  <2> QED
    BY <1>3, <1>5, <2>1, <2>2 DEF Lock
<1>6. CASE Write(s)
  <2>1. UNCHANGED <<conf, keeper>>
    BY <1>6 DEF Write
  <2>2. CASE /\ ~GivesUp(job[s])
             /\ config' = IF ~Changes(job[s]) THEN config
                          ELSE [addr |-> IF VipMoves(job[s]) THEN job[s].to ELSE job[s].snap.addr,
                                net  |-> IF GwMoves(job[s]) THEN job[s].new ELSE job[s].snap.net]
             /\ job' = [job EXCEPT ![s].pc = "apply", ![s].moved = GwMoves(job[s]) \/ GwCurrent(job[s])]
    <3>1. job'[s].pc = "apply" /\ job'[s].snap = job[s].snap /\ job'[s].from = job[s].from
          /\ job'[s].to = job[s].to /\ job'[s].new = job[s].new
          /\ \A t \in Slot \ {s} : job'[t] = job[t]
      BY <1>1, <2>2 DEF TypeOK, Job
    <3>2. config'.addr = isp
      <4>1. CASE VipMoves(job[s])
        BY <1>2, <2>2, <4>1 DEF Changes, Towards
      <4>2. CASE ~VipMoves(job[s]) /\ Changes(job[s])
        BY <1>2, <2>2, <4>2 DEF Changes, VipMoves, GwMoves, VipKnown, Towards
      <4>3. CASE ~Changes(job[s])
        BY <1>2, <2>2, <4>3 DEF GivesUp, Towards
      <4> QED
        BY <4>1, <4>2, <4>3
    <3>3. Towards(o, job[s])'
      BY <1>1, <1>2, <2>1, <3>1, <3>2 DEF Towards
    <3>4. \A t \in Slot : job'[t] # None => Towards(o, job[t])'
      BY <1>1, <2>1, <3>1, <3>2, <3>3, OthersTowards
    <3> QED
      BY <1>1, <2>1, <3>2, <3>4 DEF Between, Follower
  <2> QED
    BY <1>3, <1>6, <2>1, <2>2 DEF Write
<1>7. CASE Apply(s)
  <2>1. UNCHANGED <<config, conf, keeper>>
    BY <1>7 DEF Apply
  <2>2. CASE Goto(s, "render")
    <3>0. job'[s].pc = "render" /\ job'[s].from = job[s].from /\ job'[s].to = job[s].to
          /\ job'[s].new = job[s].new /\ job'[s].snap = job[s].snap
      BY <1>1, <2>2, GotoMoves
    <3>1. Towards(o, job[s])'
      BY <1>1, <1>2, <1>7, <2>1, <3>0 DEF Towards, Apply, At
    <3>2. \A t \in Slot : job'[t] # None => Towards(o, job[t])'
      BY <1>1, <2>1, <2>2, <3>1, GotoMoves, OthersTowards
    <3> QED
      BY <1>1, <2>1, <3>2 DEF Between, Follower
  <2> QED
    BY <1>3, <1>7, <2>1, <2>2 DEF Apply
<1>8. CASE Render(s)
  <2>1. UNCHANGED <<config, keeper>> /\ conf' \in {config, conf} /\ config.addr = isp
    BY <1>2, <1>8 DEF Render, Towards, At
  <2>2. CASE Goto(s, "stop") /\ conf' = config
    <3>0. job'[s].pc = "stop" /\ job'[s].from = job[s].from /\ job'[s].to = job[s].to
          /\ job'[s].new = job[s].new /\ job'[s].snap = job[s].snap
      BY <1>1, <2>2, GotoMoves
    <3>1. Towards(o, job[s])'
      BY <1>1, <1>2, <2>1, <2>2, <3>0 DEF Towards
    <3>2. \A t \in Slot : job'[t] # None => Towards(o, job[t])'
      BY <1>1, <2>1, <2>2, <3>1, GotoMoves, OthersTowards
    <3> QED
      BY <1>1, <2>1, <2>2, <3>2 DEF Between, Follower
  <2>3. CASE Exit(s)
    <3>1. \A t \in Slot : job'[t] # None => Towards(o, job[t])'
      BY <1>1, <2>1, <2>3, ExitMoves, OthersTowards
    <3> QED
      BY <1>1, <2>1, <3>1 DEF Between, Follower
  <2> QED
    BY <1>8, <2>2, <2>3 DEF Render
<1>9. CASE Stop(s)
  <2>1. UNCHANGED <<config, conf>> /\ Goto(s, "start")
    BY <1>9 DEF Stop, node
  <2>2. keeper'[job[s].from] = None /\ \A b \in Addr \ {job[s].from} : keeper'[b] = keeper[b]
    BY <1>1, <1>9 DEF Stop, Retired, TypeOK, Job
  <2>3. o # isp => keeper'[o] = None
    BY <1>1, <1>2, <2>2 DEF Towards
  <2>4. conf.addr = isp /\ config.addr = isp
    BY <1>2, <1>9 DEF Stop, At, Towards
  <2>5. Towards(o, job[s])'
    BY <1>1, <1>2, <2>1, <2>3, <2>4, GotoMoves DEF Towards
  <2>6. keeper[o] = None => keeper'[o] = None
    BY <2>2
  <2>7. \A t \in Slot : job'[t] # None => Towards(o, job[t])'
    BY <1>1, <2>1, <2>5, <2>6, GotoMoves, OthersTowards
  <2>8. \A b \in Addr : keeper'[b] # None => b \in {o, isp} /\ Follower(b)'
    BY <1>1, <2>2 DEF Between, Follower
  <2> QED
    BY <1>1, <2>1, <2>3, <2>7, <2>8 DEF Between
<1>10. CASE Start(s)
  <2>1. UNCHANGED <<config, conf>> /\ Exit(s) /\ job[s].to = isp /\ (o # isp => keeper[o] = None)
    BY <1>2, <1>10 DEF Start, node, Towards, At
  <2>2. \A b \in Addr : keeper'[b] = keeper[b] \/ (b = isp /\ conf.addr = isp /\ keeper'[b] = Fresh(conf))
    BY <1>1, <1>10, <2>1 DEF Start, Started, TypeOK
  <2>3. o # isp => keeper'[o] = None
    BY <2>1, <2>2
  <2>4. \A t \in Slot : job'[t] # None => Towards(o, job[t])'
    <3>1. ASSUME NEW t \in Slot, job'[t] # None PROVE Towards(o, job[t])'
      <4>1. job'[t] = job[t] /\ Towards(o, job[t])
        BY <2>1, <3>1, ExitMoves DEF Between
      <4> QED
        BY <1>1, <2>1, <2>3, <4>1 DEF Towards
    <3> QED
      BY <3>1
  <2>5. \A b \in Addr : keeper'[b] # None => b \in {o, isp} /\ Follower(b)'
    <3>1. Fresh(conf).target = conf.addr /\ Fresh(conf).att = NoAttempt
      BY DEF Fresh
    <3> QED
      BY <1>1, <2>2, <3>1 DEF Between, Follower, NoAttempt
  <2> QED
    BY <1>1, <2>1, <2>3, <2>4, <2>5 DEF Between
<1> QED
  BY <1>4, <1>5, <1>6, <1>7, <1>8, <1>9, <1>10 DEF Run

LEMMA WorldCalm ==
    ASSUME TypeOK, Asked, pace = "calm", NEW o \in Addr, Between(o),
           Renumber \/ ThrottleEnds \/ Reboot \/ \E s \in Slot : Killed(s)
    PROVE  \E p \in Addr : Between(p)'
<1>1. isp \in Addr
  BY DEF TypeOK
<1>2. CASE Renumber
  <2>1. Agreed /\ Quiet /\ isp' \in Addr \ {isp} /\ UNCHANGED <<config, conf, keeper, job>>
    BY <1>2 DEF Renumber, node, runs
  <2>2. keeper[isp].target = isp /\ keeper[isp].att = NoAttempt /\ config.addr = isp /\ conf.addr = isp
    BY <2>1 DEF Agreed, Fresh
  <2>3. \A b \in Addr : keeper'[b] # None => b = isp /\ Follower(b)'
    BY <1>1, <2>1, <2>2 DEF Agreed, Follower, NoAttempt
  <2>4. keeper'[isp'] = None /\ \A s \in Slot : job'[s] = None
    BY <2>1 DEF Agreed, Quiet
  <2>5. PICK p \in Addr : p = isp
    BY <1>1
  <2>6. p # isp' /\ config'.addr = p /\ conf'.addr = p
        /\ \A b \in Addr : keeper'[b] # None => b = p /\ Follower(b)'
    BY <2>1, <2>2, <2>3, <2>5
  <2>7. Between(p)'
    BY <2>4, <2>6 DEF Between
  <2> QED
    BY <2>7
<1>3. CASE ThrottleEnds
  <2>1. UNCHANGED <<config, conf, keeper, job, isp>>
    BY <1>3 DEF ThrottleEnds, node, runs, world, lease
  <2>2. Between(o)'
    BY <2>1 DEF Between, Follower, Towards
  <2> QED
    BY <2>2
<1>4. CASE Reboot
  <2>1. isp' = isp /\ config' = config /\ conf' = config /\ \A s \in Slot : job'[s] = None
    BY <1>4 DEF Reboot, lease
  <2>2. \A b \in Addr : keeper'[b] = IF b = config.addr THEN Fresh(config) ELSE None
    BY <1>4 DEF Reboot
  <2>3. Fresh(config).target = config.addr /\ Fresh(config).att = NoAttempt
    BY DEF Fresh
  <2>4. \A b \in Addr : keeper'[b] # None => b \in {o, isp} /\ Follower(b)'
    BY <2>1, <2>2, <2>3 DEF Between, Follower, NoAttempt
  <2>5. Between(o)'
    BY <1>1, <2>1, <2>2, <2>4 DEF Between
  <2> QED
    BY <2>5
<1>5. ASSUME NEW s \in Slot, Killed(s) PROVE Between(o)'
  <2>1. Exit(s) /\ UNCHANGED <<config, conf, keeper, isp>>
    BY <1>5 DEF Killed, node, lease
  <2>2. \A t \in Slot : job'[t] # None => Towards(o, job[t])'
    BY <2>1, ExitMoves, OthersTowards
  <2> QED
    BY <1>1, <2>1, <2>2 DEF Between, Follower
<1> QED
  BY <1>2, <1>3, <1>4, <1>5

LEMMA CalmStep == TypeOK /\ Asked /\ Calm /\ [Next]_vars => Calm'
<1> SUFFICES ASSUME TypeOK, Asked, Calm, [Next]_vars, pace' = "calm" PROVE \E p \in Addr : Between(p)'
  BY DEF Calm
<1>1. pace = "calm"
  BY DEF Next, ChangedAddress, CheckNetwork, Deadline, Watchdog, Die, Respawn, Run, Load, Lock, Write,
     Apply, Render, Stop, Start, Killed, Renumber, ThrottleEnds, Reboot, vars, world, lease
<1>2. PICK o \in Addr : Between(o)
  BY <1>1 DEF Calm
<1>3. CASE UNCHANGED vars
  <2>1. Between(o)'
    BY <1>2, <1>3 DEF Between, Follower, Towards, vars, world, lease, node, runs
  <2> QED
    BY <2>1
<1>4. ASSUME NEW a \in Addr, ChangedAddress(a) \/ CheckNetwork(a) \/ Deadline(a) \/ Watchdog(a) \/ Die(a) \/ Respawn(a)
      PROVE  \E p \in Addr : Between(p)'
  BY <1>2, <1>4, ChangedCalm, NetworkCalm, WatchdogCalm, KeeperCalm
<1>5. ASSUME NEW s \in Slot, Run(s) PROVE \E p \in Addr : Between(p)'
  BY <1>2, <1>5, RunCalm
<1>6. CASE Renumber \/ ThrottleEnds \/ Reboot \/ \E s \in Slot : Killed(s)
  BY <1>1, <1>2, <1>6, WorldCalm
<1> QED
  BY <1>3, <1>4, <1>5, <1>6 DEF Next

LEMMA AtStays ==
    ASSUME NEW s \in Slot, NEW t \in Slot \ {s}, At(t, "start"), job'[t] = job[t] PROVE At(t, "start")'
  BY DEF At

(* Someone is supervised, or about to be. *)
Lives == \/ \E a \in Addr : keeper[a] # None
         \/ \E s \in Slot : At(s, "start")

LEMMA LivesOn ==
    ASSUME Lives, UNCHANGED keeper, NEW s \in Slot, ~At(s, "start"),
           \A t \in Slot \ {s} : job'[t] = job[t]
    PROVE  Lives'
<1>1. CASE \E a \in Addr : keeper[a] # None
  BY <1>1 DEF Lives
<1>2. CASE \E t \in Slot : At(t, "start")
  <2>1. PICK t \in Slot \ {s} : At(t, "start")
    BY <1>2
  <2>2. At(t, "start")'
    BY <2>1 DEF At
  <2> QED
    BY <2>2 DEF Lives
<1> QED
  BY <1>1, <1>2 DEF Lives

(* A keeper is stopped by a run that then stands before its start, and that  *)
(* start finds its line rendered.                                            *)
LEMMA RunLives ==
    ASSUME TypeOK, NEW o \in Addr, Between(o), Lives, NEW s \in Slot, Run(s)
    PROVE  Lives'
<1>1. job[s] \in Job /\ job[s] # None /\ Towards(o, job[s])
  BY DEF TypeOK, Between, Run, Load, Lock, Write, Apply, Render, Stop, Start, At
<1>2. CASE Load(s) \/ Lock(s) \/ Write(s) \/ Apply(s) \/ Render(s)
  <2>1. ~At(s, "start") /\ UNCHANGED keeper
    BY <1>2 DEF Load, Lock, Write, Apply, Render, At
  <2>2. \A t \in Slot \ {s} : job'[t] = job[t]
    BY <1>1, <1>2, ExitMoves, GotoMoves DEF Load, Lock, Write, Apply, Render, TypeOK
  <2> QED
    BY <2>1, <2>2, LivesOn
<1>3. CASE Stop(s)
  <2>1. job'[s].pc = "start" /\ job'[s] = [job[s] EXCEPT !.pc = "start"]
    BY <1>1, <1>3, GotoMoves DEF Stop
  <2>2. [job[s] EXCEPT !.pc = "start"] \in Job
    BY <1>1 DEF Job
  <2>3. At(s, "start")'
    BY <2>1, <2>2, NoneAssumption DEF At
  <2> QED
    BY <2>3 DEF Lives
<1>4. CASE Start(s)
  <2>1. conf.addr = isp /\ job[s].to = isp /\ isp \in Addr /\ Fresh(conf) # None
    BY <1>1, <1>4, FreshTyped DEF Start, At, Towards, TypeOK
  <2>2. keeper'[isp] # None
    BY <1>4, <2>1 DEF Start, Started, TypeOK
  <2> QED
    BY <2>1, <2>2 DEF Lives
<1> QED
  BY <1>2, <1>3, <1>4 DEF Run

LEMMA SucceededStep == TypeOK /\ Asked /\ Calm /\ Succeeded /\ [Next]_vars => Succeeded'
<1> SUFFICES ASSUME TypeOK, Asked, Calm, Succeeded, [Next]_vars, pace' = "calm", cut' = FALSE
             PROVE  Lives'
  <2>1. TypeOK /\ Asked /\ [Next]_vars => cut' \in BOOLEAN
    BY StepTyped DEF TypeOK
  <2> QED
    BY <2>1 DEF Succeeded, Lives
<1>1. pace = "calm"
  BY DEF Next, ChangedAddress, CheckNetwork, Deadline, Watchdog, Die, Respawn, Run, Load, Lock, Write,
     Apply, Render, Stop, Start, Killed, Renumber, ThrottleEnds, Reboot, vars, world, lease
<1>2. PICK o \in Addr : Between(o)
  BY <1>1 DEF Calm
<1>3. cut = FALSE => Lives
  BY <1>1 DEF Succeeded, Lives
<1>4. CASE UNCHANGED vars
  BY <1>3, <1>4 DEF Lives, At, vars, node, runs
<1>5. ASSUME NEW a \in Addr,
             ChangedAddress(a) \/ CheckNetwork(a) \/ Deadline(a) \/ Watchdog(a) \/ Die(a) \/ Respawn(a)
      PROVE  Lives'
  BY <1>5, ChangedTyped, NetworkTyped, WatchdogTyped, KeeperTyped DEF Lives
<1>6. ASSUME NEW s \in Slot, Run(s) PROVE Lives'
  <2>1. cut = FALSE
    BY <1>6 DEF Run, Load, Lock, Write, Apply, Render, Stop, Start
  <2> QED
    BY <1>2, <1>3, <1>6, <2>1, RunLives
<1>7. ASSUME NEW s \in Slot, Killed(s) PROVE Lives'
  <2>1. cut = FALSE /\ ~At(s, "start") /\ Exit(s) /\ UNCHANGED keeper
    BY <1>7 DEF Killed, TypeOK
  <2> QED
    BY <1>3, <2>1, ExitMoves, LivesOn
<1>8. CASE Renumber \/ ThrottleEnds
  <2>1. UNCHANGED <<keeper, job>> /\ cut = FALSE
    BY <1>8 DEF Renumber, ThrottleEnds, node, runs
  <2> QED
    BY <1>3, <2>1 DEF Lives, At
<1>9. CASE Reboot
  <2>1. config \in Setting /\ config.addr \in Addr
    BY DEF TypeOK, Setting
  <2>2. keeper'[config.addr] = Fresh(config)
    BY <1>9, <2>1 DEF Reboot
  <2> QED
    BY <2>1, <2>2, FreshTyped DEF Lives
<1> QED
  BY <1>4, <1>5, <1>6, <1>7, <1>8, <1>9 DEF Next

-----------------------------------------------------------------------------
(* Flawless: a settled keeper asks for one run; that run ends settled. *)

LEMMA SettledKeeperStep ==
    ASSUME TypeOK, pace = "flawless", NEW a \in Addr, Settled(a), NEW b \in Addr,
           ChangedAddress(b) \/ CheckNetwork(b) \/ Deadline(b) \/ Watchdog(b) \/ Die(b) \/ Respawn(b)
    PROVE  Settled(a)' \/ \E s \in Slot : UnderWay(s)'
<1>1. ~Fault /\ b = a /\ (ChangedAddress(a) \/ CheckNetwork(a))
  BY DEF Fault, Settled, Up, Alone, ChangedAddress, CheckNetwork, Deadline, Watchdog, Die, Respawn
<1> DEFINE k == keeper[a]
<1>2. /\ k \in Keeper /\ k # None /\ k.up /\ isp \in Addr /\ k.net \in Net /\ config \in Setting
      /\ k.target = a /\ k.net = config.net /\ ~k.att.due /\ k.att \in Attempt
  BY DEF TypeOK, Settled, Up, Keeper
<1>3. ASSUME NEW to \in Addr, Launch(a, a, to, NetArgs(a, to)), to # a \/ NetArgs(a, to) # None,
             recent' = TRUE, UNCHANGED <<node, lock>>,
             NEW new \in Keeper, keeper' = [keeper EXCEPT ![a] = new], new.up = TRUE,
             new.target = to, new.att.followed = to, new.att.due = FALSE
      PROVE  \E s \in Slot : UnderWay(s)'
  <2> DEFINE j == [pc |-> "exec", from |-> a, to |-> to, old |-> k.net,
                   new |-> NetArgs(a, to), snap |-> conf, moved |-> FALSE]
  <2>1. PICK s \in Slot : job' = [job EXCEPT ![s] = j]
    BY <1>3 DEF Launch
  <2>2. NetArgs(a, to) \in {None, NetOf[to]} /\ NetArgs(a, to) # k.net /\ NetArgs(a, to) \in Net \cup {None}
    BY <1>2, <1>3, ArgsTyped, NoneAssumption DEF NetArgs
  <2>3. j \in Job /\ j # None
    <3>1. j \in Job
      BY <1>2, <1>3, <2>2 DEF Job, TypeOK
    <3> QED
      BY <3>1, NoneAssumption
  <2>4. job'[s] = j /\ \A t \in Slot \ {s} : job'[t] = None
    BY <2>1 DEF TypeOK, Settled, Quiet
  <2>5. keeper'[a] = new /\ new # None /\ \A b2 \in Addr \ {a} : keeper'[b2] = None
    BY <1>3, NoneAssumption DEF TypeOK, Settled, Alone
  <2>6. Waits(j)'
    BY <1>3, <2>5 DEF Waits, Up, Alone
  <2>7. /\ conf' = config' /\ config' = config /\ conf = config /\ lock' = None
        /\ config = [addr |-> a, net |-> k.net]
    BY <1>2, <1>3 DEF Settled, node, Setting
  <2>8. UnderWay(s)'
    BY <1>2, <1>3, <2>2, <2>3, <2>4, <2>6, <2>7 DEF UnderWay, Waits
  <2> QED
    BY <2>8
<1>4. CASE ChangedAddress(a)
  <2> DEFINE att == [k.att EXCEPT !.args = NetArgs(a, isp), !.from = k.target]
             new == [k EXCEPT !.target = isp, !.cand = FALSE,
                              !.att = [att EXCEPT !.followed = isp, !.due = FALSE]]
  <2>1. NetArgs(a, isp) \in Net \cup {None}
    BY <1>2, ArgsTyped
  <2>2. att \in Attempt /\ att.args = NetArgs(a, isp)
    BY <1>2, <2>1 DEF Attempt
  <2>3. [att EXCEPT !.followed = isp, !.due = FALSE] \in Attempt
    BY <1>2, <2>2 DEF Attempt
  <2>4. /\ new \in Keeper /\ new.up = TRUE /\ new.target = isp
        /\ new.att.followed = isp /\ new.att.due = FALSE
    BY <1>2, <2>2, <2>3 DEF Keeper, Attempt
  <2>5. /\ Launch(a, a, isp, NetArgs(a, isp)) /\ isp # a /\ recent' = TRUE
        /\ UNCHANGED <<node, lock>> /\ keeper' = [keeper EXCEPT ![a] = new]
    BY <1>1, <1>2, <1>4, <2>2 DEF ChangedAddress
  <2> HIDE DEF new
  <2> QED
    BY <1>2, <1>3, <2>4, <2>5
<1>5. CASE CheckNetwork(a)
  <2> DEFINE args == NetArgs(a, isp)
             att  == [k.att EXCEPT !.args = args, !.from = isp]
             new  == [k EXCEPT !.cand = FALSE, !.att = [att EXCEPT !.followed = isp, !.due = FALSE]]
  <2>0. isp = a /\ UNCHANGED <<node, lock>> /\ args \in Net \cup {None}
    BY <1>2, <1>5, ArgsTyped DEF CheckNetwork
  <2>1. CASE keeper' = [keeper EXCEPT ![a].cand = (args # None)] /\ UNCHANGED job
    <3>1. [k EXCEPT !.cand = (args # None)] \in Keeper
      BY <1>2 DEF Keeper
    <3>2. /\ keeper'[a] # None /\ keeper'[a].up = k.up /\ keeper'[a].target = k.target
          /\ keeper'[a].net = k.net /\ keeper'[a].att = k.att
          /\ \A b2 \in Addr \ {a} : keeper'[b2] = keeper[b2]
      BY <1>2, <2>1, <3>1, NoneAssumption DEF TypeOK, Keeper
    <3>3. Settled(a)'
      BY <1>2, <2>0, <2>1, <3>2 DEF Settled, Up, Alone, Quiet, node
    <3> QED
      BY <3>3
  <2>2. CASE /\ args # None /\ Launch(a, isp, isp, args) /\ recent' = TRUE
             /\ keeper' = [keeper EXCEPT ![a] = new]
    <3>1. att \in Attempt
      BY <1>2, <2>0 DEF Attempt
    <3>2. [att EXCEPT !.followed = isp, !.due = FALSE] \in Attempt
      BY <1>2, <3>1 DEF Attempt
    <3>3. /\ new \in Keeper /\ new.up = TRUE /\ new.target = a
          /\ new.att.followed = a /\ new.att.due = FALSE
      BY <1>2, <2>0, <3>1, <3>2 DEF Keeper, Attempt
    <3>4. Launch(a, a, a, NetArgs(a, a)) /\ NetArgs(a, a) # None
      BY <2>0, <2>2
    <3> HIDE DEF new
    <3> QED
      BY <1>3, <2>0, <2>2, <3>3, <3>4
  <2> QED
    BY <1>1, <1>5, <2>1, <2>2 DEF CheckNetwork
<1> QED
  BY <1>1, <1>4, <1>5

(* While it runs the keeper only waits. *)
LEMMA UnderWayKeeperStep ==
    ASSUME TypeOK, pace = "flawless", NEW s \in Slot, UnderWay(s), NEW b \in Addr,
           ChangedAddress(b) \/ CheckNetwork(b) \/ Deadline(b) \/ Watchdog(b) \/ Die(b) \/ Respawn(b)
    PROVE  FALSE
<1>1. job[s] \in Job /\ job[s] # None /\ recent /\ ~Fault /\ job[s].to \in Addr /\ job[s].to # None
  BY NoneAssumption DEF TypeOK, UnderWay, Fault, Job
<1>2. keeper[b] # None
  BY DEF ChangedAddress, CheckNetwork, Deadline, Watchdog, Die, Respawn, Up
<1>3. Up(b) /\ keeper[b].att.followed # None /\ ~keeper[b].att.due
  BY <1>1, <1>2 DEF UnderWay, Waits, Alone
<1> QED
  BY <1>1, <1>3 DEF ChangedAddress, CheckNetwork, Deadline, Watchdog, Die, Respawn, Prompt, Quiet, Up

LEMMA UnderWayRun ==
    ASSUME TypeOK, pace = "flawless", NEW s \in Slot, UnderWay(s), NEW t \in Slot, Run(t)
    PROVE  UnderWay(s)' \/ \E a \in Addr : Settled(a)'
<1> DEFINE j == job[s]
<1>1. /\ ~Fault /\ t = s /\ j \in Job /\ j # None /\ \A r \in Slot \ {s} : job[r] = None
  BY DEF TypeOK, UnderWay, Fault, Run, Load, Lock, Write, Apply, Render, Stop, Start, At
<1>2. /\ j.from \in Addr /\ j.to \in Addr /\ j.old \in Net /\ j.old # None /\ recent
      /\ j.old # j.new /\ (j.from = j.to => j.new # None) /\ j.new \in {None, NetOf[j.to]}
  BY <1>1, NoneAssumption DEF Job, UnderWay
<1>3. ASSUME NEW l \in {"exec", "lock", "write", "apply", "render", "stop", "start"},
             NEW next \in Job, job' = [job EXCEPT ![s] = next], next.pc = l,
             next.from = j.from, next.to = j.to, next.old = j.old, next.new = j.new
      PROVE  /\ job'[s] = next /\ next # None /\ \A r \in Slot \ {s} : job'[r] = None
  BY <1>1, <1>3, NoneAssumption DEF TypeOK
<1>4. CASE Load(s)
  <2> DEFINE next == [j EXCEPT !.pc = "lock", !.snap = config]
  <2>1. j.pc = "exec" /\ job' = [job EXCEPT ![s] = next] /\ UNCHANGED <<lock, keeper, config, conf, recent>>
    BY <1>2, <1>4 DEF Load, At, AsksNothing, node
  <2>2. /\ next \in Job /\ next.pc = "lock" /\ next.from = j.from /\ next.to = j.to
        /\ next.old = j.old /\ next.new = j.new /\ next.snap = config
    BY <1>1 DEF Job, TypeOK
  <2>3. job'[s] = next /\ next # None /\ \A r \in Slot \ {s} : job'[r] = None
    BY <1>3, <2>1, <2>2
  <2> HIDE DEF next
  <2>4. UnderWay(s)'
    BY <1>2, <2>1, <2>2, <2>3 DEF UnderWay, Waits, Up, Alone
  <2> QED
    BY <2>4
<1>5. CASE Lock(s)
  <2> DEFINE next == [j EXCEPT !.pc = "write"]
  <2>1. /\ j.pc = "lock" /\ job' = [job EXCEPT ![s] = next] /\ lock' = s
        /\ UNCHANGED <<keeper, config, conf, recent>>
    BY <1>5 DEF Lock, At, Goto, node, UnderWay
  <2>2. /\ next \in Job /\ next.pc = "write" /\ next.from = j.from /\ next.to = j.to
        /\ next.old = j.old /\ next.new = j.new /\ next.snap = j.snap
    BY <1>1 DEF Job
  <2>3. job'[s] = next /\ next # None /\ \A r \in Slot \ {s} : job'[r] = None
    BY <1>3, <2>1, <2>2
  <2> HIDE DEF next
  <2>4. UnderWay(s)'
    BY <1>2, <2>1, <2>2, <2>3 DEF UnderWay, Waits, Up, Alone
  <2> QED
    BY <2>4
<1>6. CASE Write(s)
  <2> DEFINE next == [j EXCEPT !.pc = "apply", !.moved = (GwMoves(j) \/ GwCurrent(j))]
  <2>1. /\ j.pc = "write" /\ lock = s /\ conf = config /\ j.snap = config
        /\ config = [addr |-> j.from, net |-> j.old]
    BY <1>6 DEF Write, At, UnderWay
  <2>2. /\ VipMoves(j) = (j.from # j.to) /\ GwMoves(j) = (j.new # None) /\ ~GwCurrent(j)
        /\ Changes(j) /\ ~GivesUp(j)
    BY <1>2, <2>1 DEF VipMoves, VipKnown, GwMoves, GwCurrent, NoGateway, Changes, GivesUp
  <2>3. /\ config' = Written(j) /\ job' = [job EXCEPT ![s] = next]
        /\ UNCHANGED <<lock, keeper, recent>>
    <3>1. /\ job' = [job EXCEPT ![s].pc = "apply", ![s].moved = GwMoves(j) \/ GwCurrent(j)]
          /\ UNCHANGED <<lock, keeper, recent>>
      BY <1>6, <2>2 DEF Write
    <3>2. job' = [job EXCEPT ![s] = next]
      BY <1>1, <3>1 DEF TypeOK
    <3>3. config' = [addr |-> IF VipMoves(j) THEN j.to ELSE j.snap.addr,
                     net  |-> IF GwMoves(j) THEN j.new ELSE j.snap.net]
      BY <1>6, <2>2 DEF Write
    <3>4. j.snap.addr = j.from /\ j.snap.net = j.old
      BY <2>1
    <3>5. config' = Written(j)
      BY <2>2, <3>3, <3>4 DEF Written
    <3> QED
      BY <3>1, <3>2, <3>5
  <2>4. /\ next \in Job /\ next.pc = "apply" /\ next.from = j.from /\ next.to = j.to
        /\ next.old = j.old /\ next.new = j.new /\ next.moved = (j.new # None)
    BY <1>1, <2>2 DEF Job
  <2>5. job'[s] = next /\ next # None /\ \A r \in Slot \ {s} : job'[r] = None
    BY <1>3, <2>3, <2>4
  <2> HIDE DEF next
  <2>6. UnderWay(s)'
    BY <1>2, <2>1, <2>3, <2>4, <2>5 DEF UnderWay, Waits, Up, Alone, Written
  <2> QED
    BY <2>6
<1>7. CASE Apply(s)
  <2> DEFINE next == [j EXCEPT !.pc = "render"]
  <2>1. /\ j.pc = "apply" /\ job' = [job EXCEPT ![s] = next]
        /\ UNCHANGED <<lock, keeper, config, conf, recent>>
    BY <1>1, <1>7 DEF Apply, At, Goto
  <2>2. /\ next \in Job /\ next.pc = "render" /\ next.from = j.from /\ next.to = j.to
        /\ next.old = j.old /\ next.new = j.new /\ next.moved = j.moved
    BY <1>1 DEF Job
  <2>3. job'[s] = next /\ next # None /\ \A r \in Slot \ {s} : job'[r] = None
    BY <1>3, <2>1, <2>2
  <2> HIDE DEF next
  <2>4. UnderWay(s)'
    BY <1>2, <2>1, <2>2, <2>3 DEF UnderWay, Waits, Up, Alone, Written
  <2> QED
    BY <2>4
<1>8. CASE Render(s)
  <2> DEFINE next == [j EXCEPT !.pc = "stop"]
  <2>1. j.pc = "render" /\ config = Written(j) /\ j.moved = (j.new # None)
    BY <1>8 DEF Render, At, UnderWay
  <2>2. Rendered(j, config)
    BY <1>2, <2>1 DEF Rendered, Written
  <2>3. /\ job' = [job EXCEPT ![s] = next] /\ lock' = None /\ conf' = config
        /\ UNCHANGED <<keeper, config, recent>>
    BY <1>1, <1>8, <2>2 DEF Render, Goto
  <2>4. /\ next \in Job /\ next.pc = "stop" /\ next.from = j.from /\ next.to = j.to
        /\ next.old = j.old /\ next.new = j.new
    BY <1>1 DEF Job
  <2>5. job'[s] = next /\ next # None /\ \A r \in Slot \ {s} : job'[r] = None
    BY <1>3, <2>3, <2>4
  <2> HIDE DEF next
  <2>6. UnderWay(s)'
    BY <1>2, <2>1, <2>3, <2>4, <2>5 DEF UnderWay, Waits, Up, Alone, Written
  <2> QED
    BY <2>6
<1>9. CASE Stop(s)
  <2> DEFINE next == [j EXCEPT !.pc = "start"]
  <2>1. j.pc = "stop" /\ config = Written(j) /\ conf = config /\ lock = None
    BY <1>9 DEF Stop, At, UnderWay
  <2>2. /\ job' = [job EXCEPT ![s] = next] /\ UNCHANGED <<lock, config, conf, recent>>
    BY <1>9 DEF Stop, Goto, node
  <2>3. /\ next \in Job /\ next.pc = "start" /\ next.from = j.from /\ next.to = j.to
        /\ next.old = j.old /\ next.new = j.new
    BY <1>1 DEF Job
  <2>4. job'[s] = next /\ next # None /\ \A r \in Slot \ {s} : job'[r] = None
    BY <1>3, <2>2, <2>3
  <2>5. \A a \in Addr : keeper'[a] = None
    <3>1. Alone(j.from) /\ keeper' = [keeper EXCEPT ![j.from] = None]
      BY <1>9, <2>1 DEF Stop, Retired, UnderWay, Waits
    <3> QED
      BY <3>1 DEF Alone, TypeOK
  <2> HIDE DEF next
  <2>6. UnderWay(s)'
    BY <1>2, <2>1, <2>2, <2>3, <2>4, <2>5 DEF UnderWay, Written
  <2> QED
    BY <2>6
<1>10. CASE Start(s)
  <2>1. /\ j.pc = "start" /\ config = Written(j) /\ conf = config /\ lock = None
        /\ \A a \in Addr : keeper[a] = None
    BY <1>10 DEF Start, At, UnderWay
  <2>2. /\ keeper' = [keeper EXCEPT ![j.to] = Fresh(conf)] /\ conf.addr = j.to
        /\ UNCHANGED <<config, conf>> /\ Exit(s)
    BY <1>2, <1>10, <2>1 DEF Start, Started, Written, node
  <2>3. lock' = None /\ \A r \in Slot : job'[r] = None
    BY <1>1, <2>1, <2>2 DEF Exit, TypeOK
  <2>4. keeper'[j.to] = Fresh(conf) /\ \A a \in Addr \ {j.to} : keeper'[a] = None
    BY <1>2, <2>1, <2>2 DEF TypeOK
  <2>5. PICK a \in Addr : a = j.to
    BY <1>2
  <2>6. /\ Fresh(conf) # None /\ Fresh(conf).up /\ Fresh(conf).target = a
        /\ Fresh(conf).net = config.net /\ ~Fresh(conf).att.due /\ Fresh(conf).att.followed = None
    BY <2>1, <2>2, <2>5, FreshTyped DEF Fresh, NoAttempt, TypeOK
  <2>7. Settled(a)'
    BY <2>1, <2>2, <2>3, <2>4, <2>5, <2>6 DEF Settled, Up, Alone, Quiet
  <2> QED
    BY <2>7
<1> QED
  BY <1>1, <1>4, <1>5, <1>6, <1>7, <1>8, <1>9, <1>10 DEF Run

LEMMA FlawlessStep == TypeOK /\ Asked /\ Flawless /\ [Next]_vars => Flawless'
<1> SUFFICES ASSUME TypeOK, Asked, Flawless, [Next]_vars, pace' = "flawless"
             PROVE  (\E a \in Addr : Settled(a)') \/ (\E s \in Slot : UnderWay(s)')
  BY DEF Flawless
<1>1. pace = "flawless"
  BY DEF Next, ChangedAddress, CheckNetwork, Deadline, Watchdog, Die, Respawn, Run, Load, Lock, Write,
     Apply, Render, Stop, Start, Killed, Renumber, ThrottleEnds, Reboot, vars, world, lease
<1>2. (\E a \in Addr : Settled(a)) \/ (\E s \in Slot : UnderWay(s))
  BY <1>1 DEF Flawless
<1>3. CASE UNCHANGED vars
  <2>1. UNCHANGED <<config, conf, job, lock, keeper, recent>>
    BY <1>3 DEF vars, node, runs
  <2>2. ASSUME NEW a \in Addr, Settled(a) PROVE Settled(a)'
    BY <2>1, <2>2 DEF Settled, Up, Alone, Quiet
  <2>3. ASSUME NEW s \in Slot, UnderWay(s) PROVE UnderWay(s)'
    BY <2>1, <2>3 DEF UnderWay, Waits, Up, Alone, Written
  <2> QED
    BY <1>2, <2>2, <2>3
<1>4. ASSUME NEW b \in Addr,
             ChangedAddress(b) \/ CheckNetwork(b) \/ Deadline(b) \/ Watchdog(b) \/ Die(b) \/ Respawn(b)
      PROVE  (\E a \in Addr : Settled(a)') \/ (\E s \in Slot : UnderWay(s)')
  BY <1>1, <1>2, <1>4, SettledKeeperStep, UnderWayKeeperStep
<1>5. ASSUME NEW t \in Slot, Run(t)
      PROVE  (\E a \in Addr : Settled(a)') \/ (\E s \in Slot : UnderWay(s)')
  <2>1. ~Quiet
    BY <1>5 DEF Quiet, Run, Load, Lock, Write, Apply, Render, Stop, Start, At
  <2>2. PICK s \in Slot : UnderWay(s)
    BY <1>2, <2>1 DEF Settled
  <2> QED
    BY <1>1, <1>5, <2>2, UnderWayRun
<1>6. CASE Renumber \/ ThrottleEnds
  <2>1. UNCHANGED <<config, conf, job, lock, keeper>> /\ (UNCHANGED recent \/ Quiet)
    BY <1>1, <1>6 DEF Renumber, ThrottleEnds, Prompt, node, runs
  <2>2. ASSUME NEW a \in Addr, Settled(a) PROVE Settled(a)'
    BY <2>1, <2>2 DEF Settled, Up, Alone, Quiet
  <2>3. ASSUME NEW s \in Slot, UnderWay(s) PROVE UnderWay(s)'
    BY <2>1, <2>3 DEF UnderWay, Waits, Up, Alone, Written, Quiet
  <2> QED
    BY <1>2, <2>2, <2>3
<1>7. ASSUME Reboot \/ \E s \in Slot : Killed(s) PROVE FALSE
  BY <1>1, <1>7 DEF Reboot, Killed, Fault
<1> QED
  BY <1>3, <1>4, <1>5, <1>6, <1>7 DEF Next

-----------------------------------------------------------------------------
(* The theorems *)

LEMMA InitIInv == Init => IInv
<1> SUFFICES ASSUME Init PROVE IInv
  OBVIOUS
<1>1. TypeOK /\ Asked
  BY InitTyped
<1>2. isp \in Addr /\ config \in Setting /\ config.addr = isp /\ conf = config /\ keeper[isp] = Fresh(conf)
      /\ Fresh(conf) # None /\ \A a \in Addr \ {isp} : keeper[a] = None
  BY FreshTyped DEF Init, Setting
<1>3. Fresh(conf).up /\ Fresh(conf).target = isp /\ Fresh(conf).net = config.net /\ Fresh(conf).att = NoAttempt
  BY <1>2 DEF Fresh
<1>4. Between(isp)
  BY <1>2, <1>3 DEF Init, Between, Follower, NoAttempt
<1>5. Settled(isp)
  BY <1>2, <1>3 DEF Init, Settled, Quiet, Up, Alone, NoAttempt
<1> QED
  BY <1>1, <1>2, <1>4, <1>5 DEF IInv, Calm, Succeeded, Flawless

LEMMA StepIInv == IInv /\ [Next]_vars => IInv'
  BY StepTyped, CalmStep, SucceededStep, FlawlessStep DEF IInv

(* The invariant behind the three: in each pace what a run, the configuration  *)
(* and the keepers know of the addresses they move between.                    *)
THEOREM Invariant == Spec => []IInv
<1> QED
  BY InitIInv, StepIInv, PTL DEF Spec

(* Whatever moves and fails, in every pace, a keeper that asks for a run has  *)
(* an address to ask it from: no run of follow_update starts half described.  *)
THEOREM TypeCorrect == Spec => []TypeOK
<1>1. IInv => TypeOK
  BY DEF IInv
<1> QED
  BY <1>1, Invariant, PTL

(* However many runs are asked for, cut short or launched twice, they all     *)
(* stop the address left and start the address leased, and no run starts a   *)
(* keeper before its stop: two keepers never renew one lease.                 *)
THEOREM AtMostOneKeeperAlways == Spec => [](pace # "hasty" => AtMostOneKeeper)
<1>1. IInv => (pace # "hasty" => AtMostOneKeeper)
  <2> SUFFICES ASSUME IInv, pace # "hasty" PROVE AtMostOneKeeper
    OBVIOUS
  <2>1. CASE pace = "calm"
    <3>1. PICK o \in Addr : Between(o)
      BY <2>1 DEF IInv, Calm
    <3> QED
      BY <3>1 DEF Between, AtMostOneKeeper, Up
  <2>2. CASE pace = "flawless"
    <3>1. CASE \E a \in Addr : Settled(a)
      BY <3>1 DEF Settled, Alone, AtMostOneKeeper, Up
    <3>2. CASE \E s \in Slot : UnderWay(s)
      BY <3>2 DEF UnderWay, Waits, Alone, AtMostOneKeeper, Up
    <3> QED
      BY <2>2, <3>1, <3>2 DEF IInv, Flawless
  <2> QED
    BY <2>1, <2>2, PaceAssumption DEF IInv, TypeOK
<1> QED
  BY <1>1, Invariant, PTL

(* A follow never loses the VIP its keeper: the run that stops the old one    *)
(* starts the new one, unless it is killed between the two.                   *)
THEOREM KeeperSurvivesAlways == Spec => [](pace # "hasty" => KeeperSurvives)
<1>1. IInv => (pace # "hasty" => KeeperSurvives)
  <2> SUFFICES ASSUME IInv, pace # "hasty", Quiet, ~cut PROVE \E a \in Addr : keeper[a] # None
    BY DEF KeeperSurvives
  <2>1. CASE pace = "calm"
    BY <2>1 DEF IInv, Succeeded, Quiet, At
  <2>2. CASE pace = "flawless"
    BY <2>2 DEF IInv, Flawless, Settled, UnderWay, Quiet, Up
  <2> QED
    BY <2>1, <2>2, PaceAssumption DEF IInv, TypeOK
<1> QED
  BY <1>1, Invariant, PTL

(* A run that rewrites the gateway writes the one of the lease it follows,    *)
(* also when it is the retry of an attempt that failed to launch.             *)
THEOREM NetworkOfAddressAlways == Spec => [](pace # "hasty" => NetworkOfAddress)
<1>1. IInv => (pace # "hasty" => NetworkOfAddress)
  <2> SUFFICES ASSUME IInv, pace # "hasty", NEW s \in Slot, job[s] # None
               PROVE  job[s].new \in {None, NetOf[job[s].to]}
    BY DEF NetworkOfAddress
  <2>1. CASE pace = "calm"
    <3>1. PICK o \in Addr : Between(o)
      BY <2>1 DEF IInv, Calm
    <3> QED
      BY <3>1 DEF Between, Towards
  <2>2. CASE pace = "flawless"
    BY <2>2 DEF IInv, Flawless, Settled, UnderWay, Quiet
  <2> QED
    BY <2>1, <2>2, PaceAssumption DEF IInv, TypeOK
<1> QED
  BY <1>1, Invariant, PTL
=============================================================================
