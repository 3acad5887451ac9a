--------------------------- MODULE Keeper_proofs ---------------------------
(***************************************************************************)
(* Safety of Keeper for all timers, any grace and any number of faults.    *)
(***************************************************************************)
EXTENDS Keeper, TLAPS

(* TypeOK in two halves: the flags, and everything else. *)
Flags ==
    /\ stop \in BOOLEAN /\ recheck \in BOOLEAN /\ asap \in BOOLEAN
    /\ demote \in BOOLEAN /\ bound \in BOOLEAN /\ observed \in BOOLEAN
    /\ owed \in BOOLEAN

Values ==
    /\ follow \in Modes
    /\ carp \in Role /\ faults \in 0 .. MaxFaults
    /\ pc \in Sleeping \cup Sending \cup Other
    /\ was \in Role \cup {"unknown"} /\ reading \in Role \cup {"unknown"}
    /\ since \in Clock \cup {None} /\ leaseless \in Clock
    /\ left \in 0 .. HoldTicks /\ elapsed \in 0 .. RebindSteps

(* What each program point knows. *)
Points ==
    /\ pc = "seed" => since = None /\ was = "unknown"
    /\ pc = "passive" => was = "backup"
    /\ pc = "acquire" => was # "backup"
    /\ pc \in {"acquire", "acquiring"} => ~bound
    /\ pc \in {"chunk", "tick"} => left > 0
    /\ pc \in {"rebindwait", "rebindtick"} => elapsed < RebindSteps
    /\ observed = TRUE => follow = TRUE

(* The epoch is a master's; without adoption in a sleep it is never older    *)
(* than this master has been without a lease.                                *)
Earned ==
    since # None => was = "master" /\ (~follow => ~bound /\ since <= leaseless)

(* A promotion that is owed an exchange is on its way to one. *)
Owing ==
    owed =>
      /\ was = "master"
      /\ \/ /\ asap
            /\ pc \in {"head", "hold", "tick", "rebindtick", "acquire", "unboundwait",
                       "error", "shutdown"}
         \/ pc = "t1"
         \/ stop /\ pc \in {"rebind", "head", "shutdown"}

IInv == Flags /\ Values /\ Points /\ Earned /\ Owing

USE TimersAssumption, GraceAssumption, OptionAssumption, FaultsAssumption, NoneAssumption

LEMMA TypeHalves == TypeOK <=> Flags /\ Values
BY DEF TypeOK, Flags, Values

(* A heartbeat only ever starts the epoch anew, keeps it or drops it. *)
LEMMA HeartbeatEffect ==
    ASSUME NEW w, NEW b, Heartbeat(w, b)
    PROVE  /\ demote' \in BOOLEAN
           /\ w # "master" \/ b => since' = None
           /\ w = "master" /\ ~b => since' = IF since = None THEN 0 ELSE since
           /\ demote' => since' # None /\ since' > Grace
BY DEF Heartbeat, Epoch

LEMMA InitIInv == Init => IInv
<1> SUFFICES ASSUME Init PROVE IInv
  OBVIOUS
<1> USE DEF Init
<1>1. Flags
  BY DEF Flags
<1>2. Values
  BY DEF Values, Role, Sleeping, Sending, Other, Clock
<1>3. Points /\ Earned /\ Owing
  BY DEF Points, Earned, Owing, Sending
<1> QED
  BY <1>1, <1>2, <1>3 DEF IInv

(* One step per action, one sub-step per part of IInv. *)
LEMMA StepIInv == IInv /\ [Next]_vars => IInv'
<1> SUFFICES ASSUME IInv, [Next]_vars PROVE IInv'
  OBVIOUS
<1> USE DEF IInv, env, watcher, flags, timers, lease, hb, history
<1>1. CASE LogInitial
  <2> USE <1>1 DEF LogInitial, Record, Transmits, Probe, Fault
  <2>1. Flags'
    BY DEF Flags
  <2>2. Values'
    BY DEF Values, Points, Flags, Role, Sleeping, Sending, Other, Clock
  <2>3. Points'
    BY DEF Points, Values, Flags, Role, Sleeping, Sending, Other, Clock
  <2>4. Earned'
    BY DEF Earned, Points, Values, Role, Clock, Sleeping, Sending, Other
  <2>5. Owing'
    BY DEF Owing, Points, Values, Role, Sleeping, Sending
  <2> QED
    BY <2>1, <2>2, <2>3, <2>4, <2>5
<1>2. CASE Shutdown
  <2> USE <1>2 DEF Shutdown, Record, Transmits
  <2>1. Flags'
    BY DEF Flags
  <2>2. Values'
    BY DEF Values, Points, Flags, Role, Sleeping, Sending, Other, Clock
  <2>3. Points'
    BY DEF Points, Values, Flags, Role, Sleeping, Sending, Other, Clock
  <2>4. Earned'
    BY DEF Earned, Points, Values, Role, Clock, Sleeping, Sending, Other
  <2>5. Owing'
    BY DEF Owing, Points, Values, Role, Sleeping, Sending
  <2> QED
    BY <2>1, <2>2, <2>3, <2>4, <2>5
<1>3. CASE Recover
  <2> USE <1>3 DEF Recover, Record, Transmits
  <2>1. Flags'
    BY HeartbeatEffect DEF Flags
  <2>2. Values'
    BY HeartbeatEffect DEF Values, Points, Flags, Role, Sleeping, Sending, Other, Clock
  <2>3. Points'
    BY HeartbeatEffect DEF Points, Values, Flags, Role, Sleeping, Sending, Other, Clock
  <2>4. Earned'
    BY HeartbeatEffect DEF Earned, Points, Values, Role, Clock, Sleeping, Sending, Other
  <2>5. Owing'
    BY HeartbeatEffect DEF Owing, Points, Values, Role, Sleeping, Sending
  <2> QED
    BY <2>1, <2>2, <2>3, <2>4, <2>5
<1>4. CASE Head
  <2> USE <1>4 DEF Head, Record, Transmits, Probe, Fault, Poll, PollRaises, Armed, Promotes, Dispatch, Gate
  <2>1. Flags'
    BY HeartbeatEffect DEF Flags
  <2>2. Values'
    BY HeartbeatEffect DEF Values, Points, Flags, Role, Sleeping, Sending, Other, Clock
  <2>3. Points'
    BY HeartbeatEffect DEF Points, Values, Flags, Role, Sleeping, Sending, Other, Clock
  <2>4. Earned'
    BY HeartbeatEffect DEF Earned, Points, Values, Role, Clock, Sleeping, Sending, Other
  <2>5. Owing'
    BY HeartbeatEffect DEF Owing, Points, Values, Role, Sleeping, Sending
  <2> QED
    BY <2>1, <2>2, <2>3, <2>4, <2>5
<1>5. CASE HeadStops
  <2> USE <1>5 DEF HeadStops, Record, Transmits
  <2>1. Flags'
    BY DEF Flags
  <2>2. Values'
    BY DEF Values, Points, Flags, Role, Sleeping, Sending, Other, Clock
  <2>3. Points'
    BY DEF Points, Values, Flags, Role, Sleeping, Sending, Other, Clock
  <2>4. Earned'
    BY DEF Earned, Points, Values, Role, Clock, Sleeping, Sending, Other
  <2>5. Owing'
    BY DEF Owing, Points, Values, Role, Sleeping, Sending
  <2> QED
    BY <2>1, <2>2, <2>3, <2>4, <2>5
<1>6. CASE SleepStops
  <2> USE <1>6 DEF SleepStops, Record, Transmits, Broken
  <2>1. Flags'
    BY DEF Flags
  <2>2. Values'
    BY DEF Values, Points, Flags, Role, Sleeping, Sending, Other, Clock
  <2>3. Points'
    BY DEF Points, Values, Flags, Role, Sleeping, Sending, Other, Clock
  <2>4. Earned'
    BY DEF Earned, Points, Values, Role, Clock, Sleeping, Sending, Other
  <2>5. Owing'
    BY DEF Owing, Points, Values, Role, Sleeping, Sending
  <2> QED
    BY <2>1, <2>2, <2>3, <2>4, <2>5
<1>7. CASE Recheck
  <2> USE <1>7 DEF Recheck, Record, Transmits, Probe, Fault, Poll, PollRaises, Armed, Promotes, RenewPending, Woken
  <2>1. Flags'
    BY HeartbeatEffect DEF Flags
  <2>2. Values'
    BY HeartbeatEffect DEF Values, Points, Flags, Role, Sleeping, Sending, Other, Clock
  <2>3. Points'
    BY HeartbeatEffect DEF Points, Values, Flags, Role, Sleeping, Sending, Other, Clock
  <2>4. Earned'
    BY HeartbeatEffect DEF Earned, Points, Values, Role, Clock, Sleeping, Sending, Other
  <2>5. Owing'
    BY HeartbeatEffect DEF Owing, Points, Values, Role, Sleeping, Sending
  <2> QED
    BY <2>1, <2>2, <2>3, <2>4, <2>5
<1>8. CASE HoldTop
  <2> USE <1>8 DEF HoldTop, Record, Transmits, HoldOver, RenewPending
  <2>1. Flags'
    BY DEF Flags
  <2>2. Values'
    BY DEF Values, Points, Flags, Role, Sleeping, Sending, Other, Clock
  <2>3. Points'
    BY DEF Points, Values, Flags, Role, Sleeping, Sending, Other, Clock
  <2>4. Earned'
    BY DEF Earned, Points, Values, Role, Clock, Sleeping, Sending, Other
  <2>5. Owing'
    BY DEF Owing, Points, Values, Role, Sleeping, Sending
  <2> QED
    BY <2>1, <2>2, <2>3, <2>4, <2>5
<1>9. CASE HoldTick
  <2> USE <1>9 DEF HoldTick, Record, Transmits, Probe, Fault, Poll, PollRaises, Armed, Promotes
  <2>1. Flags'
    BY HeartbeatEffect DEF Flags
  <2>2. Values'
    BY HeartbeatEffect DEF Values, Points, Flags, Role, Sleeping, Sending, Other, Clock
  <2>3. Points'
    BY HeartbeatEffect DEF Points, Values, Flags, Role, Sleeping, Sending, Other, Clock
  <2>4. Earned'
    BY HeartbeatEffect DEF Earned, Points, Values, Role, Clock, Sleeping, Sending, Other
  <2>5. Owing'
    BY HeartbeatEffect DEF Owing, Points, Values, Role, Sleeping, Sending
  <2> QED
    BY <2>1, <2>2, <2>3, <2>4, <2>5
<1>10. CASE SendRenew
  <2> USE <1>10 DEF SendRenew, Record, Transmits, MayRenew
  <2>1. Flags'
    BY DEF Flags
  <2>2. Values'
    BY DEF Values, Points, Flags, Role, Sleeping, Sending, Other, Clock
  <2>3. Points'
    BY DEF Points, Values, Flags, Role, Sleeping, Sending, Other, Clock
  <2>4. Earned'
    BY DEF Earned, Points, Values, Role, Clock, Sleeping, Sending, Other
  <2>5. Owing'
    BY DEF Owing, Points, Values, Role, Sleeping, Sending
  <2> QED
    BY <2>1, <2>2, <2>3, <2>4, <2>5
<1>11. CASE Extended
  <2> USE <1>11 DEF Extended, Record, Transmits, Fault
  <2>1. Flags'
    BY HeartbeatEffect DEF Flags
  <2>2. Values'
    BY HeartbeatEffect DEF Values, Points, Flags, Role, Sleeping, Sending, Other, Clock
  <2>3. Points'
    BY HeartbeatEffect DEF Points, Values, Flags, Role, Sleeping, Sending, Other, Clock
  <2>4. Earned'
    BY HeartbeatEffect DEF Earned, Points, Values, Role, Clock, Sleeping, Sending, Other
  <2>5. Owing'
    BY HeartbeatEffect DEF Owing, Points, Values, Role, Sleeping, Sending
  <2> QED
    BY <2>1, <2>2, <2>3, <2>4, <2>5
<1>12. CASE CheckObserved
  <2> USE <1>12 DEF CheckObserved, Record, Transmits
  <2>1. Flags'
    BY DEF Flags
  <2>2. Values'
    BY DEF Values, Role, Sleeping, Sending, Other, Clock
  <2>3. Points'
    BY DEF Points, Values, Flags, Role, Sleeping, Sending, Other, Clock
  <2>4. Earned'
    BY DEF Earned, Points, Values, Role, Clock, Sleeping, Sending, Other
  <2>5. Owing'
    BY DEF Owing, Points, Values, Role, Sleeping, Sending
  <2> QED
    BY <2>1, <2>2, <2>3, <2>4, <2>5
<1>13. CASE Revoked
  <2> USE <1>13 DEF Revoked, Record, Transmits
  <2>1. Flags'
    BY DEF Flags
  <2>2. Values'
    BY DEF Values, Points, Flags, Role, Sleeping, Sending, Other, Clock
  <2>3. Points'
    BY DEF Points, Values, Flags, Role, Sleeping, Sending, Other, Clock
  <2>4. Earned'
    BY DEF Earned, Points, Values, Role, Clock, Sleeping, Sending, Other
  <2>5. Owing'
    BY DEF Owing, Points, Values, Role, Sleeping, Sending
  <2> QED
    BY <2>1, <2>2, <2>3, <2>4, <2>5
<1>14. CASE Unanswered
  <2> USE <1>14 DEF Unanswered, Record, Transmits
  <2>1. Flags'
    BY DEF Flags
  <2>2. Values'
    BY DEF Values, Points, Flags, Role, Sleeping, Sending, Other, Clock
  <2>3. Points'
    BY DEF Points, Values, Flags, Role, Sleeping, Sending, Other, Clock
  <2>4. Earned'
    BY DEF Earned, Points, Values, Role, Clock, Sleeping, Sending, Other
  <2>5. Owing'
    BY DEF Owing, Points, Values, Role, Sleeping, Sending
  <2> QED
    BY <2>1, <2>2, <2>3, <2>4, <2>5
<1>15. CASE RebindTop
  <2> USE <1>15 DEF RebindTop, Record, Transmits
  <2>1. Flags'
    BY DEF Flags
  <2>2. Values'
    BY DEF Values, Points, Flags, Role, Sleeping, Sending, Other, Clock
  <2>3. Points'
    BY DEF Points, Values, Flags, Role, Sleeping, Sending, Other, Clock
  <2>4. Earned'
    BY DEF Earned, Points, Values, Role, Clock, Sleeping, Sending, Other
  <2>5. Owing'
    BY DEF Owing, Points, Values, Role, Sleeping, Sending
  <2> QED
    BY <2>1, <2>2, <2>3, <2>4, <2>5
<1>16. CASE Expire
  <2> USE <1>16 DEF Expire, Record, Transmits
  <2>1. Flags'
    BY DEF Flags
  <2>2. Values'
    BY DEF Values, Points, Flags, Role, Sleeping, Sending, Other, Clock
  <2>3. Points'
    BY DEF Points, Values, Flags, Role, Sleeping, Sending, Other, Clock
  <2>4. Earned'
    BY DEF Earned, Points, Values, Role, Clock, Sleeping, Sending, Other
  <2>5. Owing'
    BY DEF Owing, Points, Values, Role, Sleeping, Sending
  <2> QED
    BY <2>1, <2>2, <2>3, <2>4, <2>5
<1>17. CASE RebindTick
  <2> USE <1>17 DEF RebindTick, Record, Transmits, Probe, Fault, Poll, PollRaises, Armed, Promotes, RebindStops
  <2>1. Flags'
    BY HeartbeatEffect DEF Flags
  <2>2. Values'
    BY HeartbeatEffect DEF Values, Points, Flags, Role, Sleeping, Sending, Other, Clock
  <2>3. Points'
    BY HeartbeatEffect DEF Points, Values, Flags, Role, Sleeping, Sending, Other, Clock
  <2>4. Earned'
    BY HeartbeatEffect DEF Earned, Points, Values, Role, Clock, Sleeping, Sending, Other
  <2>5. Owing'
    BY HeartbeatEffect DEF Owing, Points, Values, Role, Sleeping, Sending
  <2> QED
    BY <2>1, <2>2, <2>3, <2>4, <2>5
<1>18. CASE SendAcquire
  <2> USE <1>18 DEF SendAcquire, Record, Transmits, Fault
  <2>1. Flags'
    BY DEF Flags
  <2>2. Values'
    BY DEF Values, Points, Flags, Role, Sleeping, Sending, Other, Clock
  <2>3. Points'
    BY DEF Points, Values, Flags, Role, Sleeping, Sending, Other, Clock
  <2>4. Earned'
    BY DEF Earned, Points, Values, Role, Clock, Sleeping, Sending, Other
  <2>5. Owing'
    BY DEF Owing, Points, Values, Role, Sleeping, Sending
  <2> QED
    BY <2>1, <2>2, <2>3, <2>4, <2>5
<1>19. CASE Acquired
  <2> USE <1>19 DEF Acquired, Record, Transmits, Fault
  <2>1. Flags'
    BY HeartbeatEffect DEF Flags
  <2>2. Values'
    BY DEF Heartbeat, Epoch, Values, Points, Flags, Role, Sleeping, Sending, Other, Clock
  <2>3. Points'
    BY HeartbeatEffect DEF Points, Values, Flags, Role, Sleeping, Sending, Other, Clock
  <2>4. Earned'
    BY HeartbeatEffect DEF Earned, Points, Values, Role, Clock, Sleeping, Sending, Other
  <2>5. Owing'
    BY HeartbeatEffect DEF Owing, Points, Values, Role, Sleeping, Sending
  <2> QED
    BY <2>1, <2>2, <2>3, <2>4, <2>5
<1>20. CASE NotAcquired
  <2> USE <1>20 DEF NotAcquired, Record, Transmits
  <2>1. Flags'
    BY DEF Flags
  <2>2. Values'
    BY DEF Values, Points, Flags, Role, Sleeping, Sending, Other, Clock
  <2>3. Points'
    BY DEF Points, Values, Flags, Role, Sleeping, Sending, Other, Clock
  <2>4. Earned'
    BY DEF Earned, Points, Values, Role, Clock, Sleeping, Sending, Other
  <2>5. Owing'
    BY DEF Owing, Points, Values, Role, Sleeping, Sending
  <2> QED
    BY <2>1, <2>2, <2>3, <2>4, <2>5
<1>21. CASE Start
  <2> USE <1>21 DEF Start, Record, Transmits
  <2>1. Flags'
    BY DEF Flags
  <2>2. Values'
    BY DEF Values, Points, Flags, Role, Sleeping, Sending, Other, Clock
  <2>3. Points'
    BY DEF Points, Values, Flags, Role, Sleeping, Sending, Other, Clock
  <2>4. Earned'
    BY DEF Earned, Points, Values, Role, Clock, Sleeping, Sending, Other
  <2>5. Owing'
    BY DEF Owing, Points, Values, Role, Sleeping, Sending
  <2> QED
    BY <2>1, <2>2, <2>3, <2>4, <2>5
<1>22. CASE Crash
  <2> USE <1>22 DEF Crash, Record, Transmits, Fault
  <2>1. Flags'
    BY DEF Flags
  <2>2. Values'
    BY DEF Values, Points, Flags, Role, Sleeping, Sending, Other, Clock
  <2>3. Points'
    BY DEF Points, Values, Flags, Role, Sleeping, Sending, Other, Clock
  <2>4. Earned'
    BY DEF Earned, Points, Values, Role, Clock, Sleeping, Sending, Other
  <2>5. Owing'
    BY DEF Owing, Points, Values, Role, Sleeping, Sending
  <2> QED
    BY <2>1, <2>2, <2>3, <2>4, <2>5
<1>23. CASE Timeout
  <2> USE <1>23 DEF Timeout, Record, Transmits, Woken
  <2>1. Flags'
    BY DEF Flags
  <2>2. Values'
    BY DEF Values, Points, Flags, Role, Sleeping, Sending, Other, Clock
  <2>3. Points'
    BY DEF Points, Values, Flags, Role, Sleeping, Sending, Other, Clock
  <2>4. Earned'
    BY DEF Earned, Points, Values, Role, Clock, Sleeping, Sending, Other
  <2>5. Owing'
    BY DEF Owing, Points, Values, Role, Sleeping, Sending
  <2> QED
    BY <2>1, <2>2, <2>3, <2>4, <2>5
<1>24. CASE Failover
  <2> USE <1>24 DEF Failover, Record, Transmits
  <2>1. Flags'
    BY DEF Flags
  <2>2. Values'
    BY DEF Values, Points, Flags, Role, Sleeping, Sending, Other, Clock
  <2>3. Points'
    BY DEF Points, Values, Flags, Role, Sleeping, Sending, Other, Clock
  <2>4. Earned'
    BY DEF Earned, Points, Values, Role, Clock, Sleeping, Sending, Other
  <2>5. Owing'
    BY DEF Owing, Points, Values, Role, Sleeping, Sending
  <2> QED
    BY <2>1, <2>2, <2>3, <2>4, <2>5
<1>25. CASE Observe
  <2> USE <1>25 DEF Observe, Record, Transmits
  <2>1. Flags'
    BY DEF Flags
  <2>2. Values'
    <3>1. follow' \in Modes
      BY DEF Values
    <3> HIDE DEF Observe
    <3>2. UNCHANGED <<carp, faults, pc, was, since, left, elapsed, reading>> /\ Record
      BY <1>25 DEF Observe
    <3> QED
      BY <3>1, <3>2 DEF Values, Role, Sleeping, Sending, Other, Clock
  <2>3. Points'
    BY DEF Points, Values, Flags, Role, Sleeping, Sending, Other, Clock
  <2>4. Earned'
    BY DEF Earned, Points, Values, Role, Clock, Sleeping, Sending, Other
  <2>5. Owing'
    BY DEF Owing, Points, Values, Role, Sleeping, Sending
  <2> QED
    BY <2>1, <2>2, <2>3, <2>4, <2>5
<1>26. CASE Sigterm
  <2> USE <1>26 DEF Sigterm, Record, Transmits
  <2>1. Flags'
    BY DEF Flags
  <2>2. Values'
    BY DEF Values, Points, Flags, Role, Sleeping, Sending, Other, Clock
  <2>3. Points'
    BY DEF Points, Values, Flags, Role, Sleeping, Sending, Other, Clock
  <2>4. Earned'
    BY DEF Earned, Points, Values, Role, Clock, Sleeping, Sending, Other
  <2>5. Owing'
    BY DEF Owing, Points, Values, Role, Sleeping, Sending
  <2> QED
    BY <2>1, <2>2, <2>3, <2>4, <2>5
<1>27. CASE Tick
  <2> USE <1>27 DEF Tick, Record, Transmits, Later, Waiting
  <2>1. Flags'
    BY DEF Flags
  <2>2. Values'
    BY DEF Values, Points, Flags, Role, Sleeping, Sending, Other, Clock
  <2>3. Points'
    BY DEF Points, Values, Flags, Role, Sleeping, Sending, Other, Clock
  <2>4. Earned'
    BY DEF Earned, Points, Values, Role, Clock, Sleeping, Sending, Other
  <2>5. Owing'
    BY DEF Owing, Points, Values, Role, Sleeping, Sending
  <2> QED
    BY <2>1, <2>2, <2>3, <2>4, <2>5
<1>28. CASE UNCHANGED vars
  BY <1>28 DEF vars, Flags, Values, Points, Earned, Owing
<1> QED
  BY <1>1, <1>2, <1>3, <1>4, <1>5, <1>6, <1>7, <1>8, <1>9, <1>10, <1>11, <1>12, <1>13, <1>14, <1>15, <1>16, <1>17, <1>18, <1>19, <1>20, <1>21, <1>22, <1>23, <1>24, <1>25, <1>26, <1>27, <1>28 DEF Next, Loop, World

LEMMA Invariant == Spec => []IInv
<1>1. IInv /\ [Next]_vars => IInv'
  BY StepIInv
<1> QED
  BY <1>1, InitIInv, PTL DEF Spec

(* Type correctness of the keeper's state in every behaviour. *)
THEOREM TypeCorrect == Spec => []TypeOK
<1>1. IInv => TypeOK
  BY TypeHalves DEF IInv
<1> QED
  BY <1>1, Invariant, PTL

(* No DHCP exchange starts while the keeper knows itself backup, but for a   *)
(* REBIND whose own probe failed: the head gates acquire (its points know    *)
(* was # "backup"), T1 asks again, and a REBIND asks the probe.              *)
THEOREM BackupSilenceAlways == Spec => BackupSilence
<1> DEFINE Silent == Transmits => was' # "backup" \/ (pc' = "rebinding" /\ reading' = "unknown")
<1>1. IInv /\ [Next]_vars => [Silent]_vars
  <2> SUFFICES ASSUME IInv, Next, Transmits PROVE Silent
    OBVIOUS
  <2> USE DEF Transmits, Sending, env, watcher, history, lease
  <2>1. CASE SendRenew
    BY <2>1 DEF SendRenew, MayRenew
  <2>2. CASE SendAcquire
    BY <2>2 DEF SendAcquire, IInv, Points
  <2>3. CASE RebindTick
    BY <2>3 DEF RebindTick, RebindStops, Poll, PollRaises, Probe, Role
  <2>4. CASE Head
    BY <2>4 DEF Head, Dispatch, PollRaises
  <2>5. CASE Timeout \/ SleepStops \/ Recheck
    BY <2>5 DEF Timeout, SleepStops, Recheck, Woken, Broken, PollRaises, Sleeping
  <2>6. CASE ~(SendRenew \/ SendAcquire \/ RebindTick \/ Head \/ Timeout \/ SleepStops \/ Recheck)
    BY <2>6 DEF Next, Loop, World, LogInitial, Shutdown, Recover, HeadStops, HoldTop,
       HoldTick, PollRaises, Extended, Revoked, Unanswered, RebindTop, Expire, Acquired,
       NotAcquired, Start, Crash, Failover, CheckObserved, Observe, Sigterm, Tick
  <2> QED
    BY <2>1, <2>2, <2>3, <2>4, <2>5, <2>6
<1> QED
  BY <1>1, Invariant, PTL DEF BackupSilence, Spec

(* The heartbeat asks for a demotion only after an unbroken lease-less       *)
(* mastership longer than the grace: the epoch never starts earlier than it  *)
(* (Earned), and only a heartbeat sets the flag.  For the keepers that may   *)
(* demote: their policy does not follow.                                     *)
THEOREM DemotionEarnedAlways == Spec => DemotionEarned
<1> DEFINE Due == ~follow /\ demote' /\ ~demote => leaseless > Grace
<1>1. IInv /\ [Next]_vars => [Due]_vars
  <2> SUFFICES ASSUME IInv, Next, ~follow, demote', ~demote PROVE leaseless > Grace
    OBVIOUS
  <2> USE DEF hb, lease, env
  <2>1. PICK w \in Role \cup {"unknown"}, b \in BOOLEAN :
          /\ Heartbeat(w, b)
          /\ w = "master" /\ ~b /\ since # None => since <= leaseless
    <3>1. CASE Head
      BY <3>1 DEF Head, Poll, PollRaises, IInv, Earned, Flags, Values, Role
    <3>2. CASE HoldTick
      BY <3>2 DEF HoldTick, Poll, PollRaises, IInv, Earned, Flags, Values, Role
    <3>3. CASE RebindTick
      BY <3>3 DEF RebindTick, Poll, PollRaises, IInv, Earned, Flags, Values, Role
    <3>4. CASE Recheck
      BY <3>4 DEF Recheck, Poll, PollRaises, IInv, Earned, Flags, Values, Role
    <3>5. CASE Recover \/ Extended \/ Acquired
      BY <3>5 DEF Recover, Extended, Acquired, IInv, Earned, Flags, Values, Role
    <3>6. CASE ~(Head \/ HoldTick \/ RebindTick \/ Recheck \/ Recover \/ Extended \/ Acquired)
      BY <3>6 DEF Next, Loop, World, LogInitial, Shutdown, HeadStops, Timeout, SleepStops,
         HoldTop, SendRenew, Revoked, Unanswered, RebindTop, Expire, SendAcquire,
         NotAcquired, Start, Crash, Failover, CheckObserved, Observe, Sigterm, Tick
    <3> QED
      BY <3>1, <3>2, <3>3, <3>4, <3>5, <3>6
  <2>2. since' # None /\ since' > Grace /\ since' = Epoch(w, b)
    BY <2>1 DEF Heartbeat
  <2>3. w = "master" /\ ~b /\ since # None /\ since > Grace
    BY <2>2 DEF Epoch
  <2> QED
    BY <2>1, <2>3 DEF IInv, Values, Clock
<1> QED
  BY <1>1, Invariant, PTL DEF DemotionEarned, Spec

(* A keeper that owes a renew never waits for a timer with its lease: Owing  *)
(* names every point where the debt can stand, and the only sleep among them *)
(* is the unbound one.                                                       *)
THEOREM PromotionNotSleptOutAlways == Spec => PromotionNotSleptOut
<1> DEFINE Prompt == Timeout /\ pc # "unboundwait" => ~owed
<1>1. IInv /\ [Next]_vars => [Prompt]_vars
  BY DEF IInv, Owing, Timeout, Sleeping
<1> QED
  BY <1>1, Invariant, PTL DEF PromotionNotSleptOut, Spec
-----------------------------------------------------------------------------
(* The refinement of FailStop. *)

(* A heartbeat of the loop is one of FailStop's, whatever else its step learnt. *)
LEMMA BeatIsBeat ==
    ASSUME IInv, Heartbeat(was', bound'), was' \in Role \cup {was}, bound' \in BOOLEAN,
           UNCHANGED follow
    PROVE  Token!Beat
<1>1. since \in Clock \cup {None}
  BY DEF IInv, Values
<1>2. CASE was' = "master" /\ ~bound'
  <2>1. since' = IF since = None THEN 0 ELSE since
    BY <1>2 DEF Heartbeat, Epoch
  <2>2. since' # None /\ demote' = (since' > Grace)
    BY <1>1, <2>1 DEF Heartbeat, Clock
  <2>3. Stage(since') = IF Stage(since) = "none" THEN "running" ELSE Stage(since)
    BY <1>1, <2>1 DEF Stage, Clock
  <2> QED
    BY <1>2, <2>2, <2>3 DEF Token!Beat, Token!Leaseless, Token!Definite, Role, Stage
<1>3. CASE ~(was' = "master" /\ ~bound')
  <2>1. since' = None /\ demote' = FALSE
    BY <1>3 DEF Heartbeat, Epoch
  <2> QED
    BY <1>3, <2>1 DEF Token!Beat, Token!Leaseless, Token!Definite, Role, Stage
<1> QED
  BY <1>2, <1>3

(* A step that writes no heartbeat may only learn a first role. *)
LEMMA QuietIsLearn ==
    ASSUME UNCHANGED <<hb, follow, bound>>, was' = was \/ (was = "unknown" /\ was' \in Role)
    PROVE  [Token!Next]_(Token!vars)
BY DEF hb, Token!Next, Token!Learn, Token!vars, Token!Definite, Role

LEMMA PollIsToken ==
    ASSUME IInv, NEW r \in Role \cup {"unknown"}, NEW hbs \in BOOLEAN, Poll(r, hbs),
           UNCHANGED <<follow, bound>>
    PROVE  [Token!Next]_(Token!vars)
<1>1. was' \in Role \cup {was} /\ bound' \in BOOLEAN
  BY DEF Poll, IInv, Flags
<1>2. CASE Heartbeat(was', bound)
  BY <1>1, <1>2, BeatIsBeat DEF Token!Next
<1>3. CASE UNCHANGED hb /\ was \in {"unknown", was'}
  BY <1>1, <1>3, QuietIsLearn
<1> QED
  BY <1>2, <1>3 DEF Poll

LEMMA TokenInit == Init => Token!Init
BY DEF Init, Token!Init, Token!Definite, Stage, Role

LEMMA TokenStep == IInv /\ [Next]_vars => [Token!Next]_(Token!vars)
<1> SUFFICES ASSUME IInv, [Next]_vars PROVE [Token!Next]_(Token!vars)
  OBVIOUS
<1>0. was \in Role \cup {"unknown"} /\ bound \in BOOLEAN /\ follow \in BOOLEAN
  BY DEF IInv, Values, Flags
<1>1. CASE Head
  <2>1. PICK r \in Role \cup {"unknown"} :
           LET role == IF r = "unknown" THEN was ELSE r
           IN  \/ Poll(role, Gate(role) \/ ~bound)
               \/ PollRaises(role) /\ UNCHANGED hb
    BY <1>1 DEF Head
  <2>2. UNCHANGED <<follow, bound>>
    BY <1>1 DEF Head, env, lease
  <2> QED
    BY <1>0, <2>1, <2>2, PollIsToken, QuietIsLearn DEF PollRaises, Gate
<1>2. CASE Recheck
  <2>1. PICK r \in Role \cup {"unknown"} : Poll(r, FALSE) \/ (PollRaises(r) /\ UNCHANGED hb)
    BY <1>2 DEF Recheck
  <2>2. UNCHANGED <<follow, bound>>
    BY <1>2 DEF Recheck, env, lease
  <2> QED
    BY <2>1, <2>2, PollIsToken, QuietIsLearn DEF PollRaises
<1>3. CASE HoldTick \/ RebindTick
  <2>1. PICK r \in Role \cup {"unknown"} : Poll(r, TRUE) \/ (PollRaises(r) /\ Heartbeat(was, bound))
    BY <1>3 DEF HoldTick, RebindTick
  <2>2. UNCHANGED <<follow, bound>>
    BY <1>3 DEF HoldTick, RebindTick, env, lease
  <2> QED
    BY <1>0, <2>1, <2>2, PollIsToken, BeatIsBeat DEF PollRaises, Token!Next
<1>4. CASE Recover \/ Extended \/ Acquired
  <2>1. Heartbeat(was', bound') /\ was' = was /\ bound' \in BOOLEAN /\ UNCHANGED follow
    BY <1>0, <1>4 DEF Recover, Extended, Acquired, watcher, lease, env
  <2> QED
    BY <2>1, BeatIsBeat DEF Token!Next
<1>5. CASE Revoked \/ Expire
  BY <1>5 DEF Revoked, Expire, watcher, hb, env, Token!Next, Token!Learn
<1>6. CASE CheckObserved
  <2>1. follow = TRUE /\ bound' \in {bound, TRUE} /\ UNCHANGED <<was, hb, follow>>
    BY <1>6 DEF CheckObserved, IInv, Points, Flags, watcher, env
  <2> QED
    BY <1>0, <2>1 DEF hb, Token!Next, Token!Learn, Token!vars
<1>7. CASE Start
  BY <1>7 DEF Start, env, Stage, Token!Next, Token!Restart, Token!Definite
<1>8. CASE LogInitial
  BY <1>0, <1>8, QuietIsLearn DEF LogInitial, IInv, Points, env, lease
<1>9. CASE Tick
  <2>1. since \in Clock \cup {None} /\ since' = IF since = None THEN None ELSE Later(since)
    BY <1>9 DEF Tick, IInv, Values
  <2>2. \/ Stage(since') = Stage(since)
        \/ Stage(since) = "running" /\ Stage(since') = "over"
    BY <2>1 DEF Stage, Later, Clock
  <2>3. UNCHANGED <<follow, was, bound, demote>>
    BY <1>9 DEF Tick, env, watcher, lease
  <2> QED
    BY <2>2, <2>3 DEF Token!Next, Token!Ripen, Token!vars, Stage
<1>10. CASE UNCHANGED <<follow, was, bound, hb>>
  BY <1>10, QuietIsLearn
<1>11. \/ Shutdown \/ HeadStops \/ SleepStops \/ HoldTop \/ SendRenew \/ Unanswered \/ RebindTop
       \/ SendAcquire \/ NotAcquired \/ Crash \/ Timeout \/ Failover \/ Observe \/ Sigterm
       \/ UNCHANGED vars
       => UNCHANGED <<follow, was, bound, hb>>
  BY DEF Shutdown, HeadStops, SleepStops, HoldTop, SendRenew, Unanswered, RebindTop, SendAcquire,
         NotAcquired, Crash, Timeout, Failover, Observe, Sigterm, vars, env, watcher, lease, hb
<1> QED
  BY <1>1, <1>2, <1>3, <1>4, <1>5, <1>6, <1>7, <1>8, <1>9, <1>10, <1>11 DEF Next, Loop, World

(* RoleWatcher.demote_ok as the loop drives it keeps FailStop's promise for   *)
(* any timers, any grace and any failures: the safety half of                 *)
(* ImplementsFailStop.                                                        *)
THEOREM KeeperKeepsFailStop == Spec => Token!Safe
BY TokenInit, TokenStep, Invariant, PTL DEF Spec, Token!Safe

(* What FailStop promises, FailStop alone implies: every step of it keeps the *)
(* grace that of a lease-less master.                                         *)
LEMMA PromiseStep == Token!GraceIsLeaseless /\ [Token!Next]_(Token!vars) => Token!GraceIsLeaseless'
BY DEF Token!GraceIsLeaseless, Token!Next, Token!Beat, Token!Ripen, Token!Learn, Token!Restart,
       Token!Retract, Token!Leaseless, Token!Definite, Token!vars

LEMMA PromiseKept == Token!Safe => []Token!GraceIsLeaseless
<1>1. Token!Init => Token!GraceIsLeaseless
  BY DEF Token!Init, Token!GraceIsLeaseless
<1> QED
  BY <1>1, PromiseStep, PTL DEF Token!Safe

(* In every state of the loop a grace under way is that of a master, and of   *)
(* one without a lease unless it follows (demote_ok clears the epoch).        *)
THEOREM GraceIsLeaselessAlways == Spec => []Token!GraceIsLeaseless
BY KeeperKeepsFailStop, PromiseKept, PTL

(* The heartbeat orders a demotion only of a master whose grace ran out and   *)
(* that has no lease as it is written, followers included (_hb, demote_ok).   *)
THEOREM OrderedWhenOverAlways == Spec => Token!OrderedWhenOver
<1>1. ASSUME Token!GraceIsLeaseless, [Token!Next]_(Token!vars), demote', ~demote
      PROVE  was = "master" /\ Token!Leaseless' /\ Stage(since) = "over"
  <2>1. Token!Beat
    BY <1>1 DEF Token!Next, Token!Ripen, Token!Learn, Token!Restart, Token!Retract, Token!vars
  <2>2. Stage(since) = "over" /\ Token!Leaseless'
    BY <1>1, <2>1 DEF Token!Beat
  <2> QED
    BY <1>1, <2>2 DEF Token!GraceIsLeaseless
<1>2. Token!GraceIsLeaseless /\ [Token!Next]_(Token!vars) =>
        [demote' /\ ~demote => was = "master" /\ Token!Leaseless' /\ Stage(since) = "over"]_(Token!vars)
  BY <1>1
<1> QED
  BY <1>2, KeeperKeepsFailStop, GraceIsLeaselessAlways, PTL DEF Token!Safe, Token!OrderedWhenOver
=============================================================================
