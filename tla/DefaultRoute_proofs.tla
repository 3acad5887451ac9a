------------------------ MODULE DefaultRoute_proofs ------------------------
(***************************************************************************)
(* Safety of DefaultRoute for every set of gateways, every strike limit,   *)
(* every mode and any number of faults.                                    *)
(***************************************************************************)
EXTENDS DefaultRoute, TLAPS

(* TypeOK in two halves: the flags, and everything else. *)
Flags ==
    /\ synced \in BOOLEAN /\ bound \in BOOLEAN /\ requested \in BOOLEAN
    /\ gateOpen \in BOOLEAN /\ clean \in BOOLEAN

Values ==
    /\ carp \in Role /\ wasMaster \in Role \cup {"unknown"}
    /\ reading \in Role \cup {"unknown"}
    /\ fib \in Gateway \cup {None} /\ router \in Gateway \cup {None}
    /\ goal \in Usable \cup {None}
    /\ pc \in Busy \cup {"down", "seed", "idle"}
    /\ after \in {"down", "seed", "idle"}
    /\ faults \in 0 .. MaxFaults
    /\ strikes \in 0 .. Strikes /\ blind \in 0 .. Strikes

(* What each program point knows. *)
Shape ==
    /\ pc \in {"add", "change", "reassert"} => goal # None
    /\ pc = "delete" => goal = None
    /\ pc \in {"add", "change", "delete", "reassert"} => Mode = "enforce"

(* What the read established and nobody has disturbed since. *)
Known ==
    clean /\ Mode = "enforce" =>
        /\ AtRest => fib = goal
        /\ pc = "add" => fib = None
        /\ pc \in {"change", "delete"} => fib # None
        /\ pc = "reassert" => fib = goal

(* How the reconciler's strikes stand to the passes without a role: they are  *)
(* fewer when a lease was unusable in between, and then no default is wanted. *)
Struck ==
    /\ pc # "down" => strikes <= blind
    /\ goal # None => blind <= strikes
    /\ strikes >= Strikes => goal = None
    /\ Mode = "off" => strikes = 0 /\ goal = None

(* A pass without a goal is entitled to take down, a pass with a goal holds *)
(* the lease it wants to install.                                           *)
Entitled ==
    /\ pc \in Busy /\ goal = None => MayTakeDown
    /\ pc \in Busy /\ goal # None =>
         wasMaster = "master" /\ bound /\ goal = router /\ router \in Usable

IInv == Flags /\ Values /\ Shape /\ Known /\ Struck /\ Entitled

USE GatewayAssumption, StrikesAssumption, ModeAssumption, FaultsAssumption

LEMMA TypeHalves == TypeOK <=> Flags /\ Values
BY DEF TypeOK, Flags, Values

LEMMA CountToType == \A n \in 0 .. Strikes : CountTo(n) \in 0 .. Strikes
BY DEF CountTo

(* Counting keeps two counters in order, and takes none below it.  *)
LEMMA CountToOrder ==
    \A m, n \in 0 .. Strikes :
        m <= n => m <= CountTo(n) /\ CountTo(m) <= CountTo(n) /\ 0 <= CountTo(n)
BY DEF CountTo

(* A pass of the main loop, for the role it is given or for a fictional backup. *)
LEMMA GivenStruck ==
    ASSUME Struck, Values, pc = "idle", NEW m, NEW role, NEW b, NEW gw,
           m = role \/ m = "backup", Reconcile(m, b, gw, "idle"), Given(role)
    PROVE  Struck'
<1>1. /\ strikes \in 0 .. Strikes /\ blind \in 0 .. Strikes /\ strikes <= blind
      /\ CountTo(strikes) \in 0 .. Strikes /\ CountTo(blind) \in 0 .. Strikes
      /\ CountTo(strikes) <= CountTo(blind)
      /\ goal # None => CountTo(blind) <= CountTo(strikes)
      /\ strikes <= CountTo(blind) /\ Strikes >= 1
  BY CountToType, CountToOrder DEF Struck, Values
<1>2. blind' = IF role = "unknown" THEN CountTo(blind) ELSE 0
  BY DEF Given
<1>3. CASE Mode = "off"
  <2>1. strikes' = 0 /\ strikes = 0 /\ goal' = None
    BY <1>3 DEF Reconcile, Struck
  <2> QED
    BY <1>1, <1>2, <1>3, <2>1 DEF Struck
<1>4. CASE Mode # "off" /\ m = "unknown" /\ UsableLease(b, gw)
  <2>0. Mode # "off"
    BY <1>4
  <2>1. /\ strikes' = CountTo(strikes) /\ blind' = CountTo(blind)
        /\ strikes' <= blind' /\ (goal # None => blind' <= strikes')
    BY <1>1, <1>2, <1>4 DEF Reconcile
  <2>2. CASE CountTo(strikes) >= Strikes
    <3>1. goal' = None
      BY <1>4, <2>1, <2>2 DEF Reconcile, StrikeOut
    <3> QED
      BY <2>0, <2>1, <3>1 DEF Struck
  <2>3. CASE ~(CountTo(strikes) >= Strikes)
    <3>1. goal' = goal
      BY <1>4, <2>1, <2>3 DEF Reconcile, StrikeOut
    <3> QED
      BY <2>0, <2>1, <2>3, <3>1 DEF Struck
  <2> QED
    BY <2>2, <2>3
<1>5. CASE Mode # "off" /\ ~(m = "unknown" /\ UsableLease(b, gw))
  <2>1. strikes' = 0 /\ goal' = Wanted(m, b, gw)
    BY <1>5 DEF Reconcile, StrikesAfterReadable
  <2>2. goal' # None => blind' = 0
    BY <1>2, <1>5, <2>1 DEF Wanted
  <2>3. blind' >= 0
    BY <1>1, <1>2
  <2> QED
    BY <1>1, <1>5, <2>1, <2>2, <2>3 DEF Struck
<1> QED
  BY <1>3, <1>4, <1>5

LEMMA InitIInv == Init => IInv
<1> SUFFICES ASSUME Init PROVE IInv
  OBVIOUS
<1> USE DEF Init
<1>1. Flags
  BY DEF Flags
<1>2. Values
  BY DEF Values, Role, Busy
<1>3. Shape /\ Known /\ Struck /\ Entitled
  BY DEF Shape, Known, Struck, Entitled, AtRest, Busy
<1> QED
  BY <1>1, <1>2, <1>3 DEF IInv

(* One step per action, one sub-step per part of IInv. *)
LEMMA StepIInv == IInv /\ [Next]_vars => IInv'
<1> SUFFICES ASSUME IInv, [Next]_vars PROVE IInv'
  OBVIOUS
<1> USE DEF IInv, AtRest, Role, Busy, machine, memory, pass, history
<1>1. CASE Start
  <2> USE <1>1 DEF Start, WithdrawUnlessMaster, Probe, Fault, Reconcile, Wanted, StrikeOut, StrikesAfterReadable
  <2>1. Flags'
    BY DEF Flags
  <2>2. Values'
    BY CountToType DEF Values
  <2>3. Shape'
    BY DEF Shape, Values
  <2>4. Known'
    BY DEF Known, Shape, Values
  <2>5. Struck'
    BY CountToType DEF Struck, Values
  <2>6. Entitled'
    BY DEF Entitled, Struck, Values, MayTakeDown, UsableLease
  <2> QED
    BY <2>1, <2>2, <2>3, <2>4, <2>5, <2>6
<1>2. CASE LogInitial
  <2> USE <1>2 DEF LogInitial, Probe, Fault
  <2>1. Flags'
    BY DEF Flags
  <2>2. Values'
    BY DEF Values
  <2>3. Shape'
    BY DEF Shape, Values
  <2>4. Known'
    BY DEF Known, Shape, Values
  <2>5. Struck'
    BY DEF Struck, Values
  <2>6. Entitled'
    BY DEF Entitled, Struck, Values, MayTakeDown, UsableLease
  <2> QED
    BY <2>1, <2>2, <2>3, <2>4, <2>5, <2>6
<1>3. CASE Stop
  <2> USE <1>3 DEF Stop, WithdrawUnlessMaster, Probe, Fault, Reconcile, Wanted, StrikeOut, StrikesAfterReadable
  <2>1. Flags'
    BY DEF Flags
  <2>2. Values'
    BY CountToType DEF Values
  <2>3. Shape'
    BY DEF Shape, Values
  <2>4. Known'
    BY DEF Known, Shape, Values
  <2>5. Struck'
    BY CountToType DEF Struck, Values
  <2>6. Entitled'
    BY DEF Entitled, Struck, Values, MayTakeDown, UsableLease
  <2> QED
    BY <2>1, <2>2, <2>3, <2>4, <2>5, <2>6
<1>4. CASE Crash
  <2> USE <1>4 DEF Crash, Fault
  <2>1. Flags'
    BY DEF Flags
  <2>2. Values'
    BY DEF Values
  <2>3. Shape'
    BY DEF Shape, Values
  <2>4. Known'
    BY DEF Known, Shape, Values
  <2>5. Struck'
    BY DEF Struck, Values
  <2>6. Entitled'
    BY DEF Entitled, Struck, Values, MayTakeDown, UsableLease
  <2> QED
    BY <2>1, <2>2, <2>3, <2>4, <2>5, <2>6
<1>5. CASE RoleTick
  <2> USE <1>5 DEF RoleTick, Probe, Fault, Poll, Given, Reconcile, Wanted, StrikeOut, StrikesAfterReadable
  <2>1. Flags'
    BY DEF Flags
  <2>2. Values'
    <3>1. strikes' \in 0 .. Strikes /\ blind' \in 0 .. Strikes
      BY CountToType DEF Values
    <3>2. goal' \in Usable \cup {None} /\ router' \in Gateway \cup {None}
      BY DEF Values, UsableLease
    <3>3. faults' \in 0 .. MaxFaults
      BY DEF Values
    <3>4. /\ carp' \in Role /\ wasMaster' \in Role \cup {"unknown"}
          /\ reading' \in Role \cup {"unknown"}
      BY DEF Values
    <3>5. pc' \in Busy \cup {"down", "seed", "idle"} /\ after' \in {"down", "seed", "idle"}
      BY DEF Values
    <3>6. fib' \in Gateway \cup {None}
      BY DEF Values
    <3> QED
      BY <3>1, <3>2, <3>3, <3>4, <3>5, <3>6 DEF Values
  <2>3. Shape'
    BY DEF Shape, Values
  <2>4. Known'
    BY DEF Known, Shape, Values
  <2>5. Struck'
    <3> HIDE DEF Reconcile, Given
    <3>1. PICK r \in Role \cup {"unknown"} : Reconcile(r, bound, router, "idle") /\ Given(r)
      BY <1>5 DEF RoleTick
    <3>2. pc = "idle"
      BY <1>5 DEF RoleTick
    <3> QED
      BY <3>1, <3>2, GivenStruck
  <2>6. Entitled'
    <3>1. strikes' \in 0 .. Strikes /\ blind' \in 0 .. Strikes
      BY <2>2 DEF Values
    <3>2. strikes' >= Strikes => (pc' # "down" => blind' >= Strikes)
      BY <2>5, <3>1 DEF Struck
    <3> HIDE DEF Given, Poll
    <3> QED
      BY <3>1, <3>2 DEF Entitled, Struck, Values, MayTakeDown, UsableLease, Poll
  <2> QED
    BY <2>1, <2>2, <2>3, <2>4, <2>5, <2>6
<1>6. CASE LoopHead
  <2> USE <1>6 DEF LoopHead, Probe, Fault, Poll, Given, Reconcile, Wanted, StrikeOut, StrikesAfterReadable
  <2>1. Flags'
    BY DEF Flags
  <2>2. Values'
    <3>1. strikes' \in 0 .. Strikes /\ blind' \in 0 .. Strikes
      BY CountToType DEF Values
    <3>2. goal' \in Usable \cup {None} /\ router' \in Gateway \cup {None}
      BY DEF Values, UsableLease
    <3>3. faults' \in 0 .. MaxFaults
      BY DEF Values
    <3>4. /\ carp' \in Role /\ wasMaster' \in Role \cup {"unknown"}
          /\ reading' \in Role \cup {"unknown"}
      BY DEF Values
    <3>5. pc' \in Busy \cup {"down", "seed", "idle"} /\ after' \in {"down", "seed", "idle"}
      BY DEF Values
    <3>6. fib' \in Gateway \cup {None}
      BY DEF Values
    <3> QED
      BY <3>1, <3>2, <3>3, <3>4, <3>5, <3>6 DEF Values
  <2>3. Shape'
    BY DEF Shape, Values
  <2>4. Known'
    BY DEF Known, Shape, Values
  <2>5. Struck'
    <3> HIDE DEF Reconcile, Given
    <3>1. pc = "idle"
      BY <1>6 DEF LoopHead
    <3>2. \/ UNCHANGED <<pc, strikes, goal, blind>>
          \/ \E role \in Role \cup {"unknown"}, m \in Role \cup {"unknown"} :
               /\ m = role \/ m = "backup"
               /\ Reconcile(m, bound, router, "idle") /\ Given(role)
      BY <1>6 DEF LoopHead, Values
    <3>3. CASE UNCHANGED <<pc, strikes, goal, blind>>
      BY <3>3 DEF Struck
    <3> QED
      BY <3>1, <3>2, <3>3, GivenStruck
  <2>6. Entitled'
    <3>1. strikes' \in 0 .. Strikes /\ blind' \in 0 .. Strikes
      BY <2>2 DEF Values
    <3>2. strikes' >= Strikes => (pc' # "down" => blind' >= Strikes)
      BY <2>5, <3>1 DEF Struck
    <3> HIDE DEF Given, Poll
    <3> QED
      BY <3>1, <3>2 DEF Entitled, Struck, Values, MayTakeDown, UsableLease, Poll
  <2> QED
    BY <2>1, <2>2, <2>3, <2>4, <2>5, <2>6
<1>7. CASE RenewLease
  <2> USE <1>7 DEF RenewLease
  <2>1. Flags'
    BY DEF Flags
  <2>2. Values'
    BY DEF Values
  <2>3. Shape'
    BY DEF Shape, Values
  <2>4. Known'
    BY DEF Known, Shape, Values
  <2>5. Struck'
    BY DEF Struck, Values
  <2>6. Entitled'
    BY DEF Entitled, Struck, Values, MayTakeDown, UsableLease
  <2> QED
    BY <2>1, <2>2, <2>3, <2>4, <2>5, <2>6
<1>8. CASE LoseLease
  <2> USE <1>8 DEF LoseLease
  <2>1. Flags'
    BY DEF Flags
  <2>2. Values'
    BY DEF Values
  <2>3. Shape'
    BY DEF Shape, Values
  <2>4. Known'
    BY DEF Known, Shape, Values
  <2>5. Struck'
    BY DEF Struck, Values
  <2>6. Entitled'
    BY DEF Entitled, Struck, Values, MayTakeDown, UsableLease
  <2> QED
    BY <2>1, <2>2, <2>3, <2>4, <2>5, <2>6
<1>9. CASE ReadFib
  <2> USE <1>9 DEF ReadFib, Fault, NextStep, WriteVerb, MayWrite, ResyncDue
  <2>1. Flags'
    BY DEF Flags
  <2>2. Values'
    BY DEF Values
  <2>3. Shape'
    BY DEF Shape, Values
  <2>4. Known'
    BY DEF Known, Shape, Values
  <2>5. Struck'
    BY DEF Struck, Values
  <2>6. Entitled'
    BY DEF Entitled, Struck, Values, MayTakeDown, UsableLease
  <2> QED
    BY <2>1, <2>2, <2>3, <2>4, <2>5, <2>6
<1>10. CASE Install
  <2> USE <1>10 DEF Install, Command, Applies, Fault
  <2>1. Flags'
    BY DEF Flags
  <2>2. Values'
    BY DEF Values
  <2>3. Shape'
    BY DEF Shape, Values
  <2>4. Known'
    BY DEF Known, Shape, Values
  <2>5. Struck'
    BY DEF Struck, Values
  <2>6. Entitled'
    BY DEF Entitled, Struck, Values, MayTakeDown, UsableLease
  <2> QED
    BY <2>1, <2>2, <2>3, <2>4, <2>5, <2>6
<1>11. CASE Withdraw
  <2> USE <1>11 DEF Withdraw, Command, Applies, Fault
  <2>1. Flags'
    BY DEF Flags
  <2>2. Values'
    BY DEF Values
  <2>3. Shape'
    BY DEF Shape, Values
  <2>4. Known'
    BY DEF Known, Shape, Values
  <2>5. Struck'
    BY DEF Struck, Values
  <2>6. Entitled'
    BY DEF Entitled, Struck, Values, MayTakeDown, UsableLease
  <2> QED
    BY <2>1, <2>2, <2>3, <2>4, <2>5, <2>6
<1>12. CASE Reassert
  <2> USE <1>12 DEF Reassert, Command, Applies, Fault
  <2>1. Flags'
    BY DEF Flags
  <2>2. Values'
    BY DEF Values
  <2>3. Shape'
    BY DEF Shape, Values
  <2>4. Known'
    BY DEF Known, Shape, Values
  <2>5. Struck'
    BY DEF Struck, Values
  <2>6. Entitled'
    BY DEF Entitled, Struck, Values, MayTakeDown, UsableLease
  <2> QED
    BY <2>1, <2>2, <2>3, <2>4, <2>5, <2>6
<1>13. CASE Failover
  <2> USE <1>13 DEF Failover
  <2>1. Flags'
    BY DEF Flags
  <2>2. Values'
    BY DEF Values
  <2>3. Shape'
    BY DEF Shape, Values
  <2>4. Known'
    BY DEF Known, Shape, Values
  <2>5. Struck'
    BY DEF Struck, Values
  <2>6. Entitled'
    BY DEF Entitled, Struck, Values, MayTakeDown, UsableLease
  <2> QED
    BY <2>1, <2>2, <2>3, <2>4, <2>5, <2>6
<1>14. CASE Interfere
  <2> USE <1>14 DEF Interfere, Fault
  <2>1. Flags'
    BY DEF Flags
  <2>2. Values'
    BY DEF Values
  <2>3. Shape'
    BY DEF Shape, Values
  <2>4. Known'
    BY DEF Known, Shape, Values
  <2>5. Struck'
    BY DEF Struck, Values
  <2>6. Entitled'
    BY DEF Entitled, Struck, Values, MayTakeDown, UsableLease
  <2> QED
    BY <2>1, <2>2, <2>3, <2>4, <2>5, <2>6
<1>15. CASE Flap
  <2> USE <1>15 DEF Flap, Fault
  <2>1. Flags'
    BY DEF Flags
  <2>2. Values'
    BY DEF Values
  <2>3. Shape'
    BY DEF Shape, Values
  <2>4. Known'
    BY DEF Known, Shape, Values
  <2>5. Struck'
    BY DEF Struck, Values
  <2>6. Entitled'
    BY DEF Entitled, Struck, Values, MayTakeDown, UsableLease
  <2> QED
    BY <2>1, <2>2, <2>3, <2>4, <2>5, <2>6
<1>16. CASE GateOpens
  <2> USE <1>16 DEF GateOpens
  <2>1. Flags'
    BY DEF Flags
  <2>2. Values'
    BY DEF Values
  <2>3. Shape'
    BY DEF Shape, Values
  <2>4. Known'
    BY DEF Known, Shape, Values
  <2>5. Struck'
    BY DEF Struck, Values
  <2>6. Entitled'
    BY DEF Entitled, Struck, Values, MayTakeDown, UsableLease
  <2> QED
    BY <2>1, <2>2, <2>3, <2>4, <2>5, <2>6
<1>17. CASE UNCHANGED vars
  BY <1>17 DEF vars, Flags, Values, Shape, Known, Struck, Entitled, MayTakeDown
<1> QED
  BY <1>1, <1>2, <1>3, <1>4, <1>5, <1>6, <1>7, <1>8, <1>9, <1>10, <1>11, <1>12, <1>13, <1>14, <1>15, <1>16, <1>17 DEF Next, Step
-----------------------------------------------------------------------------
LEMMA Invariant == Spec => []IInv
<1>1. IInv /\ [Next]_vars => IInv'
  BY StepIInv
<1> QED
  BY InitIInv, <1>1, PTL DEF Spec

(* Type correctness of the route reconciler and its process. *)
THEOREM TypeCorrect == Spec => []TypeOK
<1>1. IInv => TypeOK
  BY TypeHalves DEF IInv
<1> QED
  BY Invariant, <1>1, PTL

(* One undisturbed pass leaves exactly the default it decided on, whatever   *)
(* the FIB held before and however often the process was restarted.          *)
THEOREM ConvergedAlways == Spec => []Converged
<1>1. IInv => Converged
  BY DEF IInv, Known, Converged
<1> QED
  BY Invariant, <1>1, PTL

(* Fail closed for every strike limit: that many passes given no role leave  *)
(* no default, although leases that come and go reset the strikes (Struck).  *)
THEOREM FailsClosedAlways == Spec => []FailsClosed
<1>1. IInv => FailsClosed
  BY DEF IInv, Known, Struck, Values, FailsClosed
<1> QED
  BY Invariant, <1>1, PTL

(* The keeper takes a default down only when it is entitled to: no flap on a *)
(* probe glitch or on the restart of a master.                               *)
THEOREM NoFlap == Spec => NoNeedlessWithdraw
<1>1. IInv /\ [Next]_vars => [Withdraw /\ fib' # fib => MayTakeDown]_vars
  BY DEF IInv, Shape, Entitled, Withdraw, Busy
<1> QED
  BY Invariant, <1>1, PTL DEF NoNeedlessWithdraw, Spec

(* Whatever the keeper installs is the usable gateway of the lease it holds. *)
THEOREM InstallsOnlyItsLease == Spec => InstallsOwnLease
<1>1. IInv /\ [Next]_vars =>
        [Install /\ fib' # fib =>
           wasMaster = "master" /\ bound /\ fib' = router /\ router \in Usable]_vars
  BY DEF IInv, Shape, Entitled, Install, Command, Busy
<1> QED
  BY Invariant, <1>1, PTL DEF InstallsOwnLease, Spec
=============================================================================
