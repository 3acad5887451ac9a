--------------------------- MODULE CarpPair_proofs ---------------------------
(***************************************************************************)
(* The pair for any set of nodes and any number of failures: what each     *)
(* heartbeat file says agrees with its keeper, so that a demotion has one  *)
(* of the causes DemotedForCause names.                                    *)
(***************************************************************************)
EXTENDS CarpPair, TLAPS

(* A keeper that holds a lease, or is in the wait of one, and what it may have *)
(* published of itself.                                                        *)
HoldsOpenly(n) ==
    /\ bound[n] => pc[n] \in {"head", "passive", "hold"} /\ file[n] \in {"eligible", "mismatch"}
    /\ pc[n] = "hold" => bound[n]

(* A file that fails the node is that of a keeper that does not run or has not *)
(* come to its first heartbeat, or says of a running one what is so.           *)
Unheard(n) == pc[n] = "down" \/ (pc[n] = "head" /\ ~bound[n])
FailsWithCause(n) ==
    /\ file[n] = "none" => Unheard(n)
    /\ file[n] = "demote" => \/ Unheard(n)
                             \/ was[n] = "master" /\ ~bound[n] /\ grace[n] = "over"

(* A process that ended remembers nothing. *)
Forgotten(n) == pc[n] = "down" => ~bound[n] /\ grace[n] = "none"

Honest == \A n \in Node : HoldsOpenly(n) /\ FailsWithCause(n) /\ Forgotten(n)

IInv == TypeOK /\ Honest

-----------------------------------------------------------------------------

LEMMA FaultTyped == TypeOK /\ Fault => faults' \in 0 .. MaxFaults
BY FaultsAssumption DEF TypeOK, Fault

LEMMA InitIInv == Init => IInv
BY PreferredAssumption, FaultsAssumption
   DEF Init, IInv, TypeOK, Honest, HoldsOpenly, FailsWithCause, Unheard, Forgotten

(* A step of one keeper leaves the other's variables alone. *)
Only(n) ==
    \A m \in Node \ {n} :
        /\ file'[m] = file[m] /\ pc'[m] = pc[m] /\ was'[m] = was[m]
        /\ bound'[m] = bound[m] /\ grace'[m] = grace[m]

LEMMA OwnStep ==
    ASSUME NEW n \in Node, Honest, Only(n), HoldsOpenly(n)', FailsWithCause(n)', Forgotten(n)'
    PROVE  Honest'
<1> SUFFICES ASSUME NEW m \in Node \ {n}
             PROVE  HoldsOpenly(m)' /\ FailsWithCause(m)' /\ Forgotten(m)'
  BY DEF Honest
<1> QED
  BY DEF Honest, Only, HoldsOpenly, FailsWithCause, Unheard, Forgotten

(* A heartbeat fails only a master whose grace ran out without a lease.        *)
LEMMA HeartbeatStep ==
    ASSUME TypeOK, NEW n \in Node, NEW b \in BOOLEAN, Heartbeat(n, b),
           was' \in [Node -> {"master", "backup"}]
    PROVE  /\ file' \in [Node -> {"none", "eligible", "demote", "mismatch"}]
           /\ grace' \in [Node -> {"none", "running", "over"}]
           /\ file'[n] \in {"eligible", "demote"}
           /\ file'[n] = "demote" => was'[n] = "master" /\ ~b /\ grace'[n] = "over"
           /\ \A m \in Node \ {n} : file'[m] = file[m] /\ grace'[m] = grace[m]
BY DEF TypeOK, Heartbeat, Epoch, Put

(* A poll commits a definite role, and keeps the last one otherwise.           *)
LEMMA PollStep ==
    ASSUME TypeOK, NEW n \in Node, NEW r \in {"master", "backup", "unknown"}, Poll(n, r)
    PROVE  /\ was' \in [Node -> {"master", "backup"}]
           /\ \A m \in Node \ {n} : was'[m] = was[m]
BY DEF TypeOK, Poll, Put

LEMMA StartStep == ASSUME IInv, NEW n \in Node, Start(n) PROVE IInv' /\ Only(n)
<1>1. TypeOK'
  BY DEF IInv, TypeOK, Start, Goto, Put, Role, world
<1>2. Only(n) /\ HoldsOpenly(n)' /\ FailsWithCause(n)' /\ Forgotten(n)'
  BY DEF IInv, TypeOK, Honest, Only, HoldsOpenly, FailsWithCause, Unheard, Forgotten, Start, Goto, Put
<1> QED
  BY <1>1, <1>2, OwnStep DEF IInv

LEMMA HeadStep == ASSUME IInv, NEW n \in Node, Head(n) PROVE IInv' /\ Only(n)
<1> DEFINE arm == IF was'[n] = "backup" THEN "passive" ELSE IF bound[n] THEN "hold" ELSE "acquiring"
<1>1. PICK r \in {"master", "backup", "unknown"} : Probe(n, r) /\ Poll(n, r)
  BY DEF Head
<1>2. /\ was' \in [Node -> {"master", "backup"}]
      /\ \A m \in Node \ {n} : was'[m] = was[m]
  BY <1>1, PollStep DEF IInv
<1>3. faults' \in 0 .. MaxFaults
  BY <1>1, FaultTyped DEF Probe, IInv, TypeOK
<1>4. Goto(n, arm) /\ Upkeep(n, arm) /\ UNCHANGED <<world, bound>> /\ pc[n] \in {"head", "passive", "unbound"}
  BY DEF Head
<1>5. bound[n] \in BOOLEAN /\ arm \in {"passive", "hold", "acquiring"}
  BY DEF IInv, TypeOK
<1>6. CASE Heartbeat(n, bound[n])
  <2>1. TypeOK'
    BY <1>2, <1>3, <1>4, <1>5, <1>6, HeartbeatStep DEF IInv, TypeOK, Goto, Put, world
  <2>2. Only(n)
    BY <1>2, <1>4, <1>5, <1>6, HeartbeatStep DEF IInv, TypeOK, Only, Goto, Put
  <2>3. HoldsOpenly(n)' /\ FailsWithCause(n)' /\ Forgotten(n)'
    BY <1>2, <1>4, <1>5, <1>6, HeartbeatStep
       DEF IInv, TypeOK, HoldsOpenly, FailsWithCause, Unheard, Forgotten, Goto, Put
  <2> QED
    BY <2>1, <2>2, <2>3, OwnStep DEF IInv
<1>7. CASE arm = "hold" /\ UNCHANGED <<grace, file>>
  <2>1. TypeOK'
    BY <1>2, <1>3, <1>4, <1>7 DEF IInv, TypeOK, Goto, Put, world
  <2>2. Only(n)
    BY <1>2, <1>4, <1>7 DEF IInv, TypeOK, Only, Goto, Put
  <2>3. HoldsOpenly(n)' /\ FailsWithCause(n)' /\ Forgotten(n)'
    BY <1>2, <1>4, <1>7
       DEF IInv, TypeOK, Honest, HoldsOpenly, FailsWithCause, Unheard, Forgotten, Goto, Put
  <2> QED
    BY <2>1, <2>2, <2>3, OwnStep DEF IInv
<1> QED
  BY <1>4, <1>6, <1>7 DEF Upkeep

LEMMA NoticeStep == ASSUME IInv, NEW n \in Node, Notice(n) PROVE IInv' /\ Only(n)
<1>1. /\ was' \in [Node -> {"master", "backup"}]
      /\ \A m \in Node \ {n} : was'[m] = was[m]
  BY PollStep DEF Notice, Role, IInv
<1>2. bound[n] \in BOOLEAN /\ UNCHANGED <<world, bound, faults>> /\ Heartbeat(n, bound[n])
  BY DEF IInv, TypeOK, Notice
<1>3. /\ pc[n] \in {"passive", "hold", "unbound"}
      /\ \/ Goto(n, "head") /\ pc[n] # "hold"
         \/ UNCHANGED pc
  BY DEF Notice, Goto, Put, IInv, TypeOK
<1>4. TypeOK'
  BY <1>1, <1>2, <1>3, HeartbeatStep DEF IInv, TypeOK, Goto, Put, world
<1>5. Only(n)
  BY <1>1, <1>2, <1>3, HeartbeatStep DEF IInv, TypeOK, Only, Goto, Put
<1>6. HoldsOpenly(n)' /\ FailsWithCause(n)' /\ Forgotten(n)'
  BY <1>1, <1>2, <1>3, HeartbeatStep
     DEF IInv, TypeOK, Honest, HoldsOpenly, FailsWithCause, Unheard, Forgotten, Goto, Put
<1> QED
  BY <1>4, <1>5, <1>6, OwnStep DEF IInv

LEMMA AcquiredStep == ASSUME IInv, NEW n \in Node, Acquired(n) PROVE IInv' /\ Only(n)
<1>1. /\ Heartbeat(n, TRUE) /\ UNCHANGED <<world, was, faults>>
      /\ was' \in [Node -> {"master", "backup"}]
  BY DEF Acquired, Publish, IInv, TypeOK
<1>2. /\ pc' = [pc EXCEPT ![n] = "head"] /\ bound' = [bound EXCEPT ![n] = TRUE]
      /\ pc \in [Node -> {"down", "head", "passive", "hold", "acquiring", "unbound"}]
      /\ bound \in [Node -> BOOLEAN]
  BY DEF Acquired, Goto, Put, IInv, TypeOK
<1>3. TypeOK'
  BY <1>1, <1>2, HeartbeatStep DEF IInv, TypeOK, world
<1>4. Only(n)
  BY <1>1, <1>2, HeartbeatStep DEF IInv, Only
<1>5. HoldsOpenly(n)' /\ FailsWithCause(n)' /\ Forgotten(n)'
  BY <1>1, <1>2, HeartbeatStep DEF IInv, HoldsOpenly, FailsWithCause, Unheard, Forgotten
<1> QED
  BY <1>3, <1>4, <1>5, OwnStep DEF IInv

LEMMA NotAcquiredStep == ASSUME IInv, NEW n \in Node, NotAcquired(n) PROVE IInv' /\ Only(n)
<1>1. faults' \in 0 .. MaxFaults
  BY FaultTyped DEF NotAcquired, IInv, TypeOK
<1>2. TypeOK'
  BY <1>1 DEF IInv, TypeOK, NotAcquired, Mismatch, Goto, Put, world
<1>3. Only(n)
  BY DEF IInv, TypeOK, Only, NotAcquired, Mismatch, Goto, Put
<1>4. HoldsOpenly(n)' /\ FailsWithCause(n)' /\ Forgotten(n)'
  BY DEF IInv, TypeOK, Honest, HoldsOpenly, FailsWithCause, Unheard, Forgotten, NotAcquired,
         Mismatch, Goto, Put
<1> QED
  BY <1>2, <1>3, <1>4, OwnStep DEF IInv

LEMMA RenewStep == ASSUME IInv, NEW n \in Node, Renew(n) PROVE IInv' /\ Only(n)
<1>1. CASE Heartbeat(n, TRUE) /\ UNCHANGED pc
  <2>1. was' \in [Node -> {"master", "backup"}] /\ UNCHANGED <<world, was, bound, faults>>
    BY DEF IInv, TypeOK, Renew
  <2>2. TypeOK'
    BY <1>1, <2>1, HeartbeatStep DEF IInv, TypeOK, world
  <2>3. Only(n)
    BY <1>1, <2>1, HeartbeatStep DEF Only, IInv
  <2>4. HoldsOpenly(n)' /\ FailsWithCause(n)' /\ Forgotten(n)'
    BY <1>1, <2>1, HeartbeatStep
       DEF IInv, Honest, HoldsOpenly, FailsWithCause, Unheard, Forgotten, Renew
  <2> QED
    BY <2>2, <2>3, <2>4, OwnStep DEF IInv
<1>2. CASE Goto(n, "head") /\ UNCHANGED <<file, grace>>
  <2>1. TypeOK'
    BY <1>2 DEF IInv, TypeOK, Renew, Goto, Put, world
  <2>2. Only(n)
    BY <1>2 DEF IInv, TypeOK, Only, Renew, Goto, Put
  <2>3. HoldsOpenly(n)' /\ FailsWithCause(n)' /\ Forgotten(n)'
    BY <1>2 DEF IInv, TypeOK, Honest, HoldsOpenly, FailsWithCause, Unheard, Forgotten, Renew,
                Goto, Put
  <2> QED
    BY <2>1, <2>2, <2>3, OwnStep DEF IInv
<1>3. CASE Mismatch(n) /\ UNCHANGED pc
  <2>1. TypeOK'
    BY <1>3 DEF IInv, TypeOK, Renew, Mismatch, Put, world
  <2>2. Only(n)
    BY <1>3 DEF IInv, TypeOK, Only, Renew, Mismatch, Put
  <2>3. HoldsOpenly(n)' /\ FailsWithCause(n)' /\ Forgotten(n)'
    BY <1>3 DEF IInv, TypeOK, Honest, HoldsOpenly, FailsWithCause, Unheard, Forgotten, Renew,
                Mismatch, Put
  <2> QED
    BY <2>1, <2>2, <2>3, OwnStep DEF IInv
<1> QED
  BY <1>1, <1>2, <1>3 DEF Renew

(* T2, the end of the grace, and the ends of the process. *)
LEMMA EndingStep ==
    ASSUME IInv, NEW n \in Node, Expire(n) \/ GraceEnds(n) \/ Die(n) \/ StopService(n)
    PROVE  IInv' /\ Only(n)
<1>1. faults' \in 0 .. MaxFaults
  BY FaultTyped DEF Expire, GraceEnds, Die, StopService, IInv, TypeOK
<1>2. TypeOK'
  <2>1. CASE Expire(n)
    BY <2>1 DEF IInv, TypeOK, Expire, Goto, Put, world
  <2>2. CASE GraceEnds(n)
    BY <2>2 DEF IInv, TypeOK, GraceEnds, Put, world
  <2>3. CASE Die(n)
    BY <1>1, <2>3 DEF IInv, TypeOK, Die, Ended, Goto, Put, world
  <2>4. CASE StopService(n)
    BY <1>1, <2>4 DEF IInv, TypeOK, StopService, Ended, Goto, Put
  <2> QED
    BY <2>1, <2>2, <2>3, <2>4
<1>3. Only(n)
  BY DEF IInv, TypeOK, Only, Expire, GraceEnds, Die, StopService, Ended, Goto, Put
<1>4. HoldsOpenly(n)' /\ FailsWithCause(n)' /\ Forgotten(n)'
  BY DEF IInv, TypeOK, Honest, HoldsOpenly, FailsWithCause, Unheard, Forgotten, Expire, GraceEnds,
         Die, StopService, Ended, Goto, Put
<1> QED
  BY <1>2, <1>3, <1>4, OwnStep DEF IInv

LEMMA WinnerTyped == TypeOK => Winner \in Node
<1>1. ASSUME Eligible # {} PROVE (CHOOSE n \in Eligible : TRUE) \in Eligible
  BY <1>1
<1> QED
  BY <1>1, PreferredAssumption DEF Winner, Eligible

(* What CARP, the hook, the service and the line do, a keeper only learns of. *)
LEMMA WorldStep ==
    ASSUME IInv, NEW n \in Node, Elect \/ StartService(n) \/ Age(n) \/ Hook(n) \/ Line(n)
    PROVE  IInv' /\ Only(n)
<1>1. faults' \in 0 .. MaxFaults
  BY FaultTyped DEF Elect, StartService, Age, Hook, Line, IInv, TypeOK
<1>2. Winner \in Node /\ Fails(n) \in BOOLEAN
  BY WinnerTyped DEF IInv, Fails
<1>3. TypeOK'
  BY <1>1, <1>2 DEF IInv, TypeOK, Elect, StartService, Age, Hook, Line, Put, keeper, world
<1>4. Only(n)
  BY DEF IInv, TypeOK, Only, Elect, StartService, Age, Hook, Line, Put, keeper
<1>5. HoldsOpenly(n)' /\ FailsWithCause(n)' /\ Forgotten(n)'
  BY DEF IInv, TypeOK, Honest, HoldsOpenly, FailsWithCause, Unheard, Forgotten, Elect,
         StartService, Age, Hook, Line, Put, keeper
<1> QED
  BY <1>3, <1>4, <1>5, OwnStep DEF IInv

LEMMA StepIInv == IInv /\ [Next]_vars => IInv'
<1> SUFFICES ASSUME IInv, [Next]_vars PROVE IInv'
  OBVIOUS
<1>1. CASE UNCHANGED vars
  BY <1>1 DEF vars, IInv, TypeOK, Honest, HoldsOpenly, FailsWithCause, Unheard, Forgotten
<1>2. CASE Elect
  BY <1>2, WorldStep, PreferredAssumption
<1>3. CASE \E n \in Node : KeeperStep(n)
  BY <1>3, StartStep, HeadStep, AcquiredStep, NotAcquiredStep, RenewStep DEF KeeperStep
<1>4. CASE \E n \in Node : Notice(n) \/ Expire(n) \/ GraceEnds(n) \/ Die(n) \/ StopService(n)
  BY <1>4, NoticeStep, EndingStep
<1>5. CASE \E n \in Node : StartService(n) \/ Age(n) \/ Hook(n) \/ Line(n)
  BY <1>5, WorldStep
<1> QED
  BY <1>1, <1>2, <1>3, <1>4, <1>5 DEF Next

LEMMA AlwaysIInv == Spec => []IInv
BY InitIInv, StepIInv, PTL DEF Spec

-----------------------------------------------------------------------------

(* Type correctness: no failed probe blurs the role a keeper remembers, and   *)
(* whoever CARP elects is a node.                                             *)
THEOREM TypeCorrect == Spec => []TypeOK
<1>1. IInv => TypeOK
  BY DEF IInv
<1> QED
  BY <1>1, AlwaysIInv, PTL

(* rc.carp_service_status.d demotes a node only for one of the causes, in     *)
(* whatever order the keeper writes, the hook reads and CARP moves: a file    *)
(* the hook fails is always that of a keeper in such a state.                 *)
THEOREM DemotedForCauseAlways == Spec => DemotedForCause
<1> DEFINE Cause(n) == \/ pc[n] = "down" \/ (pc[n] = "head" /\ ~bound[n])
                       \/ file[n] = "mismatch"
                       \/ was[n] = "master" /\ ~bound[n] /\ grace[n] = "over"
<1>1. ASSUME IInv, [Next]_vars, NEW n \in Node, demoted'[n], ~demoted[n] PROVE Cause(n)
  <2>1. PICK m \in Node : Hook(m)
    BY <1>1 DEF Next, vars, KeeperStep, Start, Head, Notice, Acquired, NotAcquired, Renew, Expire,
                GraceEnds, Die, StopService, StartService, Age, Line, Elect, world
  <2>2. m = n /\ Fails(n)
    BY <1>1, <2>1 DEF Hook, Put, IInv, TypeOK
  <2> QED
    BY <1>1, <2>2 DEF Fails, IInv, TypeOK, Honest, FailsWithCause, Unheard
<1>2. IInv /\ [Next]_vars => [\A n \in Node : demoted'[n] /\ ~demoted[n] => Cause(n)]_vars
  BY <1>1
<1> QED
  BY <1>2, AlwaysIInv, PTL DEF Spec, DemotedForCause
-----------------------------------------------------------------------------
(* The refinement of FailStop, node by node. *)

LEMMA TokenInit == ASSUME Init, NEW n \in Node PROVE Token(n)!Init
BY DEF Init, Token!Init, Token!Definite

LEMMA BeatIsBeat ==
    ASSUME IInv, NEW n \in Node, Heartbeat(n, bound'[n]), bound'[n] \in BOOLEAN,
           was' \in [Node -> {"master", "backup"}]
    PROVE  Token(n)!Beat
BY DEF IInv, TypeOK, Heartbeat, Epoch, Put, Token!Beat, Token!Leaseless, Token!Definite
(* A quiet step may lose the lease, and may replace an order by another fault. *)
LEMMA QuietIsToken ==
    ASSUME IInv, NEW n \in Node, was'[n] = was[n], grace'[n] = grace[n],
           bound'[n] \in {bound[n], FALSE}, file'[n] \in {file[n], "none", "mismatch"},
           bound'[n] = bound[n] \/ file'[n] = file[n]
    PROVE  [Token(n)!Next]_(Token(n)!vars)
BY DEF IInv, TypeOK, Token!Next, Token!Learn, Token!Retract, Token!vars

LEMMA OwnToken ==
    ASSUME IInv, NEW n \in Node,
           \/ KeeperStep(n) \/ Notice(n) \/ Expire(n) \/ GraceEnds(n) \/ Die(n) \/ StopService(n)
           \/ Elect \/ StartService(n) \/ Age(n) \/ Hook(n) \/ Line(n)
    PROVE  [Token(n)!Next]_(Token(n)!vars)
<1>0. /\ bound[n] \in BOOLEAN
      /\ pc \in [Node -> {"down", "head", "passive", "hold", "acquiring", "unbound"}]
      /\ was \in [Node -> {"master", "backup"}] /\ bound \in [Node -> BOOLEAN]
      /\ grace \in [Node -> {"none", "running", "over"}]
      /\ file \in [Node -> {"none", "eligible", "demote", "mismatch"}]
  BY DEF IInv, TypeOK
<1>1. CASE Start(n)
  <2>1. was'[n] \in {"master", "backup"} /\ UNCHANGED <<bound, grace, file>>
    BY <1>0, <1>1 DEF Start, Put, Role
  <2>2. ~bound[n] /\ grace[n] = "none"
    BY <1>1 DEF Start, IInv, Honest, Forgotten
  <2> QED
    BY <2>1, <2>2 DEF Token!Next, Token!Restart, Token!Definite
<1>2. CASE Head(n)
  <2>1. PICK r \in {"master", "backup", "unknown"} : Poll(n, r)
    BY <1>2 DEF Head
  <2>2. was' \in [Node -> {"master", "backup"}] /\ UNCHANGED bound
    BY <1>2, <2>1, PollStep DEF Head, IInv
  <2>3. CASE Heartbeat(n, bound[n])
    BY <1>0, <2>2, <2>3, BeatIsBeat DEF Token!Next
  <2>4. CASE was' = was /\ UNCHANGED <<grace, file>>
    BY <2>2, <2>4, QuietIsToken
  <2> QED
    BY <1>2, <2>3, <2>4 DEF Head, Upkeep
<1>3. CASE Notice(n)
  <2>1. was' \in [Node -> {"master", "backup"}] /\ UNCHANGED bound /\ Heartbeat(n, bound[n])
    BY <1>3, PollStep DEF Notice, Role, IInv
  <2> QED
    BY <1>0, <2>1, BeatIsBeat DEF Token!Next
<1>4. CASE Acquired(n)
  <2>1. bound'[n] = TRUE /\ was' = was /\ Heartbeat(n, TRUE)
    BY <1>0, <1>4 DEF Acquired, Publish, Put
  <2> QED
    BY <1>0, <2>1, BeatIsBeat DEF Token!Next
<1>5. CASE NotAcquired(n)
  <2>1. was' = was /\ bound' = bound /\ grace' = grace /\ file'[n] \in {file[n], "mismatch"}
    BY <1>0, <1>5 DEF NotAcquired, Mismatch, Put
  <2> QED
    BY <2>1, QuietIsToken
<1>6. CASE Renew(n)
  <2>1. was' = was /\ bound' = bound /\ bound[n] = TRUE
    BY <1>0, <1>6 DEF Renew, IInv, Honest, HoldsOpenly
  <2>2. CASE Heartbeat(n, TRUE)
    BY <1>0, <2>1, <2>2, BeatIsBeat DEF Token!Next
  <2>3. CASE UNCHANGED <<file, grace>> \/ Mismatch(n)
    <3>1. grace' = grace /\ file'[n] \in {file[n], "mismatch"}
      BY <1>0, <2>3 DEF Mismatch, Put
    <3> QED
      BY <2>1, <3>1, QuietIsToken
  <2> QED
    BY <1>6, <2>2, <2>3 DEF Renew
<1>7. CASE Expire(n)
  <2>1. UNCHANGED <<was, grace, file>> /\ bound'[n] = FALSE
    BY <1>0, <1>7 DEF Expire, Put
  <2> QED
    BY <2>1, QuietIsToken
<1>8. CASE GraceEnds(n)
  <2>1. UNCHANGED <<was, bound, file>> /\ grace[n] = "running" /\ grace'[n] = "over"
    BY <1>0, <1>8 DEF GraceEnds, Put
  <2> QED
    BY <2>1 DEF Token!Next, Token!Ripen
<1>9. CASE Die(n) \/ StopService(n)
  <2>1. UNCHANGED <<was, file>> /\ bound'[n] = FALSE /\ grace'[n] = "none"
    BY <1>0, <1>9 DEF Die, StopService, Ended, Put
  <2> QED
    BY <1>0, <2>1 DEF Token!Next, Token!Restart, Token!Definite
<1>10. CASE Elect \/ StartService(n) \/ Age(n) \/ Hook(n) \/ Line(n)
  <2>1. UNCHANGED <<was, bound, grace>> /\ file'[n] \in {file[n], "none"}
    BY <1>0, <1>10 DEF Elect, StartService, Age, Hook, Line, Put, keeper
  <2> QED
    BY <2>1, QuietIsToken
<1> QED
  BY <1>1, <1>2, <1>3, <1>4, <1>5, <1>6, <1>7, <1>8, <1>9, <1>10 DEF KeeperStep

LEMMA TokenStep == ASSUME IInv, [Next]_vars, NEW n \in Node PROVE [Token(n)!Next]_(Token(n)!vars)
<1>1. CASE UNCHANGED vars
  BY <1>1 DEF vars, Token!vars
<1>2. CASE Elect
  BY <1>2, OwnToken
<1>3. ASSUME NEW m \in Node,
             \/ KeeperStep(m) \/ Notice(m) \/ Expire(m) \/ GraceEnds(m) \/ Die(m) \/ StopService(m)
             \/ StartService(m) \/ Age(m) \/ Hook(m) \/ Line(m)
      PROVE  [Token(n)!Next]_(Token(n)!vars)
  <2>1. CASE m = n
    BY <1>3, <2>1, OwnToken
  <2>2. CASE m # n
    <3>1. Only(m)
      BY <1>3, StartStep, HeadStep, AcquiredStep, NotAcquiredStep, RenewStep, NoticeStep, EndingStep,
         WorldStep DEF KeeperStep
    <3> QED
      BY <2>2, <3>1 DEF Only, Token!vars
  <2> QED
    BY <2>1, <2>2
<1> QED
  BY <1>1, <1>2, <1>3 DEF Next

(* Each node of the pair keeps FailStop's promise to its hook, as the detailed *)
(* Keeper does: the safety half of ImplementsFailStop.                         *)
THEOREM NodesKeepFailStop == \A n \in Node : Spec => Token(n)!Safe
<1> TAKE n \in Node
<1>1. Init => Token(n)!Init
  BY TokenInit
<1>2. IInv /\ [Next]_vars => [Token(n)!Next]_(Token(n)!vars)
  BY TokenStep
<1> QED
  BY <1>1, <1>2, AlwaysIInv, PTL DEF Spec, Token!Safe
=============================================================================
