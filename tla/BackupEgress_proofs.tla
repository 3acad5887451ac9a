------------------------ MODULE BackupEgress_proofs ------------------------
(***************************************************************************)
(* The routes of the backup egress: for any prefixes and any number of     *)
(* failures, they go in on the backup's role only, and no route is         *)
(* replaced or removed whose next hop the keeper has given up.             *)
(***************************************************************************)
EXTENDS BackupEgress, TLAPS

(* A pass that installs has a gateway, and acts on the role backup. *)
Installing ==
    pc \in {"read", "write", "confirm"} => gateway \in Hop /\ reading = "backup"

(* What the pass is about to write or delete was absent, or ours, when read. *)
Chosen ==
    /\ pc = "write" => \A x \in todo : have[x] \in Owned \cup {None}
    /\ pc = "delete" => \A x \in todo : have[x] \in Owned

(* A next hop given up is none the keeper would recognise as its own. *)
Forgotten == retired \cap Owned = {}

IInv == TypeOK /\ Installing /\ Chosen /\ Forgotten

LEMMA InitIInv == Init => IInv
<1> SUFFICES ASSUME Init PROVE IInv
  OBVIOUS
<1>1. TypeOK
  <2>1. PICK mine \in {{}, Split}, vpn \in {{}, Split} :
          table = [x \in Prefix |->
              IF x \in mine THEN [hop |-> IF explicit THEN "g" ELSE peer, by |-> "before"]
              ELSE IF x \in vpn THEN [hop |-> "q", by |-> "other"]
              ELSE NoRoute]
    BY DEF Init
  <2>2. table \in [Prefix -> Route]
    BY <2>1 DEF Init, Route, Hop, Peers, NoRoute
  <2>3. faults \in 0 .. MaxFaults
    BY FaultsAssumption DEF Init
  <2> QED
    BY <2>2, <2>3 DEF Init, TypeOK, Unread, Peers, Role, Hop
<1>2. Installing /\ Chosen /\ Forgotten
  BY DEF Init, Installing, Chosen, Forgotten
<1> QED
  BY <1>1, <1>2 DEF IInv

(* A pass that ends leaves nothing behind. *)
LEMMA AfterRest ==
    ASSUME Rest, TypeOK
    PROVE  /\ pc' \in {"down", "idle"} /\ cont' = "pass" /\ gateway' = None
           /\ have' \in [Prefix -> Hop \cup {None}] /\ todo' = {}
  BY DEF Rest, Unread

LEMMA RestKeeps ==
    ASSUME Rest, TypeOK
    PROVE  Installing' /\ Chosen'
  BY AfterRest DEF Installing, Chosen

LEMMA FibTyped == TypeOK => Fib \in [Prefix -> Hop \cup {None}]
  BY DEF TypeOK, Fib, Route, NoRoute

(* Confirming a table keeps what is given up apart from what is ours. *)
LEMMA RecordKeeps ==
    ASSUME IInv, gateway \in Hop, Record(Fib), UNCHANGED explicit
    PROVE  installed' \subseteq Hop /\ retired' \subseteq Hop /\ Forgotten'
  BY DEF IInv, TypeOK, Record, Pruned, Forgotten, Owned, Configured, Absent, Hop, RouteSet, Prefix

LEMMA DropKeeps ==
    ASSUME IInv, Drop(Fib), UNCHANGED explicit
    PROVE  installed' \subseteq Hop /\ retired' \subseteq Hop /\ Forgotten'
  BY DEF IInv, TypeOK, Drop, Pruned, Forgotten, Owned, Configured, Absent, Hop, RemovalSet, Prefix

LEMMA FaultTyped ==
    ASSUME TypeOK, Fault
    PROVE  faults' \in 0 .. MaxFaults /\ calm' \in BOOLEAN
<1>1. faults \in 0 .. MaxFaults /\ faults < MaxFaults /\ faults' = faults + 1
  BY DEF TypeOK, Fault
<1>2. faults' \in 0 .. MaxFaults
  BY <1>1, FaultsAssumption
<1> QED
  BY <1>2 DEF Fault

LEMMA AnswersTyped ==
    ASSUME TypeOK, NEW ok \in BOOLEAN, Answers(ok)
    PROVE  faults' \in 0 .. MaxFaults /\ calm' \in BOOLEAN
  BY FaultTyped DEF TypeOK, Answers

LEMMA StepIInv == IInv /\ [Next]_vars => IInv'
<1> SUFFICES ASSUME IInv, [Next]_vars PROVE IInv'
  OBVIOUS
<1>0. TypeOK /\ Installing /\ Chosen /\ Forgotten
  BY DEF IInv
<1>1. CASE Start
  <2>1. table' \in [Prefix -> Route]
    BY <1>0, <1>1 DEF Start, TypeOK, Route, NoRoute
  <2>2. TypeOK'
    BY <1>0, <1>1, <2>1 DEF Start, TypeOK, Configured, Hop
  <2>3. Forgotten'
    BY <1>1 DEF Start, Forgotten, Owned, Configured
  <2>4. Installing' /\ Chosen'
    BY <1>1 DEF Start, Installing, Chosen
  <2> QED
    BY <2>2, <2>3, <2>4 DEF IInv
<1>2. CASE Stop
  BY <1>0, <1>2 DEF Stop, IInv, TypeOK, Installing, Chosen, Forgotten, Owned, Configured, machine
<1>3. CASE Crash
  <2>1. TypeOK'
    BY <1>0, <1>3, FaultTyped DEF Crash, TypeOK, Unread, machine
  <2>2. Installing' /\ Chosen' /\ Forgotten'
    BY <1>0, <1>3 DEF Crash, Installing, Chosen, Forgotten, Owned, Configured, machine
  <2> QED
    BY <2>1, <2>2 DEF IInv
<1>4. CASE Tick
  <2>1. PICK r \in {carp, reading}, resolved \in BOOLEAN :
          /\ r # "unknown"
          /\ IF r = carp /\ resolved THEN UNCHANGED faults /\ calm' = TRUE ELSE Fault
          /\ resolved \/ r = "backup"
          /\ reading' = r
          /\ IF ~resolved THEN UNCHANGED <<pc, gateway>>
             ELSE /\ pc' = Direction(r)
                  /\ gateway' = IF r = "master" THEN None
                                ELSE IF explicit THEN "g" ELSE peer
    BY <1>4 DEF Tick
  <2>2. UNCHANGED <<machine, table, cont, have, todo, installed, retired>> /\ pc = "idle"
    BY <1>4 DEF Tick
  <2>3. faults' \in 0 .. MaxFaults /\ calm' \in BOOLEAN
    BY <1>0, <2>1, FaultTyped DEF TypeOK
  <2>4. r \in Role
    BY <1>0, <2>1 DEF TypeOK
  <2>5. TypeOK' /\ Installing'
    BY <1>0, <2>1, <2>2, <2>3, <2>4
       DEF TypeOK, Installing, Direction, Role, Hop, Peers, machine
  <2>6. Chosen' /\ Forgotten'
    BY <1>0, <2>1, <2>2 DEF Chosen, Forgotten, Owned, Configured, Direction, machine
  <2> QED
    BY <2>5, <2>6 DEF IInv
<1>5. CASE ReadTable
  <2>1. PICK ok \in BOOLEAN :
         /\ Answers(ok)
         /\ CASE ok /\ Pending # {} ->
                   /\ pc' = "write" /\ have' = Fib /\ todo' = Pending
                   /\ UNCHANGED <<cont, gateway, installed, retired>>
              [] ok /\ Pending = {} -> Record(Fib) /\ Rest
              [] OTHER -> Rest /\ UNCHANGED <<installed, retired>>
    BY <1>5 DEF ReadTable
  <2>2. UNCHANGED <<machine, table, reading>> /\ pc = "read"
    BY <1>5 DEF ReadTable
  <2>3. gateway \in Hop
    BY <1>0, <2>2 DEF Installing
  <2>4. CASE ok /\ Pending # {}
    <3>1. Pending \subseteq Prefix
      BY DEF Pending, RouteSet, Prefix
    <3>2. TypeOK'
      BY <1>0, <2>1, <2>2, <2>4, <3>1, AnswersTyped, FibTyped DEF TypeOK, machine
    <3>3. Installing' /\ Forgotten'
      BY <1>0, <2>1, <2>2, <2>4 DEF Installing, Forgotten, Owned, Configured, machine
    <3>4. \A x \in Pending : Fib[x] \in Owned \cup {None}
      BY DEF Pending
    <3>5. Chosen'
      BY <2>1, <2>2, <2>4, <3>4 DEF Chosen, Owned, Configured, machine
    <3> QED
      BY <3>2, <3>3, <3>5 DEF IInv
  <2>5. CASE Record(Fib) /\ Rest
    BY <1>0, <2>1, <2>2, <2>3, <2>5, AnswersTyped, AfterRest, RestKeeps, RecordKeeps
       DEF IInv, TypeOK, machine
  <2>6. CASE Rest /\ UNCHANGED <<installed, retired>>
    BY <1>0, <2>1, <2>2, <2>6, AnswersTyped, AfterRest, RestKeeps
       DEF IInv, TypeOK, machine, Forgotten, Owned, Configured
  <2> QED
    BY <2>1, <2>4, <2>5, <2>6
<1>6. CASE Write
  <2>1. PICK x \in todo, ok \in BOOLEAN :
         /\ Answers(ok)
         /\ todo' = todo \ {x}
         /\ pc' = IF todo' = {} THEN "confirm" ELSE pc
         /\ table' = IF ok /\ (have[x] = None) = (table[x] = NoRoute)
                     THEN [table EXCEPT ![x] = [hop |-> gateway, by |-> "us"]] ELSE table
    BY <1>6 DEF Write
  <2>2. UNCHANGED <<machine, cont, gateway, have, reading, installed, retired>> /\ pc = "write"
    BY <1>6 DEF Write
  <2>3. [hop |-> gateway, by |-> "us"] \in Route
    BY <1>0, <2>2 DEF Installing, Route
  <2>4. TypeOK'
    BY <1>0, <2>1, <2>2, <2>3, AnswersTyped DEF TypeOK, machine
  <2>5. Installing' /\ Chosen' /\ Forgotten'
    BY <1>0, <2>1, <2>2 DEF Installing, Chosen, Forgotten, Owned, Configured, machine
  <2> QED
    BY <2>4, <2>5 DEF IInv
<1>7. CASE Confirm
  <2>1. PICK ok \in BOOLEAN :
         /\ Answers(ok)
         /\ IF ok THEN Record(Fib) ELSE UNCHANGED <<installed, retired>>
    BY <1>7 DEF Confirm
  <2>2. UNCHANGED <<machine, table, reading>> /\ pc = "confirm" /\ Rest
    BY <1>7 DEF Confirm
  <2>3. gateway \in Hop
    BY <1>0, <2>2 DEF Installing
  <2>4. installed' \subseteq Hop /\ retired' \subseteq Hop /\ Forgotten'
    BY <1>0, <2>1, <2>2, <2>3, RecordKeeps
       DEF machine, TypeOK, Forgotten, Owned, Configured
  <2> QED
    BY <1>0, <2>1, <2>2, <2>4, AnswersTyped, AfterRest, RestKeeps DEF IInv, TypeOK, machine
<1>8. CASE FindRoutes
  <2>1. PICK ok \in BOOLEAN :
         /\ Answers(ok)
         /\ CASE ok /\ Present # {} ->
                   /\ pc' = "delete" /\ have' = Fib /\ todo' = Present
                   /\ UNCHANGED <<cont, gateway, installed, retired>>
              [] ok /\ Present = {} -> Drop(Fib) /\ Rest
              [] OTHER -> Rest /\ UNCHANGED <<installed, retired>>
    BY <1>8 DEF FindRoutes
  <2>2. UNCHANGED <<machine, table, reading>> /\ pc = "find"
    BY <1>8 DEF FindRoutes
  <2>3. CASE ok /\ Present # {}
    <3>1. Present \subseteq Prefix /\ \A x \in Present : Fib[x] \in Owned
      BY DEF Present, RemovalSet, Prefix
    <3>2. TypeOK'
      BY <1>0, <2>1, <2>2, <2>3, <3>1, AnswersTyped, FibTyped DEF TypeOK, machine
    <3>3. Installing' /\ Chosen' /\ Forgotten'
      BY <1>0, <2>1, <2>2, <2>3, <3>1
         DEF Installing, Chosen, Forgotten, Owned, Configured, machine
    <3> QED
      BY <3>2, <3>3 DEF IInv
  <2>4. CASE Drop(Fib) /\ Rest
    BY <1>0, <2>1, <2>2, <2>4, AnswersTyped, AfterRest, RestKeeps, DropKeeps
       DEF IInv, TypeOK, machine
  <2>5. CASE Rest /\ UNCHANGED <<installed, retired>>
    BY <1>0, <2>1, <2>2, <2>5, AnswersTyped, AfterRest, RestKeeps
       DEF IInv, TypeOK, machine, Forgotten, Owned, Configured
  <2> QED
    BY <2>1, <2>3, <2>4, <2>5
<1>9. CASE Delete
  <2>1. PICK x \in todo, ok \in BOOLEAN :
         /\ Answers(ok)
         /\ todo' = todo \ {x}
         /\ pc' = IF todo' = {} THEN "check" ELSE pc
         /\ table' = IF ok THEN [table EXCEPT ![x] = NoRoute] ELSE table
    BY <1>9 DEF Delete
  <2>2. UNCHANGED <<machine, cont, gateway, have, reading, installed, retired>> /\ pc = "delete"
    BY <1>9 DEF Delete
  <2>3. TypeOK'
    BY <1>0, <2>1, <2>2, AnswersTyped DEF TypeOK, Route, machine
  <2>4. Installing' /\ Chosen' /\ Forgotten'
    BY <1>0, <2>1, <2>2 DEF Installing, Chosen, Forgotten, Owned, Configured, machine
  <2> QED
    BY <2>3, <2>4 DEF IInv
<1>10. CASE CheckGone
  <2>1. PICK ok \in BOOLEAN :
         /\ Answers(ok)
         /\ IF ok THEN Drop(Fib) ELSE UNCHANGED <<installed, retired>>
    BY <1>10 DEF CheckGone
  <2>2. UNCHANGED <<machine, table, reading>> /\ Rest
    BY <1>10 DEF CheckGone
  <2>3. installed' \subseteq Hop /\ retired' \subseteq Hop /\ Forgotten'
    BY <1>0, <2>1, <2>2, DropKeeps DEF machine, TypeOK, Forgotten, Owned, Configured
  <2> QED
    BY <1>0, <2>1, <2>2, <2>3, AnswersTyped, AfterRest, RestKeeps DEF IInv, TypeOK, machine
<1>11. CASE Failover \/ Renumber
  BY <1>0, <1>11, FaultTyped
     DEF Failover, Renumber, IInv, TypeOK, Installing, Chosen, Forgotten, Owned, Configured, pass
<1>12. CASE Interfere \/ Vacate
  <2>1. table' \in [Prefix -> Route]
    BY <1>0, <1>12 DEF Interfere, Vacate, TypeOK, Route, Hop, Peers
  <2> QED
    BY <1>0, <1>12, <2>1, FaultTyped
       DEF Interfere, Vacate, IInv, TypeOK, Installing, Chosen, Forgotten, Owned, Configured,
           pass, machine
<1>13. CASE UNCHANGED vars
  BY <1>0, <1>13
     DEF vars, machine, pass, IInv, TypeOK, Installing, Chosen, Forgotten, Owned, Configured
<1> QED
  BY <1>1, <1>2, <1>3, <1>4, <1>5, <1>6, <1>7, <1>8, <1>9, <1>10, <1>11, <1>12, <1>13
     DEF Next, PassStep

LEMMA Invariant == Spec => []IInv
  BY InitIInv, StepIInv, PTL DEF Spec

(* Every reachable state is well typed (BackupEgressReconciler). *)
THEOREM TypeCorrect == Spec => []TypeOK
<1>1. IInv => TypeOK
  BY DEF IInv
<1> QED
  BY <1>1, Invariant, PTL

(* No route of another program, standing where the pass read it, is replaced  *)
(* or removed for a next hop the keeper has given up: _backup_owned_gateways  *)
(* never names one, and what a pass chose to write or delete it does name.    *)
THEOREM ForeignKeptAlways == Spec => ForeignKept
<1>1. ASSUME IInv, [Next]_vars, Write \/ Delete, NEW x \in Prefix,
             table[x].by = "other", table[x].hop = have[x], have[x] \in retired
      PROVE  table'[x] = table[x]
  <2>1. TypeOK /\ Chosen /\ Forgotten
    BY <1>1 DEF IInv
  <2>2. have[x] \notin Owned \cup {None}
    BY <1>1, <2>1 DEF Forgotten, TypeOK, Hop, Peers, None
  <2>3. x \notin todo
    BY <1>1, <2>1, <2>2 DEF Chosen, Write, Delete
  <2> QED
    BY <1>1, <2>1, <2>3 DEF Write, Delete, TypeOK
<1>2. IInv /\ [Next]_vars =>
        [(Write \/ Delete) => \A x \in Prefix :
           table[x].by = "other" /\ table[x].hop = have[x] /\ have[x] \in retired
             => table'[x] = table[x]]_vars
  BY <1>1
<1> QED
  BY <1>2, Invariant, PTL DEF Spec, ForeignKept

(* The refinement: every step of the keeper and of the machine is a step of   *)
(* RoleGate, or none of the things it sees changes. Only a Write puts a route *)
(* in, and its pass acts on the role backup.                                  *)
LEMMA GateInit == Init => Gate!Init
  BY DEF Init, Gate!Init, Role, Gate!Role

LEMMA WriteKeepsOurs ==
    ASSUME TypeOK, Write, NEW x \in Prefix, Ours(x)
    PROVE  Ours(x)'
  BY DEF TypeOK, Write, Ours

LEMMA DeleteAddsNone ==
    ASSUME TypeOK, Delete \/ Interfere \/ Vacate, NEW x \in Prefix, Ours(x)'
    PROVE  Ours(x)
  BY DEF TypeOK, Delete, Interfere, Vacate, Ours, NoRoute

LEMMA GateStep == IInv /\ [Next]_vars => [Gate!Next]_(Gate!vars)
<1> SUFFICES ASSUME IInv, [Next]_vars PROVE [Gate!Next]_(Gate!vars)
  OBVIOUS
<1> DEFINE up == \E x \in Prefix : Ours(x)
<1>0. TypeOK /\ Installing
  BY DEF IInv
<1>1. CASE Start
  <2>1. \A x \in Prefix : Ours(x)' = Ours(x)
    BY <1>0, <1>1 DEF Start, TypeOK, Ours
  <2>2. up' = up
    BY <2>1
  <2> QED
    BY <1>1, <2>2 DEF Start, Gate!Next, Gate!Probe
<1>2. CASE Tick
  <2>1. up' = up /\ carp' = carp /\ reading' \in {carp, reading}
    BY <1>2 DEF Tick, machine, Ours
  <2> QED
    BY <2>1 DEF Gate!Next, Gate!Probe, Gate!vars
<1>3. CASE Write
  <2>1. carp' = carp /\ reading' = reading /\ reading = "backup"
    BY <1>0, <1>3 DEF Write, machine, Installing
  <2>2. up => up'
    BY <1>0, <1>3, WriteKeepsOurs
  <2> QED
    BY <2>1, <2>2 DEF Gate!Next, Gate!Raise, Gate!vars
<1>4. CASE Delete \/ Interfere \/ Vacate
  <2>1. carp' = carp /\ reading' = reading
    BY <1>4 DEF Delete, Interfere, Vacate, machine
  <2>2. up' => up
    BY <1>0, <1>4, DeleteAddsNone
  <2> QED
    BY <2>1, <2>2 DEF Gate!Next, Gate!Lower, Gate!vars
<1>5. CASE Failover
  <2>1. up' = up /\ reading' = reading /\ carp' \in {"master", "backup"} \ {carp}
    BY <1>5 DEF Failover, Ours, Role
  <2> QED
    BY <2>1 DEF Gate!Next, Gate!Failover, Gate!Role
<1>6. CASE UNCHANGED <<carp, table, reading>>
  <2>1. up' = up
    BY <1>6 DEF Ours
  <2> QED
    BY <1>6, <2>1 DEF Gate!vars
<1>7. Stop \/ Crash \/ ReadTable \/ Confirm \/ FindRoutes \/ CheckGone \/ Renumber
        \/ UNCHANGED vars => UNCHANGED <<carp, table, reading>>
  BY DEF Stop, Crash, ReadTable, Confirm, FindRoutes, CheckGone, Renumber, vars, machine
<1> QED
  BY <1>1, <1>2, <1>3, <1>4, <1>5, <1>6, <1>7 DEF Next, PassStep

(* The backup's routes are something only a confirmed backup puts up: the     *)
(* safety half of ImplementsRoleGate.                                         *)
THEOREM RoutesImplementGate == Spec => Gate!Safe
  BY GateInit, GateStep, Invariant, PTL DEF Spec, Gate!Safe
-----------------------------------------------------------------------------
(* What a configured gateway makes sure of *)

NoneOfUs == \A x \in Prefix : table[x].by # "us"

(* With a configured gateway all routes of this process lead there, so that a *)
(* removal that nothing disturbs finds each, and deletes each.                *)
Routed == \A x \in Prefix : table[x].by = "us" => table[x].hop = "g"

Removing ==
    /\ pc \in {"read", "write", "confirm"} => gateway = "g"
    /\ pc = "delete" /\ calm => \A x \in Prefix : table[x].by = "us" => x \in todo
    /\ pc = "check" /\ calm => NoneOfUs
    /\ pc = "idle" /\ calm /\ reading = "master" => NoneOfUs

Clearing == explicit => Routed /\ Removing

CInv == IInv /\ Clearing

LEMMA InitCInv == Init => CInv
<1> SUFFICES ASSUME Init PROVE Clearing
  BY InitIInv DEF CInv
<1>1. PICK mine \in {{}, Split}, vpn \in {{}, Split} :
        table = [x \in Prefix |->
            IF x \in mine THEN [hop |-> IF explicit THEN "g" ELSE peer, by |-> "before"]
            ELSE IF x \in vpn THEN [hop |-> "q", by |-> "other"]
            ELSE NoRoute]
  BY DEF Init
<1>2. NoneOfUs
  BY <1>1 DEF NoneOfUs, NoRoute
<1> QED
  BY <1>2 DEF Init, Clearing, Routed, Removing, NoneOfUs

LEMMA StepClearing == CInv /\ [Next]_vars => Clearing'
<1> SUFFICES ASSUME CInv, [Next]_vars PROVE Clearing'
  OBVIOUS
<1>a. explicit' = explicit
  BY DEF Next, PassStep, vars, machine, Start, Stop, Crash, Tick, ReadTable, Write, Confirm,
         FindRoutes, Delete, CheckGone, Failover, Interfere, Vacate, Renumber
<1> SUFFICES ASSUME explicit PROVE Routed' /\ Removing'
  BY <1>a DEF Clearing
<1>0. TypeOK /\ Installing /\ Routed /\ Removing
  BY DEF CInv, IInv, Clearing
<1>1. CASE Start
  <2>1. NoneOfUs'
    BY <1>0, <1>1 DEF Start, TypeOK, NoneOfUs
  <2> QED
    BY <1>1, <2>1 DEF Start, Routed, Removing, NoneOfUs
<1>2. CASE Stop \/ Crash
  BY <1>0, <1>2 DEF Stop, Crash, Fault, Routed, Removing, machine
<1>3. CASE Tick
  BY <1>0, <1>3 DEF Tick, Routed, Removing, Direction, Fault, machine
<1>4. CASE ReadTable \/ Confirm
  <2>1. reading' = "backup" /\ table' = table
    BY <1>0, <1>4 DEF ReadTable, Confirm, Installing
  <2>2. pc' \in {"write", "idle", "down"} /\ (pc' = "write" => gateway' = gateway /\ gateway = "g")
    BY <1>0, <1>4 DEF ReadTable, Confirm, Removing, Rest
  <2> QED
    BY <1>0, <2>1, <2>2 DEF Routed, Removing
<1>5. CASE Write
  <2>1. gateway = "g" /\ gateway' = gateway /\ pc' \in {"write", "confirm"}
    BY <1>0, <1>5 DEF Write, Removing
  <2>2. Routed'
    BY <1>0, <1>5, <2>1 DEF Write, Routed, TypeOK
  <2> QED
    BY <2>1, <2>2 DEF Removing
<1>6. CASE FindRoutes
  <2>1. Present = {x \in Prefix : table[x].hop \in Owned} /\ "g" \in Owned
    BY DEF Present, RemovalSet, Prefix, Fib, Owned, Configured
  <2>2. \A x \in Prefix : table[x].by = "us" => x \in Present
    BY <1>0, <2>1 DEF Routed
  <2>3. PICK ok \in BOOLEAN :
         /\ Answers(ok)
         /\ CASE ok /\ Present # {} ->
                   /\ pc' = "delete" /\ have' = Fib /\ todo' = Present
                   /\ UNCHANGED <<cont, gateway, installed, retired>>
              [] ok /\ Present = {} -> Drop(Fib) /\ Rest
              [] OTHER -> Rest /\ UNCHANGED <<installed, retired>>
    BY <1>6 DEF FindRoutes
  <2>4. table' = table /\ reading' = reading
    BY <1>6 DEF FindRoutes
  <2>5. Routed'
    BY <1>0, <2>4 DEF Routed
  <2>6. CASE ok /\ Present # {}
    BY <2>2, <2>3, <2>4, <2>5, <2>6 DEF Removing
  <2>7. CASE ok /\ Present = {}
    BY <2>2, <2>3, <2>4, <2>5, <2>7 DEF Removing, Rest, NoneOfUs
  <2>8. CASE ~ok
    BY <2>3, <2>5, <2>8 DEF Removing, Rest, Answers, Fault
  <2> QED
    BY <2>5, <2>6, <2>7, <2>8
<1>7. CASE Delete
  <2>1. PICK x \in todo, ok \in BOOLEAN :
         /\ Answers(ok)
         /\ todo' = todo \ {x}
         /\ pc' = IF todo' = {} THEN "check" ELSE pc
         /\ table' = IF ok THEN [table EXCEPT ![x] = NoRoute] ELSE table
    BY <1>7 DEF Delete
  <2>2. pc = "delete"
    BY <1>7 DEF Delete
  <2>3. Routed'
    BY <1>0, <2>1 DEF Routed, TypeOK, NoRoute
  <2>4. CASE ok
    <3>1. calm' => \A y \in Prefix : table'[y].by = "us" => y \in todo'
      BY <1>0, <2>1, <2>2, <2>4 DEF Removing, Answers, TypeOK, NoRoute
    <3> QED
      BY <2>1, <2>2, <2>3, <3>1 DEF Removing, NoneOfUs
  <2>5. CASE ~ok
    BY <2>1, <2>2, <2>3, <2>5 DEF Removing, Answers, Fault
  <2> QED
    BY <2>4, <2>5
<1>8. CASE CheckGone
  BY <1>0, <1>8 DEF CheckGone, Rest, Answers, Fault, Routed, Removing, NoneOfUs
<1>9. CASE Failover
  BY <1>0, <1>9 DEF Failover, pass, Routed, Removing, NoneOfUs
<1>10. CASE Interfere
  BY <1>0, <1>10 DEF Interfere, Fault, pass, machine, Routed, Removing, TypeOK, NoRoute
<1>11. CASE Vacate
  <2>1. \A x \in Prefix : table'[x].by = "us" => table[x].by = "us" /\ table'[x] = table[x]
    BY <1>0, <1>11 DEF Vacate, TypeOK, NoRoute
  <2> QED
    BY <1>0, <1>11, <2>1 DEF Vacate, pass, machine, Routed, Removing, NoneOfUs
<1>12. CASE Renumber
  BY <1>0, <1>12 DEF Renumber, Fault, pass, Routed, Removing
<1>13. CASE UNCHANGED vars
  BY <1>0, <1>13 DEF vars, pass, Routed, Removing, NoneOfUs
<1> QED
  BY <1>1, <1>2, <1>3, <1>4, <1>5, <1>6, <1>7, <1>8, <1>9, <1>10, <1>11, <1>12, <1>13
     DEF Next, PassStep

(* "the running reconciler removes our /1 on the master" is true of a         *)
(* configured gateway, whatever was changed, lost or killed before: a master's *)
(* pass that nothing disturbs leaves none of this process's routes. With a    *)
(* derived peer a lost confirming read breaks it (SessionCleared's finding).  *)
THEOREM ConfiguredGatewayClears == Spec => [](explicit => SessionCleared)
<1>1. CInv => (explicit => SessionCleared)
  BY DEF CInv, Clearing, Removing, NoneOfUs, SessionCleared
<1>2. CInv /\ [Next]_vars => CInv'
  BY StepIInv, StepClearing DEF CInv
<1> QED
  BY <1>1, <1>2, InitCInv, PTL DEF Spec
=============================================================================
