------------------------- MODULE Supervisor_proofs -------------------------
(***************************************************************************)
(* The guard of acquire_pidfile is sound for any number of processes, as   *)
(* long as their starts do not overlap and no stop takes it from them; and *)
(* whatever rc.d and its supervisors do, the pid file only ever sees the   *)
(* steps of Pidfile, so that what is proved of the guard alone holds of it *)
(* in service, for any number of supervisors, keepers and commands. Then   *)
(* what the stops promise: of one keeper, and of all.                      *)
(***************************************************************************)
EXTENDS Supervisor, TLAPS

(* The guard alone *)

(* At most one process is inside acquire_pidfile. *)
OneStarter == \A p, q \in Proc : pc[p] \in Acquiring /\ pc[q] \in Acquiring => p = q

(* Who holds, or is about to, owns the file at the path. *)
Owner == \A p \in Proc :
    /\ pc[p] = "write" => path = p
    /\ pc[p] \in Holding => path = p /\ filled

(* A starter about to judge the pid it read still looks at that file, or at  *)
(* none; one about to unlink has no holder to harm.                          *)
Judged == \A p \in Proc :
    /\ pc[p] = "kill" => old[p] \in Proc /\ path \in {old[p], Nobody}
    /\ pc[p] = "stale" => \A q \in Proc : pc[q] \notin Holding

Sound == OneStarter /\ Owner /\ Judged

IInv == TypeOK /\ (disturbed \/ Sound)

LEMMA InitIInv == Init => IInv
  BY NobodyAssumption
     DEF Init, IInv, Sound, TypeOK, OneStarter, Owner, Judged, Acquiring, Holding

LEMMA TypeStep == TypeOK /\ [Next]_vars => TypeOK'
<1> SUFFICES ASSUME TypeOK, [Next]_vars PROVE TypeOK'
  OBVIOUS
<1> USE DEF TypeOK, Goto, Acquiring, Holding
<1>1. ASSUME NEW p \in Proc, Begin(p) PROVE TypeOK'
  BY <1>1 DEF Begin
<1>2. ASSUME NEW p \in Proc, Create(p) PROVE TypeOK'
  BY <1>2 DEF Create
<1>3. ASSUME NEW p \in Proc, Write(p) PROVE TypeOK'
  BY <1>3 DEF Write
<1>4. ASSUME NEW p \in Proc, Read(p) PROVE TypeOK'
  BY <1>4 DEF Read
<1>5. ASSUME NEW p \in Proc, Kill(p) PROVE TypeOK'
  BY <1>5 DEF Kill
<1>6. ASSUME NEW p \in Proc, Unlink(p) PROVE TypeOK'
  BY <1>6 DEF Unlink, UnlinkFailed
<1>7. ASSUME NEW p \in Proc, Finish(p) \/ Exists(p) \/ Remove(p) \/ Crash(p) PROVE TypeOK'
  BY <1>7 DEF Finish, Exists, Remove, Crash
<1>8. CASE Clear
  BY <1>8 DEF Clear
<1>9. CASE UNCHANGED vars
  BY <1>9 DEF vars
<1> QED
  BY <1>1, <1>2, <1>3, <1>4, <1>5, <1>6, <1>7, <1>8, <1>9 DEF Next, Start

(* One process moves, the others stay where they are. *)
LEMMA OneMoves ==
    ASSUME TypeOK, NEW p \in Proc, NEW l, Goto(p, l)
    PROVE  pc'[p] = l /\ \A q \in Proc \ {p} : pc'[q] = pc[q]
  BY DEF TypeOK, Goto

LEMMA StepSound == TypeOK /\ Sound /\ [Next]_vars => disturbed' \/ Sound'
<1> SUFFICES ASSUME TypeOK, Sound, [Next]_vars, ~disturbed' PROVE (OneStarter /\ Owner /\ Judged)'
  BY DEF Sound
<1> USE NobodyAssumption DEF Sound, OneStarter, Owner, Judged, Acquiring, Holding
<1>1. ASSUME NEW p \in Proc, Begin(p) PROVE (OneStarter /\ Owner /\ Judged)'
  BY <1>1, OneMoves DEF Begin
<1>2. ASSUME NEW p \in Proc, Create(p) PROVE (OneStarter /\ Owner /\ Judged)'
  <2>1. CASE path = Nobody /\ path' = p /\ filled' = FALSE /\ Goto(p, "write")
    BY <1>2, <2>1, OneMoves DEF Create
  <2>2. CASE path # Nobody /\ Goto(p, "read") /\ UNCHANGED <<path, filled>>
    BY <1>2, <2>2, OneMoves DEF Create
  <2>3. CASE Goto(p, "dead") /\ UNCHANGED <<path, filled>>
    BY <1>2, <2>3, OneMoves DEF Create
  <2> QED
    BY <1>2, <2>1, <2>2, <2>3 DEF Create
<1>3. ASSUME NEW p \in Proc, Write(p) PROVE (OneStarter /\ Owner /\ Judged)'
  <2>1. CASE Goto(p, "running") /\ filled' = (filled \/ path = p)
    <3>1. path = p /\ path' = path /\ filled' = TRUE
      BY <1>3, <2>1 DEF Write, TypeOK
    <3> QED
      BY <1>3, <2>1, <3>1, OneMoves DEF Write
  <2>2. CASE Goto(p, "dead") /\ UNCHANGED filled
    BY <1>3, <2>2, OneMoves DEF Write
  <2> QED
    BY <1>3, <2>1, <2>2 DEF Write
<1>4. ASSUME NEW p \in Proc, Read(p) PROVE (OneStarter /\ Owner /\ Judged)'
  <2>1. path \in Proc \cup {Nobody} /\ old'[p] = IF Readable THEN path ELSE Nobody
    BY <1>4 DEF Read, TypeOK
  <2>2. \A q \in Proc \ {p} : old'[q] = old[q]
    BY <1>4 DEF Read, TypeOK
  <2>3. CASE Readable
    BY <1>4, <2>1, <2>2, <2>3, OneMoves DEF Read, Readable
  <2>4. CASE ~Readable
    BY <1>4, <2>1, <2>2, <2>4, OneMoves DEF Read, Readable
  <2> QED
    BY <2>3, <2>4
<1>5. ASSUME NEW p \in Proc, Kill(p) PROVE (OneStarter /\ Owner /\ Judged)'
  <2>1. CASE Alive(old[p])
    BY <1>5, <2>1, OneMoves DEF Kill
  <2>2. CASE ~Alive(old[p])
    <3>1. \A q \in Proc : pc[q] \notin Holding
      BY <1>5, <2>2 DEF Kill, Alive
    <3> QED
      BY <1>5, <2>2, <3>1, OneMoves DEF Kill
  <2> QED
    BY <2>1, <2>2
<1>6. ASSUME NEW p \in Proc, Unlink(p) PROVE (OneStarter /\ Owner /\ Judged)'
  <2>1. CASE path # Nobody /\ path' = Nobody /\ Goto(p, "create")
    BY <1>6, <2>1, OneMoves DEF Unlink
  <2>2. CASE Goto(p, UnlinkFailed) /\ UNCHANGED path
    BY <1>6, <2>2, OneMoves DEF Unlink, UnlinkFailed
  <2> QED
    BY <1>6, <2>1, <2>2 DEF Unlink
<1>7. ASSUME NEW p \in Proc, Finish(p) PROVE (OneStarter /\ Owner /\ Judged)'
  BY <1>7, OneMoves DEF Finish
<1>8. ASSUME NEW p \in Proc, Exists(p) PROVE (OneStarter /\ Owner /\ Judged)'
  <2>1. CASE path = Nobody
    BY <1>8, <2>1, OneMoves DEF Exists
  <2>2. CASE path # Nobody
    BY <1>8, <2>2, OneMoves DEF Exists
  <2> QED
    BY <2>1, <2>2
<1>9. ASSUME NEW p \in Proc, Remove(p) PROVE (OneStarter /\ Owner /\ Judged)'
  BY <1>9, OneMoves DEF Remove
<1>10. ASSUME NEW p \in Proc, Crash(p) PROVE (OneStarter /\ Owner /\ Judged)'
  BY <1>10, OneMoves DEF Crash
<1>11. CASE Clear
  BY <1>11 DEF Clear, Alive
<1>12. CASE UNCHANGED vars
  BY <1>12 DEF vars
<1> QED
  BY <1>1, <1>2, <1>3, <1>4, <1>5, <1>6, <1>7, <1>8, <1>9, <1>10, <1>11, <1>12 DEF Next, Start

(* Once it was disturbed nothing is claimed any more. *)
LEMMA StepIInv == IInv /\ [Next]_vars => IInv'
<1> SUFFICES ASSUME IInv, [Next]_vars PROVE IInv'
  OBVIOUS
<1>1. TypeOK'
  BY TypeStep DEF IInv
<1>2. disturbed => disturbed'
  BY DEF Next, vars, Start, Begin, Create, Write, Read, Kill, Unlink, Finish, Exists,
         Remove, Crash, Clear
<1> QED
  BY <1>1, <1>2, StepSound DEF IInv

(* acquire_pidfile admits one keeper per file, and no later start or exit    *)
(* takes that file away, as long as starts are serial.                       *)
THEOREM HolderKeepsItsFileAlways == Spec => []HolderKeepsItsFile
<1>1. IInv => HolderKeepsItsFile
  BY DEF IInv, Sound, Owner, HolderKeepsItsFile
<1> QED
  BY <1>1, InitIInv, StepIInv, PTL DEF Spec

-----------------------------------------------------------------------------
(* The guard in service *)

LEMMA TermStep == \A p : Term(p) => [Next]_vars
  BY DEF Term, Next, guard

LEMMA TermSupStep == \A s : TermSup(s) => [Next]_vars
  BY TermStep DEF TermSup, guard

LEMMA SlayStep == \A p : Slay(p) => [Next]_vars
  BY DEF Slay, Keepers, Next, guard

LEMMA LaunchStep == \A s : Launch(s) => [Next]_vars
<1> SUFFICES ASSUME NEW s, Launch(s) PROVE [Next]_vars
  OBVIOUS
<1>1. PICK p \in FreePids : Begin(p)
  BY DEF Launch
<1> QED
  BY <1>1 DEF FreePids, Next

LEMMA GuardStep == TypeOK /\ [SupNext]_all => [Next]_vars
<1> SUFFICES ASSUME TypeOK, [SupNext]_all PROVE [Next]_vars
  OBVIOUS
<1>1. ASSUME NEW s \in Sup, Spawn(s) \/ Reap(s) PROVE [Next]_vars
  BY <1>1, LaunchStep DEF Spawn, Reap, guard
<1>2. ASSUME NEW p \in Proc, Acquire(p) \/ Return(p) \/ Leave(p) \/ Die(p) PROVE [Next]_vars
  BY <1>2 DEF Acquire, Return, Leave, Die, Next
<1>3. CASE StartKeeper
  BY <1>3, LaunchStep DEF StartKeeper
<1>4. CASE SignalOne
  BY <1>4, TermStep, TermSupStep DEF SignalOne
<1>5. CASE KillOne
  BY <1>5, SlayStep DEF KillOne
<1>6. CASE RemoveAllFiles \/ RemoveFiles
  BY <1>6 DEF RemoveAllFiles, RemoveFiles, Next
<1>7. CASE StopOne
  BY <1>7, TermSupStep DEF StopOne, guard
<1>8. CASE StopOneChild
  BY <1>8, TermStep DEF StopOneChild, guard
<1>9. CASE StopOneKill
  <2>1. CASE KeeperListed
    <3>1. path \in Proc
      BY <2>1 DEF TypeOK, KeeperListed, Readable
    <3> QED
      BY <1>9, <2>1, <3>1 DEF StopOneKill, Next
  <2>2. CASE ~KeeperListed
    BY <1>9, <2>2 DEF StopOneKill, guard
  <2> QED
    BY <2>1, <2>2
<1>10. CASE StopAll \/ Signalled \/ Waited \/ Killed \/ WaitedOne \/ UNCHANGED all
  BY <1>10 DEF StopAll, Signalled, Waited, Killed, WaitedOne, all, guard
<1> QED
  BY <1>1, <1>2, <1>3, <1>4, <1>5, <1>6, <1>7, <1>8, <1>9, <1>10
  DEF SupNext, DaemonStep, KeeperStep, CommandStep

(* The composition implements the guard: rc.d and daemon(8) use the pid file  *)
(* in no other way than Pidfile describes.                                    *)
THEOREM ComposedGuard == SupSpec => Spec
<1>1. SupInit => Init
  BY DEF SupInit
<1>2. Init => TypeOK
  BY InitIInv DEF IInv
<1> QED
  BY <1>1, <1>2, TypeStep, GuardStep, PTL DEF SupSpec, Spec

(* So a keeper in service keeps its pid file until a stop overlooks it or a   *)
(* second supervisor's start overlaps its own.                                *)
THEOREM HolderKeepsItsFileInService == SupSpec => []HolderKeepsItsFile
  BY ComposedGuard, HolderKeepsItsFileAlways, PTL

(* "two near-simultaneous starts can't both win" (acquire_pidfile), as far as  *)
(* it is true: in service no two keepers hold the file together unless starts  *)
(* did overlap or a stop took the file from under one of them.                 *)
THEOREM OneInstanceInService == SupSpec => [](~disturbed => SingleInstance)
<1>1. HolderKeepsItsFile => (~disturbed => SingleInstance)
  BY DEF HolderKeepsItsFile, SingleInstance
<1> QED
  BY <1>1, HolderKeepsItsFileInService, PTL

-----------------------------------------------------------------------------
(* A stop of one *)

(* A supervisor that has a keeper, or will have one. *)
Serves(s) == Respawns(s) \/ (sup[s] = "termed" /\ child[s] \in Keepers)

(* As long as no stop of all overlooked a supervisor, whoever lives is found  *)
(* through the files: the supervisor's file names the one that serves, and    *)
(* every keeper is its child. (One told to end may still wait to be reaped.)  *)
Sole ==
    /\ ~disturbed
    /\ \A s \in Sup : Serves(s) => supfile = s
    /\ \A p \in Proc : Alive(p) => \E s \in Sup : sup[s] \in {"waiting", "termed"} /\ child[s] = p

(* What a stop of one has reached: nothing respawns from its first signal on, *)
(* after the wait every keeper left is one its file names, and then none is.  *)
Retiring ==
    /\ rc \in {"child one", "wait one", "kill one", "rm one"} =>
         \A s \in Sup : sup[s] \in {"dead", "termed"}
    /\ rc = "kill one" => \A p \in Proc : Alive(p) => pc[p] \in Holding
    /\ rc = "rm one" => ~SupListed /\ \A p \in Proc : ~Alive(p)

Found == ~stray => Sole /\ Retiring

SupIInv == SupTypeOK /\ IInv /\ Found

(* No keeper is started, and one that holds the file goes on to leave it.    *)
NoneBorn ==
    /\ disturbed' = disturbed
    /\ \A q \in Proc : Alive(q)' => Alive(q) /\ (pc[q] \in Holding => pc'[q] \in Holding)

LEMMA KeeperNoneBorn ==
    ASSUME TypeOK, NEW p \in Proc, Start(p) \/ Finish(p) \/ Exists(p) \/ Remove(p) \/ Crash(p)
    PROVE  NoneBorn
<1> USE DEF TypeOK, NoneBorn, Alive, Goto, Acquiring, Holding
<1>1. CASE Create(p) \/ Write(p)
  BY <1>1 DEF Create, Write
<1>2. CASE Read(p) \/ Kill(p)
  BY <1>2 DEF Read, Kill
<1>3. CASE Unlink(p)
  BY <1>3 DEF Unlink, UnlinkFailed
<1>4. CASE Finish(p) \/ Exists(p) \/ Remove(p) \/ Crash(p)
  BY <1>4 DEF Finish, Exists, Remove, Crash
<1> QED
  BY <1>1, <1>2, <1>3, <1>4 DEF Start

LEMMA StillNoneBorn == UNCHANGED guard => NoneBorn
  BY DEF guard, vars, NoneBorn, Alive

LEMMA TermNoneBorn ==
    ASSUME SupTypeOK, NEW p, Term(p) PROVE NoneBorn /\ told' \subseteq Proc
  BY KeeperNoneBorn, StillNoneBorn DEF Term, SupTypeOK

LEMMA SlayNoneBorn ==
    ASSUME TypeOK, NEW p \in Proc, Slay(p) PROVE NoneBorn /\ ~Alive(p)'
<1>1. CASE p \in Keepers
  <2>1. Crash(p) /\ pc'[p] = "dead"
    BY <1>1 DEF Slay, Crash, Goto, TypeOK
  <2> QED
    BY <2>1, KeeperNoneBorn DEF Alive
<1>2. CASE p \notin Keepers
  BY <1>2, StillNoneBorn DEF Slay, Keepers, Alive, guard, vars
<1> QED
  BY <1>1, <1>2

LEMMA LaunchBirth ==
    ASSUME SupTypeOK, NEW s \in Sup, Launch(s), \A q \in Proc : ~Alive(q)
    PROVE  \E p \in Proc :
             /\ disturbed' = disturbed /\ \A q \in Proc : Alive(q)' => q = p
             /\ sup' = [sup EXCEPT ![s] = "waiting"] /\ child' = [child EXCEPT ![s] = p]
             /\ told' \subseteq Proc /\ \A t \in Sup : child[t] # p
             /\ Begin(p) /\ told' = told \ {p}
<1>1. PICK p \in Proc : /\ Begin(p) /\ child' = [child EXCEPT ![s] = p] /\ told' = told \ {p}
                        /\ \A t \in Sup : child[t] # p
  BY DEF Launch, FreePids
<1>2. disturbed' = disturbed
  BY <1>1 DEF Begin, SupTypeOK, TypeOK, Alive, Acquiring
<1>3. \A q \in Proc : Alive(q)' => q = p
  BY <1>1 DEF Begin, Goto, Alive, SupTypeOK, TypeOK
<1> QED
  BY <1>1, <1>2, <1>3 DEF Launch, SupTypeOK

LEMMA TermSupEffect ==
    ASSUME SupTypeOK, NEW s \in Sup, TermSup(s)
    PROVE  /\ NoneBorn /\ told' \subseteq Proc
           /\ \A t \in Sup \ {s} : sup'[t] = sup[t]
           /\ sup[s] = "waiting" => sup'[s] = "termed"
           /\ sup[s] = "delay" => sup'[s] = "dead"
           /\ sup[s] \in {"dead", "termed"} => sup'[s] = sup[s]
           /\ sup' \in [Sup -> {"dead", "delay", "waiting", "termed"}]
<1>1. NoneBorn /\ told' \subseteq Proc
  BY TermNoneBorn, StillNoneBorn DEF TermSup, SupTypeOK
<1> QED
  BY <1>1 DEF TermSup, AfterTerm, SupTypeOK

LEMMA InitSupIInv == SupInit => SupIInv
<1> SUFFICES ASSUME SupInit PROVE SupIInv
  OBVIOUS
<1>1. IInv
  BY InitIInv DEF SupInit
<1>2. SupTypeOK
  <2>1. faults \in 0 .. MaxFaults /\ commands \in 0 .. MaxCommands
    BY BoundsAssumption DEF SupInit
  <2>2. sup \in [Sup -> {"dead", "delay", "waiting", "termed"}] /\ child \in [Sup -> Proc \cup {Nobody}]
    BY DEF SupInit
  <2> QED
    BY <1>1, <2>1, <2>2 DEF SupInit, SupTypeOK, IInv
<1>3. Found
  BY DEF SupInit, Init, Found, Sole, Retiring, Alive, Serves, Respawns, Keepers
<1> QED
  BY <1>1, <1>2, <1>3 DEF SupIInv

LEMMA Counted ==
    ASSUME SupTypeOK
    PROVE  /\ Fault \/ UNCHANGED faults => faults' \in 0 .. MaxFaults
           /\ Command \/ UNCHANGED commands => commands' \in 0 .. MaxCommands
<1>1. faults \in 0 .. MaxFaults /\ commands \in 0 .. MaxCommands
  BY DEF SupTypeOK
<1>2. ASSUME Fault PROVE faults' \in 0 .. MaxFaults
  BY <1>1, <1>2, BoundsAssumption DEF Fault
<1>3. ASSUME Command PROVE commands' \in 0 .. MaxCommands
  BY <1>1, <1>3, BoundsAssumption DEF Command
<1> QED
  BY <1>1, <1>2, <1>3

LEMMA SupTypeStep == SupTypeOK /\ [SupNext]_all => SupTypeOK'
<1> SUFFICES ASSUME SupTypeOK, [SupNext]_all PROVE SupTypeOK'
  OBVIOUS
<1>0. TypeOK'
  BY TypeStep, GuardStep DEF SupTypeOK
<1> USE BoundsAssumption DEF SupTypeOK
<1>1. ASSUME NEW s \in Sup, Spawn(s) PROVE SupTypeOK'
  <2>1. PICK p \in Proc : child' = [child EXCEPT ![s] = p] /\ told' = told \ {p}
    BY <1>1 DEF Spawn, Launch, FreePids
  <2> QED
    BY <1>0, <1>1, <2>1 DEF Spawn, Launch, command
<1>2. ASSUME NEW s \in Sup, Reap(s) PROVE SupTypeOK'
  BY <1>0, <1>2 DEF Reap, command
<1>3. ASSUME NEW p \in Proc, Acquire(p) \/ Return(p) \/ Leave(p) \/ Die(p) PROVE SupTypeOK'
  <2>0. Fault \/ UNCHANGED faults
    BY <1>3 DEF Acquire, Return, Leave, Die
  <2>1. faults' \in 0 .. MaxFaults
    BY <2>0, Counted
  <2>2. UNCHANGED <<sup, child, supfile, told, rc, commands, found, stray>>
    BY <1>3 DEF Acquire, Return, Leave, Die, daemon, command
  <2> QED
    BY <1>0, <2>1, <2>2
<1>4. CASE StartKeeper
  <2> DEFINE s == CHOOSE t \in Sup : sup[t] = "dead"
  <2>1. s \in Sup /\ Launch(s) /\ supfile' = s
    BY <1>4 DEF StartKeeper
  <2>2. PICK p \in Proc : child' = [child EXCEPT ![s] = p] /\ told' = told \ {p}
    BY <2>1 DEF Launch, FreePids
  <2>3. sup' = [sup EXCEPT ![s] = "waiting"]
    BY <2>1 DEF Launch
  <2> HIDE DEF s
  <2> QED
    BY <1>0, <1>4, <2>1, <2>2, <2>3 DEF StartKeeper, Command
<1>5. CASE SignalOne
  <2>1. told' \subseteq Proc /\ sup' \in [Sup -> {"dead", "delay", "waiting", "termed"}]
        /\ found' \subseteq Proc
    BY <1>5, TermNoneBorn, TermSupEffect DEF SignalOne, Parents
  <2> QED
    BY <1>0, <1>5, <2>1 DEF SignalOne
<1>6. CASE KillOne
  <2>1. /\ sup' \in [Sup -> {"dead", "delay", "waiting", "termed"}]
        /\ child' \in [Sup -> Proc \cup {Nobody}] /\ found' \subseteq Proc
    BY <1>6 DEF KillOne
  <2> QED
    BY <1>0, <1>6, <2>1 DEF KillOne
<1>7. CASE StopAll \/ Signalled \/ Waited \/ Killed \/ WaitedOne
  <2>1. UNCHANGED <<sup, child, supfile, told, faults, stray>>
    BY <1>7 DEF StopAll, Signalled, Waited, Killed, WaitedOne, daemon
  <2>0. Command \/ UNCHANGED commands
    BY <1>7 DEF StopAll, Signalled, Waited, Killed, WaitedOne
  <2>2. commands' \in 0 .. MaxCommands
    BY <2>0, Counted
  <2>3. found' \subseteq Proc /\ rc' \in {"signal", "wait", "kill", "rm", "kill one"}
    BY <1>7 DEF StopAll, Signalled, Waited, Killed, WaitedOne, Keepers
  <2> QED
    BY <1>0, <2>1, <2>2, <2>3
<1>8. CASE RemoveAllFiles \/ RemoveFiles
  BY <1>0, <1>8 DEF RemoveAllFiles, RemoveFiles
<1>9. CASE StopOne
  <2>1. told' \subseteq Proc /\ sup' \in [Sup -> {"dead", "delay", "waiting", "termed"}]
    <3>1. CASE SupListed
      <4>1. PICK s \in Sup : s = supfile /\ TermSup(s)
        BY <1>9, <3>1 DEF StopOne, SupListed, Lives
      <4> QED
        BY <4>1, TermSupEffect
    <3>2. CASE ~SupListed
      BY <1>9, <3>2 DEF StopOne
    <3> QED
      BY <3>1, <3>2
  <2>2. commands' \in 0 .. MaxCommands
    BY <1>9, Counted DEF StopOne
  <2> QED
    BY <1>0, <1>9, <2>1, <2>2 DEF StopOne
<1>10. CASE StopOneChild
  <2>1. told' \subseteq Proc
    BY <1>10, TermNoneBorn DEF StopOneChild
  <2> QED
    BY <1>0, <1>10, <2>1 DEF StopOneChild, daemon
<1>11. CASE StopOneKill
  <2>1. /\ sup' \in [Sup -> {"dead", "delay", "waiting", "termed"}]
        /\ child' \in [Sup -> Proc \cup {Nobody}]
    BY <1>11 DEF StopOneKill
  <2> QED
    BY <1>0, <1>11, <2>1 DEF StopOneKill
<1>12. CASE UNCHANGED all
  BY <1>0, <1>12 DEF all, daemon, command
<1> QED
  BY <1>1, <1>2, <1>3, <1>4, <1>5, <1>6, <1>7, <1>8, <1>9, <1>10, <1>11, <1>12
  DEF SupNext, DaemonStep, KeeperStep, CommandStep

(* Keepers leave and supervisors end without being missed. *)
LEMMA SoleStays ==
    ASSUME Sole, NoneBorn, supfile' = supfile,
           \A s \in Sup : sup'[s] = "dead"
                              \/ (child'[s] = child[s] /\ (sup'[s] = sup[s] \/ sup[s] = "waiting")),
           \A s \in Sup, q \in Proc : sup[s] \in {"waiting", "termed"} /\ child[s] = q /\ Alive(q)' =>
               sup'[s] \in {"waiting", "termed"} /\ child'[s] = q
    PROVE  Sole'
<1>1. ASSUME NEW p \in Proc, Alive(p)' PROVE \E s \in Sup : sup'[s] \in {"waiting", "termed"} /\ child'[s] = p
  <2>1. PICK s \in Sup : sup[s] \in {"waiting", "termed"} /\ child[s] = p
    BY <1>1 DEF NoneBorn, Sole
  <2> QED
    BY <1>1, <2>1
<1>2. ASSUME NEW s \in Sup, Serves(s)' PROVE Serves(s)
  BY <1>2 DEF Serves, Respawns, Keepers, NoneBorn
<1> QED
  BY <1>1, <1>2 DEF Sole, NoneBorn

LEMMA RetiringStays ==
    ASSUME Retiring, NoneBorn, rc' = rc, supfile' = supfile,
           \A s \in Sup : sup[s] \in {"dead", "termed"} => sup'[s] \in {"dead", sup[s]}
    PROVE  Retiring'
  BY DEF Retiring, NoneBorn, SupListed, Lives

(* Every keeper is the child of the one supervisor that serves. *)
LEMMA Parent ==
    ASSUME Sole, NEW q \in Proc, Alive(q)
    PROVE  \E s \in Sup : /\ sup[s] \in {"waiting", "termed"} /\ child[s] = q
                          /\ Serves(s) /\ supfile = s
  BY DEF Sole, Serves, Respawns, Keepers

LEMMA OneKeeper == Sole => \A p, q \in Proc : Alive(p) /\ Alive(q) => p = q
  BY Parent

LEMMA NobodyServes ==
    ASSUME Sole, ~SupListed
    PROVE  /\ \A s \in Sup : ~Serves(s)
           /\ \A q \in Proc : ~Alive(q)
<1>1. \A s \in Sup : ~Serves(s)
  BY DEF Sole, SupListed, Lives, Serves, Respawns
<1> QED
  BY <1>1, Parent

(* A child comes into the world of one supervisor, where no keeper is. *)
LEMMA BirthSole ==
    ASSUME SupTypeOK, Sole, NEW s \in Sup, Launch(s), supfile' = s,
           \A t \in Sup \ {s} : ~Serves(t), \A q \in Proc : ~Alive(q)
    PROVE  Sole'
<1>1. PICK p \in Proc :
        /\ disturbed' = disturbed /\ \A q \in Proc : Alive(q)' => q = p
        /\ sup' = [sup EXCEPT ![s] = "waiting"] /\ child' = [child EXCEPT ![s] = p]
        /\ \A t \in Sup : child[t] # p
  BY LaunchBirth
<1>2. sup'[s] = "waiting" /\ child'[s] = p
  BY <1>1 DEF SupTypeOK
<1>3. ASSUME NEW t \in Sup \ {s} PROVE ~Serves(t)'
  <2>1. sup'[t] = sup[t] /\ child'[t] = child[t] /\ child[t] # p
    BY <1>1 DEF SupTypeOK
  <2> QED
    BY <1>1, <2>1 DEF Serves, Respawns, Keepers
<1> QED
  BY <1>1, <1>2, <1>3 DEF Sole

LEMMA DaemonFound ==
    ASSUME SupTypeOK, Sole, Retiring, NEW s \in Sup, Spawn(s) \/ Reap(s) PROVE Sole' /\ Retiring'
<1>1. CASE Spawn(s)
  <2>1. supfile = s /\ \A t \in Sup \ {s} : ~Serves(t)
    BY <1>1 DEF Spawn, Sole, Serves, Respawns
  <2>2. \A q \in Proc : ~Alive(q)
    BY <1>1, <2>1, Parent DEF Spawn
  <2>3. Sole'
    BY <1>1, <2>1, <2>2, BirthSole DEF Spawn
  <2>4. rc' = rc /\ rc \notin {"child one", "wait one", "kill one", "rm one"}
    BY <1>1 DEF Spawn, Retiring, command
  <2> QED
    BY <2>3, <2>4 DEF Retiring
<1>2. CASE Reap(s)
  <2>1. disturbed' = disturbed /\ rc' = rc /\ pc' = pc /\ \A q \in Proc : Alive(q)' <=> Alive(q)
    BY <1>2 DEF Reap, guard, vars, Alive, command
  <2>2. /\ sup'[s] = IF sup[s] = "waiting" THEN "delay" ELSE "dead"
        /\ \A t \in Sup \ {s} : sup'[t] = sup[t] /\ child'[t] = child[t]
    BY <1>2 DEF Reap, SupTypeOK
  <2>3. sup[s] \in {"waiting", "termed"} /\ ~Alive(child[s])
        /\ supfile' = IF sup[s] = "termed" /\ supfile = s THEN Nobody ELSE supfile
    BY <1>2 DEF Reap
  <2>4. ASSUME NEW t \in Sup, Serves(t)' PROVE supfile' = t
    <3>1. CASE t = s
      <4>1. sup[s] = "waiting"
        BY <2>2, <2>4, <3>1 DEF Serves, Respawns
      <4>2. supfile = s
        BY <4>1 DEF Sole, Serves, Respawns
      <4> QED
        BY <2>3, <3>1, <4>1, <4>2
    <3>2. CASE t # s
      <4>1. Serves(t)
        BY <2>1, <2>2, <2>4, <3>2 DEF Serves, Respawns, Keepers
      <4>2. supfile = t
        BY <4>1 DEF Sole
      <4> QED
        BY <2>3, <3>2, <4>2
    <3> QED
      BY <3>1, <3>2
  <2>5. ASSUME NEW p \in Proc, Alive(p)'
        PROVE  \E t \in Sup : sup'[t] \in {"waiting", "termed"} /\ child'[t] = p
    <3>1. PICK t \in Sup : sup[t] \in {"waiting", "termed"} /\ child[t] = p
      BY <2>1, <2>5 DEF Sole
    <3>2. t # s
      BY <2>1, <2>3, <2>5, <3>1
    <3> QED
      BY <2>2, <3>1, <3>2
  <2>6. Sole'
    BY <2>1, <2>4, <2>5 DEF Sole
  <2>7. rc = "rm one" => ~SupListed'
    <3>1. ASSUME rc = "rm one", SupListed' PROVE FALSE
      <4>1. supfile' \in Sup /\ supfile' = supfile
        BY <2>3, <3>1, SupAssumption DEF SupListed, Lives
      <4>2. supfile # s \/ sup'[s] = "dead"
        BY <2>2, <2>3, <3>1 DEF Retiring
      <4> QED
        BY <2>2, <3>1, <4>1, <4>2 DEF SupListed, Lives, Retiring
    <3> QED
      BY <3>1
  <2>8. Retiring'
    BY <2>1, <2>2, <2>3, <2>7 DEF Retiring
  <2> QED
    BY <2>6, <2>8
<1> QED
  BY <1>1, <1>2

LEMMA StopAllFound ==
    ASSUME SupTypeOK, Sole, Retiring, ~stray',
           StopAll \/ SignalOne \/ Signalled \/ Waited \/ KillOne \/ Killed \/ RemoveAllFiles
    PROVE  Sole' /\ Retiring'
<1>1. CASE StopAll \/ Signalled \/ Waited \/ Killed
  <2>1. /\ UNCHANGED guard /\ UNCHANGED daemon
        /\ rc' \notin {"child one", "wait one", "kill one", "rm one"}
    BY <1>1 DEF StopAll, Signalled, Waited, Killed
  <2>2. Sole'
    BY <2>1, StillNoneBorn, SoleStays DEF daemon
  <2> QED
    BY <2>1, <2>2 DEF Retiring
<1>2. CASE SignalOne
  <2>1. rc' = "signal" /\ child' = child /\ supfile' = supfile
    BY <1>2 DEF SignalOne
  <2>2. PICK p \in found : IF Parents(p) = {} THEN Term(p) /\ UNCHANGED sup
                                              ELSE \E s \in Parents(p) : TermSup(s)
    BY <1>2 DEF SignalOne
  <2>3. CASE Parents(p) = {}
    <3>1. NoneBorn /\ sup' = sup
      BY <2>2, <2>3, TermNoneBorn
    <3> QED
      BY <2>1, <3>1, SoleStays DEF Retiring
  <2>4. CASE Parents(p) # {}
    <3>1. PICK s \in Sup : TermSup(s) /\ sup[s] \in {"waiting", "termed"}
      BY <2>2, <2>4 DEF Parents
    <3>2. NoneBorn /\ sup'[s] = "termed" /\ \A t \in Sup \ {s} : sup'[t] = sup[t]
      BY <3>1, TermSupEffect
    <3>3. Sole'
      BY <2>1, <3>1, <3>2, SoleStays
    <3> QED
      BY <2>1, <3>3 DEF Retiring
  <2> QED
    BY <2>3, <2>4
<1>3. CASE KillOne
  <2>1. rc' = "kill" /\ supfile' = supfile
    BY <1>3 DEF KillOne
  <2>2. PICK p \in found :
          /\ sup' = [s \in Sup |-> IF s \in Parents(p) THEN "dead" ELSE sup[s]]
          /\ child' = [s \in Sup |-> IF s \in Parents(p) THEN Nobody ELSE child[s]]
          /\ Slay(p)
    BY <1>3 DEF KillOne
  <2>3. NoneBorn /\ ~Alive(p)'
    BY <2>2, SlayNoneBorn DEF SupTypeOK
  <2>4. ASSUME NEW s \in Sup, NEW q \in Proc, sup[s] \in {"waiting", "termed"}, child[s] = q, Alive(q)'
        PROVE  sup'[s] = sup[s] /\ child'[s] = q
    <3>1. s \notin Parents(p)
      BY <2>3, <2>4 DEF Parents
    <3> QED
      BY <2>2, <2>4, <3>1
  <2>5. \A s \in Sup : sup'[s] = "dead"
                              \/ (child'[s] = child[s] /\ (sup'[s] = sup[s] \/ sup[s] = "waiting"))
    BY <2>2
  <2>a. \A s \in Sup, q \in Proc : sup[s] \in {"waiting", "termed"} /\ child[s] = q /\ Alive(q)' =>
               sup'[s] \in {"waiting", "termed"} /\ child'[s] = q
    BY <2>4
  <2>6. Sole'
    BY <2>1, <2>3, <2>5, <2>a, SoleStays
  <2> QED
    BY <2>1, <2>6 DEF Retiring
<1>4. CASE RemoveAllFiles
  <2>1. (\A q \in Proc : ~Alive(q)) /\ \A s \in Sup : ~Respawns(s)
    BY <1>4 DEF RemoveAllFiles, Keepers
  <2>2. rc' = "idle" /\ sup' = sup /\ pc' = pc /\ disturbed' = disturbed
    BY <1>4, <2>1 DEF RemoveAllFiles, Clear, SupTypeOK, TypeOK
  <2> QED
    BY <2>1, <2>2 DEF Sole, Retiring, Alive, Serves, Respawns, Keepers
<1> QED
  BY <1>1, <1>2, <1>3, <1>4

(* The signal goes to the one supervisor; when the wait is over a keeper that *)
(* still starts would be its only child, and none that runs.                  *)
LEMMA StopOneFound ==
    ASSUME SupTypeOK, IInv, Sole, Retiring,
           StopOne \/ StopOneChild \/ WaitedOne \/ StopOneKill \/ RemoveFiles
    PROVE  Sole' /\ Retiring'
<1>0. \A s \in Sup : Serves(s) => SupListed /\ supfile = s
  BY DEF Sole, SupListed, Lives, Serves, Respawns
<1>1. CASE StopOne
  <2>1. rc' = "child one" /\ supfile' = supfile /\ child' = child
    BY <1>1 DEF StopOne
  <2>2. CASE SupListed
    <3>1. PICK s \in Sup : s = supfile /\ TermSup(s)
      BY <1>1, <2>2 DEF StopOne, SupListed, Lives
    <3>2. /\ NoneBorn /\ \A t \in Sup \ {s} : ~Serves(t) /\ sup'[t] = sup[t]
          /\ sup[s] = "waiting" => sup'[s] = "termed"
          /\ sup[s] = "delay" => sup'[s] = "dead"
          /\ sup[s] \in {"dead", "termed"} => sup'[s] = sup[s]
      BY <1>0, <3>1, TermSupEffect
    <3>3. \A u \in Sup : sup[u] \in {"dead", "delay", "waiting", "termed"}
      BY DEF SupTypeOK
    <3>4. \A u \in Sup : /\ sup'[u] \in {"dead", "termed"}
                         /\ sup'[u] = "dead" \/ sup'[u] = sup[u] \/ sup[u] = "waiting"
                         /\ sup[u] \in {"waiting", "termed"} => sup'[u] = "termed"
      BY <3>2, <3>3 DEF Serves, Respawns
    <3>a. \A u \in Sup : sup'[u] = "dead"
                              \/ (child'[u] = child[u] /\ (sup'[u] = sup[u] \/ sup[u] = "waiting"))
      BY <2>1, <3>4
    <3>b. \A u \in Sup, q \in Proc : sup[u] \in {"waiting", "termed"} /\ child[u] = q /\ Alive(q)' =>
               sup'[u] \in {"waiting", "termed"} /\ child'[u] = q
      BY <2>1, <3>4
    <3>5. Sole'
      BY <2>1, <3>2, <3>a, <3>b, SoleStays
    <3> QED
      BY <2>1, <3>4, <3>5 DEF Retiring
  <2>3. CASE ~SupListed
    <3>1. sup' = sup /\ UNCHANGED guard /\ \A s \in Sup : sup[s] \in {"dead", "termed"}
      BY <1>0, <1>1, <2>3 DEF StopOne, Serves, Respawns, SupTypeOK
    <3>2. NoneBorn
      BY <3>1, StillNoneBorn
    <3>3. Sole'
      BY <2>1, <3>1, <3>2, SoleStays
    <3> QED
      BY <2>1, <3>1, <3>3 DEF Retiring
  <2> QED
    BY <2>2, <2>3
<1>2. CASE StopOneChild
  <2>1. rc = "child one" /\ rc' = "wait one" /\ UNCHANGED <<sup, child, supfile>>
    BY <1>2 DEF StopOneChild, daemon
  <2>2. NoneBorn
    BY <1>2, TermNoneBorn, StillNoneBorn DEF StopOneChild
  <2>3. Sole'
    BY <2>1, <2>2, SoleStays
  <2> QED
    BY <2>1, <2>3 DEF Retiring
<1>3. CASE WaitedOne
  <2>1. rc = "wait one" /\ rc' = "kill one" /\ UNCHANGED guard /\ UNCHANGED <<sup, child, supfile>>
    BY <1>3 DEF WaitedOne, daemon
  <2>2. Sole'
    BY <2>1, StillNoneBorn, SoleStays
  <2>3. ASSUME NEW p \in Proc, Alive(p) PROVE pc[p] \in Holding
    <3>1. SupListed
      BY <1>0, <2>3, Parent
    <3>2. PICK r \in Proc : Alive(r) /\ pc[r] = "running"
      BY <1>3, <3>1 DEF WaitedOne, TimedOut, Keepers
    <3>3. r = p
      BY <2>3, <3>2, OneKeeper
    <3> QED
      BY <3>2, <3>3 DEF Holding
  <2> QED
    BY <2>1, <2>2, <2>3 DEF Retiring, guard, vars, Alive
<1>4. CASE StopOneKill
  <2>1. rc = "kill one" /\ rc' = "rm one" /\ supfile' = supfile
    BY <1>4 DEF StopOneKill
  <2>2. ~SupListed' /\ \A s \in Sup : sup'[s] \in {"dead", "termed"}
    <3>1. \A s \in Sup : sup'[s] \in {sup[s], "dead"}
      BY <1>4 DEF StopOneKill, SupTypeOK
    <3>2. ~SupListed'
      BY <1>4 DEF StopOneKill, SupListed, Lives, SupTypeOK
    <3> QED
      BY <2>1, <3>1, <3>2 DEF Retiring
  <2>3. \A p \in Proc : Alive(p) => KeeperListed /\ path = p
    <3>1. ASSUME NEW p \in Proc, Alive(p) PROVE KeeperListed /\ path = p
      <4>1. pc[p] \in Holding /\ Owner
        BY <2>1, <3>1 DEF Retiring, Sole, IInv, Sound
      <4>2. path = p /\ filled
        BY <4>1 DEF Owner
      <4> QED
        BY <3>1, <4>2, NobodyAssumption DEF KeeperListed, Readable
    <3> QED
      BY <3>1
  <2>4. CASE KeeperListed
    <3>1. path \in Proc /\ Crash(path)
      BY <1>4, <2>4 DEF StopOneKill, KeeperListed, Readable, SupTypeOK, TypeOK
    <3>2. pc'[path] = "dead"
      BY <3>1 DEF Crash, Goto, SupTypeOK, TypeOK
    <3>3. NoneBorn
      BY <3>1, KeeperNoneBorn DEF SupTypeOK
    <3> QED
      BY <2>1, <2>2, <2>3, <3>2, <3>3
         DEF NoneBorn, Alive, Sole, Retiring, Serves, Respawns, Keepers
  <2>5. CASE ~KeeperListed
    <3>1. disturbed' = disturbed /\ \A p \in Proc : ~Alive(p)'
      BY <1>4, <2>3, <2>5 DEF StopOneKill, guard, vars, Alive
    <3> QED
      BY <2>1, <2>2, <3>1 DEF Sole, Retiring, Serves, Respawns, Keepers
  <2> QED
    BY <2>4, <2>5
<1>5. CASE RemoveFiles
  <2>1. (\A q \in Proc : ~Alive(q)) /\ \A s \in Sup : sup[s] \in {"dead", "termed"}
    BY <1>5 DEF RemoveFiles, Retiring
  <2>2. rc' = "idle" /\ sup' = sup /\ pc' = pc /\ disturbed' = disturbed
    BY <1>5, <2>1 DEF RemoveFiles, Clear, SupTypeOK, TypeOK
  <2> QED
    BY <2>1, <2>2 DEF Sole, Retiring, Alive, Serves, Respawns, Keepers
<1> QED
  BY <1>1, <1>2, <1>3, <1>4, <1>5

LEMMA FoundStep == SupIInv /\ [SupNext]_all => Found'
<1> SUFFICES ASSUME SupTypeOK, IInv, Found, [SupNext]_all, ~stray' PROVE Sole' /\ Retiring'
  BY DEF SupIInv, Found
<1>0. Sole /\ Retiring
  BY DEF Found, SupTypeOK, SupNext, DaemonStep, KeeperStep, CommandStep, Spawn, Reap, Acquire, Return, Leave,
     Die, StartKeeper, StopAll, SignalOne, Signalled, Waited, KillOne, Killed, RemoveAllFiles, StopOne,
     StopOneChild, WaitedOne, StopOneKill, RemoveFiles, all, command
<1>1. ASSUME NEW s \in Sup, Spawn(s) \/ Reap(s) PROVE Sole' /\ Retiring'
  BY <1>0, <1>1, DaemonFound
<1>2. ASSUME NEW p \in Proc, Acquire(p) \/ Return(p) \/ Leave(p) \/ Die(p) PROVE Sole' /\ Retiring'
  <2>1. NoneBorn /\ UNCHANGED <<sup, child, supfile, rc>>
    BY <1>2, KeeperNoneBorn DEF SupTypeOK, Acquire, Return, Leave, Die, daemon, command
  <2> QED
    BY <1>0, <2>1, SoleStays, RetiringStays
<1>3. CASE StartKeeper
  <2> DEFINE s == CHOOSE t \in Sup : sup[t] = "dead"
  <2>1. s \in Sup /\ Launch(s) /\ supfile' = s /\ rc' = "idle"
    BY <1>3 DEF StartKeeper, Command
  <2> HIDE DEF s
  <2>2. (\A t \in Sup : ~Serves(t)) /\ \A q \in Proc : ~Alive(q)
    BY <1>0, <1>3, NobodyServes DEF StartKeeper
  <2>3. Sole'
    BY <1>0, <2>1, <2>2, BirthSole
  <2> QED
    BY <2>1, <2>3 DEF Retiring
<1>4. CASE StopAll \/ SignalOne \/ Signalled \/ Waited \/ KillOne \/ Killed \/ RemoveAllFiles
  BY <1>0, <1>4, StopAllFound
<1>5. CASE StopOne \/ StopOneChild \/ WaitedOne \/ StopOneKill \/ RemoveFiles
  BY <1>0, <1>5, StopOneFound
<1>6. CASE UNCHANGED all
  <2>1. NoneBorn /\ UNCHANGED <<sup, child, supfile, rc>>
    BY <1>6, StillNoneBorn DEF all, daemon, command
  <2> QED
    BY <1>0, <2>1, SoleStays, RetiringStays
<1> QED
  BY <1>1, <1>2, <1>3, <1>4, <1>5, <1>6 DEF SupNext, DaemonStep, KeeperStep, CommandStep

LEMMA StepSupIInv == SupIInv /\ [SupNext]_all => SupIInv'
  BY SupTypeStep, GuardStep, StepIInv, FoundStep DEF SupIInv, SupTypeOK

(* Type correctness of the service: whatever the commands, the deaths and the  *)
(* pids used again, the records of rc.d and daemon(8) hold what they are read  *)
(* as.                                                                         *)
THEOREM SupTypeCorrect == SupSpec => []SupTypeOK
<1>1. SupIInv => SupTypeOK
  BY DEF SupIInv
<1> QED
  BY <1>1, InitSupIInv, StepSupIInv, PTL DEF SupSpec

(* carpvipdhcp_stop_id retires the keeper, for any number of pids, supervisors *)
(* and commands: the supervisor it signals is the only one, it takes the       *)
(* respawn with it, and whoever is left after the wait owns the file it kills  *)
(* by.                                                                         *)
THEOREM StopRetiresAlways == SupSpec => []StopRetires
<1>1. SupIInv => StopRetires
  BY DEF SupIInv, Found, Retiring, StopRetires, Keepers, Respawns
<1> QED
  BY <1>1, InitSupIInv, StepSupIInv, PTL DEF SupSpec

-----------------------------------------------------------------------------
(* A stop of all *)

(* Without a keeper that died or failed by itself no supervisor is ever in    *)
(* its restart delay: the child of one that waits is at work and untold.      *)
Tended == \A s \in Sup :
    /\ sup[s] # "delay"
    /\ sup[s] = "waiting" =>
         child[s] \in Proc \ told /\ pc[child[s]] \in Acquiring \cup {"running"}

(* A starter never meets its own file, and finds a file where it found one.  *)
Unread == \A p \in Proc :
    /\ pc[p] \in {"create", "read", "kill", "stale"} => path # p
    /\ pc[p] \in {"read", "kill", "stale"} => path # Nobody

(* What a stop of all has reached: every keeper that would come back is still *)
(* to be signalled; from then on none would, and the kill takes who is left.  *)
Swept ==
    /\ rc = "signal" => \A s \in Sup : sup[s] = "waiting" => child[s] \in found
    /\ rc \in {"wait", "kill", "rm"} => \A s \in Sup : ~Respawns(s)
    /\ rc = "kill" => Keepers \subseteq found
    /\ rc = "rm" => Keepers = {}

Calm == faults = 0 => ~stray /\ Tended /\ Unread /\ Swept

(* Nothing happened to the files, and to the keepers no more than an end. *)
Fewer == path' = path /\ \A q \in Proc : pc'[q] \in {pc[q], "dead"}

LEMMA CrashFewer == ASSUME TypeOK, NEW p \in Proc, Crash(p) PROVE Fewer /\ ~Alive(p)'
  BY DEF Crash, Goto, TypeOK, Fewer, Alive

LEMMA StillFewer == UNCHANGED guard => Fewer
  BY DEF guard, vars, Fewer

LEMMA TermFewer == ASSUME TypeOK, NEW p, Term(p) PROVE Fewer
  BY CrashFewer, StillFewer DEF Term

LEMMA FewerUnread == Fewer /\ Unread => Unread'
  BY DEF Fewer, Unread

LEMMA FewerKeepers == Fewer => Keepers' \subseteq Keepers
  BY DEF Fewer, Keepers, Alive

LEMMA NoneRespawns == (\A s \in Sup : ~Respawns(s)) => Tended
  BY DEF Tended, Respawns

(* A signal to a supervisor that serves leaves none that would respawn. *)
LEMMA TermSupSweeps ==
    ASSUME SupTypeOK, Sole, NEW s \in Sup, supfile = s, TermSup(s)
    PROVE  Fewer /\ \A t \in Sup : ~Respawns(t)'
<1>1. Fewer
  BY TermFewer, StillFewer DEF TermSup, SupTypeOK
<1>2. \A t \in Sup \ {s} : sup'[t] = sup[t] /\ ~Respawns(t)
  BY TermSupEffect DEF Sole, Serves
<1>3. sup'[s] \in {"dead", "termed"}
  BY TermSupEffect DEF SupTypeOK
<1> QED
  BY <1>1, <1>2, <1>3 DEF Respawns

(* A start that nothing disturbs goes on until the keeper runs. *)
LEMMA AcquireCalm ==
    ASSUME SupTypeOK, IInv, Sole, Unread, NEW p \in Proc, Acquire(p), ~Fault
    PROVE  /\ pc[p] # "dead" /\ pc'[p] \in Acquiring \cup {"running"}
           /\ \A q \in Proc \ {p} : pc[q] = "dead" /\ pc'[q] = "dead"
           /\ Unread'
<1>1. Start(p) /\ pc[p] \in Acquiring
  BY DEF Acquire, Start, Create, Write, Read, Kill, Unlink, Acquiring
<1>2. pc[p] # "dead" /\ \A q \in Proc \ {p} : pc[q] = "dead"
  BY <1>1, OneKeeper DEF Acquiring, Alive
<1>3. \A q \in Proc \ {p} : pc'[q] = "dead"
  BY <1>1, <1>2 DEF Start, Create, Write, Read, Kill, Unlink, Goto, SupTypeOK, TypeOK
<1>4. Judged /\ Owner
  BY DEF IInv, Sole, Sound
<1>5. pc[p] = "stale" => path # Nobody
  BY DEF Unread
<1>6. Alive(p)' \/ pc[p] = "kill"
  BY <1>5 DEF Acquire
<1>7. CASE Create(p)
  BY <1>2, <1>3, <1>6, <1>7, NobodyAssumption DEF Create, Unread, Goto, Alive, SupTypeOK, TypeOK, Acquiring
<1>8. CASE Write(p)
  BY <1>2, <1>3, <1>6, <1>8 DEF Write, Unread, Goto, Alive, SupTypeOK, TypeOK, Acquiring
<1>9. CASE Read(p)
  BY <1>2, <1>3, <1>6, <1>9 DEF Read, Unread, Goto, Alive, SupTypeOK, TypeOK, Acquiring
<1>10. CASE Kill(p)
  <2>1. ~Alive(old[p])
    BY <1>2, <1>4, <1>10 DEF Kill, Judged, Unread, Alive
  <2> QED
    BY <1>2, <1>3, <1>10, <2>1 DEF Kill, Unread, Goto, SupTypeOK, TypeOK, Acquiring
<1>11. CASE Unlink(p)
  BY <1>2, <1>3, <1>6, <1>11, NobodyAssumption
     DEF Unlink, UnlinkFailed, Unread, Goto, Alive, SupTypeOK, TypeOK, Acquiring
<1> QED
  BY <1>1, <1>2, <1>3, <1>7, <1>8, <1>9, <1>10, <1>11 DEF Start

(* The keeper of a supervisor that was told to end leaves, told to or not. *)
LEMMA LeaveCalm ==
    ASSUME SupTypeOK, Sole, Tended, Unread, NEW p \in Proc,
           (p \in told /\ Finish(p)) \/ Exists(p) \/ Remove(p)
    PROVE  /\ \A s \in Sup : sup[s] = "waiting" => child[s] # p
           /\ \A q \in Proc \ {p} : pc[q] = "dead" /\ pc'[q] = "dead"
           /\ pc[p] # "dead" /\ Unread'
<1>1. pc[p] \in Holding /\ (pc[p] = "running" => p \in told)
  BY DEF Finish, Exists, Remove, Holding
<1>2. pc[p] # "dead" /\ \A q \in Proc \ {p} : pc[q] = "dead"
  BY <1>1, OneKeeper DEF Holding, Alive
<1>3. \A q \in Proc \ {p} : pc'[q] = "dead"
  BY <1>2 DEF Finish, Exists, Remove, Goto, SupTypeOK, TypeOK
<1>4. pc'[p] \in {"exists", "unlink", "dead"}
  BY DEF Finish, Exists, Remove, Goto, SupTypeOK, TypeOK
<1> QED
  BY <1>1, <1>2, <1>3, <1>4 DEF Tended, Unread, Holding, Acquiring

LEMMA KeeperCalm ==
    ASSUME SupTypeOK, IInv, Sole, Tended, Unread, Swept, ~Fault, NEW p \in Proc,
           Acquire(p) \/ Return(p) \/ Leave(p) \/ Die(p)
    PROVE  Tended' /\ Unread' /\ Swept'
<1>0. UNCHANGED <<sup, child, told, rc, found>>
  BY DEF Acquire, Return, Leave, Die, daemon, command
<1>1. CASE Acquire(p)
  <2>1. /\ pc[p] # "dead" /\ pc'[p] \in Acquiring \cup {"running"}
        /\ \A q \in Proc \ {p} : pc[q] = "dead" /\ pc'[q] = "dead"
        /\ Unread'
    BY <1>1, AcquireCalm
  <2>2. Keepers' \subseteq Keepers /\ (rc = "rm" => FALSE)
    BY <2>1 DEF Keepers, Alive, Swept
  <2>3. Tended'
    BY <1>0, <2>1 DEF Tended, Acquiring
  <2> QED
    BY <1>0, <2>1, <2>2, <2>3 DEF Swept, Respawns
<1>2. CASE Return(p) \/ Leave(p)
  <2>1. (p \in told /\ Finish(p)) \/ Exists(p) \/ Remove(p)
    BY <1>2 DEF Return, Leave
  <2>2. /\ \A s \in Sup : sup[s] = "waiting" => child[s] # p
        /\ \A q \in Proc \ {p} : pc[q] = "dead" /\ pc'[q] = "dead"
        /\ pc[p] # "dead" /\ Unread'
    BY <2>1, LeaveCalm
  <2>3. Keepers' \subseteq Keepers /\ (rc = "rm" => FALSE)
    BY <2>2 DEF Keepers, Alive, Swept
  <2>4. Tended'
    BY <1>0, <2>2 DEF Tended, Acquiring
  <2> QED
    BY <1>0, <2>2, <2>3, <2>4 DEF Swept, Respawns
<1>3. CASE Die(p)
  BY <1>3 DEF Die
<1> QED
  BY <1>1, <1>2, <1>3

LEMMA DaemonCalm ==
    ASSUME SupTypeOK, Tended, Unread, Swept, NEW s \in Sup, Spawn(s) \/ Reap(s)
    PROVE  Tended' /\ Unread' /\ Swept'
<1>1. sup[s] # "delay" /\ Reap(s)
  BY DEF Spawn, Tended
<1>2. ~Alive(child[s])
  BY <1>1 DEF Reap
<1>3. sup[s] = "termed"
  BY <1>1, <1>2 DEF Reap, Tended, Alive, Acquiring
<1>4. /\ sup'[s] = "dead" /\ \A t \in Sup \ {s} : sup'[t] = sup[t] /\ child'[t] = child[t]
      /\ UNCHANGED <<pc, path, told, rc, found>>
  BY <1>1, <1>3 DEF Reap, SupTypeOK, guard, vars, command
<1> QED
  BY <1>4 DEF Tended, Unread, Swept, Respawns, Keepers, Alive

LEMMA StartCalm ==
    ASSUME SupTypeOK, Sole, StartKeeper
    PROVE  Tended' /\ Unread' /\ Swept'
<1> DEFINE s == CHOOSE t \in Sup : sup[t] = "dead"
<1>1. s \in Sup /\ Launch(s) /\ rc' = "idle"
  BY DEF StartKeeper, Command
<1> HIDE DEF s
<1>2. (\A t \in Sup : ~Serves(t)) /\ \A q \in Proc : ~Alive(q)
  BY NobodyServes DEF StartKeeper
<1>3. PICK p \in Proc :
        /\ sup' = [sup EXCEPT ![s] = "waiting"] /\ child' = [child EXCEPT ![s] = p]
        /\ Begin(p) /\ told' = told \ {p}
  BY <1>1, <1>2, LaunchBirth
<1>4. pc'[p] = "create" /\ path' = path /\ path # p /\ \A q \in Proc \ {p} : pc'[q] = "dead"
  BY <1>2, <1>3 DEF Begin, Free, Goto, Alive, SupTypeOK, TypeOK
<1>5. sup'[s] = "waiting" /\ child'[s] = p /\ \A t \in Sup \ {s} : sup'[t] = sup[t] /\ ~Respawns(t)
  BY <1>1, <1>2, <1>3 DEF SupTypeOK, Serves
<1>6. Tended'
  BY <1>3, <1>4, <1>5 DEF Tended, Respawns, Acquiring
<1>7. Unread'
  BY <1>4 DEF Unread
<1> QED
  BY <1>1, <1>6, <1>7 DEF Swept

(* pgrep finds every keeper and the signal takes its supervisor with it, so   *)
(* nothing comes back while the command waits, kills and removes the files.   *)
LEMMA StopAllCalm ==
    ASSUME SupTypeOK, Sole, ~stray, Tended, Unread, Swept,
           StopAll \/ SignalOne \/ Signalled \/ Waited \/ KillOne \/ Killed \/ RemoveAllFiles
    PROVE  ~stray' /\ Tended' /\ Unread' /\ Swept'
<1>1. CASE StopAll \/ Signalled \/ Waited \/ Killed
  <2>1. UNCHANGED <<pc, path, sup, child, told, stray>>
    BY <1>1 DEF StopAll, Signalled, Waited, Killed, guard, vars, daemon
  <2>2. Tended' /\ Unread' /\ Keepers' = Keepers
    BY <2>1 DEF Tended, Unread, Keepers, Alive
  <2>3. CASE StopAll
    <3>1. rc' = "signal" /\ found' = Keepers
      BY <2>3 DEF StopAll
    <3>2. \A s \in Sup : sup[s] = "waiting" => child[s] \in Keepers
      BY DEF Tended, Keepers, Alive, Acquiring
    <3> QED
      BY <2>1, <2>2, <3>1, <3>2 DEF Swept
  <2>4. CASE Signalled
    <3>1. rc' = "wait" /\ \A s \in Sup : ~Respawns(s)
      BY <2>4 DEF Signalled, Swept, Tended, Respawns
    <3> QED
      BY <2>1, <2>2, <3>1 DEF Swept, Respawns
  <2>5. CASE Waited
    <3>1. /\ \A s \in Sup : ~Respawns(s)
          /\ (rc' = "rm" /\ Keepers = {}) \/ (rc' = "kill" /\ found' = Keepers)
      BY <2>5 DEF Waited, Swept
    <3> QED
      BY <2>1, <2>2, <3>1 DEF Swept, Respawns
  <2>6. CASE Killed
    <3>1. rc' = "rm" /\ Keepers = {} /\ \A s \in Sup : ~Respawns(s)
      BY <2>6 DEF Killed, Swept
    <3> QED
      BY <2>1, <2>2, <3>1 DEF Swept, Respawns
  <2> QED
    BY <1>1, <2>3, <2>4, <2>5, <2>6
<1>2. CASE SignalOne
  <2>1. rc = "signal" /\ rc' = "signal" /\ child' = child /\ stray' = stray
    BY <1>2 DEF SignalOne
  <2>2. PICK p \in found : /\ found' = found \ {p}
                           /\ IF Parents(p) = {} THEN Term(p) /\ UNCHANGED sup
                                                 ELSE \E s \in Parents(p) : TermSup(s)
    BY <1>2 DEF SignalOne
  <2>3. CASE Parents(p) = {}
    <3>1. p \notin Keepers
      BY <2>3, Parent DEF Keepers, Parents
    <3>2. UNCHANGED <<guard, told, sup>>
      BY <2>2, <2>3, <3>1 DEF Term, Keepers, Alive, Crash, Acquiring
    <3>3. \A s \in Sup : sup[s] = "waiting" => child[s] \in Keepers
      BY DEF Tended, Keepers, Alive, Acquiring
    <3>4. Tended' /\ Unread'
      BY <2>1, <3>2 DEF Tended, Unread, guard, vars
    <3>5. \A s \in Sup : sup'[s] = "waiting" => child'[s] \in found'
      BY <2>1, <2>2, <3>1, <3>2, <3>3 DEF Swept
    <3> QED
      BY <2>1, <3>4, <3>5 DEF Swept
  <2>4. CASE Parents(p) # {}
    <3>1. PICK s \in Sup : TermSup(s) /\ Serves(s)
      BY <2>2, <2>4 DEF Parents, Serves, Respawns, Keepers, SupTypeOK
    <3>2. Fewer /\ \A t \in Sup : ~Respawns(t)'
      BY <3>1, TermSupSweeps DEF Sole
    <3>3. Tended'
      BY <3>2 DEF Tended, Respawns
    <3> QED
      BY <2>1, <3>2, <3>3, FewerUnread DEF Swept, Respawns
  <2> QED
    BY <2>3, <2>4
<1>3. CASE KillOne
  <2>1. rc = "kill" /\ rc' = "kill" /\ stray' = stray /\ \A s \in Sup : ~Respawns(s)
    BY <1>3 DEF KillOne, Swept
  <2>2. PICK p \in found :
          /\ found' = found \ {p}
          /\ sup' = [s \in Sup |-> IF s \in Parents(p) THEN "dead" ELSE sup[s]]
          /\ Slay(p)
    BY <1>3 DEF KillOne
  <2>3. \A s \in Sup : ~Respawns(s)'
    BY <2>1, <2>2 DEF Respawns
  <2>4. Fewer /\ p \notin Keepers'
    <3>1. CASE p \in Keepers
      BY <2>2, <3>1, CrashFewer DEF Slay, SupTypeOK, Keepers
    <3>2. CASE p \notin Keepers
      BY <2>2, <3>2, StillFewer, FewerKeepers DEF Slay
    <3> QED
      BY <3>1, <3>2
  <2>5. Keepers' \subseteq found'
    BY <2>1, <2>2, <2>4, FewerKeepers DEF Swept
  <2>6. Tended'
    BY <2>3 DEF Tended, Respawns
  <2> QED
    BY <2>1, <2>3, <2>4, <2>5, <2>6, FewerUnread DEF Swept
<1>4. CASE RemoveAllFiles
  <2>1. Keepers = {} /\ \A s \in Sup : ~Respawns(s)
    BY <1>4 DEF RemoveAllFiles, Swept
  <2>2. rc' = "idle" /\ ~stray' /\ UNCHANGED <<pc, sup, child, told>>
    BY <1>4, <2>1 DEF RemoveAllFiles, Clear
  <2>3. Unread'
    BY <2>1, <2>2 DEF Unread, Keepers, Alive
  <2> QED
    BY <2>1, <2>2, <2>3 DEF Tended, Swept, Respawns
<1> QED
  BY <1>1, <1>2, <1>3, <1>4

(* A stop of one ends the only supervisor that would respawn. *)
LEMMA StopOneCalm ==
    ASSUME SupTypeOK, Sole, Retiring, Tended, Unread,
           StopOne \/ StopOneChild \/ WaitedOne \/ StopOneKill \/ RemoveFiles
    PROVE  Tended' /\ Unread' /\ Swept'
<1>0. rc' \in {"child one", "wait one", "kill one", "rm one", "idle"}
  BY DEF StopOne, StopOneChild, WaitedOne, StopOneKill, RemoveFiles
<1>1. CASE StopOne
  <2>1. CASE SupListed
    <3>1. supfile \in Sup /\ TermSup(supfile)
      BY <1>1, <2>1 DEF StopOne, SupListed, Lives
    <3>2. Fewer /\ \A t \in Sup : ~Respawns(t)'
      BY <3>1, TermSupSweeps
    <3>3. Tended'
      BY <3>2 DEF Tended, Respawns
    <3> QED
      BY <1>0, <3>2, <3>3, FewerUnread DEF Swept
  <2>2. CASE ~SupListed
    <3>1. UNCHANGED <<sup, child, told, guard>>
      BY <1>1, <2>2 DEF StopOne
    <3> QED
      BY <1>0, <3>1 DEF Tended, Unread, Swept, guard, vars
  <2> QED
    BY <2>1, <2>2
<1>2. CASE StopOneChild \/ WaitedOne \/ StopOneKill \/ RemoveFiles
  <2>1. \A s \in Sup : sup[s] \in {"dead", "termed"} /\ sup'[s] \in {"dead", sup[s]}
    BY <1>2 DEF StopOneChild, WaitedOne, StopOneKill, RemoveFiles, Retiring, daemon, SupTypeOK
  <2>2. Tended'
    BY <2>1 DEF Tended
  <2>3. CASE RemoveFiles
    <3>1. \A p \in Proc : pc'[p] = "dead"
      BY <2>3 DEF RemoveFiles, Clear, Retiring, Alive
    <3> QED
      BY <1>0, <2>2, <3>1 DEF Unread, Swept
  <2>4. CASE ~RemoveFiles
    <3>1. KeeperListed => path \in Proc
      BY DEF KeeperListed, Readable, SupTypeOK, TypeOK
    <3>2. Fewer
      BY <1>2, <2>4, <3>1, TermFewer, CrashFewer, StillFewer
         DEF StopOneChild, WaitedOne, StopOneKill, SupTypeOK
    <3> QED
      BY <1>0, <2>2, <3>2, FewerUnread DEF Swept
  <2> QED
    BY <2>3, <2>4
<1> QED
  BY <1>1, <1>2

LEMMA CalmStep == SupIInv /\ Calm /\ [SupNext]_all => Calm'
<1> SUFFICES ASSUME SupTypeOK, IInv, Found, Calm, [SupNext]_all, faults' = 0
             PROVE  ~stray' /\ Tended' /\ Unread' /\ Swept'
  BY DEF SupIInv, Calm
<1>0. faults = 0 /\ ~Fault
  <2>1. faults \in 0 .. MaxFaults
    BY DEF SupTypeOK
  <2>2. ~Fault
    BY <2>1, BoundsAssumption DEF Fault
  <2>3. UNCHANGED faults
    BY <2>2 DEF SupNext, DaemonStep, KeeperStep, CommandStep, Spawn, Reap, Acquire, Return, Leave, Die,
       StartKeeper, StopAll, SignalOne, Signalled, Waited, KillOne, Killed, RemoveAllFiles, StopOne,
       StopOneChild, WaitedOne, StopOneKill, RemoveFiles, all
  <2> QED
    BY <2>2, <2>3
<1>1. ~stray /\ Tended /\ Unread /\ Swept /\ Sole /\ Retiring
  BY <1>0 DEF Calm, Found
<1>2. ASSUME NEW s \in Sup, Spawn(s) \/ Reap(s) PROVE ~stray' /\ Tended' /\ Unread' /\ Swept'
  BY <1>1, <1>2, DaemonCalm DEF Spawn, Reap, command
<1>3. ASSUME NEW p \in Proc, Acquire(p) \/ Return(p) \/ Leave(p) \/ Die(p)
      PROVE  ~stray' /\ Tended' /\ Unread' /\ Swept'
  <2>1. stray' = stray
    BY <1>3 DEF Acquire, Return, Leave, Die, command
  <2> QED
    BY <1>0, <1>1, <1>3, <2>1, KeeperCalm
<1>4. CASE StartKeeper
  BY <1>1, <1>4, StartCalm DEF StartKeeper
<1>5. CASE StopAll \/ SignalOne \/ Signalled \/ Waited \/ KillOne \/ Killed \/ RemoveAllFiles
  BY <1>1, <1>5, StopAllCalm
<1>6. CASE StopOne \/ StopOneChild \/ WaitedOne \/ StopOneKill \/ RemoveFiles
  <2>1. stray' = stray
    BY <1>6 DEF StopOne, StopOneChild, WaitedOne, StopOneKill, RemoveFiles
  <2> QED
    BY <1>1, <1>6, <2>1, StopOneCalm
<1>7. CASE UNCHANGED all
  <2>1. UNCHANGED <<pc, path, sup, child, told, rc, found, stray>>
    BY <1>7 DEF all, guard, vars, daemon, command
  <2>2. Tended' /\ Unread'
    BY <1>1, <2>1 DEF Tended, Unread
  <2>3. Swept'
    BY <1>1, <2>1 DEF Swept, Respawns, Keepers, Alive
  <2> QED
    BY <1>1, <2>1, <2>2, <2>3
<1> QED
  BY <1>2, <1>3, <1>4, <1>5, <1>6, <1>7 DEF SupNext, DaemonStep, KeeperStep, CommandStep

(* "Stop every keeper daemon, including strays" holds, for any number of      *)
(* keepers and supervisors and any sequence of commands, as long as no keeper *)
(* died or failed by itself: a stop of all overlooks a supervisor only after   *)
(* such an end has left one waiting to start the next keeper.                  *)
THEOREM StopAllRetiresUndisturbed == SupSpec => [](faults = 0 => StopAllRetires)
<1>1. SupInit => Calm
  BY DEF SupInit, Init, Calm, Tended, Unread, Swept
<1>2. SupIInv /\ Calm => (faults = 0 => StopAllRetires)
  BY DEF Calm, StopAllRetires
<1> QED
  BY <1>1, <1>2, InitSupIInv, StepSupIInv, CalmStep, PTL DEF SupSpec
=============================================================================
