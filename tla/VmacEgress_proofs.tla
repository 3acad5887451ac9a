------------------------- MODULE VmacEgress_proofs -------------------------
(***************************************************************************)
(* The safety of the source-MAC rewrite for any number of strikes, tries   *)
(* and failures: why it is removed, what the token may claim, whose nodes  *)
(* are left alone, and that it goes up on a confirmed master only.         *)
(***************************************************************************)
EXTENDS VmacEgress, TLAPS

(* The flags, the sets, and everything else that is typed. *)
Flags ==
    /\ squatter \in BOOLEAN /\ dhclient \in BOOLEAN /\ loaded \in BOOLEAN
    /\ retry \in BOOLEAN /\ pending \in BOOLEAN /\ clean \in BOOLEAN

Values ==
    /\ carp \in Role
    /\ graph \in {"none", "unnamed"} \cup Named
    /\ session \in {"none", "mkpeer", "name", "connect", "setconfig", "ok", "error"}
    /\ faults \in 0 .. MaxFaults
    /\ option \in {"on", "off", "refused"}
    /\ pc \in {"down", "idle", "present", "hooks", "ether", "again", "needs", "tpresent",
               "tname", "tether", "tid", "tcheck", "build", "readback"}
    /\ seen \in Presence
    /\ cont \in {"none", "start", "stop", "unknown", "other", "native", "ngctl", "unnamed",
                 "half", "failed"}
    /\ strikes \in 0 .. Strikes /\ blind \in 0 .. Strikes
    /\ failed \in {"none", "failed", "teardown"}
    /\ state \in {"fresh", "native", "built", "unknown", "teardown", "failed", "other"}
    /\ shell \in {"idle", "scan", "shut"} /\ tried \in 0 .. Tries
    /\ reading \in Reading

Handles == others \subseteq Hooks /\ alike \subseteq Hooks /\ kid \subseteq Ids /\ hid \subseteq Ids

Asking  == {"present", "hooks", "ether", "again"}
Tearing  == {"tpresent", "tname", "tether", "tid", "tcheck"}

(* Who runs when: a session only for the pass that waits for it, or after its *)
(* keeper died; a purpose only while something is looked for or torn down.    *)
Running ==
    /\ session # "none" => pc \in {"build", "down"} /\ reading = "master"
    /\ pc = "needs" => cont \in {"start", "stop", "unknown"}
    /\ pc \in Tearing => cont # "none"
    /\ pc \notin Tearing \cup {"needs"} => cont = "none"
    /\ pc \in Asking \/ cont = "unnamed" => reading # "unknown"
    /\ pc = "hooks" => reading = "backup"
    /\ shell = "shut" => tried # Tries

(* How far a session can have come, or its graph was removed under it. *)
Staged ==
    /\ session = "mkpeer"    => graph = "none"
    /\ session = "name"      => graph \in {"unnamed", "none"}
    /\ session = "connect"   => graph \in {"named", "none"}
    /\ session = "setconfig" => graph \in {"wired", "none"}
    /\ session = "ok" \/ pc = "readback" => graph \in {"built", "none"}
    /\ session = "error"     => graph = "none" \/ faults > 0
    /\ pc \in {"build", "readback"} => option # "refused"

Intruded == squatter \/ dhclient \/ others # {} \/ alike # {}

(* Every unreadable role is a failure of its own; so is every intrusion. *)
Counted ==
    /\ strikes = blind /\ blind <= faults
    /\ Intruded => blind < faults
    /\ pc \notin {"down", "idle"} /\ cont \notin {"stop", "unknown"} => blind = 0

(* What a pass has read still says what the graph can be. *)
Looked ==
    /\ pc = "ether" =>
         /\ seen = "absent" => graph \notin Named
         /\ seen = "built" => option # "refused" /\ (clean => graph = "built")
         /\ seen = "half" => option = "refused" \/ graph # "built"
    /\ pc = "again" => seen \in {"absent", "foreign"} /\ graph = "none"
    /\ pc = "again" \/ cont = "unnamed" => option = "refused" \/ loaded \/ faults > 0

(* Why a teardown runs. *)
Caused ==
    /\ cont \in {"start", "stop"} /\ option # "off"
         => option = "refused" \/ reading # "master" \/ faults > 0
    /\ cont \in {"native", "ngctl"} => reading = "backup"
    /\ cont = "other" => option = "refused" \/ faults > 0
    /\ cont = "unknown" => blind = Strikes
    /\ cont = "failed" => graph = "none" \/ faults > 0
    /\ cont = "half" => reading = "master" /\ graph # "built" /\ option # "refused"
    /\ cont = "unnamed" => graph # "built"

(* The token, and what it will be after a teardown that sets none. *)
Honest ==
    /\ TokenHonest
    /\ cont = "start" => state = "fresh"
    /\ cont = "unknown" => state = "unknown"

(* How far the teardown of an unreadable role has come, when nothing else     *)
(* failed.                                                                    *)
Closing ==
    option # "off" /\ blind = Strikes /\ faults = Strikes =>
        /\ pc = "idle" => graph = "none"
        /\ cont = "unknown" =>
             /\ pc = "tether" => graph \notin Named
             /\ pc = "tid" => "ours" \in kid \/ graph = "none"
             /\ pc = "tcheck" => graph = "none"

(* A hook has one holder, and no ID of a node of another type is ever read. *)
Parted ==
    /\ graph # "none" => "upper" \notin alike
    /\ graph \in {"wired", "built"} => alike = {}
    /\ "other" \notin kid \cup hid

IInv == TypeOK /\ Parted /\ Running /\ Staged /\ Counted /\ Looked /\ Caused /\ Honest /\ Closing

USE StrikesAssumption, TriesAssumption, FaultsAssumption

LEMMA TypeHalves == TypeOK <=> Flags /\ Values /\ Handles
  BY DEF TypeOK, Flags, Values, Handles

LEMMA InitIInv == Init => IInv
<1> SUFFICES ASSUME Init PROVE IInv
  OBVIOUS
<1>1. Flags
  BY DEF Init, Flags
<1>a. Values /\ Handles
  BY DEF Init, Values, Handles, Role, Reading, Named, Hooks, Presence
<1>2. Running /\ Staged /\ Counted /\ Looked /\ Parted
  BY DEF Init, Parted, Running, Staged, Counted, Looked, Intruded, Asking, Tearing
<1>3. Caused /\ Honest /\ Closing
  BY DEF Init, Caused, Honest, TokenHonest, Closing
<1> QED
  BY <1>1, <1>a, <1>2, <1>3, TypeHalves DEF IInv

(* What a read of the hooks shows of ours, and what becomes of IDs once read. *)
LEMMA OursOnIs ==
    /\ OursOn \subseteq {"ours", "alike"}
    /\ "ours" \in OursOn <=> graph # "none"
    /\ "alike" \in OursOn <=> alike # {}
    /\ OursOn = {} <=> graph = "none" /\ alike = {}
<1>1. OursOn = {id \in {"ours", "alike"} : IF id = "ours" THEN graph # "none" ELSE alike # {}}
  BY DEF OursOn, OnHooks
<1> QED
  BY <1>1

LEMMA OutdatedIs ==
    ASSUME NEW ids, ids \subseteq Ids
    PROVE  /\ Outdated(ids) \subseteq Ids
           /\ "ours" \in Outdated(ids) <=> "ours" \in ids /\ graph' # "none"
           /\ "alike" \in Outdated(ids) => "alike" \in ids
           /\ "other" \in Outdated(ids) => "other" \in ids
  BY DEF Outdated, Left, Ids

(* A failure is counted, and within the bound. *)
LEMMA FaultCounts ==
    ASSUME TypeOK, Fault
    PROVE  faults' \in 0 .. MaxFaults /\ faults' = faults + 1
  BY DEF TypeOK, Fault

LEMMA AnswerCounts ==
    ASSUME TypeOK, NEW ok \in BOOLEAN, Answers(ok)
    PROVE  faults' \in 0 .. MaxFaults /\ faults' = IF ok THEN faults ELSE faults + 1
  BY FaultCounts DEF TypeOK, Answers

LEMMA CountTyped ==
    ASSUME NEW n \in 0 .. Strikes
    PROVE  CountTo(n) \in 0 .. Strikes /\ CountTo(n) <= n + 1
  BY DEF CountTo

LEMMA FoundTyped == Found \in Presence
  BY DEF Found, Presence

(* What a decision can come to. *)
LEMMA BuildOutcome ==
    ASSUME TryBuild
    PROVE  \/ /\ MayBuild /\ pc' = "build" /\ session' = "mkpeer" /\ cont' = "none"
              /\ seen' = "absent" /\ retry' = (retry /\ failed = "none") /\ state' = state
           \/ /\ ~MayBuild /\ pc' = "idle" /\ cont' = "none" /\ seen' = "absent"
              /\ state' = failed /\ session' = session /\ retry' = retry
  BY DEF TryBuild, Rest

LEMMA DecideOutcome ==
    ASSUME NEW ok \in BOOLEAN, Decide(ok)
    PROVE  \/ /\ pc' = "idle" /\ cont' = "none" /\ seen' = "absent" /\ UNCHANGED <<session, retry>>
              /\ \/ state' = "other"
                 \/ state' = "native" /\ seen \notin Ours \cup {"foreign"} /\ reading # "master" /\ ~Refused(ok)
                 \/ state' = "built" /\ seen = "built" /\ reading = "master" /\ ~Refused(ok)
           \/ /\ pc' = "tpresent" /\ UNCHANGED <<seen, state, session, retry>>
              /\ \/ cont' = "other" /\ Refused(ok)
                 \/ cont' = "native" /\ reading # "master"
                 \/ cont' = "half" /\ seen = "half" /\ reading = "master" /\ ~Refused(ok)
           \/ /\ TryBuild /\ reading = "master" /\ ~Refused(ok)
              /\ seen # "foreign" /\ seen # "built" /\ seen # "half"
  BY DEF Decide, Rest, Teardown, Ours

(* What a teardown that has been checked leads to, for each of its callers. *)
Answered(ok) ==
    \/ /\ cont \in {"start", "stop"}
       /\ pc' = (IF cont = "stop" THEN "down" ELSE "idle")
       /\ cont' = "none" /\ seen' = "absent" /\ UNCHANGED <<state, failed, session, retry>>
    \/ /\ pc' = "idle" /\ cont' = "none" /\ seen' = "absent" /\ UNCHANGED <<session, retry>>
       /\ \/ cont = "unknown" /\ state' = "unknown" /\ UNCHANGED failed
          \/ cont = "ngctl" /\ state' = "other" /\ UNCHANGED failed
          \/ /\ cont = "failed" /\ state' = failed'
             /\ failed' = IF Confirmed(ok) THEN "failed" ELSE "teardown"
          \/ cont \in {"native", "other"} /\ state' = cont /\ Confirmed(ok) /\ UNCHANGED failed
          \/ state' = "teardown" /\ ~Confirmed(ok) /\ UNCHANGED failed
    \/ /\ cont = "unnamed" /\ Confirmed(ok) /\ pc' = "again" /\ cont' = "none"
       /\ seen' = (IF seen = "foreign" THEN seen ELSE "absent")
       /\ UNCHANGED <<state, failed, session, retry>>
    \/ cont = "half" /\ Confirmed(ok) /\ TryBuild /\ UNCHANGED failed

LEMMA CheckedOutcome ==
    ASSUME TeardownChecked, Values, cont # "none"
    PROVE  \E ok \in BOOLEAN : Answers(ok) /\ Answered(ok)
  BY DEF TeardownChecked, Answered, Rest, Values

(* What one shutdown of the keeper or of a guard changes. *)
Removed ==
    /\ graph' \in {graph, "none"} /\ (Intruded' => Intruded)
    /\ faults' = faults \/ (faults < MaxFaults /\ faults' = faults + 1)

LEMMA IntrudersLeave ==
    ASSUME NEW target, Shutdown(target), UNCHANGED dhclient
    PROVE  graph' \in {graph, "none"} /\ (Intruded' => Intruded)
  BY DEF Shutdown, Intruded

LEMMA NameOutcome == ShutdownName => Removed
  BY IntrudersLeave DEF ShutdownName, Removed, Fault, nodes, Intruded

LEMMA IdOutcome ==
    ASSUME ShutdownId, kid \subseteq Ids
    PROVE  /\ Removed
           /\ kid' \subseteq Ids
           /\ \/ "ours" \in kid' <=> "ours" \in kid /\ graph' # "none"
              \/ faults' = faults + 1
<1>1. PICK id \in kid :
        /\ \/ Shutdown(Target(id)) /\ UNCHANGED faults
           \/ Fault /\ UNCHANGED nodes
        /\ kid' = Outdated(kid \ {id})
  BY DEF ShutdownId
<1>2. UNCHANGED dhclient
  BY DEF ShutdownId
<1>3. Removed
  BY <1>1, <1>2, IntrudersLeave DEF Removed, Fault, nodes, Intruded
<1>4. /\ kid' \subseteq Ids
      /\ "ours" \in kid' <=> "ours" \in kid \ {id} /\ graph' # "none"
  BY <1>1, OutdatedIs
<1>5. id = "ours" => graph' = "none" \/ faults' = faults + 1
  BY <1>1 DEF Shutdown, Target, Fault
<1> QED
  BY <1>3, <1>4, <1>5

LEMMA GuardOutcome ==
    ASSUME GuardShutdown, kid \subseteq Ids
    PROVE  /\ Removed
           /\ clean' = (clean /\ graph' = graph)
           /\ "ours" \in kid' <=> "ours" \in kid /\ (graph' # "none" \/ kid' = kid)
<1>1. UNCHANGED dhclient /\ clean' = (clean /\ graph' = graph)
  BY DEF GuardShutdown
<1>2. CASE hid = {}
  BY <1>1, <1>2 DEF GuardShutdown, Removed, nodes, Intruded
<1>3. CASE hid # {}
  <2>1. PICK id \in hid :
          /\ \/ Shutdown(Target(id)) /\ UNCHANGED faults
             \/ Fault /\ UNCHANGED nodes
          /\ kid' = Outdated(kid)
    BY <1>3 DEF GuardShutdown
  <2>2. Removed
    BY <1>1, <2>1, IntrudersLeave DEF Removed, Fault, nodes, Intruded
  <2> QED
    BY <1>1, <2>1, <2>2, OutdatedIs
<1> QED
  BY <1>2, <1>3

LEMMA TypeStep == TypeOK /\ Running /\ [Next]_vars => TypeOK'
<1> SUFFICES ASSUME TypeOK, Running, [Next]_vars PROVE Flags' /\ Values' /\ Handles'
  BY TypeHalves DEF TypeOK, Flags, Values, Handles
<1> USE DEF Answers, Fault, Role, Reading, Named, Hooks, Presence, nodes
<1>0. Flags /\ Values /\ Handles
  BY TypeHalves
<1>1. CASE Start
  <2> USE <1>0, <1>1 DEF Start, Boundary, machine, guard
  <2>1. Flags'
    BY DEF Flags
  <2>2. Values'
    BY DEF Values
  <2>3. Handles'
    BY DEF Handles
  <2> QED
    BY <2>1, <2>2, <2>3
<1>2. CASE Stop
  <2> USE <1>0, <1>2 DEF Stop, Boundary, memory, guard, machine
  <2>1. Flags'
    BY DEF Flags
  <2>2. Values'
    BY DEF Values
  <2>3. Handles'
    BY DEF Handles
  <2> QED
    BY <2>1, <2>2, <2>3
<1>3. CASE Crash
  <2> USE <1>0, <1>3 DEF Crash, machine, memory, guard, history
  <2>1. Flags'
    BY DEF Flags
  <2>2. Values'
    BY DEF Values
  <2>3. Handles'
    BY DEF Handles
  <2> QED
    BY <2>1, <2>2, <2>3
<1>4. CASE NeedsTeardown
  <2> USE <1>0, <1>4 DEF NeedsTeardown, Teardown, machine, memory, guard, history
  <2>1. Flags'
    BY DEF Flags
  <2>2. Values'
    BY DEF Values
  <2>3. Handles'
    BY DEF Handles
  <2> QED
    BY <2>1, <2>2, <2>3
<1>5. CASE Tick
  <2> USE <1>0, <1>5, CountTyped DEF Tick, machine, guard
  <2>1. Flags'
    BY DEF Flags
  <2>2. Values'
    BY DEF Values
  <2>3. Handles'
    BY DEF Handles
  <2> QED
    BY <2>1, <2>2, <2>3
<1>6. CASE ReadName
  <2> USE <1>0, <1>6, FoundTyped DEF ReadName, Rest, machine, guard, history
  <2>1. Flags'
    BY DEF Flags
  <2>2. Values'
    BY DEF Values
  <2>3. Handles'
    BY DEF Handles
  <2> QED
    BY <2>1, <2>2, <2>3
<1>7. CASE ReadHooksOnly
  <2> USE <1>0, <1>7 DEF ReadHooksOnly, Rest, Teardown, machine, guard, history
  <2>1. Flags'
    BY DEF Flags
  <2>2. Values'
    BY DEF Values
  <2>3. Handles'
    BY DEF Handles
  <2> QED
    BY <2>1, <2>2, <2>3
<1>8. CASE ReadHooks
  <2>1. PICK ok \in BOOLEAN, kld \in BOOLEAN :
          /\ Answers(ok /\ kld)
          /\ loaded' = (loaded \/ (kld /\ option # "refused"))
          /\ IF UnnamedIn(ok)
             THEN Teardown("unnamed") /\ UNCHANGED <<seen, state, session, retry>>
             ELSE Decide(ok)
    BY <1>8 DEF ReadHooks
  <2> USE <1>0, <1>8, <2>1, DecideOutcome, BuildOutcome DEF ReadHooks, Teardown, MayBuild, guard, history
  <2>2. Flags'
    BY DEF Flags
  <2>3. Values'
    BY DEF Values
  <2>4. Handles'
    BY DEF Handles
  <2> QED
    BY <2>2, <2>3, <2>4
<1>9. CASE ReadHooksAgain
  <2>1. PICK ok \in BOOLEAN : Answers(ok) /\ Decide(ok)
    BY <1>9 DEF ReadHooksAgain
  <2> USE <1>0, <1>9, <2>1, DecideOutcome, BuildOutcome DEF ReadHooksAgain, MayBuild, guard, history
  <2>2. Flags'
    BY DEF Flags
  <2>3. Values'
    BY DEF Values
  <2>4. Handles'
    BY DEF Handles
  <2> QED
    BY <2>2, <2>3, <2>4
<1>10. CASE TeardownReadName
  <2> USE <1>0, <1>10 DEF TeardownReadName, machine, memory, guard, history
  <2>1. Flags'
    BY DEF Flags
  <2>2. Values'
    BY DEF Values
  <2>3. Handles'
    BY DEF Handles
  <2> QED
    BY <2>1, <2>2, <2>3
<1>11. CASE ShutdownName
  <2> USE <1>0, <1>11 DEF ShutdownName, Shutdown, memory, history
  <2>1. Flags'
    BY DEF Flags
  <2>2. Values'
    BY DEF Values
  <2>3. Handles'
    BY OutdatedIs DEF Handles
  <2> QED
    BY <2>1, <2>2, <2>3
<1>12. CASE TeardownReadHooks
  <2> USE <1>0, <1>12, OursOnIs DEF TeardownReadHooks, Ids, machine, memory, guard, history
  <2>1. Flags'
    BY DEF Flags
  <2>2. Values'
    BY DEF Values
  <2>3. Handles'
    BY DEF Handles
  <2> QED
    BY <2>1, <2>2, <2>3
<1>13. CASE ShutdownId
  <2> USE <1>0, <1>13 DEF ShutdownId, Shutdown, memory, history
  <2>1. Flags'
    BY DEF Flags
  <2>2. Values'
    BY DEF Values
  <2>3. Handles'
    <3>1. PICK id \in kid : kid' = Outdated(kid \ {id})
      BY DEF ShutdownId
    <3> QED
      BY <3>1, OutdatedIs DEF Handles
  <2> QED
    BY <2>1, <2>2, <2>3
<1>14. CASE TeardownChecked
  <2>1. PICK ok \in BOOLEAN : Answers(ok) /\ Answered(ok)
    BY <1>0, <1>14, CheckedOutcome DEF Running, Tearing, TeardownChecked
  <2> USE <1>0, <1>14, <2>1, BuildOutcome DEF TeardownChecked, Answered, MayBuild, guard, history
  <2>2. Flags'
    BY DEF Flags
  <2>3. Values'
    BY DEF Values
  <2>4. Handles'
    BY DEF Handles
  <2> QED
    BY <2>2, <2>3, <2>4
<1>15. CASE SessionStep
  <2> USE <1>0 DEF Command, pass, memory, guard, history
  <2>1. \E name, next \in {"none", "mkpeer", "name", "connect", "setconfig", "ok", "error"},
            to \in {"unnamed"} \cup Named, may \in BOOLEAN : Command(name, may, to, next)
    BY <1>15 DEF SessionStep, Mkpeer, Name, Connect, Setconfig
  <2>2. Flags'
    BY <2>1 DEF Flags
  <2>3. Values'
    BY <2>1 DEF Values
  <2>4. Handles'
    BY <2>1 DEF Handles
  <2> QED
    BY <2>2, <2>3, <2>4
<1>16. CASE SessionExit
  <2> USE <1>0, <1>16 DEF SessionExit, pass, memory, guard, history
  <2>1. Flags'
    BY DEF Flags
  <2>2. Values'
    BY DEF Values
  <2>3. Handles'
    BY DEF Handles
  <2> QED
    BY <2>1, <2>2, <2>3
<1>17. CASE SessionEnds
  <2> USE <1>0, <1>17 DEF SessionEnds, Fail, Teardown, guard, history
  <2>1. Flags'
    BY DEF Flags
  <2>2. Values'
    BY DEF Values
  <2>3. Handles'
    BY DEF Handles
  <2> QED
    BY <2>1, <2>2, <2>3
<1>18. CASE ReadBack
  <2> USE <1>0, <1>18 DEF ReadBack, Rest, Fail, Teardown, machine, guard, history
  <2>1. Flags'
    BY DEF Flags
  <2>2. Values'
    BY DEF Values
  <2>3. Handles'
    BY DEF Handles
  <2> QED
    BY <2>1, <2>2, <2>3
<1>19. CASE CarpEvent
  <2> USE <1>0, <1>19 DEF CarpEvent, machine, pass, memory, history
  <2>1. Flags'
    BY DEF Flags
  <2>2. Values'
    BY DEF Values
  <2>3. Handles'
    BY DEF Handles
  <2> QED
    BY <2>1, <2>2, <2>3
<1>20. CASE StopRule
  <2> USE <1>0, <1>20 DEF StopRule, machine, pass, memory, history
  <2>1. Flags'
    BY DEF Flags
  <2>2. Values'
    BY DEF Values
  <2>3. Handles'
    BY DEF Handles
  <2> QED
    BY <2>1, <2>2, <2>3
<1>21. CASE Scan
  <2> USE <1>0, <1>21, OursOnIs DEF Scan, GivesUp, Ids, machine, pass, memory, history
  <2>1. Flags'
    BY DEF Flags
  <2>2. Values'
    BY DEF Values
  <2>3. Handles'
    BY DEF Handles
  <2> QED
    BY <2>1, <2>2, <2>3
<1>22. CASE GuardShutdown
  <2> USE <1>0, <1>22 DEF Running, GuardShutdown, Shutdown, memory
  <2>1. Flags'
    BY DEF Flags
  <2>2. Values'
    <3>1. tried' \in 0 .. Tries /\ graph' \in {graph, "none"} /\ faults' \in 0 .. MaxFaults
          /\ shell' \in {"scan", "shut"}
      BY GuardOutcome DEF Values, Handles, Removed
    <3> QED
      BY <3>1 DEF Values
  <2>3. Handles'
    <3>1. CASE hid = {}
      BY <3>1 DEF Handles
    <3>2. CASE hid # {}
      <4>1. PICK id \in hid : hid' = Outdated(hid \ {id}) /\ kid' = Outdated(kid)
        BY <3>2
      <4> QED
        BY <3>2, <4>1, OutdatedIs DEF Handles
    <3> QED
      BY <3>1, <3>2
  <2> QED
    BY <2>1, <2>2, <2>3
<1>23. CASE Failover
  <2> USE <1>0, <1>23 DEF Failover, pass, memory, history
  <2>1. Flags'
    BY DEF Flags
  <2>2. Values'
    BY DEF Values
  <2>3. Handles'
    BY DEF Handles
  <2> QED
    BY <2>1, <2>2, <2>3
<1>24. CASE Occupy
  <2> USE <1>0, <1>24 DEF Occupy, Unheld, pass, memory, guard, history
  <2>1. Flags'
    BY DEF Flags
  <2>2. Values'
    BY DEF Values
  <2>3. Handles'
    <3>1. Unheld \subseteq Hooks
      BY DEF Unheld
    <3> HIDE DEF Unheld
    <3> QED
      BY <3>1 DEF Handles
  <2> QED
    BY <2>1, <2>2, <2>3
<1>25. CASE Vacate
  <2> USE <1>0, <1>25 DEF Vacate, memory, history
  <2>1. Flags'
    BY DEF Flags
  <2>2. Values'
    BY DEF Values
  <2>3. Handles'
    BY OutdatedIs DEF Handles
  <2> QED
    BY <2>1, <2>2, <2>3
<1>26. CASE RetryOpens
  <2> USE <1>0, <1>26 DEF RetryOpens, machine, pass, guard, history
  <2>1. Flags'
    BY DEF Flags
  <2>2. Values'
    BY DEF Values
  <2>3. Handles'
    BY DEF Handles
  <2> QED
    BY <2>1, <2>2, <2>3
<1>27. CASE UNCHANGED vars
  BY <1>0, <1>27 DEF Flags, Values, Handles, vars, machine, pass, memory, guard, history
<1> QED
  BY <1>1, <1>2, <1>3, <1>4, <1>5, <1>6, <1>7, <1>8, <1>9, <1>10, <1>11, <1>12, <1>13, <1>14, <1>15, <1>16, <1>17, <1>18, <1>19, <1>20, <1>21, <1>22, <1>23, <1>24, <1>25, <1>26, <1>27
     DEF Next, PassStep, GuardStep

LEMMA PartedStep == TypeOK /\ Parted /\ [Next]_vars => Parted'
<1> SUFFICES ASSUME TypeOK, Parted, [Next]_vars PROVE Parted'
  OBVIOUS
<1>0. Handles
  BY TypeHalves
<1> USE DEF nodes
<1>1. ASSUME UNCHANGED <<graph, alike, kid, hid>> PROVE Parted'
  BY <1>1 DEF Parted
<1>2. ASSUME NEW target, Shutdown(target) PROVE (graph # "none" => "upper" \notin alike)' /\ (graph \in {"wired", "built"} => alike = {})'
  BY <1>2 DEF Parted, Shutdown
<1>3. CASE Start
  BY <1>3 DEF Start, machine, guard, Parted
<1>4. CASE Crash
  BY <1>4 DEF Crash, machine, guard, Parted
<1>5. CASE ShutdownName
  <2>1. "other" \notin kid' \cup hid'
    BY <1>0, <1>5, OutdatedIs DEF ShutdownName, Handles, Parted
  <2> QED
    BY <1>2, <1>5, <2>1 DEF ShutdownName, Parted
<1>6. CASE TeardownReadHooks
  BY <1>6, OursOnIs DEF TeardownReadHooks, machine, guard, Parted
<1>7. CASE ShutdownId
  <2>1. PICK id \in kid : kid' = Outdated(kid \ {id})
    BY <1>7 DEF ShutdownId
  <2>2. "other" \notin kid' \cup hid'
    BY <1>0, <1>7, <2>1, OutdatedIs DEF ShutdownId, Handles, Parted
  <2> QED
    BY <1>2, <1>7, <2>2 DEF ShutdownId, Parted
<1>8. CASE GuardShutdown
  <2>1. CASE hid = {}
    BY <1>1, <1>8, <2>1 DEF GuardShutdown
  <2>2. CASE hid # {}
    <3>1. PICK id \in hid : hid' = Outdated(hid \ {id}) /\ kid' = Outdated(kid)
      BY <1>8, <2>2 DEF GuardShutdown
    <3>2. "other" \notin kid' \cup hid'
      BY <1>0, <3>1, OutdatedIs DEF Handles, Parted
    <3> QED
      BY <1>2, <1>8, <2>2, <3>2 DEF GuardShutdown, Parted
  <2> QED
    BY <2>1, <2>2
<1>9. CASE Scan
  BY <1>9, OursOnIs DEF Scan, machine, pass, Parted
<1>10. CASE SessionStep
  BY <1>0, <1>10 DEF SessionStep, Mkpeer, Name, Connect, Setconfig, Command, Free, pass, guard,
     Parted, Handles, Hooks
<1>11. CASE Occupy
  BY <1>11 DEF Occupy, Unheld, pass, guard, Parted
<1>12. CASE Vacate
  <2>1. "other" \notin kid' \cup hid'
    BY <1>0, <1>12, OutdatedIs DEF Vacate, Handles, Parted
  <2> QED
    BY <1>12, <2>1 DEF Vacate, Parted
<1>13. Stop \/ NeedsTeardown \/ Tick \/ ReadName \/ ReadHooksOnly \/ ReadHooks \/ ReadHooksAgain
         \/ TeardownReadName \/ TeardownChecked \/ SessionEnds \/ ReadBack \/ SessionExit
         \/ CarpEvent \/ StopRule \/ Failover \/ RetryOpens \/ UNCHANGED vars
       => UNCHANGED <<graph, alike, kid, hid>>
  BY DEF Stop, NeedsTeardown, Tick, ReadName, ReadHooksOnly, ReadHooks, ReadHooksAgain,
         TeardownReadName, TeardownChecked, SessionEnds, ReadBack, SessionExit, CarpEvent,
         StopRule, Failover, RetryOpens, vars, machine, pass, guard
<1> QED
  BY <1>1, <1>3, <1>4, <1>5, <1>6, <1>7, <1>8, <1>9, <1>10, <1>11, <1>12, <1>13
     DEF Next, PassStep, GuardStep

LEMMA FactsStep == IInv /\ TypeOK' /\ [Next]_vars => (Running /\ Staged /\ Counted /\ Looked /\ Caused /\ Honest /\ Closing)'
<1> SUFFICES ASSUME IInv, TypeOK', [Next]_vars
             PROVE  (Running /\ Staged /\ Counted /\ Looked /\ Caused /\ Honest /\ Closing)'
  OBVIOUS
<1> USE DEF Answers, Fault, Named, Asking, Tearing, nodes
<1>0. /\ Flags /\ Values /\ Handles
      /\ Running /\ Staged /\ Counted /\ Looked /\ Caused /\ Honest /\ Closing
      /\ Parted /\ faults \in Nat /\ faults' \in Nat
  BY TypeHalves DEF IInv, Values, TypeOK
<1>1. CASE Start
  <2> USE <1>0, <1>1 DEF Start, Boundary, machine, guard, memory, KeepsAtBoundary
  <2>1. Running'
    BY DEF Running, Values
  <2>2. Staged'
    BY DEF Staged, Values, Running
  <2>3. Counted'
    BY DEF Counted, Intruded, Values, Running
  <2>4. Looked'
    BY DEF Looked, Values, Running
  <2>5. Caused'
    BY DEF Caused, Values, Running, Staged, Looked, Counted, Intruded
  <2>6. Honest'
    BY DEF Honest, TokenHonest, Values, Flags, Running, Looked
  <2>7. Closing'
    BY DEF Closing, Counted, Intruded, Values, Running
  <2> QED
    BY <2>1, <2>2, <2>3, <2>4, <2>5, <2>6, <2>7
<1>2. CASE Stop
  <2> USE <1>0, <1>2 DEF Stop, Boundary, memory, guard, machine, KeepsAtBoundary
  <2>1. Running'
    BY DEF Running, Values
  <2>2. Staged'
    BY DEF Staged, Values, Running
  <2>3. Counted'
    BY DEF Counted, Intruded, Values, Running
  <2>4. Looked'
    BY DEF Looked, Values, Running
  <2>5. Caused'
    BY DEF Caused, Values, Running, Staged, Looked, Counted, Intruded
  <2>6. Honest'
    BY DEF Honest, TokenHonest, Values, Flags, Running, Looked
  <2>7. Closing'
    BY DEF Closing, Counted, Intruded, Values, Running
  <2> QED
    BY <2>1, <2>2, <2>3, <2>4, <2>5, <2>6, <2>7
<1>3. CASE Crash
  <2> USE <1>0, <1>3 DEF Crash, machine, memory, guard, history
  <2>1. Running'
    BY DEF Running, Values
  <2>2. Staged'
    BY DEF Staged, Values, Running
  <2>3. Counted'
    BY DEF Counted, Intruded, Values, Running
  <2>4. Looked'
    BY DEF Looked, Values, Running
  <2>5. Caused'
    BY DEF Caused, Values, Running, Staged, Looked, Counted, Intruded
  <2>6. Honest'
    BY DEF Honest, TokenHonest, Values, Flags, Running, Looked
  <2>7. Closing'
    BY DEF Closing, Counted, Intruded, Values, Running
  <2> QED
    BY <2>1, <2>2, <2>3, <2>4, <2>5, <2>6, <2>7
<1>4. CASE NeedsTeardown
  <2> USE <1>0, <1>4, OursOnIs DEF NeedsTeardown, Teardown, machine, memory, guard, history
  <2>1. Running'
    BY DEF Running, Values
  <2>2. Staged'
    BY DEF Staged, Values, Running
  <2>3. Counted'
    BY DEF Counted, Intruded, Values, Running
  <2>4. Looked'
    BY DEF Looked, Values, Running
  <2>5. Caused'
    BY DEF Caused, Values, Running, Staged, Looked, Counted, Intruded
  <2>6. Honest'
    BY DEF Honest, TokenHonest, Values, Flags, Running, Looked
  <2>7. Closing'
    BY DEF Closing, Counted, Intruded, Values, Running
  <2> QED
    BY <2>1, <2>2, <2>3, <2>4, <2>5, <2>6, <2>7
<1>5. CASE Tick
  <2> USE <1>0, <1>5 DEF Tick, machine, guard, CountTo, StrikeOut, memory
  <2>1. Running'
    BY DEF Running, Values
  <2>2. Staged'
    BY DEF Staged, Values, Running
  <2>3. Counted'
    <3>1. blind \in 0 .. Strikes /\ blind \in Nat /\ strikes = blind
      BY DEF Counted, Values
    <3>2. CASE reading' = "unknown"
      <4>0. PICK r \in {carp, "unknown"} :
              /\ Answers(r = carp) /\ reading' = r
              /\ r = "unknown" => strikes' = CountTo(strikes) /\ blind' = CountTo(blind)
        BY DEF Tick
      <4>r. r = "unknown" /\ carp # "unknown"
        BY <3>2, <4>0 DEF Values, Role
      <4>1. faults' = faults + 1 /\ strikes' = CountTo(blind) /\ blind' = CountTo(blind)
        BY <3>1, <4>0, <4>r
      <4>2. blind' <= blind + 1
        BY <3>1, <4>1, CountTyped
      <4>3. Intruded' = Intruded
        BY DEF Intruded
      <4>4. strikes' = blind' /\ blind' <= faults' /\ (Intruded' => blind' < faults')
        BY <3>1, <4>1, <4>2, <4>3 DEF Counted
      <4> QED
        BY <3>2, <4>4 DEF Counted, Running
    <3>3. CASE reading' # "unknown"
      BY <3>1, <3>3 DEF Counted, Intruded, Running
    <3> QED
      BY <3>2, <3>3
  <2>4. Looked'
    BY DEF Looked, Values, Running
  <2>5. Caused'
    BY DEF Caused, Values, Running, Staged, Looked, Counted, Intruded
  <2>6. Honest'
    BY DEF Honest, TokenHonest, Values, Flags, Running, Looked
  <2>7. Closing'
    BY DEF Closing, Counted, Intruded, Values, Running
  <2> QED
    BY <2>1, <2>2, <2>3, <2>4, <2>5, <2>6, <2>7
<1>6. CASE ReadName
  <2> USE <1>0, <1>6 DEF ReadName, Rest, machine, guard, history, Found, Ours
  <2>1. Running'
    BY DEF Running, Values
  <2>2. Staged'
    BY DEF Staged, Values, Running
  <2>3. Counted'
    BY DEF Counted, Intruded, Values, Running
  <2>4. Looked'
    BY DEF Looked, Values, Running
  <2>5. Caused'
    BY DEF Caused, Values, Running, Staged, Looked, Counted, Intruded
  <2>6. Honest'
    BY DEF Honest, TokenHonest, Values, Flags, Running, Looked
  <2>7. Closing'
    BY DEF Closing, Counted, Intruded, Values, Running
  <2> QED
    BY <2>1, <2>2, <2>3, <2>4, <2>5, <2>6, <2>7
<1>7. CASE ReadHooksOnly
  <2> USE <1>0, <1>7 DEF ReadHooksOnly, Rest, Teardown, machine, guard, history
  <2>1. Running'
    BY DEF Running, Values
  <2>2. Staged'
    BY DEF Staged, Values, Running
  <2>3. Counted'
    BY DEF Counted, Intruded, Values, Running
  <2>4. Looked'
    BY DEF Looked, Values, Running
  <2>5. Caused'
    BY DEF Caused, Values, Running, Staged, Looked, Counted, Intruded
  <2>6. Honest'
    BY DEF Honest, TokenHonest, Values, Flags, Running, Looked
  <2>7. Closing'
    BY DEF Closing, Counted, Intruded, Values, Running
  <2> QED
    BY <2>1, <2>2, <2>3, <2>4, <2>5, <2>6, <2>7
<1>8. CASE ReadHooks
  <2>0. PICK ok \in BOOLEAN, kld \in BOOLEAN :
          /\ Answers(ok /\ kld)
          /\ loaded' = (loaded \/ (kld /\ option # "refused"))
          /\ IF UnnamedIn(ok)
             THEN Teardown("unnamed") /\ UNCHANGED <<seen, state, session, retry>>
             ELSE Decide(ok)
    BY <1>8 DEF ReadHooks
  <2> USE <1>0, <1>8, <2>0, DecideOutcome, BuildOutcome DEF ReadHooks, Teardown, guard, history, Refused, HooksRefuse, UnnamedIn, MayBuild, Presence
  <2>1. Running'
    BY DEF Running, Values
  <2>2. Staged'
    BY DEF Staged, Values, Running, Looked
  <2>3. Counted'
    BY DEF Counted, Intruded, Values, Running
  <2>4. Looked'
    BY DEF Looked, Values, Running
  <2>5. Caused'
    <3>0. UnnamedIn(ok) => graph # "built"
      BY DEF Parted
    <3>1. Refused(ok) => option = "refused" \/ faults' > 0
      BY DEF Counted, Intruded, Values
    <3>2. ~Refused(ok) => option # "refused"
      OBVIOUS
    <3> HIDE DEF Refused, UnnamedIn
    <3>3. \/ cont' = "none"
          \/ cont' = "unnamed" /\ UnnamedIn(ok)
          \/ cont' = "other" /\ Refused(ok)
          \/ cont' = "native" /\ reading # "master"
          \/ cont' = "half" /\ seen = "half" /\ reading = "master" /\ ~Refused(ok)
      OBVIOUS
    <3>4. reading = "master" \/ reading = "backup"
      BY DEF Running, Values, Reading, Role
    <3>5. seen = "half" => option = "refused" \/ graph # "built"
      BY DEF Looked
    <3>6. UNCHANGED <<option, reading, graph>>
      BY DEF history
    <3> QED
      BY ONLY <3>0, <3>1, <3>2, <3>3, <3>4, <3>5, <3>6 DEF Caused
  <2>6. Honest'
    <3>1. seen = "absent" /\ ~Refused(ok) /\ ~UnnamedIn(ok) => graph = "none"
      BY DEF Looked, Values
    <3>2. seen = "built" => (clean => graph = "built")
      BY DEF Looked
    <3>3. seen \in Presence
      BY DEF Values
    <3> HIDE DEF Refused, UnnamedIn
    <3>4. \/ pc' # "idle" /\ cont' \notin {"start", "unknown"}
          \/ /\ pc' = "idle" /\ cont' = "none"
             /\ \/ state' = "other"
                \/ state' = "native" /\ seen = "absent" /\ ~Refused(ok) /\ ~UnnamedIn(ok)
                \/ state' = failed /\ failed # "none" /\ seen = "absent" /\ ~Refused(ok) /\ ~UnnamedIn(ok)
                \/ state' = "built" /\ seen = "built"
      BY <3>3 DEF Ours
    <3>5. failed \in {"none", "failed", "teardown"}
      BY DEF Values
    <3>6. UNCHANGED <<graph, clean>>
      BY DEF history
    <3> QED
      BY ONLY <3>1, <3>2, <3>4, <3>5, <3>6 DEF Honest, TokenHonest
  <2>7. Closing'
    BY DEF Closing, Counted, Intruded, Values, Running
  <2> QED
    BY <2>1, <2>2, <2>3, <2>4, <2>5, <2>6, <2>7
<1>9. CASE ReadHooksAgain
  <2>0. PICK ok \in BOOLEAN : Answers(ok) /\ Decide(ok)
    BY <1>9 DEF ReadHooksAgain
  <2> USE <1>0, <1>9, <2>0, DecideOutcome, BuildOutcome DEF ReadHooksAgain, guard, history, Refused, HooksRefuse, MayBuild, Presence
  <2>1. Running'
    BY DEF Running, Values
  <2>2. Staged'
    BY DEF Staged, Values, Running, Looked
  <2>3. Counted'
    BY DEF Counted, Intruded, Values, Running
  <2>4. Looked'
    BY DEF Looked, Values, Running
  <2>5. Caused'
    <3>1. Refused(ok) => option = "refused" \/ faults' > 0
      BY DEF Counted, Intruded, Values, Looked
    <3>2. ~Refused(ok) => option # "refused"
      OBVIOUS
    <3> HIDE DEF Refused
    <3>3. \/ cont' = "none"
          \/ cont' = "other" /\ Refused(ok)
          \/ cont' = "native" /\ reading # "master"
          \/ cont' = "half" /\ seen = "half" /\ reading = "master" /\ ~Refused(ok)
      OBVIOUS
    <3>4. reading = "master" \/ reading = "backup"
      BY DEF Running, Values, Reading, Role
    <3>5. seen = "half" => option = "refused" \/ graph # "built"
      BY DEF Looked
    <3>6. UNCHANGED <<option, reading, graph>>
      BY DEF history
    <3> QED
      BY ONLY <3>1, <3>2, <3>3, <3>4, <3>5, <3>6 DEF Caused
  <2>6. Honest'
    BY DEF Honest, TokenHonest, Values, Flags, Running, Looked
  <2>7. Closing'
    BY DEF Closing, Counted, Intruded, Values, Running
  <2> QED
    BY <2>1, <2>2, <2>3, <2>4, <2>5, <2>6, <2>7
<1>10. CASE TeardownReadName
  <2> USE <1>0, <1>10 DEF TeardownReadName, machine, memory, guard, history, Found, Ours
  <2>1. Running'
    BY DEF Running, Values
  <2>2. Staged'
    BY DEF Staged, Values, Running
  <2>3. Counted'
    BY DEF Counted, Intruded, Values, Running
  <2>4. Looked'
    BY DEF Looked, Values, Running
  <2>5. Caused'
    BY DEF Caused, Values, Running, Staged, Looked, Counted, Intruded
  <2>6. Honest'
    BY DEF Honest, TokenHonest, Values, Flags, Running, Looked
  <2>7. Closing'
    BY DEF Closing, Counted, Intruded, Values, Running
  <2> QED
    BY <2>1, <2>2, <2>3, <2>4, <2>5, <2>6, <2>7
<1>11. CASE ShutdownName
  <2> USE <1>0, <1>11 DEF ShutdownName, Shutdown, memory, history, NameTarget
  <2>1. Running'
    BY DEF Running, Values
  <2>2. Staged'
    BY DEF Staged, Values, Running
  <2>3. Counted'
    BY NameOutcome DEF Removed, Counted, Values, Running
  <2>4. Looked'
    BY DEF Looked, Values, Running
  <2>5. Caused'
    BY DEF Caused, Values, Running, Staged, Looked, Counted, Intruded
  <2>6. Honest'
    BY DEF Honest, TokenHonest, Values, Flags, Running, Looked
  <2>7. Closing'
    BY DEF Closing, Counted, Intruded, Values, Running
  <2> QED
    BY <2>1, <2>2, <2>3, <2>4, <2>5, <2>6, <2>7
<1>12. CASE TeardownReadHooks
  <2> USE <1>0, <1>12, OursOnIs DEF TeardownReadHooks, machine, memory, guard, history
  <2>1. Running'
    BY DEF Running, Values
  <2>2. Staged'
    BY DEF Staged, Values, Running
  <2>3. Counted'
    BY DEF Counted, Intruded, Values, Running
  <2>4. Looked'
    BY DEF Looked, Values, Running
  <2>5. Caused'
    BY DEF Caused, Values, Running, Staged, Looked, Counted, Intruded
  <2>6. Honest'
    BY DEF Honest, TokenHonest, Values, Flags, Running, Looked
  <2>7. Closing'
    BY DEF Closing, Counted, Intruded, Values, Running
  <2> QED
    BY <2>1, <2>2, <2>3, <2>4, <2>5, <2>6, <2>7
<1>13. CASE ShutdownId
  <2> USE <1>0
  <2>1. Removed /\ (("ours" \in kid' <=> "ours" \in kid /\ graph' # "none") \/ faults' = faults + 1)
    BY <1>13, IdOutcome DEF Handles
  <2>2. /\ UNCHANGED <<session, option, seen, cont, memory, history, shell, tried>>
        /\ pc = "tid" /\ pc' = (IF kid' = {} THEN "tcheck" ELSE "tid")
    BY <1>13 DEF ShutdownId
  <2>3. /\ graph' \in {graph, "none"} /\ (Intruded' => Intruded) /\ faults' >= faults
        /\ UNCHANGED <<strikes, loaded, failed, retry, state, reading, blind, clean>>
    BY <2>1, <2>2 DEF Removed, memory, history
  <2> HIDE DEF Intruded
  <2>4. Running'
    BY <2>2, <2>3 DEF Running
  <2>5. Staged'
    BY <2>2, <2>3 DEF Staged
  <2>6. Counted'
    BY <2>2, <2>3 DEF Counted, Values
  <2>7. Looked'
    BY <2>2, <2>3 DEF Looked
  <2>8. Caused'
    BY <2>2, <2>3 DEF Caused
  <2>9. Honest'
    BY <2>2, <2>3 DEF Honest, TokenHonest
  <2>10. Closing'
    <3>1. blind' = Strikes /\ faults' = Strikes => faults = Strikes /\ faults' = faults
      BY <2>2, <2>3 DEF Counted, Values
    <3>2. faults' = faults => ("ours" \in kid \/ graph = "none" => "ours" \in kid' \/ graph' = "none")
      BY <2>1, <2>3
    <3>3. kid' = {} => "ours" \notin kid'
      OBVIOUS
    <3> QED
      BY <2>2, <2>3, <3>1, <3>2, <3>3 DEF Closing
  <2> QED
    BY <2>4, <2>5, <2>6, <2>7, <2>8, <2>9, <2>10
<1>14. CASE TeardownChecked
  <2>0. PICK ok \in BOOLEAN : Answers(ok) /\ Answered(ok)
    BY <1>0, <1>14, CheckedOutcome DEF Running, TeardownChecked
  <2> USE <1>0, <1>14, <2>0, BuildOutcome DEF TeardownChecked, Answered, guard, history, Confirmed, MayBuild
  <2>1. Running'
    BY DEF Running, Values, Caused
  <2>2. Staged'
    BY DEF Staged, Values, Running, Caused
  <2>3. Counted'
    BY DEF Counted, Intruded, Values, Running
  <2>4. Looked'
    BY DEF Looked, Values, Running
  <2>5. Caused'
    BY DEF Caused, Values, Running, Staged, Looked, Counted, Intruded
  <2>6. Honest'
    BY DEF Honest, TokenHonest, Values, Flags, Running, Looked
  <2>7. Closing'
    <3>1. CASE cont = "unknown"
      <4>1. pc' = "idle" /\ cont' = "none" /\ UNCHANGED <<graph, option, blind>>
        BY <3>1
      <4>2. blind = Strikes /\ faults' = Strikes => faults = Strikes
        BY DEF Counted, Values
      <4> QED
        BY <3>1, <4>1, <4>2 DEF Closing
    <3>a. CASE cont = "stop"
      <4>1. pc' = "down" /\ cont' = "none"
        BY <3>a
      <4> QED
        BY <4>1 DEF Closing
    <3>2. CASE cont \notin {"unknown", "stop"}
      <4>1. blind' = 0
        BY <3>2 DEF Counted
      <4> QED
        BY <4>1 DEF Closing
    <3> QED
      BY <3>1, <3>a, <3>2
  <2> QED
    BY <2>1, <2>2, <2>3, <2>4, <2>5, <2>6, <2>7
<1>15. CASE SessionStep
  <2> USE <1>0, <1>15 DEF SessionStep, Mkpeer, Name, Connect, Setconfig, Command, Free, pass, memory, guard, history
  <2>1. Running'
    BY DEF Running, Values
  <2>2. Staged'
    BY DEF Staged, Values, Running, Counted, Intruded
  <2>3. Counted'
    BY DEF Counted, Intruded, Values, Running
  <2>4. Looked'
    BY DEF Looked, Values, Running
  <2>5. Caused'
    BY DEF Caused, Values, Running, Staged, Looked, Counted, Intruded
  <2>6. Honest'
    BY DEF Honest, TokenHonest, Values, Flags, Running, Looked
  <2>7. Closing'
    BY DEF Closing, Counted, Intruded, Values, Running
  <2> QED
    BY <2>1, <2>2, <2>3, <2>4, <2>5, <2>6, <2>7
<1>16. CASE SessionExit
  <2> USE <1>0, <1>16 DEF SessionExit, pass, memory, guard, history
  <2>1. Running'
    BY DEF Running, Values
  <2>2. Staged'
    BY DEF Staged, Values, Running
  <2>3. Counted'
    BY DEF Counted, Intruded, Values, Running
  <2>4. Looked'
    BY DEF Looked, Values, Running
  <2>5. Caused'
    BY DEF Caused, Values, Running, Staged, Looked, Counted, Intruded
  <2>6. Honest'
    BY DEF Honest, TokenHonest, Values, Flags, Running, Looked
  <2>7. Closing'
    BY DEF Closing, Counted, Intruded, Values, Running
  <2> QED
    BY <2>1, <2>2, <2>3, <2>4, <2>5, <2>6, <2>7
<1>17. CASE SessionEnds
  <2> USE <1>0, <1>17 DEF SessionEnds, Fail, Teardown, guard, history
  <2>1. Running'
    BY DEF Running, Values
  <2>2. Staged'
    BY DEF Staged, Values, Running
  <2>3. Counted'
    BY DEF Counted, Intruded, Values, Running
  <2>4. Looked'
    BY DEF Looked, Values, Running
  <2>5. Caused'
    BY DEF Caused, Values, Running, Staged, Looked, Counted, Intruded
  <2>6. Honest'
    BY DEF Honest, TokenHonest, Values, Flags, Running, Looked
  <2>7. Closing'
    BY DEF Closing, Counted, Intruded, Values, Running
  <2> QED
    BY <2>1, <2>2, <2>3, <2>4, <2>5, <2>6, <2>7
<1>18. CASE ReadBack
  <2> USE <1>0, <1>18 DEF ReadBack, Rest, Fail, Teardown, machine, guard, history, Found
  <2>1. Running'
    BY DEF Running, Values
  <2>2. Staged'
    BY DEF Staged, Values, Running
  <2>3. Counted'
    BY DEF Counted, Intruded, Values, Running
  <2>4. Looked'
    BY DEF Looked, Values, Running
  <2>5. Caused'
    BY DEF Caused, Values, Running, Staged, Looked, Counted, Intruded, Presence
  <2>6. Honest'
    BY DEF Honest, TokenHonest, Values, Flags, Running, Looked
  <2>7. Closing'
    BY DEF Closing, Counted, Intruded, Values, Running
  <2> QED
    BY <2>1, <2>2, <2>3, <2>4, <2>5, <2>6, <2>7
<1>19. CASE CarpEvent
  <2> USE <1>0, <1>19 DEF CarpEvent, machine, pass, memory, history
  <2>1. Running'
    BY DEF Running, Values
  <2>2. Staged'
    BY DEF Staged, Values, Running
  <2>3. Counted'
    BY DEF Counted, Intruded, Values, Running
  <2>4. Looked'
    BY DEF Looked, Values, Running
  <2>5. Caused'
    BY DEF Caused, Values, Running, Staged, Looked, Counted, Intruded
  <2>6. Honest'
    BY DEF Honest, TokenHonest, Values, Flags, Running, Looked
  <2>7. Closing'
    BY DEF Closing, Counted, Intruded, Values, Running
  <2> QED
    BY <2>1, <2>2, <2>3, <2>4, <2>5, <2>6, <2>7
<1>20. CASE StopRule
  <2> USE <1>0, <1>20 DEF StopRule, machine, pass, memory, history
  <2>1. Running'
    BY DEF Running, Values
  <2>2. Staged'
    BY DEF Staged, Values, Running
  <2>3. Counted'
    BY DEF Counted, Intruded, Values, Running
  <2>4. Looked'
    BY DEF Looked, Values, Running
  <2>5. Caused'
    BY DEF Caused, Values, Running, Staged, Looked, Counted, Intruded
  <2>6. Honest'
    BY DEF Honest, TokenHonest, Values, Flags, Running, Looked
  <2>7. Closing'
    BY DEF Closing, Counted, Intruded, Values, Running
  <2> QED
    BY <2>1, <2>2, <2>3, <2>4, <2>5, <2>6, <2>7
<1>21. CASE Scan
  <2> USE <1>0, <1>21 DEF Scan, GivesUp, machine, pass, memory, history, Confirmed
  <2>1. Running'
    BY DEF Running, Values
  <2>2. Staged'
    BY DEF Staged, Values, Running
  <2>3. Counted'
    BY DEF Counted, Intruded, Values, Running
  <2>4. Looked'
    BY DEF Looked, Values, Running
  <2>5. Caused'
    BY DEF Caused, Values, Running, Staged, Looked, Counted, Intruded
  <2>6. Honest'
    BY DEF Honest, TokenHonest, Values, Flags, Running, Looked
  <2>7. Closing'
    BY DEF Closing, Counted, Intruded, Values, Running
  <2> QED
    BY <2>1, <2>2, <2>3, <2>4, <2>5, <2>6, <2>7
<1>22. CASE GuardShutdown
  <2> USE <1>0
  <2>1. Removed /\ clean' = (clean /\ graph' = graph)
        /\ ("ours" \in kid' <=> "ours" \in kid /\ (graph' # "none" \/ kid' = kid))
    BY <1>22, GuardOutcome DEF Handles
  <2>2. /\ UNCHANGED <<session, option, pc, seen, cont, memory, reading, blind>>
        /\ shell' = "shut" => tried' # Tries
    BY <1>22 DEF GuardShutdown, Running
  <2>3. /\ graph' \in {graph, "none"} /\ (Intruded' => Intruded) /\ faults' >= faults
        /\ UNCHANGED <<strikes, loaded, failed, retry, state>>
    BY <2>1, <2>2 DEF Removed, memory
  <2> HIDE DEF Intruded
  <2>4. Running'
    BY <2>2, <2>3 DEF Running
  <2>5. Staged'
    BY <2>2, <2>3 DEF Staged
  <2>6. Counted'
    BY <2>2, <2>3 DEF Counted, Values
  <2>7. Looked'
    <3>1. clean' => clean /\ graph' = graph
      BY <2>1 DEF Flags
    <3> QED
      BY <2>2, <2>3, <3>1 DEF Looked
  <2>8. Caused'
    BY <2>2, <2>3 DEF Caused
  <2>9. Honest'
    BY <2>1, <2>2, <2>3 DEF Honest, TokenHonest, Flags
  <2>10. Closing'
    <3>1. blind' = Strikes /\ faults' = Strikes => faults = Strikes
      BY <2>2, <2>3 DEF Counted, Values
    <3>2. "ours" \in kid \/ graph = "none" => "ours" \in kid' \/ graph' = "none"
      BY <2>1, <2>3
    <3> QED
      BY <2>2, <2>3, <3>1, <3>2 DEF Closing
  <2> QED
    BY <2>4, <2>5, <2>6, <2>7, <2>8, <2>9, <2>10
<1>23. CASE Failover
  <2> USE <1>0, <1>23 DEF Failover, pass, memory, history
  <2>1. Running'
    BY DEF Running, Values
  <2>2. Staged'
    BY DEF Staged, Values, Running
  <2>3. Counted'
    BY DEF Counted, Intruded, Values, Running
  <2>4. Looked'
    BY DEF Looked, Values, Running
  <2>5. Caused'
    BY DEF Caused, Values, Running, Staged, Looked, Counted, Intruded
  <2>6. Honest'
    BY DEF Honest, TokenHonest, Values, Flags, Running, Looked
  <2>7. Closing'
    BY DEF Closing, Counted, Intruded, Values, Running
  <2> QED
    BY <2>1, <2>2, <2>3, <2>4, <2>5, <2>6, <2>7
<1>24. CASE Occupy
  <2> USE <1>0, <1>24 DEF Occupy, Unheld, pass, memory, guard, history
  <2>1. Running'
    BY DEF Running, Values
  <2>2. Staged'
    BY DEF Staged, Values, Running
  <2>3. Counted'
    BY DEF Counted, Intruded, Values, Running
  <2>4. Looked'
    BY DEF Looked, Values, Running
  <2>5. Caused'
    BY DEF Caused, Values, Running, Staged, Looked, Counted, Intruded
  <2>6. Honest'
    BY DEF Honest, TokenHonest, Values, Flags, Running, Looked
  <2>7. Closing'
    BY DEF Closing, Counted, Intruded, Values, Running
  <2> QED
    BY <2>1, <2>2, <2>3, <2>4, <2>5, <2>6, <2>7
<1>25. CASE Vacate
  <2> USE <1>0, <1>25 DEF Vacate, memory, history
  <2>1. Running'
    BY DEF Running, Values
  <2>2. Staged'
    BY DEF Staged, Values, Running
  <2>3. Counted'
    BY DEF Counted, Intruded, Values, Running
  <2>4. Looked'
    BY DEF Looked, Values, Running
  <2>5. Caused'
    BY DEF Caused, Values, Running, Staged, Looked, Counted, Intruded
  <2>6. Honest'
    BY DEF Honest, TokenHonest, Values, Flags, Running, Looked
  <2>7. Closing'
    BY DEF Closing, Counted, Intruded, Values, Running
  <2> QED
    BY <2>1, <2>2, <2>3, <2>4, <2>5, <2>6, <2>7
<1>26. CASE RetryOpens
  <2> USE <1>0, <1>26 DEF RetryOpens, machine, pass, guard, history
  <2>1. Running'
    BY DEF Running, Values
  <2>2. Staged'
    BY DEF Staged, Values, Running
  <2>3. Counted'
    BY DEF Counted, Intruded, Values, Running
  <2>4. Looked'
    BY DEF Looked, Values, Running
  <2>5. Caused'
    BY DEF Caused, Values, Running, Staged, Looked, Counted, Intruded
  <2>6. Honest'
    BY DEF Honest, TokenHonest, Values, Flags, Running, Looked
  <2>7. Closing'
    BY DEF Closing, Counted, Intruded, Values, Running
  <2> QED
    BY <2>1, <2>2, <2>3, <2>4, <2>5, <2>6, <2>7
<1>27. CASE UNCHANGED vars
  BY <1>0, <1>27 DEF vars, machine, pass, memory, guard, history, Running, Staged, Counted, Intruded, Looked, Caused, Honest, TokenHonest, Closing
<1> QED
  BY <1>1, <1>2, <1>3, <1>4, <1>5, <1>6, <1>7, <1>8, <1>9, <1>10, <1>11, <1>12, <1>13, <1>14, <1>15, <1>16, <1>17, <1>18, <1>19, <1>20, <1>21, <1>22, <1>23, <1>24, <1>25, <1>26, <1>27
     DEF Next, PassStep, GuardStep

LEMMA StepIInv == IInv /\ [Next]_vars => IInv'
<1> SUFFICES ASSUME IInv, [Next]_vars PROVE IInv'
  OBVIOUS
<1>1. TypeOK'
  BY TypeStep DEF IInv
<1>2. Parted'
  BY PartedStep DEF IInv
<1> QED
  BY <1>1, <1>2, FactsStep DEF IInv

LEMMA Invariant == Spec => []IInv
  BY InitIInv, StepIInv, PTL DEF Spec

(* Every variable keeps its type: no step of the keeper, its session, a guard *)
(* or another program (vmac.py, vmac.sh) leaves the states the model knows.   *)
THEOREM TypeCorrect == Spec => []TypeOK
<1>1. IInv => TypeOK
  BY DEF IInv
<1> QED
  BY <1>1, Invariant, PTL

(* The token never says native or cleaned up over a node of ours, nor built   *)
(* over a graph that is not whole (vmac.py, _stand_down and _fail).           *)
THEOREM TokenHonestAlways == Spec => []TokenHonest
<1>1. IInv => TokenHonest
  BY DEF IInv, Honest
<1> QED
  BY <1>1, Invariant, PTL

(* After Strikes unreadable roles in a row and no other failure no rewrite is *)
(* left (vmac.py, _on_unknown_role).                                          *)
THEOREM FailsClosedAlways == Spec => []FailsClosed
<1>1. IInv => FailsClosed
  BY DEF IInv, Closing, FailsClosed
<1> QED
  BY <1>1, Invariant, PTL

(* No keeper takes a working rewrite down without one of the causes of Earned *)
(* (vmac.py, _teardown and its callers).                                      *)
THEOREM NoNeedlessTeardownAlways == Spec => NoNeedlessTeardown
<1>1. ASSUME IInv, ShutdownName \/ ShutdownId, graph = "built", option # "off"
      PROVE  Earned
  <2>1. cont # "none" /\ Values /\ Caused
    BY <1>1, TypeHalves DEF IInv, Running, Tearing, ShutdownName, ShutdownId
  <2>2. cont \notin {"half", "unnamed"}
    BY <1>1, <2>1 DEF Caused
  <2>3. \/ cont \in {"start", "stop"} /\ (option = "refused" \/ reading # "master" \/ faults > 0)
        \/ cont = "native" /\ reading = "backup"
        \/ cont = "ngctl" /\ reading = "backup"
        \/ cont = "other" /\ (option = "refused" \/ faults > 0)
        \/ cont = "unknown" /\ blind = Strikes
        \/ cont = "failed" /\ faults > 0
    BY <1>1, <2>1, <2>2 DEF Caused, Values
  <2> QED
    BY <2>3 DEF Earned
<1>2. IInv => [(ShutdownName \/ ShutdownId) /\ graph = "built" /\ graph' = "none" /\ option # "off"
                 => Earned]_vars
  BY <1>1
<1> QED
  BY <1>2, Invariant, PTL DEF NoNeedlessTeardown

(* No step but a shutdown, an arrival or a departure moves another's node. *)
Kept == others' = others /\ alike' = alike

LEMMA ShutdownKeeps ==
    ASSUME NEW target, Shutdown(target), target # "other"
    PROVE  others' = others /\ (target # "alike" => alike' = alike)
  BY DEF Shutdown

(* A node of another program is shut down only as the unnamed patch node the  *)
(* very teardown read on the hooks: no ID that was read stands for a node of  *)
(* another type, or for one that took a hook since (vmac.py, _teardown).      *)
THEOREM ForeignHooksKeptAlways == Spec => ForeignHooksKept
<1> DEFINE Allowed ==
      /\ others \subseteq others' \/ Vacate
      /\ \/ alike \subseteq alike' \/ Vacate
         \/ ShutdownId /\ "alike" \in kid
         \/ GuardShutdown /\ "alike" \in hid
<1>1. ASSUME IInv, Next PROVE Allowed
  <2>0. "other" \notin kid /\ "other" \notin hid
    BY <1>1 DEF IInv, Parted
  <2> USE DEF nodes
  <2>2. CASE ShutdownName
    BY <2>2, ShutdownKeeps DEF ShutdownName, NameTarget
  <2>3. CASE ShutdownId
    <3>1. PICK id \in kid : Shutdown(id) \/ UNCHANGED nodes
      BY <2>3 DEF ShutdownId, Target
    <3>2. others' = others /\ (id # "alike" => alike' = alike)
      BY <2>0, <3>1, ShutdownKeeps
    <3> QED
      BY <2>3, <3>2
  <2>4. CASE GuardShutdown
    <3>1. CASE hid = {}
      BY <2>4, <3>1 DEF GuardShutdown
    <3>2. CASE hid # {}
      <4>1. PICK id \in hid : Shutdown(id) \/ UNCHANGED nodes
        BY <2>4, <3>2 DEF GuardShutdown, Target
      <4>2. others' = others /\ (id # "alike" => alike' = alike)
        BY <2>0, <4>1, ShutdownKeeps
      <4> QED
        BY <2>4, <4>2
    <3> QED
      BY <3>1, <3>2
  <2>5. CASE Occupy
    BY <2>5 DEF Occupy
  <2>6. CASE Vacate
    BY <2>6
  <2>7. CASE ~(ShutdownName \/ ShutdownId \/ GuardShutdown \/ Occupy \/ Vacate)
    <3>1. Kept
      BY <1>1, <2>7
      DEF Kept, Next, PassStep, GuardStep, SessionStep, Start, Stop, Crash, NeedsTeardown, Tick,
          ReadName, ReadHooksOnly, ReadHooks, ReadHooksAgain, TeardownReadName,
          TeardownReadHooks, TeardownChecked, Mkpeer, Name, Connect, Setconfig, Command,
          SessionExit, SessionEnds, ReadBack, CarpEvent, StopRule, Scan, Failover, RetryOpens,
          machine
    <3> QED
      BY <3>1 DEF Kept
  <2> QED
    BY <2>2, <2>3, <2>4, <2>5, <2>6, <2>7
<1>2. IInv /\ [Next]_vars => [Allowed]_vars
  BY <1>1
<1> QED
  BY <1>2, Invariant, PTL DEF Spec, ForeignHooksKept

-----------------------------------------------------------------------------
(* The refinement: every step of the keeper and of the machine is a step of   *)
(* RoleGate, or changes nothing it sees. Only the last command of a session   *)
(* completes a graph, and its pass, alive or dead, last read this node master.*)
LEMMA GateInit == Init => Gate!Init
  BY DEF Init, Gate!Init, Role, Gate!Role

LEMMA GateStep == IInv /\ [Next]_vars => [Gate!Next]_(Gate!vars)
<1> SUFFICES ASSUME IInv, [Next]_vars PROVE [Gate!Next]_(Gate!vars)
  OBVIOUS
<1> DEFINE up == option # "off" /\ graph = "built"
<1>0. TypeOK /\ Running
  BY DEF IInv
<1>1. CASE Start \/ Stop \/ Tick
  <2>1. UNCHANGED <<carp, graph, option>>
    BY <1>1 DEF Start, Stop, Tick, machine, nodes
  <2>2. reading' \in {carp, "unknown", reading}
    BY <1>1 DEF Start, Stop, Tick, Boundary
  <2> QED
    BY <2>1, <2>2 DEF Gate!Next, Gate!Probe, Gate!vars
<1>2. CASE Setconfig
  <2>1. reading = "master" /\ UNCHANGED <<carp, option, reading>>
    BY <1>0, <1>2 DEF Setconfig, Command, Running, history
  <2>2. graph' \in {"built", graph}
    BY <1>2 DEF Setconfig, Command
  <2> QED
    BY <2>1, <2>2 DEF Gate!Next, Gate!Raise, Gate!vars
<1>3. CASE Mkpeer \/ Name \/ Connect
  <2>1. UNCHANGED <<carp, option, reading>>
    BY <1>3 DEF Mkpeer, Name, Connect, Command, history
  <2>2. CASE graph' = graph
    BY <2>1, <2>2 DEF Gate!vars
  <2>3. CASE graph' # graph
    <3>1. graph \in {"none", "unnamed", "named"} /\ graph' \in {"unnamed", "named", "wired"}
      BY <1>3, <2>3 DEF Mkpeer, Name, Connect, Command
    <3> QED
      BY <2>1, <3>1 DEF Gate!vars
  <2> QED
    BY <2>2, <2>3
<1>4. CASE ShutdownName \/ ShutdownId \/ GuardShutdown
  <2>1. UNCHANGED <<carp, option, reading>>
    BY <1>4 DEF ShutdownName, ShutdownId, GuardShutdown, history
  <2>2. graph' \in {"none", graph}
    BY <1>4 DEF ShutdownName, ShutdownId, GuardShutdown, Shutdown, nodes
  <2> QED
    BY <2>1, <2>2 DEF Gate!Next, Gate!Lower, Gate!vars
<1>5. CASE Failover
  <2>1. UNCHANGED <<graph, option, reading>> /\ carp' \in {"master", "backup"} \ {carp}
    BY <1>5 DEF Failover, Role, nodes, history
  <2> QED
    BY <2>1 DEF Gate!Next, Gate!Failover, Gate!Role
<1>6. CASE UNCHANGED <<carp, graph, option, reading>>
  BY <1>6 DEF Gate!vars
<1>7. Crash \/ NeedsTeardown \/ ReadName \/ ReadHooksOnly \/ ReadHooks \/ ReadHooksAgain
        \/ TeardownReadName \/ TeardownReadHooks \/ TeardownChecked \/ SessionEnds \/ ReadBack
        \/ SessionExit \/ CarpEvent \/ StopRule \/ Scan \/ Occupy \/ Vacate \/ RetryOpens
        \/ UNCHANGED vars
      => UNCHANGED <<carp, graph, option, reading>>
  BY DEF Crash, NeedsTeardown, ReadName, ReadHooksOnly, ReadHooks, ReadHooksAgain,
         TeardownReadName, TeardownReadHooks, TeardownChecked, SessionEnds, ReadBack,
         SessionExit, CarpEvent, StopRule, Scan, Occupy, Vacate, RetryOpens, vars, machine,
         nodes, history
<1> QED
  BY <1>1, <1>2, <1>3, <1>4, <1>5, <1>6, <1>7 DEF Next, PassStep, GuardStep, SessionStep

(* The rewrite is something only a confirmed master puts up: the safety half  *)
(* of ImplementsRoleGate.                                                     *)
THEOREM RewriteImplementsGate == Spec => Gate!Safe
  BY GateInit, GateStep, Invariant, PTL DEF Spec, Gate!Safe
=============================================================================
