----------------------------- MODULE VmacEgress -----------------------------
(***************************************************************************)
(* The source-MAC rewrite (leasekeeper/vmac.py, VmacEgress) and its shell   *)
(* guards (vmac.sh: the CARP syshook and the rc.d stop).                   *)
(*                                                                         *)
(* The rewrite is a netgraph patch node on the WAN interface, built by one  *)
(* ngctl session of four commands and seen only through ngctl, one command *)
(* at a time. Between two commands of the keeper the guards may remove the *)
(* node, other programs may take the hooks or the name, the role may move, *)
(* any command may fail or time out, and the keeper may die; a session it  *)
(* had started then runs on.                                               *)
(***************************************************************************)
EXTENDS Naturals

CONSTANTS
    Strikes,    \* DEFAULT_UNREADABLE_ROLE_STRIKES
    Tries,      \* tries of carpvipdhcp_vmac_remove
    MaxFaults   \* bound: failures and interferences in one behaviour

ASSUME StrikesAssumption == Strikes \in Nat \ {0}
ASSUME TriesAssumption   == Tries \in Nat \ {0}
ASSUME FaultsAssumption  == MaxFaults \in Nat

VARIABLES
    \* the machine
    carp,       \* this node's CARP role for the vhid
    graph,      \* how far our patch node is built
    others,     \* hooks of the interface another program's nodes hold
    alike,      \* the hook an unnamed patch node of another program holds, if any
    squatter,   \* a node of another type has our node's name
    dhclient,   \* OPNsense's DHCP client runs on the interface
    session,    \* the next command of the ngctl session, or how it exited
    faults,     \* failures so far
    \* the keeper
    option,     \* its configuration: "on", "off", or "refused" (_static_refusal)
    pc,         \* where its pass stands; "down" when it does not run
    seen,       \* what _present() found
    cont,       \* what the teardown in flight is for
    kid,        \* the node IDs the teardown read and has to shut: whose they are by now
    strikes,    \* _UnreadableRole._strikes
    loaded,     \* _Runtime.modules_loaded
    failed,     \* _Runtime.failed
    retry,      \* the retry gate would answer ready
    state,      \* _Runtime.state, the heartbeat token the last pass left; "fresh"
                \* before the first, and while one runs (the heartbeat comes after it)
    \* the shell guards
    shell,      \* where carpvipdhcp_vmac_remove stands
    tried,      \* its tries so far
    hid,        \* the node IDs its scan read and it has to shut: whose they are by now
    pending,    \* a CARP event that left this node backup awaits the syshook
    \* history
    reading,    \* what the keeper's last CARP probe answered
    blind,      \* passes in a row with an unreadable role
    clean       \* no guard touched the graph since the last pass began

nodes   == <<graph, others, alike, squatter>>
machine == <<carp, nodes, dhclient, session>>
pass    == <<pc, seen, cont, kid>>
memory  == <<strikes, loaded, failed, retry, state>>
guard   == <<shell, tried, hid, pending>>
history == <<reading, blind, clean>>
vars    == <<machine, faults, option, pass, memory, guard, history>>

Role     == {"master", "backup"}
Reading  == Role \cup {"unknown"}
Hooks    == {"upper", "lower"}
Named    == {"named", "wired", "built"}
Presence == {"absent", "built", "half", "foreign"}
Ours     == {"built", "half"}
Ids      == {"ours", "alike", "other", "gone"}

TypeOK ==
    /\ carp \in Role
    /\ graph \in {"none", "unnamed"} \cup Named
    /\ others \subseteq Hooks /\ alike \subseteq Hooks
    /\ {squatter, dhclient, loaded, retry, pending, clean} \subseteq BOOLEAN
    /\ session \in {"none", "mkpeer", "name", "connect", "setconfig", "ok", "error"}
    /\ faults \in 0 .. MaxFaults
    /\ option \in {"on", "off", "refused"}
    /\ pc \in {"down", "idle", "present", "hooks", "ether", "again", "needs", "tpresent",
               "tname", "tether", "tid", "tcheck", "build", "readback"}
    /\ seen \in Presence
    /\ cont \in {"none", "start", "stop", "unknown", "other", "native", "ngctl", "unnamed", "half", "failed"}
    /\ kid \subseteq Ids /\ hid \subseteq Ids
    /\ strikes \in 0 .. Strikes /\ blind \in 0 .. Strikes
    /\ failed \in {"none", "failed", "teardown"}
    /\ state \in {"fresh", "native", "built", "unknown", "teardown", "failed", "other"}
    /\ shell \in {"idle", "scan", "shut"} /\ tried \in 0 .. Tries
    /\ reading \in Reading

(* A process starts on whatever its predecessor left on the interface. *)
Init ==
    /\ carp \in Role /\ option \in {"on", "off", "refused"}
    /\ graph \in {"none", "unnamed"} \cup Named
    /\ others = {} /\ alike = {} /\ squatter = FALSE /\ dhclient = FALSE
    /\ session = "none" /\ faults = 0
    /\ pc = "down" /\ seen = "absent" /\ cont = "none" /\ kid = {}
    /\ strikes = 0 /\ loaded = FALSE /\ failed = "none" /\ retry = FALSE /\ state = "fresh"
    /\ shell = "idle" /\ tried = 0 /\ hid = {} /\ pending = FALSE
    /\ reading = "unknown" /\ blind = 0 /\ clean = FALSE

-----------------------------------------------------------------------------
(* Helpers *)

Fault == faults < MaxFaults /\ faults' = faults + 1

(* A command that answers, or fails in a way that says nothing. *)
Answers(ok) == IF ok THEN UNCHANGED faults ELSE Fault

CountTo(n) == IF n < Strikes THEN n + 1 ELSE Strikes

MutStrikeOut(n) == n > Strikes
StrikeOut(n) == n >= Strikes

(* _present() when ngctl could be asked: a patch node of ours is "built" only *)
(* wired as wanted and with the wanted config, and never for a refused        *)
(* configuration; an unnamed node is invisible to it.                         *)
Found ==
    IF squatter THEN "foreign"
    ELSE IF graph \notin Named THEN "absent"
    ELSE IF graph = "built" /\ option # "refused" THEN "built" ELSE "half"

(* Whose nodes `ngctl show <ether>:` lists on the interface's hooks. *)
OnHooks ==
    (IF graph # "none" THEN {"ours"} ELSE {}) \cup
    (IF alike # {} THEN {"alike"} ELSE {}) \cup
    (IF others # {} THEN {"other"} ELSE {})

(* _ours_on: the patch nodes there that have our name or none. An unnamed one *)
(* of another program cannot be told from an interrupted build.               *)
OursOn == OnHooks \ {"other"}

MutTarget(id) ==
    IF graph # "none" THEN "ours" ELSE IF alike # {} THEN "alike"
    ELSE IF others # {} THEN "other" ELSE "gone"
(* What `shutdown [id]:` reaches: IDs are never reused, so the node that was *)
(* read or nothing.                                                          *)
Target(id) == id

(* What `shutdown vmac_<e>:` reaches: whoever has the name at that moment. *)
NameTarget == IF graph \in Named THEN "ours" ELSE IF squatter THEN "squatter" ELSE "gone"

(* A node leaves, and the hooks it held are free. *)
Shutdown(target) ==
    /\ graph' = IF target = "ours" THEN "none" ELSE graph
    /\ others' = IF target = "other" THEN {} ELSE others
    /\ alike' = IF target = "alike" THEN {} ELSE alike
    /\ squatter' = (squatter /\ target # "squatter")

(* IDs read before their nodes left. *)
Left == {id \in {"ours", "alike"} : IF id = "ours" THEN graph' = "none" ELSE alike' = {}}
Outdated(ids) == (ids \ Left) \cup (IF ids \cap Left = {} THEN {} ELSE {"gone"})

(* The pass is over: _set_state(token). *)
Rest(token) == pc' = "idle" /\ cont' = "none" /\ seen' = "absent" /\ state' = token

Teardown(why) == pc' = "tpresent" /\ cont' = why

MutMayBuild == failed = "none"
(* The retry gate holds the next attempt of a failed build. *)
MayBuild == failed = "none" \/ retry

(* _converge with nothing of ours there. *)
TryBuild ==
    IF MayBuild
    THEN /\ pc' = "build" /\ session' = "mkpeer"
         /\ retry' = (retry /\ failed = "none")
         /\ cont' = "none" /\ seen' = "absent" /\ UNCHANGED state
    ELSE Rest(failed) /\ UNCHANGED <<session, retry>>

-----------------------------------------------------------------------------
(* Process boundaries *)

MutKeepsAtBoundary(r) == FALSE
(* _keeps_at_boundary *)
KeepsAtBoundary(r) == option # "refused" /\ ~dhclient /\ r = "master"

(* teardown_unless_master: keep, or look for a node of ours and remove it. *)
Boundary(why) ==
    \E r \in {carp, "unknown"} :
        /\ Answers(r = carp)
        /\ reading' = r
        /\ IF KeepsAtBoundary(r)
           THEN pc' = (IF why = "start" THEN "idle" ELSE "down") /\ cont' = "none"
           ELSE pc' = "needs" /\ cont' = why

(* main(): a new process. Off, it still removes a leftover (leftover=True)  *)
(* without a probe. A session the last process left running is over by then *)
(* (daemon(8) waits before it respawns).                                    *)
Start ==
    /\ pc = "down" /\ session = "none"
    /\ strikes' = 0 /\ loaded' = FALSE /\ failed' = "none" /\ retry' = FALSE
    /\ state' = "fresh" /\ seen' = "absent" /\ kid' = {} /\ blind' = 0
    /\ IF option = "off"
       THEN pc' = "needs" /\ cont' = "start" /\ UNCHANGED <<reading, faults>>
       ELSE Boundary("start")
    /\ UNCHANGED <<machine, option, guard, clean>>

(* SIGTERM: Keeper.run leaves its loop. *)
Stop ==
    /\ pc = "idle"
    /\ IF option = "off"
       THEN pc' = "down" /\ cont' = "none" /\ UNCHANGED <<reading, faults>>
       ELSE Boundary("stop")
    /\ UNCHANGED <<machine, option, seen, kid, memory, guard, blind, clean>>

(* The process dies; a session it waits for runs on. *)
Crash ==
    /\ pc # "down" /\ Fault
    /\ pc' = "down" /\ cont' = "none" /\ seen' = "absent" /\ kid' = {}
    /\ UNCHANGED <<machine, option, memory, guard, history>>

(* _needs_teardown: the node by its name, or by the interface's hooks. One    *)
(* failed read may hide it (an unnamed node from the hooks, a wired one only  *)
(* from both).                                                                *)
NeedsTeardown ==
    /\ pc = "needs"
    /\ \E ok \in BOOLEAN :
         /\ Answers(ok)
         /\ IF ok /\ OursOn # {}
            THEN Teardown(cont)
            ELSE /\ pc' = IF cont = "stop" THEN "down" ELSE "idle"
                 /\ cont' = "none"
    /\ UNCHANGED <<machine, option, seen, kid, memory, guard, history>>

-----------------------------------------------------------------------------
(* A pass of reconcile() *)

(* reconcile(is_master) up to its first command: the raw probe of _role_tick *)
(* and of the loop head. An unreadable role counts a strike and acts only at *)
(* the limit (_on_unknown_role).                                             *)
Tick ==
    /\ pc = "idle" /\ option # "off"
    /\ \E r \in {carp, "unknown"} :
         /\ Answers(r = carp)
         /\ reading' = r
         /\ clean' = TRUE
         /\ IF r = "unknown"
            THEN /\ strikes' = CountTo(strikes) /\ blind' = CountTo(blind)
                 /\ state' = "unknown"
                 /\ IF StrikeOut(strikes') THEN pc' = "needs" /\ cont' = "unknown"
                                           ELSE UNCHANGED <<pc, cont>>
            ELSE /\ strikes' = 0 /\ blind' = 0
                 /\ pc' = "present" /\ state' = "fresh"
                 /\ UNCHANGED cont
    /\ UNCHANGED <<machine, option, seen, kid, loaded, failed, retry, guard>>

(* presence = self._present(). An unreadable name ends the pass, but a backup *)
(* still looks for a node of ours on the hooks.                               *)
ReadName ==
    /\ pc = "present"
    /\ \E ok \in BOOLEAN :
         /\ Answers(ok)
         /\ IF ok THEN pc' = "ether" /\ seen' = Found /\ UNCHANGED <<cont, state>>
            ELSE IF reading = "backup" THEN pc' = "hooks" /\ UNCHANGED <<seen, cont, state>>
            ELSE Rest("other")
    /\ UNCHANGED <<machine, option, kid, strikes, loaded, failed, retry, guard, history>>

ReadHooksOnly ==
    /\ pc = "hooks"
    /\ \E ok \in BOOLEAN :
         /\ Answers(ok)
         /\ IF ok /\ OursOn # {} THEN Teardown("ngctl") /\ UNCHANGED <<seen, state>>
                                    ELSE Rest("other")
    /\ UNCHANGED <<machine, option, kid, strikes, loaded, failed, retry, guard, history>>

(* _hooks_refusal: hooks that cannot be read are not free; an unnamed patch  *)
(* node does not refuse, it is removed or the build fails on it.             *)
HooksRefuse(ok) == ~ok \/ others # {}

(* What is in the way of a rewrite, once the modules were loaded or not. *)
Refused(ok) ==
    \/ option = "refused" \/ ~loaded'
    \/ seen # "built" /\ HooksRefuse(ok)
    \/ dhclient

MutDecideAnyRole(ok) ==
    IF seen = "foreign" THEN Rest("other") /\ UNCHANGED <<session, retry>>
    ELSE IF Refused(ok) THEN Rest("other") /\ UNCHANGED <<session, retry>>
    ELSE IF seen = "built" THEN Rest("built") /\ UNCHANGED <<session, retry>>
    ELSE TryBuild
(* The rest of reconcile(): a foreign node is never touched; a backup and a  *)
(* refused configuration stand down; a master confirms, rebuilds or builds.  *)
Decide(ok) ==
    IF seen = "foreign" THEN Rest("other") /\ UNCHANGED <<session, retry>>
    ELSE IF reading # "master" \/ Refused(ok)
    THEN LET token == IF Refused(ok) THEN "other" ELSE "native" IN
         /\ IF seen \in Ours THEN Teardown(token) /\ UNCHANGED <<seen, state>> ELSE Rest(token)
         /\ UNCHANGED <<session, retry>>
    ELSE IF seen = "built" THEN Rest("built") /\ UNCHANGED <<session, retry>>
    ELSE IF seen = "half"
         THEN Teardown("half") /\ UNCHANGED <<seen, state, session, retry>>
         ELSE TryBuild

MutUnnamedIn(ok) == FALSE
(* _unnamed_in: what an interrupted build left on the hooks, or what looks    *)
(* like it, when they can be read.                                            *)
UnnamedIn(ok) == ok /\ (graph = "unnamed" \/ alike # {})

(* _load_modules, _read_ether, and the decision. An unnamed node on the hooks *)
(* is removed before anything else is decided.                                *)
ReadHooks ==
    /\ pc = "ether"
    /\ \E ok, kld \in BOOLEAN :
         /\ Answers(ok /\ kld)
         /\ (ok \/ kld) /\ (loaded \/ option = "refused" => kld)
         /\ loaded' = (loaded \/ (kld /\ option # "refused"))
         /\ IF UnnamedIn(ok)
            THEN Teardown("unnamed") /\ UNCHANGED <<seen, state, session, retry>>
            ELSE Decide(ok)
    /\ UNCHANGED <<carp, nodes, dhclient, option, kid, strikes,
                   failed, guard, history>>

(* The second _read_ether, after that removal. *)
ReadHooksAgain ==
    /\ pc = "again"
    /\ UNCHANGED <<carp, nodes, dhclient, option, kid, strikes,
                   loaded, failed, guard, history>>
    /\ \E ok \in BOOLEAN : Answers(ok) /\ Decide(ok)

-----------------------------------------------------------------------------
(* _teardown: by name, then by the IDs the hooks show, then look again *)

TeardownReadName ==
    /\ pc = "tpresent"
    /\ \E ok \in BOOLEAN :
         /\ Answers(ok)
         /\ pc' = IF ok /\ Found \in Ours THEN "tname" ELSE "tether"
    /\ UNCHANGED <<machine, option, seen, cont, kid, memory, guard, history>>

(* A shutdown fails, or reaches what its address names by now. *)
ShutdownName ==
    /\ pc = "tname" /\ pc' = "tether"
    /\ \/ Shutdown(NameTarget) /\ UNCHANGED faults
       \/ Fault /\ UNCHANGED nodes
    /\ hid' = Outdated(hid)
    /\ UNCHANGED <<carp, dhclient, session, option, seen, cont, kid, memory, shell,
                   tried, pending, history>>

(* for hook in self._ours_on(ether): the IDs this one read shows, one by one. *)
TeardownReadHooks ==
    /\ pc = "tether"
    /\ \E ok \in BOOLEAN :
         /\ Answers(ok)
         /\ kid' = IF ok THEN OursOn ELSE {}
         /\ pc' = IF kid' = {} THEN "tcheck" ELSE "tid"
    /\ UNCHANGED <<machine, option, seen, cont, memory, guard, history>>

ShutdownId ==
    /\ pc = "tid"
    /\ \E id \in kid :
         /\ \/ Shutdown(Target(id)) /\ UNCHANGED faults
            \/ Fault /\ UNCHANGED nodes
         /\ kid' = Outdated(kid \ {id})
    /\ pc' = IF kid' = {} THEN "tcheck" ELSE "tid"
    /\ hid' = Outdated(hid)
    /\ UNCHANGED <<carp, dhclient, session, option, seen, cont, memory, shell, tried,
                   pending, history>>

MutConfirmed(ok) == ok => graph = "none" /\ alike = {}
(* Only hooks that were read and hold nothing of ours, and a name that was    *)
(* read and holds nothing of ours, are confirmation. (The two reads are one   *)
(* step: of our node, only a removal could happen in between.)                *)
Confirmed(ok) == ok /\ graph = "none" /\ alike = {}

(* What each caller of _teardown does with its answer. *)
TeardownChecked ==
    /\ pc = "tcheck"
    /\ \E ok \in BOOLEAN :
         /\ Answers(ok)
         /\ CASE cont \in {"start", "stop"} ->
                   /\ pc' = IF cont = "stop" THEN "down" ELSE "idle"
                   /\ cont' = "none" /\ seen' = "absent"
                   /\ UNCHANGED <<state, failed, session, retry>>
              [] cont = "unknown" -> Rest("unknown") /\ UNCHANGED <<failed, session, retry>>
              [] cont = "ngctl" -> Rest("other") /\ UNCHANGED <<failed, session, retry>>
              [] cont = "failed" ->
                   /\ failed' = IF Confirmed(ok) THEN "failed" ELSE "teardown"
                   /\ Rest(failed') /\ UNCHANGED <<session, retry>>
              [] cont \in {"native", "other"} ->
                   /\ Rest(IF Confirmed(ok) THEN cont ELSE "teardown")
                   /\ UNCHANGED <<failed, session, retry>>
              [] cont = "unnamed" ->
                   /\ IF Confirmed(ok)
                      THEN /\ pc' = "again" /\ cont' = "none"
                           /\ seen' = IF seen = "foreign" THEN seen ELSE "absent"
                           /\ UNCHANGED state
                      ELSE Rest("teardown")
                   /\ UNCHANGED <<failed, session, retry>>
              [] cont = "half" ->
                   /\ IF Confirmed(ok) THEN TryBuild
                      ELSE Rest("teardown") /\ UNCHANGED <<session, retry>>
                   /\ UNCHANGED failed
    /\ UNCHANGED <<carp, nodes, dhclient, option, kid, strikes,
                   loaded, guard, history>>

-----------------------------------------------------------------------------
(* _build: one ngctl session, four commands *)

(* A command of the session does its part, or the session ends in an error. *)
Command(name, may, to, next) ==
    /\ session = name
    /\ IF may THEN graph' = to /\ session' = next
              ELSE session' = "error" /\ UNCHANGED graph
    /\ UNCHANGED <<carp, others, alike, squatter, dhclient, faults, option, pass, memory,
                   guard, history>>

Free(hook) == hook \notin others \cup alike

Mkpeer    == Command("mkpeer", graph = "none" /\ Free("upper"), "unnamed", "name")
Name      == Command("name", graph = "unnamed" /\ ~squatter, "named", "connect")
Connect   == Command("connect", graph = "named" /\ Free("lower"), "wired", "setconfig")
Setconfig == Command("setconfig", graph = "wired", "built", "ok")

SessionStep == Mkpeer \/ Name \/ Connect \/ Setconfig

(* A session nobody waits for ends. *)
SessionExit ==
    /\ pc = "down" /\ session \in {"ok", "error"}
    /\ session' = "none"
    /\ UNCHANGED <<carp, nodes, dhclient, faults, option, pass, memory, guard, history>>

(* _fail: tear down at once, and close the retry gate. *)
Fail == Teardown("failed") /\ retry' = FALSE /\ UNCHANGED <<seen, state, failed>>

(* The session exits and the keeper reads back, or run() kills it at its     *)
(* timeout, however far it got.                                              *)
SessionEnds ==
    /\ pc = "build"
    /\ session' = "none"
    /\ \/ /\ session = "ok" /\ pc' = "readback"
          /\ UNCHANGED <<faults, seen, cont, state, failed, retry>>
       \/ session = "error" /\ UNCHANGED faults /\ Fail
       \/ session # "error" /\ Fault /\ Fail
    /\ UNCHANGED <<carp, nodes, dhclient, option, kid, strikes,
                   loaded, guard, history>>

ReadBack ==
    /\ pc = "readback"
    /\ \E ok \in BOOLEAN :
         /\ Answers(ok)
         /\ IF ok /\ Found = "built"
            THEN Rest("built") /\ failed' = "none" /\ UNCHANGED retry
            ELSE Fail
    /\ UNCHANGED <<machine, option, kid, strikes, loaded, guard, history>>

-----------------------------------------------------------------------------
(* The shell guards (vmac.sh) *)

(* The syshook, for an event that left this node backup; kldstat may fail. *)
CarpEvent ==
    /\ shell = "idle" /\ pending
    /\ pending' = FALSE /\ tried' = 0
    /\ \/ shell' = "scan" /\ UNCHANGED faults
       \/ Fault /\ UNCHANGED shell
    /\ UNCHANGED <<machine, option, pass, memory, hid, history>>

(* rc.d stop, after the keeper: only a confirmed master with the option on   *)
(* keeps its node.                                                           *)
StopRule ==
    /\ shell = "idle" /\ pc = "down"
    /\ \/ (option = "off" \/ carp # "master" \/ dhclient) /\ UNCHANGED faults
       \/ Fault
    /\ shell' = "scan" /\ tried' = 0
    /\ UNCHANGED <<machine, option, pass, memory, hid, pending, history>>

GivesUp == tried = Tries

(* _carpvipdhcp_vmac_scan: name and hooks from scratch, by node ID. *)
Scan ==
    /\ shell = "scan"
    /\ \E ok \in BOOLEAN :
         /\ Answers(ok)
         /\ IF Confirmed(ok) \/ GivesUp
            THEN shell' = "idle" /\ hid' = {} /\ tried' = 0
            ELSE shell' = "shut" /\ hid' = (IF ok THEN OursOn ELSE {}) /\ UNCHANGED tried
    /\ UNCHANGED <<machine, option, pass, memory, pending, history>>

(* for _vm_id in ${_vm_ids}: nothing to shut when the scan could not read. *)
GuardShutdown ==
    /\ shell = "shut"
    /\ IF hid = {}
       THEN UNCHANGED <<nodes, faults, kid, hid>>
       ELSE \E id \in hid :
              /\ \/ Shutdown(Target(id)) /\ UNCHANGED faults
                 \/ Fault /\ UNCHANGED nodes
              /\ hid' = Outdated(hid \ {id}) /\ kid' = Outdated(kid)
    /\ IF hid' = {} THEN shell' = "scan" /\ tried' = tried + 1 ELSE UNCHANGED <<shell, tried>>
    /\ clean' = (clean /\ graph' = graph)
    /\ UNCHANGED <<carp, dhclient, session, option, pc, seen, cont, memory, pending,
                   reading, blind>>

-----------------------------------------------------------------------------
(* Everyone else *)

Failover ==
    /\ carp' \in Role \ {carp}
    /\ pending' = (pending \/ carp' = "backup")
    /\ UNCHANGED <<nodes, dhclient, session, faults, option, pass, memory, shell, tried, hid,
                   history>>

(* A hook of the interface nobody holds. *)
Unheld == {h \in Hooks : Free(h) /\ (graph = "none" \/ (h = "lower" /\ graph \in {"unnamed", "named"}))}

(* Another program takes a free hook (NetFlow capture), puts a patch node     *)
(* without a name there, takes the free name, or OPNsense starts its DHCP      *)
(* client on the interface; any of them may go again.                         *)
Occupy ==
    /\ Fault
    /\ \/ \E h \in Unheld :
            others' = others \cup {h} /\ UNCHANGED <<alike, squatter, dhclient>>
       \/ \E h \in Unheld :
            alike = {} /\ alike' = {h} /\ UNCHANGED <<others, squatter, dhclient>>
       \/ ~squatter /\ graph \notin Named /\ squatter' = TRUE
            /\ UNCHANGED <<others, alike, dhclient>>
       \/ ~dhclient /\ dhclient' = TRUE /\ UNCHANGED <<others, alike, squatter>>
    /\ UNCHANGED <<carp, graph, session, option, pass, memory, guard, history>>

Vacate ==
    /\ \/ \E h \in others : others' = others \ {h} /\ UNCHANGED <<alike, squatter, dhclient>>
       \/ alike # {} /\ alike' = {} /\ UNCHANGED <<others, squatter, dhclient>>
       \/ squatter /\ squatter' = FALSE /\ UNCHANGED <<others, alike, dhclient>>
       \/ dhclient /\ dhclient' = FALSE /\ UNCHANGED <<others, alike, squatter>>
    /\ UNCHANGED <<carp, graph, session, faults, option, pc, seen, cont, memory, shell,
                   tried, pending, history>>
    /\ kid' = Outdated(kid) /\ hid' = Outdated(hid)

(* BUILD_RETRY_INTERVAL has passed. *)
RetryOpens ==
    /\ failed # "none" /\ ~retry /\ pc # "down"
    /\ retry' = TRUE
    /\ UNCHANGED <<machine, faults, option, pass, strikes, loaded, failed, state, guard, history>>

-----------------------------------------------------------------------------
PassStep ==
    \/ NeedsTeardown \/ ReadName \/ ReadHooksOnly \/ ReadHooks \/ ReadHooksAgain
    \/ TeardownReadName \/ ShutdownName \/ TeardownReadHooks \/ ShutdownId
    \/ TeardownChecked \/ SessionEnds \/ ReadBack

GuardStep == Scan \/ GuardShutdown

Next ==
    \/ Start \/ Stop \/ Crash \/ Tick \/ PassStep
    \/ SessionStep \/ SessionExit
    \/ CarpEvent \/ StopRule \/ GuardStep
    \/ Failover \/ Occupy \/ Vacate \/ RetryOpens

Spec == Init /\ [][Next]_vars

(* The process is respawned, a started pass, session and guard run to their  *)
(* end, the retry interval passes, and the main loop ticks again and again.  *)
FairSpec ==
    /\ Spec
    /\ WF_vars(Start) /\ WF_vars(PassStep) /\ WF_vars(SessionStep) /\ WF_vars(SessionExit)
    /\ WF_vars(CarpEvent) /\ WF_vars(GuardStep) /\ WF_vars(RetryOpens) /\ SF_vars(Tick)

-----------------------------------------------------------------------------
(* Properties *)

(* The rewrite as a thing only a master carries: built by a pass that read    *)
(* the node master, and gone from a node that stays backup.                   *)
Gate == INSTANCE RoleGate WITH Holder <- "master", up <- (option # "off" /\ graph = "built")
ImplementsRoleGate == Gate!Spec

(* The heartbeat token never says native, or that a failed build was cleaned  *)
(* up, while a node of ours is on the interface: neither a failed read nor a  *)
(* shutdown that failed reads as gone (_stand_down: "never native while it    *)
(* may still rewrite"); nor does it say built of a graph that is not whole.   *)
TokenHonest ==
    pc = "idle" =>
        /\ state \in {"native", "failed"} => graph = "none"
        /\ state = "built" /\ clean => graph = "built"

(* Fail closed: Strikes unreadable roles in a row, and no other failure, take  *)
(* a rewrite down whatever the role last read (_on_unknown_role).             *)
FailsClosed ==
    pc = "idle" /\ option # "off" /\ blind = Strikes /\ faults = Strikes => graph = "none"

(* No window of own-MAC frames on a master: the keeper removes a working       *)
(* rewrite only for a role or a configuration that rules it out, after Strikes *)
(* unreadable roles, or because its own build could not be confirmed -- never *)
(* for a restart, a shorter glitch, or as a half-built one.                    *)
Earned ==
    CASE cont \in {"start", "stop"} -> option = "refused" \/ reading # "master" \/ faults > 0
      [] cont = "native"            -> reading = "backup"
      [] cont = "ngctl"             -> reading = "backup"
      [] cont = "other"             -> option = "refused" \/ faults > 0
      [] cont = "unknown"           -> blind = Strikes
      [] cont = "failed"            -> faults > 0
      [] OTHER                      -> FALSE
NoNeedlessTeardown ==
    [][(ShutdownName \/ ShutdownId) /\ graph = "built" /\ graph' = "none" /\ option # "off"
       => Earned]_vars

(* A node of another program leaves the interface only of itself, or as an    *)
(* unnamed patch node that this very teardown read on the hooks, which        *)
(* _ours_on takes for an interrupted build -- never because it took, since    *)
(* the read, the hook of a node that left (_teardown and vmac.sh address IDs, *)
(* not hook paths).                                                           *)
ForeignHooksKept ==
    [][/\ others \subseteq others' \/ Vacate
       /\ \/ alike \subseteq alike' \/ Vacate
          \/ ShutdownId /\ "alike" \in kid
          \/ GuardShutdown /\ "alike" \in hid]_vars

(* "Never a node of another type under our name" (_teardown): a node that     *)
(* took the name keeps it until it leaves of itself.                          *)
NameTakerKept == [][squatter => squatter' \/ Vacate]_vars

(* A keeper that reads itself master over a working rewrite only confirms it,  *)
(* the first tick of a restarted one included (reconcile's docstring).         *)
RestartConfirms ==
    [][pc = "ether" /\ reading = "master" /\ seen = "built" /\ ~dhclient => pc' # "tpresent"]_vars

(* No half-built node stays: it returns every frame the interface sends, so   *)
(* whoever left it there (a session cut off, a dead keeper), it goes or is     *)
(* completed, whatever role, refusal or foreign name stands in the way.        *)
HalfBuiltRemoved ==
    option # "off" /\ graph \in {"unnamed", "named", "wired"} ~> graph \in {"none", "built"}

(* A node that stays master, with nothing in the way, ends with the rewrite.  *)
MasterEndsRewriting ==
    <>[](carp = "master" /\ option = "on" /\ others = {} /\ ~squatter /\ ~dhclient)
        => <>[](graph = "built")
=============================================================================
