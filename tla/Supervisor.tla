----------------------------- MODULE Supervisor -----------------------------
(***************************************************************************)
(* Who starts and stops the keepers of one id: rc.d/carpvipdhcp, one       *)
(* command at a time, and the daemon(8) supervisors it leaves behind       *)
(* (-r -R 5 -P), over the pid-file guard of the keepers themselves         *)
(* (Pidfile). A stop of one keeper goes by the two pid files; a stop of    *)
(* all goes by what pgrep finds, then removes the files. daemon(8), ps and *)
(* pgrep are modelled from how rc.d uses them.                             *)
(***************************************************************************)
EXTENDS Pidfile

CONSTANTS
    Sup,        \* the supervisors
    MaxFaults,  \* bound: keepers that die or fail by themselves
    MaxCommands \* bound: rc.d commands

ASSUME SupAssumption    == Nobody \notin Sup
ASSUME BoundsAssumption == MaxFaults \in Nat /\ MaxCommands \in Nat

VARIABLES
    sup,        \* "dead"; "delay": between two children (-R 5); "waiting" for
                \* its child to end; "termed": told to end, waits for it too
    child,      \* its child
    supfile,    \* whose supervisor pid file is at the path
    told,       \* keepers whose stop flag is set
    rc,         \* where the rc.d command stands
    commands,   \* commands so far
    found,      \* children the last pgrep listed and that were not signalled yet
    faults,
    stray       \* history: a stop of all keepers ended while one of them lived, or
                \* a supervisor that would start another

guard   == vars
daemon  == <<sup, child, supfile>>
command == <<rc, commands, found, stray>>
all     == <<guard, daemon, told, command, faults>>

SupTypeOK ==
    /\ TypeOK
    /\ sup \in [Sup -> {"dead", "delay", "waiting", "termed"}]
    /\ child \in [Sup -> Proc \cup {Nobody}]
    /\ supfile \in Sup \cup {Nobody}
    /\ told \subseteq Proc /\ found \subseteq Proc
    /\ rc \in {"idle", "signal", "wait", "kill", "rm",
               "child one", "wait one", "kill one", "rm one"}
    /\ faults \in 0 .. MaxFaults /\ commands \in 0 .. MaxCommands /\ stray \in BOOLEAN

SupInit ==
    /\ Init
    /\ sup = [s \in Sup |-> "dead"] /\ child = [s \in Sup |-> Nobody]
    /\ supfile = Nobody /\ told = {}
    /\ rc = "idle" /\ commands = 0 /\ found = {}
    /\ faults = 0 /\ stray = FALSE

-----------------------------------------------------------------------------
(* Helpers *)

Fault == faults < MaxFaults /\ faults' = faults + 1

Command == rc = "idle" /\ commands < MaxCommands /\ commands' = commands + 1

Lives(s) == s \in Sup /\ sup[s] # "dead"

Respawns(s) == sup[s] \in {"delay", "waiting"}

Keepers == {p \in Proc : Alive(p)}

MutSupListed == Lives(path)
(* What kill -0 on the pid in each file says. *)
SupListed    == Lives(supfile)
KeeperListed == Readable /\ Alive(path)

(* A supervisor in its restart delay ends at once, else once its child has. *)
AfterTerm(s) == IF sup[s] = "waiting" THEN "termed" ELSE IF sup[s] = "delay" THEN "dead" ELSE sup[s]

(* SIGTERM to a keeper: fatal until main() has set its handler, which takes   *)
(* effect when the loop looks at the flag; one that is leaving leaves.        *)
Term(p) ==
    \/ p \in Proc /\ pc[p] \in Acquiring \cup {"running"} /\ Crash(p) /\ UNCHANGED told
    \/ p \in Proc /\ pc[p] = "running" /\ told' = told \cup {p} /\ UNCHANGED guard
    \/ p \notin Keepers /\ UNCHANGED <<guard, told>>
    \/ p \in Proc /\ pc[p] \in {"exists", "unlink"} /\ UNCHANGED <<guard, told>>

(* SIGTERM to a supervisor, which passes it on to its child. *)
TermSup(s) ==
    /\ sup' = [sup EXCEPT ![s] = AfterTerm(s)]
    /\ IF sup[s] = "waiting" THEN Term(child[s]) ELSE UNCHANGED <<guard, told>>

Slay(p) == IF p \in Keepers THEN Crash(p) ELSE UNCHANGED guard

(* Who ps names as the parent of a living child. *)
Parents(p) == {s \in Sup : Alive(p) /\ child[s] = p /\ sup[s] \in {"waiting", "termed"}}

-----------------------------------------------------------------------------
(* daemon(8) *)

FreePids == {p \in Proc \ found : Free(p) /\ \A s \in Sup : child[s] # p}

(* The child of s is started: main(), up to acquire_pidfile. (One free pid is *)
(* as good as another.)                                                       *)
Launch(s) ==
    /\ FreePids # {}
    /\ sup' = [sup EXCEPT ![s] = "waiting"]
    /\ LET p == CHOOSE q \in FreePids : TRUE IN
         /\ Begin(p)
         /\ child' = [child EXCEPT ![s] = p] /\ told' = told \ {p}

(* The restart delay is over. *)
Spawn(s) ==
    /\ sup[s] = "delay" /\ Launch(s)
    /\ UNCHANGED <<supfile, command, faults>>

(* The child has ended: start another, or, told to, end too. *)
Reap(s) ==
    /\ sup[s] \in {"waiting", "termed"} /\ ~Alive(child[s])
    /\ sup' = [sup EXCEPT ![s] = IF sup[s] = "waiting" THEN "delay" ELSE "dead"]
    /\ child' = [child EXCEPT ![s] = Nobody]
    /\ supfile' = IF sup[s] = "termed" /\ supfile = s THEN Nobody ELSE supfile
    /\ UNCHANGED <<guard, told, command, faults>>

-----------------------------------------------------------------------------
(* The keepers *)

(* acquire_pidfile, one system call; those that fail for no reason of ours are *)
(* counted.                                                                   *)
Acquire(p) ==
    /\ Start(p)
    /\ IF ~Alive(p)' /\ pc[p] # "kill" /\ ~(pc[p] = "stale" /\ path = Nobody)
       THEN Fault ELSE UNCHANGED faults
    /\ UNCHANGED <<daemon, told, command>>

(* run() returns, told to or not (the other exits of main()). *)
Return(p) ==
    /\ Finish(p)
    /\ IF p \in told THEN UNCHANGED faults ELSE Fault
    /\ UNCHANGED <<daemon, told, command>>

Leave(p) ==
    /\ Exists(p) \/ Remove(p)
    /\ UNCHANGED <<daemon, told, command, faults>>

Die(p) ==
    /\ Crash(p) /\ Fault
    /\ UNCHANGED <<daemon, told, command>>

-----------------------------------------------------------------------------
(* rc.d *)

(* carpvipdhcp_start for one record: nothing, when the pid in the             *)
(* supervisor's file lives; else daemon(8), which holds the file from then on.*)
StartKeeper ==
    /\ Command /\ ~SupListed
    /\ \E s \in Sup : sup[s] = "dead"
    /\ LET s == CHOOSE t \in Sup : sup[t] = "dead" IN Launch(s) /\ supfile' = s
    /\ UNCHANGED <<rc, found, faults, stray>>

(* carpvipdhcp_stop without an id: _keeper_children. *)
StopAll ==
    /\ Command /\ rc' = "signal" /\ found' = Keepers
    /\ UNCHANGED <<guard, daemon, told, faults, stray>>

(* _signal_keepers -TERM: the parent of each child, then the child. *)
SignalOne ==
    /\ rc = "signal"
    /\ \E p \in found :
         /\ found' = found \ {p}
         /\ IF Parents(p) = {} THEN Term(p) /\ UNCHANGED sup
                               ELSE \E s \in Parents(p) : TermSup(s)
    /\ UNCHANGED <<child, supfile, rc, commands, faults, stray>>

Signalled ==
    /\ rc = "signal" /\ found = {} /\ rc' = "wait"
    /\ UNCHANGED <<guard, daemon, told, found, commands, faults, stray>>

(* A keeper in a blocking exchange outlasts the ten seconds of a stop; one    *)
(* that starts or leaves does not.                                            *)
TimedOut == \E p \in Keepers : pc[p] = "running"

Waited ==
    /\ rc = "wait"
    /\ \/ Keepers = {} /\ rc' = "rm" /\ UNCHANGED found
       \/ TimedOut /\ rc' = "kill" /\ found' = Keepers
    /\ UNCHANGED <<guard, daemon, told, commands, faults, stray>>

(* _signal_keepers -KILL *)
KillOne ==
    /\ rc = "kill"
    /\ \E p \in found :
         /\ found' = found \ {p}
         /\ sup' = [s \in Sup |-> IF s \in Parents(p) THEN "dead" ELSE sup[s]]
         /\ child' = [s \in Sup |-> IF s \in Parents(p) THEN Nobody ELSE child[s]]
         /\ Slay(p)
    /\ UNCHANGED <<supfile, told, rc, commands, faults, stray>>

Killed ==
    /\ rc = "kill" /\ found = {} /\ rc' = "rm"
    /\ UNCHANGED <<guard, daemon, told, found, commands, faults, stray>>

RemoveAllFiles ==
    /\ rc = "rm" /\ rc' = "idle"
    /\ Clear /\ supfile' = Nobody
    /\ stray' = (stray \/ Keepers # {} \/ \E s \in Sup : Respawns(s))
    /\ UNCHANGED <<sup, child, told, commands, found, faults>>

(* carpvipdhcp_stop_id: SIGTERM by the supervisor's file, then the child's. *)
StopOne ==
    /\ Command /\ rc' = "child one"
    /\ IF SupListed THEN TermSup(supfile) ELSE UNCHANGED <<sup, guard, told>>
    /\ UNCHANGED <<child, supfile, found, faults, stray>>

StopOneChild ==
    /\ rc = "child one" /\ rc' = "wait one"
    /\ IF KeeperListed THEN Term(path) ELSE UNCHANGED <<guard, told>>
    /\ UNCHANGED <<daemon, found, commands, faults, stray>>

WaitedOne ==
    /\ rc = "wait one" /\ rc' = "kill one"
    /\ (SupListed \/ KeeperListed) => TimedOut
    /\ UNCHANGED <<guard, daemon, told, found, commands, faults, stray>>

(* What the files still name after ten seconds is killed. *)
StopOneKill ==
    /\ rc = "kill one" /\ rc' = "rm one"
    /\ sup' = IF SupListed THEN [sup EXCEPT ![supfile] = "dead"] ELSE sup
    /\ child' = IF SupListed THEN [child EXCEPT ![supfile] = Nobody] ELSE child
    /\ IF KeeperListed THEN Crash(path) ELSE UNCHANGED guard
    /\ UNCHANGED <<supfile, told, found, commands, faults, stray>>

RemoveFiles ==
    /\ rc = "rm one" /\ rc' = "idle"
    /\ Clear /\ supfile' = Nobody
    /\ UNCHANGED <<sup, child, told, found, commands, faults, stray>>

-----------------------------------------------------------------------------
DaemonStep == \E s \in Sup : Spawn(s) \/ Reap(s)

KeeperStep == \E p \in Proc : Acquire(p) \/ (p \in told /\ Return(p)) \/ Leave(p)

CommandStep ==
    \/ SignalOne \/ Signalled \/ Waited \/ KillOne \/ Killed \/ RemoveAllFiles
    \/ StopOneChild \/ WaitedOne \/ StopOneKill \/ RemoveFiles

SupNext ==
    \/ DaemonStep \/ KeeperStep \/ CommandStep
    \/ StartKeeper \/ StopAll \/ StopOne
    \/ \E p \in Proc : Return(p) \/ Die(p)

SupSpec == SupInit /\ [][SupNext]_all

(* Supervisors and keepers run, and a command that began comes to its end. *)
SupFairSpec ==
    /\ SupSpec
    /\ \A s \in Sup : WF_all(Spawn(s)) /\ WF_all(Reap(s))
    /\ \A p \in Proc : WF_all(Acquire(p)) /\ WF_all(p \in told /\ Return(p)) /\ WF_all(Leave(p))
    /\ WF_all(CommandStep)

-----------------------------------------------------------------------------
(* Properties *)

(* A stop of one keeper retires it: once it removes the files, no keeper of    *)
(* the id and no supervisor they name lives, nor one that would start another, *)
(* whatever the keeper was doing and however often it had died                *)
(* (carpvipdhcp_stop_id, "the supervisor first, so it does not respawn the     *)
(* child").                                                                    *)
StopRetires ==
    rc = "rm one" /\ ~stray => Keepers = {} /\ ~SupListed /\ \A s \in Sup : ~Respawns(s)

(* A supervised keeper comes back: over a stale file, a failed start or a     *)
(* second keeper that holds the file, some keeper of the id is running again  *)
(* and again for as long as a supervisor is not told to end.                  *)
KeeperComesBack ==
    (\E s \in Sup : sup[s] \in {"delay", "waiting"})
        ~> (\E p \in Proc : pc[p] = "running") \/ (\A s \in Sup : sup[s] \in {"dead", "termed"})

(* "Stop every keeper daemon, including strays": a stop of all leaves no       *)
(* keeper behind, and no supervisor that would start another.                  *)
StopAllRetires == ~stray
=============================================================================
