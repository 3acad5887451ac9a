------------------------------- MODULE Pidfile -------------------------------
(***************************************************************************)
(* The single-instance guard of the keeper (lease_keeper.py,               *)
(* acquire_pidfile and the finally of main).  Every system call is a step  *)
(* of its own, so starts, exits and crashes of several keepers for one id  *)
(* interleave between them.  A pid is used again only once nobody          *)
(* remembers it.                                                           *)
(***************************************************************************)
EXTENDS Naturals

CONSTANTS
    Proc,       \* the processes started for one keeper id
    Nobody      \* no file at the path, or a file nobody can be read from

ASSUME NobodyAssumption == Nobody \notin Proc

VARIABLES
    pc,         \* where each process stands
    path,       \* whose file is at the path (the process that created it)
    filled,     \* its pid is in it
    old,        \* the pid each starter read
    disturbed   \* history: a start began while another was under way, or a stop
                \* removed the file while a keeper lived
vars == <<pc, path, filled, old, disturbed>>

Acquiring == {"create", "write", "read", "kill", "stale"}
Holding   == {"running", "exists", "unlink"}


TypeOK ==
    /\ pc \in [Proc -> Acquiring \cup Holding \cup {"dead"}]
    /\ path \in Proc \cup {Nobody} /\ filled \in BOOLEAN
    /\ old \in [Proc -> Proc \cup {Nobody}]
    /\ disturbed \in BOOLEAN

Init ==
    /\ pc = [p \in Proc |-> "dead"]
    /\ path = Nobody /\ filled = FALSE
    /\ old = [p \in Proc |-> Nobody]
    /\ disturbed = FALSE

Goto(p, l) == pc' = [pc EXCEPT ![p] = l]

MutAlive(q) == FALSE
Alive(q) == pc[q] # "dead"

Free(p) == ~Alive(p) /\ path # p /\ \A q \in Proc : old[q] # p

Begin(p) ==
    /\ Free(p)
    /\ disturbed' = (disturbed \/ \E q \in Proc : pc[q] \in Acquiring)
    /\ Goto(p, "create")
    /\ UNCHANGED <<path, filled, old>>

(* open(O_CREAT | O_EXCL); any other OSError exits 5. *)
Create(p) ==
    /\ pc[p] = "create"
    /\ \/ path = Nobody /\ path' = p /\ filled' = FALSE /\ Goto(p, "write")
       \/ path # Nobody /\ Goto(p, "read") /\ UNCHANGED <<path, filled>>
       \/ Goto(p, "dead") /\ UNCHANGED <<path, filled>>
    /\ UNCHANGED <<old, disturbed>>

(* The pid goes into the file this process created, at the path or not; a    *)
(* failed write exits and leaves the file empty.                             *)
Write(p) ==
    /\ pc[p] = "write"
    /\ \/ Goto(p, "running") /\ filled' = (filled \/ path = p)
       \/ Goto(p, "dead") /\ UNCHANGED filled
    /\ UNCHANGED <<path, old, disturbed>>

Readable == path # Nobody /\ filled

(* A file that is gone by now, or still empty, reads as no pid at all.  (A   *)
(* pid that is there is readable: keepers and their files are root's.)       *)
Read(p) ==
    /\ pc[p] = "read"
    /\ old' = [old EXCEPT ![p] = IF Readable THEN path ELSE Nobody]
    /\ Goto(p, IF Readable THEN "kill" ELSE "stale")
    /\ UNCHANGED <<path, filled, disturbed>>

(* kill(old, 0): a live process, of whatever owner, ends this start. *)
Kill(p) ==
    /\ pc[p] = "kill"
    /\ Goto(p, IF Alive(old[p]) THEN "dead" ELSE "stale")
    /\ old' = [old EXCEPT ![p] = Nobody]
    /\ UNCHANGED <<path, filled, disturbed>>

MutUnlinkFailed == "create"
UnlinkFailed == "dead"

(* unlink() takes whatever file is there by now; if it cannot, exit 5. *)
Unlink(p) ==
    /\ pc[p] = "stale"
    /\ \/ path # Nobody /\ path' = Nobody /\ Goto(p, "create")
       \/ Goto(p, UnlinkFailed) /\ UNCHANGED path
    /\ UNCHANGED <<filled, old, disturbed>>

(* The keeper returns: the finally looks for the file, then removes it. *)
Finish(p) ==
    /\ pc[p] = "running"
    /\ Goto(p, "exists")
    /\ UNCHANGED <<path, filled, old, disturbed>>

Exists(p) ==
    /\ pc[p] = "exists"
    /\ Goto(p, IF path = Nobody THEN "dead" ELSE "unlink")
    /\ UNCHANGED <<path, filled, old, disturbed>>

Remove(p) ==
    /\ pc[p] = "unlink"
    /\ path' \in {Nobody, path}
    /\ Goto(p, "dead")
    /\ UNCHANGED <<filled, old, disturbed>>

(* SIGKILL, or SIGTERM before its handler is set: the file stays. *)
Crash(p) ==
    /\ Alive(p)
    /\ Goto(p, "dead")
    /\ old' = [old EXCEPT ![p] = Nobody]
    /\ UNCHANGED <<path, filled, disturbed>>

(* The rm -f that ends a stop of rc.d. *)
Clear ==
    /\ path' = Nobody /\ UNCHANGED filled
    /\ disturbed' = (disturbed \/ \E p \in Proc : Alive(p))
    /\ UNCHANGED <<pc, old>>

Start(p) == Create(p) \/ Write(p) \/ Read(p) \/ Kill(p) \/ Unlink(p)

Next ==
    \/ Clear
    \/ \E p \in Proc :
         Begin(p) \/ Start(p) \/ Finish(p) \/ Exists(p) \/ Remove(p) \/ Crash(p)

Spec == Init /\ [][Next]_vars

-----------------------------------------------------------------------------
(* Properties *)

(* The guard is sound as long as starts do not overlap (daemon(8) runs one    *)
(* at a time) and no stop overlooks a keeper: whatever crashed, failed or was *)
(* left behind before, a keeper that got past acquire_pidfile owns the file   *)
(* at the path until it removes it itself, so no later start can take it for  *)
(* stale.                                                                     *)
HolderKeepsItsFile ==
    ~disturbed => \A p \in Proc : pc[p] \in Holding => path = p /\ filled

(* "two near-simultaneous starts can't both win". *)
SingleInstance ==
    \A p, q \in Proc : pc[p] \in Holding /\ pc[q] \in Holding => p = q
=============================================================================
