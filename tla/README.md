# Verification of os-carp-vip-dhcp

`os-carp-vip-dhcp` is an OPNsense plugin. Two firewalls share one CARP virtual
address whose IPv4 lease comes from an ISP's DHCP server. On each node one
*keeper* process per VIP speaks DHCP from the shared virtual MAC while the node
is CARP master, keeps quiet while it is backup, owns the default route on the
master, and rewrites the VIP when the ISP moves the lease. This directory holds
TLA+ modules of that system, the TLC configurations that check them, and
machine-checked proofs. Paths below are relative to
`src/net/os-carp-vip-dhcp/src/`; *scripts* is
`opnsense/scripts/OPNsense/CarpVipDhcp`, *lk* is *scripts*`/leasekeeper`.

## 1. The system

| component | state | operations | talks to |
|---|---|---|---|
| Main loop, `lk/keeper.py` | position in the loop, timers, back-off | `_maintain_step`, `_hold_lease`, `_renew_bound_lease`, `_acquire_step`, `run` | all below; signals; CARP through `ifconfig` |
| Role watcher, `lk/carp.py` | `was_master`, renew latch, lease-less epoch | `poll`, `take_renew`, `demote_ok` | hooks into loop and route |
| Signal flags, `lk/signals.py` | stop, nudge, recheck | handlers set, loop takes | syshook (SIGUSR2), rc.d (SIGTERM) |
| Default route, `lk/route.py` | strikes, resync gate | `reconcile`, `withdraw_unless_master` | kernel FIB through `route(8)`, FRR indirectly |
| Backup egress, `lk/route.py` | next hops it installed | `reconcile_backup_egress`, `withdraw_backup_egress` | FIB through `netstat`, `route` |
| vMAC egress, `lk/vmac.py` | strikes, retry gate, token | `reconcile`, `teardown_unless_master` | netgraph through `ngctl` |
| DHCP client, `lk/dhcpclient.py` | binding, xid, one reply slot | INIT-REBOOT, DORA, RENEW/REBIND, RELEASE, `timing` | capture thread, policy hook |
| Capture, `lk/capture_bpf.py` | a generation: descriptor, thread, wake pipe | start, stop, read loop, writes | the wire; DHCP client and policy from its own thread |
| Follow policy, `lk/policy.py` | target, attempt, throttle, candidate, observation | `on_changed_address`, `check_network`, `watchdog` | configd, without waiting |
| `follow_update.php` | none; config.xml, lock file | one run per request | config, VIP, keeper.conf, rc.d |
| ARP nudge, `lk/policy.py` | last nudge, last reply | nudges | capture |
| Heartbeat, `lk/heartbeat.py`, `etc/rc.carp_service_status.d` | one file | write; freshness test | CARP demotion |
| Pid file, `scripts/lease_keeper.py` | one file | `acquire_pidfile`, removal | other keepers of the id |
| Supervision, `etc/rc.d/carpvipdhcp`, daemon(8) | supervisor pid files | start, stop, per-id, respawn | keepers |
| CARP and boot syshooks | none | signal keepers; start | keepers |
| keeper.conf, templates, `keeperconf.*` | one file | render, parse | rc.d, keeper |
| Models, API, views, widget, status, alias mirror | configuration | forms, reports | configd |

What is hard here. A role is *read*, by a command that may fail, and acted on
later. A FIB is read and commanded in two steps that other programs come between.
Everything level-triggered must survive the crash and the respawn of the
process that did the work. The follow replaces the very process that asked for
it, through a script it never hears from again. Signals are lost and coalesce.
The main loop blocks for seconds in an exchange while the role moves. Two
threads share the reply slot and the observation without a lock.

What makes each part correct:

* **Default route** — the master with a usable lease ends owning the default and
  being redistributed; the backup ends without; no glitch, and no restart of a
  master, takes it down; the unreadable role fails closed.
* **Main loop** — a backup is silent; a promotion is acted on at once; the
  demote token is earned; a lease is renewed and expired on time.
* **Pid file** — one keeper per id.
* **Follow** — never two keepers of a VIP, never none; lease, configuration,
  interface and keeper end in agreement.
* **Lease clock** — timers in order and within the lease; a lease not held
  beyond its end.
* **DHCP client** — a binding is what an ACK granted, and to this exchange.
* **Backup egress** — only routes of its own are changed or deleted, and none
  is left that loops the master.
* **vMAC egress** — no half-built graph, no rewrite on a backup.
* **Heartbeat, hook and CARP** — a node is demoted for cause only, and the address
  comes to a node that can hold it.
* **Capture** — its death is noticed by the next exchange and costs no more than
  the one it fell into.

## 2. What is modelled

| module | models | proofs |
|---|---|---|
| `DefaultRoute` | `lk/route.py` `DefaultRouteReconciler`, its callers in `keeper.py`, `withdraw_unless_master` | `DefaultRoute_proofs` |
| `BackupEgress` | `lk/route.py` `BackupEgressReconciler` | `BackupEgress_proofs` |
| `VmacEgress` | `lk/vmac.py` `VmacEgress`, the guards of `vmac.sh` | `VmacEgress_proofs` |
| `RoleGate` | what the two above promise: the abstract specification both implement | in theirs |
| `DhcpClient` | `lk/dhcpclient.py` exchanges, `keeper.py` reply dispatch, `policy.py` answers to a changed address | `Lease_proofs` |
| `HeldLease` | what `DhcpClient` promises of the lease it holds: abstract | `Lease_proofs` |
| `LeaseClock` | `lk/dhcpclient.py` `timing`, `renew`; hold and REBIND loops of `keeper.py` | `Lease_proofs` |
| `Keeper` | `lk/keeper.py` main loop, `carp.py`, `signals.py` | `Keeper_proofs` |
| `FailStop` | what a keeper promises of the demote token (`carp.py` `demote_ok`, heartbeat): abstract, implemented by `Keeper` and by each node of `CarpPair` | `Keeper_proofs`, `CarpPair_proofs` |
| `Follow` | `lk/policy.py` `FollowPolicy`, `follow_update.php`, per-id stop and start of rc.d | `Follow_proofs` |
| `Pidfile` | `lease_keeper.py` `acquire_pidfile` and the `finally` of `main` | `Supervisor_proofs` |
| `Supervisor` | `etc/rc.d/carpvipdhcp` and daemon(8), composed with `Pidfile` | `Supervisor_proofs` |
| `CarpPair` | two coarse keepers, their heartbeat files, `etc/rc.carp_service_status.d`, CARP | `CarpPair_proofs` |

Each has an `MC` module that gives its sets values (`RoleGate`,
`FailStop`, `HeldLease` and `Pidfile` are checked through the modules that implement
and extend them). The definitions
named `Mut…` are plausible bugs of the definition each stands before; they are
not part of any specification and show that the property they break depends on it.

**DefaultRoute.** A pass of `reconcile` is up to three actions: the decision
(`Reconcile`, inside `RoleTick`, `LoopHead`, or a process boundary), the read of
the FIB (`ReadFib`), and one command (`Install`, `Withdraw`, `Reassert`). The
CARP role, other programs (`Interfere`), a silent desynchronisation of the
redistributing router (`Flap`) and the death of the process (`Crash`) come in
between. `fib`, `synced` and `carp` are the machine; `wasMaster`, `bound`,
`router`, `strikes`, `requested`, `gateOpen` are the attributes of the Python
objects; `goal` is the local variable of the pass. `reading`, `clean` and
`blind` only remember: `blind` counts the passes in a row that were given no
role, whatever the code's own `strikes` do (an unusable lease resets those; it
does not reset `blind`). `route get` that fails reads as "no default"; `add`
applies to an empty table only, `change` and `delete` to an occupied one.

**BackupEgress.** A pass decides its direction from the role (`Tick`, or a
boundary), reads the whole table (`ReadTable`, `FindRoutes`), issues one command
per prefix (`Write`, `Delete`) and reads again (`Confirm`, `CheckGone`). A route
is a next hop and who put it there: `us`, `before` (a dead predecessor) or
`other`; the code sees the hop only. `installed` is the set of next hops this process
confirmed, `retired` and `calm` only remember. The gateway is configured
(`explicit`) or derived from the interface's network, which may be renumbered.
Other programs install and remove routes on the same prefixes at any point.

**VmacEgress.** `graph` says how far our patch node is: `none`, `unnamed`,
`named`, `wired`, `built`. A build is one ngctl session, an actor of its own: it
runs on when the keeper stops waiting or dies, and a respawned keeper starts
after it (`Start`; daemon(8) waits 5 s). Another program's nodes on the hooks are
`others`, of another type, or `alike`, an unnamed patch node, which `_ours_on`
(`OursOn`) takes for an interrupted build of ours, as the code does. Nodes are
addressed as the code does, by name in one place (`NameTarget`) and by ID, which a
node never shares with a later one: `kid` and `hid` are the IDs a teardown read and
still has to shut, and an ID whose node left is `gone` (`Outdated`). The syshook's and rc.d's guard (`CarpEvent`, `StopRule`, `Scan`,
`GuardShutdown`) is the third actor. `Occupy` and `Vacate` are the environment:
NetFlow, another node, a squatter on the name, dhclient. `state` is the heartbeat
token, `fresh` before a first pass and while one runs.

**RoleGate.** The role, the last reading and one boolean: it goes up only on a
confirmed reading of the role that may carry it, may come down at any time, and
does come down on a node that stays in the other role. `VmacEgress` maps it to
"the rewrite is built" for a master, `BackupEgress` to "a route of ours is in the
table" for a backup. The second half (`Live`) holds for `BackupEgress` with a
configured gateway only: a derived one that cannot be derived leaves a
predecessor's routes, as `docs/backup-egress.md` says.

**DhcpClient.** The main loop sends, waits and reads (`Send`, `Read`, `Timeout`)
for INIT-REBOOT, DORA, RENEW and REBIND; the capture thread matches the
transaction id (`Sniff`) and stores the reply later (`Feed`), so the exchange may
have moved on between the two. `wire` holds the replies on their way; replies are
lost, delayed, duplicated and come from a modem (a temporary lease) or another
server. `held` is the binding's address, `target` the policy's, `offer` and the
slot as in the code. `granted` and `escaped` only remember: the latter marks an
exception that leaves `_request_offer` with the offer parked, which the two
invariants exclude by name. One assumption on time: the pause after a failed
acquire (seconds) outlasts the capture thread's way from the xid test to the slot
(`Pause`); without it a lease adopted in the pause could be renewed by an ACK of
the DORA before.

**HeldLease.** The VIP, the address held, and what the server has acknowledged: a
lease is won for the VIP; VIP and lease move together, to an acknowledged address,
and only under a policy that follows (`Follow`); a lease may be lost at any time.
`DhcpClient` maps `held` to its binding, except while a DORA has an offer parked
there, and `broken` to `escaped`, after which nothing is promised.

**LeaseClock.** `age` is real time since the ACK, `elapsed` what
`_renew_bound_lease` counts. Each wait, jittered as `util._jittered`, and each
attempt (3 s, or 4 when it restarts the capture) is one action. `elapsed` is a float
in the code: here a number of ticks of 1/`Grain` second, and a jittered step takes
every tick in its ±25 %. `age` moves by whole seconds, the selects of a sleep and
the receive timeouts, so a wait of half a second may take one second or none, and
counts as half a one. `short` counts the waits begun within `REBIND_POLL_STEP` of
T2, `scale` is 4 to that power; both only remember.

**Keeper.** An action is the code between two points where the loop looks at the
world. `pc` names those points: the head, the sleeps (backup tick, chunk of the
wait for T1, REBIND step, unbound back-off), the exchanges, the tick after a
sleep. A promotion hook may raise (`PollRaises`: latch armed, role not
committed, exception to `run`). SIGUSR2 may be lost or coalesced (`Failover`).
The capture thread's observation is adopted inside sleeps (`Observe`,
`CheckObserved`). `leaseless` and `owed` only remember.

**FailStop.** What a keeper tells the other side of the fail-over: the role it
knows, whether it holds a lease, the grace as a stage (none, running, over), and
whether its file says *demote*. Only a heartbeat (`Beat`) raises the token, by
what the keeper knows as it writes, and only at the end of a lease-less grace of a
master; an order that is due is written (`Live`). `Keeper` maps its epoch `since`
to the stage (`Stage`); `CarpPair` maps each node (`Token(n)`), whose grace is a
stage already and whose file says *demote* or something else. So the coarse keeper
of `CarpPair` and the loop of `Keeper` keep the same promise. In a follower a lease
may come in the middle of a grace, between two heartbeats, from an observed reply
(`adopts`).

**Follow.** `keeper` is indexed by the id daemon(8) supervises it under, which is
the address its record had when it was started; `target` moves on. A run of
`follow_update.php` goes through load, lock, write, apply, render, stop, start,
and may fail (`Apply`, `Render`), be killed (`Killed`) or be cut off by a
reboot. `snap` is the configuration the run loaded before it took the lock.

**Pidfile.** `create`, `write`, `read`, `kill`, `unlink` and the `exists` and
`unlink` of the exit are one action each. A file is named by the process that
created it; `filled` says whether its pid is in it yet. A pid comes back once
no file and no starter remembers it. `disturbed` only remembers: it is the
condition under which the guard is sound.

**Supervisor.** Extends `Pidfile` with the supervisors of one id (`dead`, in the
restart `delay`, `waiting` for the child, `termed`) and one rc.d command at a
time. A stop of one keeper goes by the two pid files (`StopOne`, `StopOneChild`,
`WaitedOne`, `StopOneKill`, `RemoveFiles`); a stop of all by what pgrep lists
(`StopAll`, `SignalOne`, `Waited`, `KillOne`, `RemoveAllFiles`). SIGTERM kills a
keeper that has not set its handler yet, otherwise sets the stop flag. Ten
seconds are not counted: the wait may end early only while a keeper runs, which
a blocking exchange can prolong. daemon(8), ps and pgrep are modelled from how
rc.d uses them: `-P` file, `-r`, `-R 5`, SIGTERM passed to the child.

**CarpPair.** Two nodes of one VIP under the mode that fails over on loss. Of each
keeper it keeps what the peer can tell apart: where it stands (`down`, at the
`head`, `passive`, `hold` from the bind to T2, `acquiring`, `unbound`), the role it
last read, whether it is bound, and the grace as `none`, `running` or `over`;
`Keeper` has the loop itself. `file` is what the hook makes of the heartbeat's
last line, so an old file counts as `none` (`Age`). `Hook` publishes its answer
at any later time, `Elect` moves the role by the answers, `Notice` and `Head` find
out. A preferred node whose line is dead is eligible again as soon as it is a
backup, and takes the role back for another grace: that is why
`HealthyNodeServes` says *again and again* and not *for good*.

## 3. What the runs show

Passing runs:

| run | configuration | shows |
|---|---|---|
| `route` | enforce, 3 strikes, 2 usable gateways and a rejected one, 4 faults | `Converged` an undisturbed pass ends with the default it wanted; `FailsClosed` three passes in a row that were given no role leave none, whatever leases came and went; `NoNeedlessWithdraw`; `InstallsOwnLease`; `BackupEndsClean`, `MasterEndsAdvertised` under fairness |
| `backup_egress` | the split and one listed prefix, either form, configured or derived gateway, 3 faults | `ForeignKept` what others routed stays; `BackupEndsRouted`, and `ImplementsRoleGate` the refinement, under fairness |
| `vmac` | 2 strikes, 2 guard tries, 2 faults, option on, off or refused | `TokenHonest`, `FailsClosed`, `NoNeedlessTeardown`; `ForeignHooksKept` a teardown shuts down no node of another program but an unnamed patch node it read itself, never one that took a hook since; `HalfBuiltRemoved`, `MasterEndsRewriting`, `ImplementsRoleGate` under fairness |
| `dhcp_client` | 2 addresses, 2 attempts of each exchange, 2 faults, follow and enforce | `LeaseGranted` what is held was granted; `ImplementsHeldLease` lease and VIP move together; `AcksOwnExchange`; `SettlesOnLease` under fairness |
| `lease_clock` | options 51, 58, 59 absent, tiny, usual and beyond the lease; half-second ticks | `TimersOrdered`; `OverrunBounded` a silent server's lease is held beyond T2 by at most twice the REBIND window, 21 s, and 13 s for each wait near T2, of which there are few |
| `keeper` | 2 chunks, 2 REBIND steps, grace 1, following and enforcing, 2 faults | `BackupSilence`, `PromotionNotSleptOut`, `DemotionEarned`; `PromotionRenews`, `LeaselessMasterDemotes`, `ImplementsFailStop` under fairness |
| `follow` | 3 addresses, 2 gateways, 2 runs in flight, 2 moves, 2 faults, one re-drive | `AtMostOneKeeper`, `KeeperSurvives`, `NetworkOfAddress`; `Settles` under fairness |
| `supervision` | 3 pids, 2 supervisors, 2 faults, 5 commands | `HolderKeepsItsFile` while no start overlaps another; `StopRetires` a stop of one leaves nothing that comes back; `KeeperComesBack` under fairness |
| `pair` | node a preferred, each line good, foreign or dead, 1 fault | `DemotedForCause`; `HealthyNodeServes`, `SettlesOnPreferred`, `StoppedNodeYields`, `ImplementsFailStop` under fairness |

Violated runs, each a place where the code departs from what its own text says:

| run | what happens | what the source says |
|---|---|---|
| `backup_stranded` | the read that confirms an install fails (`route.py:904`), so with a derived gateway no next hop is owned; promoted then, the node takes its own /1 pair for foreign and keeps it | `docs/backup-egress.md:149` "the running reconciler removes our `/1` on the master as soon as the node holds the role" |
| `follow_renumber` | a second renumbering overwrites the attempt of a first that failed; the watchdog re-drives the last step only, and the keeper is never replaced | `policy.py:459` "it reconverges … eventually replaces us" |
| `supervision_stray` | a stop of all that comes in a supervisor's restart delay finds no child, hence no supervisor; it removes the pid file, and the keeper comes back | `rc.d/carpvipdhcp:126` "Stop every keeper daemon, including strays" |

Further configurations of the same modules, each with one property the code
violates as well; they are kept for whoever changes that code:

| configuration | property | what happens |
|---|---|---|
| `DefaultRoute_unreadable` | `UnreadableNeverInstalls` | the loop head hands the last known role for an unreadable one to `reconcile` (`keeper.py:814`), which installs and resets its strikes, so that over loop heads an unreadable role is not failed closed (`FailsClosed` is about passes given no role); `route.py:490` "do not install when unsure" |
| `Keeper_rebind` | `BackupNeverTransmits` | a demotion committed inside the REBIND sleep and a failed probe after it: the known backup transmits; `keeper.py:876` |
| `Keeper_release` | `BackupNeverReleases` | a stop releases whatever the role; `keeper.py:781` |
| `Keeper_expiry` | `ExpiresOnTime` | a stop in RENEW or REBIND falls through to `expire()` before T2; `keeper.py:874` |
| `LeaseClock_overrun` | `HeldWithinLease` | the REBIND loop counts its sleeps but not its attempts, so with a silent server the lease is held past its end; `keeper.py:905` "so elapsed tracks it" |
| `VmacEgress_squatter` | `NameTakerKept` | the guard removes our node after the keeper read its name, another program takes the name, and `shutdown vmac_<e>:` removes that node; `vmac.py:602` "never a node of another type under our name" |
| `VmacEgress_restart` | `RestartConfirms` | the kldload of a restarted keeper's first tick fails (`vmac.py:353`) and a working rewrite is torn down on a master |
| `DhcpClient_phantom` | `OfferNeverHeld` | a capture restart that raises (`dhcpclient.py:358`) leaves the parked offer in the binding; `dhcpclient.py:314` |
| `Supervisor_overlap` | `SingleInstance` | between create and write the pid file reads as stale, and two starts that read the same dead pid each unlink, the second the first's new file; `lease_keeper.py:145` "can't both win" |

### Bounds

* `route`: three strikes as in the code. Four faults, because every failed
  probe, read and command is one: three blind passes and one failure on top.
  Two usable gateways so that one can replace the other.
* `backup_egress`: two prefixes that go in together and one of the listed kind,
  so that a command may fail between two; three faults are a failed command, its
  failed confirmation and an interference or a crash.
* `vmac`: two strikes instead of three (the count is only compared with its
  limit), two tries of the guard; two faults are a session cut off and a failed
  read, a crash or an intruder on top. Every command in between is free. An
  unnamed patch node of another program holds one hook.
* `dhcp_client`: two addresses make a renumbering; of two attempts the first is
  not the last; two faults let a lost reply meet a late or foreign one, or a
  renumbering.
* `lease_clock`: a lease below the 60 s floor, none, and one above it; T1 and T2
  below the floor of T1, in the lease, and beyond it. With ticks of half a second
  the gap to T2 shrinks from ten seconds to nothing in up to three short waits, the
  last two of at most two and a half seconds and of half a one. `LeaseClock_overrun`
  uses a 120 s lease, whose REBIND window is already long enough.
* `keeper`: with two chunks and two REBIND steps there is a first, a last and one
  in between; grace 1 is the least with a tick inside it. Two faults allow a
  lost probe together with a raising hook, a crash or a second lost probe.
* `follow`: two moves let a follow overtake a follow and lead back to an
  address already left; two slots are two runs that meet at the lock. A fault is
  a failed launch, apply or render, a death or a reboot. One re-drive stands for
  three (`NET_REDRIVE_LIMIT`): the count is only compared with its limit.
* `supervision`: two supervisors, since a stray one meets one more started beside
  it; three pids, one for a stale file. A fault is a keeper's death or a system
  call that fails; five commands are start, stop, start, and two to follow a
  failure.
* `pair`: the lines start in every combination, so the one fault comes on top of a
  dead or foreign line. (With two faults the properties hold as well, in about
  five minutes.)

Symmetry is not used: every passing run but `lease_clock` checks liveness.

### Fairness

* `route`: the process is respawned (daemon(8) `-r`), a pass that began ends, the
  60 s gate opens (weak); the main loop comes back to its head (strong: between
  two heads there are finitely many bounded waits, T1 and T2 among them).
* `backup_egress`, `vmac`: respawn, and the steps of a pass, of an ngctl session,
  of a guard that began (weak: each command has a timeout, each guard its tries);
  the retry gate opens (weak); the main loop ticks (strong, as for `route`).
  carp(4) runs the syshook after a transition (weak).
* `dhcp_client`: the main thread goes on (each wait has its deadline), the capture
  thread handles what it read, the server answers what reaches it, the throttle
  ends (all weak).
* `keeper`: the thread runs on (weak over the whole loop); a sleep ends and the
  clock advances (strong, as SIGUSR2 and answers keep interrupting them).
* `follow`: a run goes on (weak per run), the keeper's timers and renewals come
  round, the supervisor respawns, the throttle ends (weak). No fairness for
  deaths, failures or the ISP's moves.
* `supervision`: supervisors, starting and leaving keepers go on, a keeper told to
  stop returns, a command that began comes to its end (weak). None for starts,
  stops, deaths or a keeper that returns untold.
* `pair`: the keepers, their timers and the hook go on (weak); CARP moves a role
  (strong: adverts take seconds, the hook runs once a minute and on events); a spell
  as master is long enough for the keeper to notice it and to ask once (strong: the
  syshook signals it at once, and the other node's grace is 45 s). None for a change
  of line, a stop, a start or a death.

`Follow` has three paces, chosen once in `Init`. In `calm` behaviours, the ISP
moves the lease only when its last move has settled and failures may happen
anywhere. In `flawless` ones it moves at any time and nothing fails. In `hasty`
ones both happen; `follow_renumber` shows what breaks then. In the last two a
run takes less than `MIN_FOLLOW_INTERVAL`; in `calm` no such assumption is made.

`CHECK_DEADLOCK FALSE` is in the configurations where the system may really
stop: `Supervisor` (its commands are used up and all is stopped), `Follow` (a
node that agrees with the ISP has nothing left to do), `DhcpClient` (the keeper
was stopped).

## 4. What is proved

For every value of the constants, from the named assumptions of each module:

* `DefaultRoute_proofs`: `TypeCorrect`, `ConvergedAlways`, `FailsClosedAlways`,
  `NoFlap`, `InstallsOnlyItsLease`. The invariant says what each point of a pass
  knows: the command chosen fits the FIB as long as nobody interfered (`Known`),
  the strikes are no more than the passes without a role, no fewer while a
  default is wanted, and at the limit none is (`Struck`), a pass without a goal may
  take down and one with a goal holds the lease it wants (`Entitled`).
  `Converged` alone is not inductive: it says nothing between a read and the
  command chosen from it.
* `VmacEgress_proofs`: `TypeCorrect`, `TokenHonestAlways`, `FailsClosedAlways`,
  `NoNeedlessTeardownAlways`, `ForeignHooksKeptAlways`, `RewriteImplementsGate`.
  `TokenHonest` speaks of the idle keeper only; the invariant adds what each
  command of a pass or teardown already established (`Looked`), which session may
  still be running (`Running`, `Staged`), how the strikes relate to the faults
  (`Counted`), why a teardown was begun (`Caused`), what its end may claim
  (`Closing`), and that a hook has one holder and no ID of a node of another type
  was ever read (`Parted`).
* `BackupEgress_proofs`: `TypeCorrect`, `ForeignKeptAlways`,
  `RoutesImplementGate`, `ConfiguredGatewayClears`. A hop that was given up is not
  owned again before it is pruned; the pass that writes has acted on a reading of
  backup. `ConfiguredGatewayClears` bounds the finding of `backup_stranded`: with a
  configured gateway `SessionCleared` does hold, because all routes of the process
  then lead to a hop it always owns, and an undisturbed removal chooses each of
  them and deletes each (`Clearing`).
* `Keeper_proofs`: `TypeCorrect`, `BackupSilenceAlways`, `DemotionEarnedAlways`,
  `PromotionNotSleptOutAlways`. The invariant lists the points of the loop at
  which an exchange can be owed and ties the debt to the latch there (`Owing`),
  and says that an epoch is never older than the lease-less mastership (`Earned`).
  `KeeperKeepsFailStop` then maps every step of the loop to a step of `FailStop`,
  and two consequences are drawn from `FailStop` alone: `GraceIsLeaselessAlways` and
  `OrderedWhenOverAlways`.
* `CarpPair_proofs`, for any set of nodes: `TypeCorrect`, `DemotedForCauseAlways`,
  `NodesKeepFailStop`. `DemotedForCause` compares the hook's verdict on a file with
  the keeper's history; it is not inductive, because the keeper that wrote the file
  moves on before the next one. `Honest` says what is still true of each file: a
  lease is held in few places and openly (`HoldsOpenly`), a file that fails its
  node belongs to a keeper that has not spoken yet or says what is so
  (`FailsWithCause`), and a process that ended remembers nothing (`Forgotten`).
  `NodesKeepFailStop` is the refinement node by node: a step of one node leaves
  the others' part alone (`Only`).
* `Lease_proofs`, of `DhcpClient`: `TypeCorrect`, `LeaseGrantedAlways`,
  `LeaseIsTargetAlways`, `AcksOwnExchangeAlways`, `ImplementsHeldLeaseAlways`. The invariant says of all replies
  on their way, in hand or in the slot that their ACKs were granted, of an ACK
  without an address to an INIT-REBOOT that it confirms the target (`Honest`, which
  needs `Untried`: nothing older than the INIT-REBOOT can be such an ACK), and where
  the reply in hand may be of an exchange that is over: only under a DISCOVER or in
  the pause after it, before the OFFER that the next REQUEST needs (`InOrder`).
  The refinement needs the same invariant: that the address an exchange binds was
  acknowledged is a fact about the replies, not about the step.
* `Supervisor_proofs`: of the guard alone `HolderKeepsItsFileAlways`, for any set
  of processes. While nothing disturbed it, at most one process is starting
  (`OneStarter`), who holds or is about to owns the file (`Owner`), and a starter
  about to unlink has no holder to harm (`Judged`). Then `ComposedGuard`, every
  step of rc.d, daemon(8) and the keepers is a step of `Pidfile` or leaves it
  alone; from both `HolderKeepsItsFileInService`, for any number of supervisors
  and commands, and `OneInstanceInService`, which bounds `Supervisor_overlap`: two
  keepers hold the file together only after starts overlapped or a stop removed it
  under one. Then `SupTypeCorrect` and `StopRetiresAlways`: until a stop of all
  overlooks one, the file names the only supervisor that serves and every keeper is
  its child (`Sole`; one told to end may still wait to be reaped); from the first
  signal of a stop on nothing respawns, and whoever outlasts the wait owns the file
  it is killed by (`Retiring`, which needs the guard's own invariant). Last
  `StopAllRetiresUndisturbed`, which bounds the finding `supervision_stray`: a stop
  of all does retire everyone as long as no keeper died or failed by itself. Then
  the child of a supervisor that would respawn is at work and untold (`Tended`), a
  start that nobody disturbs never meets its own file nor loses the one it judges
  (`Unread`, on `Judged`), and the sweep signals each of them before it waits
  (`Swept`).
* `Follow_proofs`: `TypeCorrect` for all paces; `AtMostOneKeeperAlways`,
  `KeeperSurvivesAlways`, `NetworkOfAddressAlways` for the calm and the flawless
  one, whatever the number of addresses, runs in flight, moves, failures and
  re-drives. None of the three is inductive: they say nothing of a run that has not
  come to its stop yet. `Calm` adds that there is one address left and one leased,
  and that every run, the configuration, keeper.conf and the keepers only move from
  the one to the other (`Between`, `Towards`, `Follower`); `Succeeded` that a
  stopped keeper has a successor or a run standing before its start; `Flawless`
  that either a keeper agrees with the configuration and nothing runs (`Settled`)
  or one run does, at each of its points with the configuration it needs
  (`UnderWay`).
* `Lease_proofs`, of `LeaseClock`: `ClockTypeCorrect`, `TimersOrderedAlways`,
  `OverrunBoundedAlways`, for any options and default. The lemma `Timers` is the
  arithmetic of `timing()`. The invariant bounds how far `age` may be ahead of
  `elapsed` (`Behind`): every full step of the REBIND loop (at least 7.5 s counted)
  pays for the second it is rounded up by and for the attempt after it, 12 s at
  most, at 3 to 1 (`Lag`). A short one pays for nothing, but divides the gap to T2
  by four, so that in ticks of any grain there are at most log4(120 `Grain`) of
  them.

Each safety property of the passing runs is proved. The types are proved of
every detailed module, so that the runs do not check them. Of the refinements, `HeldLease` is proved as it is
stated; `RewriteImplementsGate`, `RoutesImplementGate`, `KeeperKeepsFailStop` and
`NodesKeepFailStop` prove the safety part (`Safe`) of `RoleGate` and `FailStop`,
whose fairness (`Live`) only the runs check, as they do every liveness property:
fairness is out of the prover's reach. The violated properties need no proof. In
the hasty pace nothing but `TypeCorrect` is claimed of `Follow`. No module declares
a recursive operator.

## 5. What is left out, and why

* `DefaultRoute`: log throttling; the liveness probe (nothing installs one). The
  configuration checks `enforce`: `off` returns at once and `observe` only logs.
* `BackupEgress`: `off` and `observe`; the trap of an own address as gateway (an
  unresolved gateway is a fault); the probe of an unbound keeper; a prefix list
  changed, or the feature switched off, over a crash (limits the docs name).
* `VmacEgress`: two keepers on one interface, the loss of the ether node, the
  statistics. A confirmation's two reads are one step. Shutdown by name reaches a
  squatter that took the name after the read; the module has it, and no run
  forbids it (`VmacEgress_squatter`).
* `DhcpClient`: the RELEASE frames, the no-carrier hold, the configured request
  address, process restarts (a new one is `Init`), the backup's silence
  (`Keeper`). Foreign server ids and classes are one refusal; one server.
* `LeaseClock`: demotion and stop during the wait, and the time the commands of
  the upkeep between two waits take (a probe, a route, an `ngctl`), which would add
  to every wait what they last.
* `Keeper`: a keeper with a configuration error (it sends no DHCP), one without a
  vhid (no role), ARP nudges, the link-return fast path; where an address moves
  to is `Follow`'s. Exchanges are one step.
* `Follow`: the prefix length (it travels with the VIP; the gateway is the part
  with a life of its own), ACKs the policy refuses, enforce mode, the alias
  mirror and the newwanip hooks (both after the last step that matters here, and
  not fatal). The configuration always names a gateway. One VIP.
* `Pidfile`: an unrelated process that has a dead keeper's pid.
* `Supervisor`: more than one id, `status`, two commands at once (daemon(8)'s lock
  on its `-P` file decides those), the vMAC rule at the end of a stop
  (`VmacEgress`).
* `CarpPair`: both nodes master at once, or neither (the role moves in one step);
  links and pfsync as causes of demotion; several keepers on a node; files of a
  pre-1.14 daemon, for which the hook has a fallback.
* Packet capture: its death, restart and failing restart are in `DhcpClient`;
  descriptors and ioctls are not modelled. Nor are generations of readers: the
  keeper starts one only when the last has ended, and stops one only on its exit,
  so two never overlap.
* Codec, wire formats, `ifconfig` and `netstat` parsing, `keeperconf`: pure
  functions over payloads.
* The models, API, views, widget, status page, alias mirror, install and build
  scripts: no concurrent or persistent state of their own beyond forms and
  reports.

## 6. Plan

What is left, in this order:

1. Proof: the complement of `follow_renumber`, as `ConfiguredGatewayClears` and
   `StopAllRetiresUndisturbed` are of the other findings: that an attempt which no
   second move overwrote leaves no keeper at the address moved from.
2. `FollowUpdate` with two VIPs: configuration loaded before the lock.
