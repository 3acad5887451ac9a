----------------------------- MODULE DhcpClient -----------------------------
(***************************************************************************)
(* The DHCP exchanges of one keeper (leasekeeper/dhcpclient.py) with the   *)
(* two threads that make them: the main loop sends and waits, the capture  *)
(* thread matches replies on the transaction id and leaves the last one in *)
(* a single slot.                                                          *)
(*                                                                         *)
(* The network loses, delays, duplicates and reorders replies; the server  *)
(* renumbers; a modem or another server answers as well; the capture dies  *)
(* and its restart may fail or raise. One keeper that may transmit (a CARP *)
(* master), one lease, one DHCP server.                                    *)
(***************************************************************************)
EXTENDS Naturals

CONSTANTS
    Addr,           \* addresses the server leases
    RebootAttempts, \* REBOOT_ATTEMPTS
    DoraAttempts,   \* DORA_ATTEMPTS
    RenewAttempts,  \* RENEW_ATTEMPTS
    MaxFaults       \* bound: failures in one behaviour

ASSUME AttemptsAssumption ==
    {RebootAttempts, DoraAttempts, RenewAttempts} \subseteq Nat \ {0}
ASSUME FaultsAssumption == MaxFaults \in Nat
ASSUME AddrAssumption   == {"none", "temporary"} \cap Addr = {}

VARIABLES
    \* the server and the wire
    assigned,   \* the address the server has for this chaddr
    granted,    \* history: the addresses it ever acknowledged
    asked,      \* the last request sent, while it may still be answered
    wire,       \* replies on their way
    faults,     \* failures so far
    \* the capture thread
    alive,      \* a reader runs
    hand,       \* the reply that passed the xid test and is not yet fed
    slot,       \* DhcpClient._rx
    observed,   \* FollowPolicy._observed: the address of a peer's ACK
    \* the main thread
    mode,       \* "follow" or "enforce"
    target,     \* FollowPolicy.target, the VIP
    throttled,  \* a follow within MIN_FOLLOW_INTERVAL
    held,       \* binding.yiaddr
    tried,      \* _tried_reboot
    pc,         \* the sequence it runs
    waiting,    \* its attempt is sent and awaits an answer
    n,          \* its attempt
    stopping,   \* SIGTERM was received
    escaped     \* history: an exception left a DORA with its offer parked

network == <<assigned, granted, asked, wire>>
capture == <<alive, hand, slot, observed>>
policy  == <<mode, target, throttled>>
main    == <<held, tried, pc, waiting, n>>
vars    == <<network, faults, capture, policy, main, stopping, escaped>>

None == "none"
Temporary == "temporary"    \* the address of a lease below min_lease_time
NoMsg == [kind |-> "nothing", addr |-> None, mine |-> FALSE]
(* A reply; mine: it carries the transaction id of the exchange in flight. *)
Reply   == [kind : {"offer", "ack", "nak"}, addr : Addr \cup {None, Temporary}, mine : BOOLEAN]
Request == [kind : {"reboot", "discover", "request", "renew"}, addr : Addr \cup {None}]

Exchange == {"reboot", "discover", "request", "renew", "rebind"}

TypeOK ==
    /\ assigned \in Addr /\ granted \subseteq Addr
    /\ asked \in Request \cup {NoMsg} /\ wire \subseteq Reply
    /\ faults \in 0 .. MaxFaults
    /\ {alive, throttled, tried, waiting, stopping, escaped} \subseteq BOOLEAN
    /\ {hand, slot} \subseteq Reply \cup {NoMsg}
    /\ observed \in Addr \cup {None}
    /\ mode \in {"follow", "enforce"} /\ target \in Addr
    /\ held \in Addr \cup {None}
    /\ pc \in Exchange \cup {"head", "hold", "rebindwait", "pause", "done"}
    /\ n \in 1 .. RebootAttempts + DoraAttempts + RenewAttempts

Init ==
    /\ assigned \in Addr /\ granted = {} /\ asked = NoMsg /\ wire = {} /\ faults = 0
    /\ alive = TRUE /\ hand = NoMsg /\ slot = NoMsg /\ observed = None
    /\ mode \in {"follow", "enforce"} /\ target \in Addr /\ throttled \in BOOLEAN
    /\ held = None /\ tried = FALSE /\ pc = "head" /\ waiting = FALSE /\ n = 1
    /\ stopping = FALSE /\ escaped = FALSE

-----------------------------------------------------------------------------
(* Helpers *)

Fault == faults < MaxFaults /\ faults' = faults + 1

Limit == CASE pc = "reboot" -> RebootAttempts
           [] pc \in {"discover", "request"} -> DoraAttempts
           [] OTHER -> RenewAttempts

Want == IF pc = "discover" THEN "offer" ELSE "ack"

(* _wait_for_dhcp_reply returns on the type it waits for or on a NAK. *)
Answers(m) == m.kind \in {Want, "nak"}

Outdated(m) == [kind |-> m.kind, addr |-> m.addr, mine |-> FALSE]

(* _new_xid(): no earlier reply matches any more. One that was matched       *)
(* already is still fed.                                                     *)
NewXid ==
    /\ wire' = {Outdated(m) : m \in wire}
    /\ hand' = Outdated(hand) /\ slot' = Outdated(slot)
    /\ asked' = NoMsg

KeepXid == UNCHANGED <<wire, hand, slot, asked>>

(* dora(): DISCOVER under a new transaction id. *)
Dora == pc' = "discover" /\ n' = 1 /\ NewXid

MutCleared(p, kept) == kept
(* What a failed sequence leaves in the binding: dora() clears the offer it  *)
(* parked there.                                                             *)
Cleared(p, kept) == IF p \in {"discover", "request"} THEN None ELSE kept

(* The sequence returned False with `kept` in the binding: reboot falls back *)
(* to DORA, a failed DORA pauses, a failed renew waits to REBIND, or ends if *)
(* it lost the binding.                                                      *)
Failed(kept) ==
    /\ held' = Cleared(pc, kept)
    /\ CASE pc = "reboot" -> Dora
         [] pc \in {"discover", "request"} -> pc' = "pause" /\ UNCHANGED n /\ KeepXid
         [] OTHER -> pc' = (IF held' = None THEN "head" ELSE "rebindwait")
                     /\ UNCHANGED n /\ KeepXid

(* The sequence returned True with address a bound. *)
Bound(a) == held' = a /\ pc' = "head" /\ UNCHANGED n /\ KeepXid

(* on_changed_address accepts: the VIP follows (FollowPolicy). *)
Follows(a) ==
    /\ mode = "follow" /\ a \in Addr /\ ~throttled
    /\ target' = a /\ throttled' = TRUE /\ UNCHANGED mode

(* It refuses: enforce always; follow for an implausible address, within the *)
(* throttle, or for a reason of its own (class, server, a failed dispatch).  *)
Refuses(a) ==
    /\ IF mode = "follow" /\ a \in Addr /\ ~throttled THEN Fault ELSE UNCHANGED faults
    /\ UNCHANGED policy

(* An ACK for another address than expected: follow it, or refuse and, when  *)
(* told to, release and forget it.                                           *)
Changed(a, release) ==
    \/ Follows(a) /\ Bound(a) /\ UNCHANGED faults
    \/ Refuses(a) /\ Failed(IF mode = "enforce" /\ release THEN None ELSE held)

-----------------------------------------------------------------------------
(* The main loop around the exchanges *)

(* _maintain_step: acquire when unbound, the first time by INIT-REBOOT. *)
Head ==
    /\ pc = "head"
    /\ CASE stopping -> pc' = "done" /\ UNCHANGED <<tried, n>> /\ KeepXid
         [] ~stopping /\ held # None -> pc' = "hold" /\ UNCHANGED <<tried, n>> /\ KeepXid
         [] ~stopping /\ held = None /\ tried -> Dora /\ UNCHANGED tried
         [] OTHER -> tried' = TRUE /\ pc' = "reboot" /\ n' = 1 /\ NewXid
    /\ UNCHANGED <<assigned, granted, faults, alive, observed, policy, held, waiting,
                   stopping, escaped>>

(* T1, or a promotion: renew() keeps the transaction id of the DORA. *)
Renew ==
    /\ pc = "hold"
    /\ pc' = (IF stopping THEN "head" ELSE "renew") /\ n' = 1
    /\ UNCHANGED <<network, faults, capture, policy, held, tried, waiting, stopping, escaped>>

Rebind ==
    /\ pc = "rebindwait" /\ ~stopping
    /\ pc' = "rebind" /\ n' = 1
    /\ UNCHANGED <<network, faults, capture, policy, held, tried, waiting, stopping, escaped>>

(* T2, or a stop within REBIND. *)
Expire ==
    /\ pc = "rebindwait"
    /\ pc' = "head" /\ held' = None
    /\ UNCHANGED <<network, faults, capture, policy, tried, waiting, n, stopping, escaped>>

(* The pause between two acquires (_wait_unbound): seconds, in which the      *)
(* capture thread gets from the xid test to the slot.                         *)
Pause ==
    /\ pc = "pause" /\ hand = NoMsg
    /\ pc' = "head"
    /\ UNCHANGED <<network, faults, capture, policy, held, tried, waiting, n, stopping, escaped>>

(* check_observed, in any sleep of the loop. (What the capture thread stores *)
(* between its read and its clear is as if never seen.)                      *)
CheckObserved ==
    /\ pc \in {"hold", "rebindwait", "pause"} /\ observed # None
    /\ observed' = None
    /\ IF mode = "follow" /\ observed \notin {held, target}
       THEN \/ Follows(observed) /\ held' = observed /\ UNCHANGED faults
            \/ Refuses(observed) /\ UNCHANGED held
       ELSE UNCHANGED <<policy, held, faults>>
    /\ UNCHANGED <<network, alive, hand, slot, tried, pc, waiting, n, stopping, escaped>>

ThrottleEnds ==
    /\ throttled /\ throttled' = FALSE
    /\ UNCHANGED <<network, faults, capture, mode, target, main, stopping, escaped>>

Stop ==
    /\ ~stopping /\ pc # "done" /\ stopping' = TRUE
    /\ UNCHANGED <<network, faults, capture, policy, main, escaped>>

-----------------------------------------------------------------------------
(* One attempt of a sequence *)

(* Should_stop, or the attempts are used up. *)
GiveUp ==
    /\ pc \in Exchange /\ ~waiting
    /\ stopping \/ n > Limit
    /\ Failed(held)
    /\ UNCHANGED <<assigned, granted, faults, alive, observed, policy, tried, waiting,
                   stopping, escaped>>

MutFresh(s) == s
(* `self._rx = None` before every send. *)
Fresh(s) == NoMsg

(* _ensure_sniffer, then the send. *)
Send ==
    /\ pc \in Exchange /\ ~waiting /\ ~stopping /\ n <= Limit
    /\ alive' = TRUE /\ slot' = Fresh(slot) /\ waiting' = TRUE
    /\ asked' = [kind |-> IF pc = "rebind" THEN "renew" ELSE pc,
                 addr |-> IF pc \in {"reboot", "discover"} THEN target ELSE held]
    /\ UNCHANGED <<assigned, granted, wire, faults, hand, observed, policy, held, tried,
                   pc, n, stopping, escaped>>

(* The send raises, as it does with no capture to send through: a retry for  *)
(* an acquire, the end for a renew.                                          *)
SendFails ==
    /\ pc \in Exchange /\ ~waiting /\ ~stopping /\ n <= Limit
    /\ Fault
    /\ alive' \in {alive, TRUE}
    /\ IF pc \in {"renew", "rebind"}
       THEN Failed(held)
       ELSE n' = n + 1 /\ slot' = Fresh(slot) /\ UNCHANGED <<held, pc, wire, hand, asked>>
    /\ UNCHANGED <<assigned, granted, observed, policy, tried, waiting, stopping, escaped>>

(* The capture restart itself raises (no descriptor for the pipe, no thread): *)
(* run() catches it and loops.                                                *)
SnifferRaises ==
    /\ pc \in Exchange /\ ~waiting /\ ~stopping /\ n <= Limit
    /\ ~alive /\ Fault
    /\ escaped' = (escaped \/ pc = "request") /\ pc' = "head"
    /\ UNCHANGED <<network, capture, policy, held, tried, waiting, n, stopping>>

MutExpected(a) == TRUE
(* The address the sequence asked for, or an ACK to it that names none. *)
Expected(a) ==
    CASE pc = "reboot"  -> a \in {None, target}
      [] pc = "request" -> a = target
      [] OTHER          -> a \in {None, held}

(* The wait reads the slot and finds an answer. *)
Read ==
    /\ pc \in Exchange /\ waiting /\ Answers(slot)
    /\ waiting' = FALSE
    /\ CASE slot.kind = "nak" ->
              /\ Failed(IF pc \in {"renew", "rebind"} THEN None ELSE held)
              /\ UNCHANGED <<policy, faults>>
         [] slot.kind = "offer" ->
              /\ held' = slot.addr /\ pc' = "request" /\ n' = 1 /\ KeepXid
              /\ UNCHANGED <<policy, faults>>
         [] slot.kind = "ack" /\ Expected(slot.addr) ->
              /\ Bound(IF slot.addr # None THEN slot.addr
                       ELSE IF pc = "reboot" THEN target ELSE held)
              /\ UNCHANGED <<policy, faults>>
         [] OTHER -> Changed(slot.addr, pc \in {"reboot", "request"})
    /\ UNCHANGED <<assigned, granted, alive, observed, tried, stopping, escaped>>

(* An answer is on its way. *)
Answerable ==
    alive /\ (asked # NoMsg \/ hand # NoMsg \/ \E m \in wire : m.mine)

(* The wait ends without one; an answer that is late is a failure of the net. *)
Timeout ==
    /\ pc \in Exchange /\ waiting /\ ~Answers(slot)
    /\ IF Answerable /\ ~stopping THEN Fault ELSE UNCHANGED faults
    /\ waiting' = FALSE /\ n' = n + 1
    /\ UNCHANGED <<network, capture, policy, held, tried, pc, stopping, escaped>>

-----------------------------------------------------------------------------
(* The capture thread *)

MutMatches(m) == TRUE
Matches(m) == m.mine

(* _on_dhcp_reply: the xid test. Another's ACK (same chaddr) for another     *)
(* address is an observation; so is a late one of our own.                   *)
Sniff ==
    /\ alive /\ hand = NoMsg
    /\ \E m \in wire :
         /\ wire' = wire \ {m}
         /\ IF Matches(m) THEN hand' = m /\ UNCHANGED observed
            ELSE /\ observed' = IF /\ mode = "follow" /\ held # None
                                   /\ m.kind = "ack" /\ m.addr \in Addr \ {held}
                                THEN m.addr ELSE observed
                 /\ UNCHANGED hand
    /\ UNCHANGED <<assigned, granted, asked, faults, alive, slot, policy, main, stopping,
                   escaped>>

(* feed(): a temporary lease is no answer and displaces none. *)
Kept(m) == IF m.addr = Temporary THEN slot ELSE m

Feed ==
    /\ hand # NoMsg
    /\ slot' = Kept(hand) /\ hand' = NoMsg
    /\ UNCHANGED <<network, faults, alive, observed, policy, main, stopping, escaped>>

(* The reader exits on a read error; what passes by meanwhile is missed. *)
CaptureDies ==
    /\ alive /\ hand = NoMsg /\ Fault
    /\ alive' = FALSE
    /\ UNCHANGED <<network, hand, slot, observed, policy, main, stopping, escaped>>

Missed ==
    /\ ~alive /\ wire # {} /\ wire' = {}
    /\ UNCHANGED <<assigned, granted, asked, faults, capture, policy, main, stopping, escaped>>

-----------------------------------------------------------------------------
(* The server and the network *)

(* What the server may say to a request. *)
ServerReplies(q) ==
    IF q.kind = "discover" THEN {[kind |-> "offer", addr |-> assigned, mine |-> TRUE]}
    ELSE {[kind |-> "ack", addr |-> assigned, mine |-> TRUE]}
         \cup IF q.addr # assigned THEN {[kind |-> "nak", addr |-> None, mine |-> TRUE]}
              ELSE IF q.kind = "request" THEN {}
              ELSE {[kind |-> "ack", addr |-> None, mine |-> TRUE]}

(* It answers; the answer may come twice. *)
Answer ==
    /\ asked # NoMsg
    /\ \E r \in ServerReplies(asked) :
         /\ wire' = wire \cup {r}
         /\ granted' = IF r.kind = "ack" THEN granted \cup {assigned} ELSE granted
    /\ \/ asked' = NoMsg /\ UNCHANGED faults
       \/ Fault /\ UNCHANGED asked
    /\ UNCHANGED <<assigned, capture, policy, main, stopping, escaped>>

(* A modem's stop-gap lease, another server's NAK, the peer's own exchange. *)
Intrude ==
    /\ Fault
    /\ \E r \in [kind : {"offer", "ack"}, addr : {Temporary}, mine : {asked # NoMsg}]
            \cup [kind : {"nak"}, addr : {None}, mine : {asked # NoMsg}]
            \cup [kind : {"ack"}, addr : {assigned}, mine : {FALSE}] :
         /\ wire' = wire \cup {r}
         /\ granted' = IF r.addr = assigned THEN granted \cup {assigned} ELSE granted
    /\ UNCHANGED <<assigned, asked, capture, policy, main, stopping, escaped>>

Lose ==
    /\ Fault
    /\ \/ asked # NoMsg /\ asked' = NoMsg /\ UNCHANGED wire
       \/ \E m \in wire : wire' = wire \ {m} /\ UNCHANGED asked
    /\ UNCHANGED <<assigned, granted, capture, policy, main, stopping, escaped>>

Renumber ==
    /\ Fault
    /\ assigned' \in Addr \ {assigned}
    /\ UNCHANGED <<granted, asked, wire, capture, policy, main, stopping, escaped>>

-----------------------------------------------------------------------------
MainStep ==
    \/ Head \/ Renew \/ Rebind \/ Expire \/ Pause \/ CheckObserved
    \/ GiveUp \/ Send \/ Read \/ Timeout

Next ==
    \/ MainStep \/ SendFails \/ SnifferRaises \/ ThrottleEnds \/ Stop
    \/ Sniff \/ Feed \/ CaptureDies \/ Missed
    \/ Answer \/ Intrude \/ Lose \/ Renumber

Spec == Init /\ [][Next]_vars

(* Both threads run, the server answers, the throttle interval passes. *)
FairSpec ==
    /\ Spec
    /\ WF_vars(MainStep) /\ WF_vars(Sniff) /\ WF_vars(Feed) /\ WF_vars(Answer)
    /\ WF_vars(ThrottleEnds)

-----------------------------------------------------------------------------
(* Properties *)

(* The loop never takes for a lease what the server never acknowledged: not a *)
(* parked offer whatever way its DORA failed, not a modem's temporary lease.  *)
(* (An exception that escapes the DORA is the exception, see OfferNeverHeld.) *)
LeaseGranted == pc # "request" /\ ~escaped => held \in granted \cup {None}

(* dora()'s comment: an unconfirmed offer must never be read as bound. *)
OfferNeverHeld == pc # "request" => held \in granted \cup {None}

(* The address held is the VIP: in enforce mode no other one is kept, and a   *)
(* follow moves both together, whichever exchange, late reply or observation  *)
(* brought the change.                                                        *)
LeaseIsTarget == pc # "request" /\ ~escaped => held \in {None, target}

(* The lease as the rest of the keeper sees it, a parked offer being none,     *)
(* keeps HeldLease's promise: a step may win it, lose it or follow it, and the *)
(* VIP moves with a lease only.                                                *)
Binding == INSTANCE HeldLease WITH
    follows <- (mode = "follow"), vip <- target, broken <- escaped,
    held <- IF pc = "request" THEN None ELSE held
ImplementsHeldLease == Binding!Safe

(* An ACK that binds or extends the lease answers the exchange in flight,     *)
(* although the xid is tested on one thread and replaced on the other, and    *)
(* the slot is shared by all exchanges: the reply that slipped through the    *)
(* test is fed before the next OFFER, which the next REQUEST waits for.       *)
AcksOwnExchange == [][Read /\ slot.kind = "ack" => slot.mine]_vars

(* Once the network calms down the keeper holds the address the server has    *)
(* for it and keeps it, in whatever state the failures left slot and capture. *)
SettlesOnLease ==
    <>[](~stopping /\ (mode = "follow" \/ assigned = target)) => <>[](held = assigned)
=============================================================================
