---------------------------- MODULE Lease_proofs ----------------------------
(***************************************************************************)
(* The exchanges for any number of attempts, addresses and failures: what  *)
(* the binding holds was acknowledged by the server and is the VIP, and an *)
(* ACK that binds answers the exchange in flight.                          *)
(***************************************************************************)
EXTENDS DhcpClient, LeaseClock, TLAPS

Messages == wire \cup {hand, slot}

(* Who may be handing over a reply of an exchange that is over: the thread    *)
(* that a DORA has overtaken, until the pause that follows it.                *)
Overtaken == pc \in {"discover", "pause", "done"} \/ (pc = "head" /\ held = None)

(* An attempt that waits is one of its sequence; an acquire begins unbound.   *)
Staged ==
    /\ waiting => pc \in Exchange /\ n <= Limit
    /\ pc \in {"reboot", "discover"} => held = None

(* Before the first acquire nothing was asked and nothing was read.           *)
Untried == ~tried =>
    /\ pc \in {"head", "done"} /\ held = None /\ asked = NoMsg /\ hand = NoMsg /\ slot = NoMsg
    /\ \A m \in wire : ~m.mine /\ ~(m.kind = "ack" /\ m.addr = None)

(* What is on its way, was passed on or was observed was granted; an ACK      *)
(* without an address confirms, to the INIT-REBOOT, the target.               *)
Honest ==
    /\ \A m \in Messages : m.kind = "ack" /\ m.addr \in Addr => m.addr \in granted
    /\ \A m \in Messages : m.kind = "offer" => m.addr # None
    /\ observed \in granted \cup {None}
    /\ slot.addr # Temporary
    /\ pc = "reboot" => /\ asked # NoMsg => asked.addr = target
                        /\ \A m \in Messages : m.kind = "ack" /\ m.addr = None => target \in granted

(* The reply being handed over is one of this exchange, or of the one a DORA  *)
(* has replaced, and is then fed before that DORA's OFFER.                    *)
InOrder ==
    /\ hand # NoMsg /\ ~hand.mine => Overtaken
    /\ pc = "discover" /\ waiting /\ slot # NoMsg => hand = NoMsg \/ hand.mine
    /\ waiting /\ pc # "discover" /\ slot.kind = "ack" => slot.mine

Lease == LeaseGranted /\ LeaseIsTarget

IInv == TypeOK /\ Staged /\ Untried /\ Honest /\ InOrder /\ Lease

-----------------------------------------------------------------------------

LEMMA Attempts ==
    /\ RebootAttempts \in Nat \ {0} /\ DoraAttempts \in Nat \ {0} /\ RenewAttempts \in Nat \ {0}
    /\ 1 \in 1 .. RebootAttempts + DoraAttempts + RenewAttempts
<1>1. RebootAttempts \in Nat \ {0} /\ DoraAttempts \in Nat \ {0} /\ RenewAttempts \in Nat \ {0}
  BY AttemptsAssumption
<1> QED
  BY <1>1

LEMMA InitIInv == Init => IInv
<1> SUFFICES ASSUME Init PROVE IInv
  OBVIOUS
<1>1. TypeOK
  <2>1. faults \in 0 .. MaxFaults /\ n \in 1 .. RebootAttempts + DoraAttempts + RenewAttempts
    BY Attempts, FaultsAssumption DEF Init
  <2> QED
    BY <2>1 DEF Init, TypeOK
<1>2. Staged /\ Untried /\ Honest /\ InOrder /\ Lease
  BY AddrAssumption DEF Init, Staged, Untried, Honest, InOrder, Lease, LeaseGranted, LeaseIsTarget, Messages,
     Exchange, None, NoMsg, Temporary
<1> QED
  BY <1>1, <1>2 DEF IInv

(* A new transaction id changes whose a reply is, and nothing else of it.     *)
LEMMA OutdatedKeeps ==
    ASSUME NEW m \in Reply \cup {NoMsg}
    PROVE  /\ Outdated(m) \in Reply \cup {NoMsg} /\ ~Outdated(m).mine
           /\ Outdated(m).kind = m.kind /\ Outdated(m).addr = m.addr
           /\ m = NoMsg => Outdated(m) = NoMsg
<1>1. CASE m \in Reply
  <2>1. Outdated(m) \in Reply /\ m # NoMsg
    BY <1>1 DEF Outdated, Reply, NoMsg
  <2> QED
    BY <2>1 DEF Outdated
<1>2. CASE m = NoMsg
  BY <1>2 DEF Outdated, NoMsg
<1> QED
  BY <1>1, <1>2

LEMMA FaultTyped == TypeOK /\ Fault => faults' \in 0 .. MaxFaults
  BY FaultsAssumption DEF TypeOK, Fault

LEMMA LimitTyped == Limit \in Nat \ {0} /\ Limit + 1 \in 1 .. RebootAttempts + DoraAttempts + RenewAttempts
  BY Attempts DEF Limit

(* Facts about the messages carry over to those of a new transaction id.      *)
LEMMA NewXidKeeps ==
    ASSUME IInv, NewXid
    PROVE  /\ wire' \subseteq Reply /\ {hand', slot'} \subseteq Reply \cup {NoMsg} /\ asked' = NoMsg
           /\ \A m \in Messages' : ~m.mine /\ \E o \in Messages : m.kind = o.kind /\ m.addr = o.addr
           /\ slot'.addr # Temporary
<1> USE OutdatedKeeps
<1>1. wire \subseteq Reply /\ {hand, slot} \subseteq Reply \cup {NoMsg} /\ slot.addr # Temporary
  BY DEF IInv, TypeOK, Honest
<1>2. hand' = Outdated(hand) /\ slot' = Outdated(slot) /\ asked' = NoMsg
      /\ wire' = {Outdated(m) : m \in wire}
  BY DEF NewXid
<1>3. \A m \in Messages' : \E o \in Messages : m = Outdated(o) /\ o \in Reply \cup {NoMsg}
  BY <1>1, <1>2 DEF Messages
<1>4. \A m \in wire : Outdated(m) \in Reply
  BY <1>1 DEF Outdated, Reply
<1> QED
  BY <1>1, <1>2, <1>3, <1>4

(* dora() and the first INIT-REBOOT begin with nothing that could mislead.    *)
LEMMA BeginStep ==
    ASSUME IInv, NewXid, n' = 1, waiting' = FALSE, held' = None, tried' = TRUE,
           pc' = "discover" \/ (pc' = "reboot" /\ ~tried),
           faults' \in 0 .. MaxFaults,
           UNCHANGED <<assigned, granted, alive, observed, policy, stopping, escaped>>
    PROVE  IInv'
<1>1. TypeOK'
  BY NewXidKeeps, Attempts DEF IInv, TypeOK, policy, Exchange
<1>2. Staged' /\ Untried'
  BY DEF Staged, Untried
<1>3. Honest'
  <2>1. ~tried => \A m \in Messages : ~(m.kind = "ack" /\ m.addr = None)
    BY DEF IInv, Untried, Messages, NoMsg
  <2> QED
    BY <2>1, NewXidKeeps DEF IInv, Honest
<1>4. InOrder'
  <2>1. pc' = "reboot" => hand' = NoMsg
    BY OutdatedKeeps DEF IInv, Untried, NewXid
  <2> QED
    BY <2>1 DEF InOrder, Overtaken
<1>5. Lease'
  BY DEF Lease, LeaseGranted, LeaseIsTarget, None
<1> QED
  BY <1>1, <1>2, <1>3, <1>4, <1>5 DEF IInv

(* A sequence that fails. *)
LEMMA FailedStep ==
    ASSUME IInv, pc \in Exchange, NEW kept \in {None, held}, Failed(kept), waiting' = FALSE,
           faults' \in 0 .. MaxFaults,
           UNCHANGED <<assigned, granted, alive, observed, policy, tried, stopping, escaped>>
    PROVE  IInv'
<1>1. tried = TRUE
  BY DEF TypeOK, IInv, Untried, Exchange
<1>2. CASE pc = "reboot"
  <2>1. held' = None /\ pc' = "discover" /\ n' = 1 /\ NewXid
    BY <1>2 DEF Failed, Cleared, Dora, IInv, Staged
  <2> QED
    BY <1>1, <2>1, BeginStep
<1>3. CASE pc # "reboot"
  <2>1. KeepXid /\ n' = n /\ held' \in {None, held}
        /\ (pc \in {"discover", "request"} => pc' = "pause" /\ held' = None)
        /\ (pc \in {"renew", "rebind"} => pc' \in {"head", "rebindwait"})
    BY <1>3 DEF Failed, Cleared, Exchange
  <2>2. TypeOK'
    BY <1>3, <2>1 DEF IInv, TypeOK, KeepXid, policy, Exchange
  <2>3. Staged' /\ Untried'
    BY <1>1, <1>3, <2>1 DEF Staged, Untried, Exchange
  <2>4. Honest'
    BY <1>3, <2>1 DEF IInv, Honest, Messages, KeepXid, Exchange
  <2>5. InOrder'
    BY <1>3, <2>1 DEF IInv, InOrder, Overtaken, KeepXid, Exchange
  <2>6. Lease'
    BY <1>3, <2>1 DEF IInv, Lease, LeaseGranted, LeaseIsTarget, policy, Exchange
  <2> QED
    BY <2>2, <2>3, <2>4, <2>5, <2>6 DEF IInv
<1> QED
  BY <1>2, <1>3

(* A sequence that binds a. *)
LEMMA BoundStep ==
    ASSUME IInv, pc \in Exchange \ {"discover"}, NEW a \in Addr \cup {None}, Bound(a), waiting' = FALSE,
           ~escaped => a \in granted \cup {None} /\ a \in {None, target'},
           target' \in Addr, throttled' \in BOOLEAN, faults' \in 0 .. MaxFaults,
           UNCHANGED <<assigned, granted, alive, observed, mode, tried, stopping, escaped>>
    PROVE  IInv'
<1>1. KeepXid /\ n' = n /\ held' = a /\ pc' = "head"
  BY DEF Bound
<1>2. TypeOK'
  BY <1>1 DEF IInv, TypeOK, KeepXid
<1>3. Staged' /\ Untried'
  BY <1>1 DEF IInv, Staged, Untried, Exchange
<1>4. Honest'
  BY <1>1 DEF IInv, Honest, Messages, KeepXid
<1>5. InOrder'
  BY <1>1 DEF IInv, InOrder, Overtaken, KeepXid, Exchange
<1>6. Lease'
  BY <1>1 DEF Lease, LeaseGranted, LeaseIsTarget
<1> QED
  BY <1>1, <1>2, <1>3, <1>4, <1>5, <1>6 DEF IInv

LEMMA HeadStep == IInv /\ Head => IInv'
<1> SUFFICES ASSUME IInv, Head PROVE IInv'
  OBVIOUS
<1>1. waiting = FALSE /\ waiting' = FALSE /\ tried \in BOOLEAN /\ faults' \in 0 .. MaxFaults
  BY DEF IInv, TypeOK, Staged, Head, Exchange
<1>2. CASE pc' \in {"done", "hold"} /\ UNCHANGED <<tried, n>> /\ KeepXid
           /\ (pc' = "hold" => held # None)
  <2>1. TypeOK'
    BY <1>2 DEF IInv, TypeOK, Head, KeepXid, policy
  <2>2. Staged' /\ Untried' /\ Honest'
    BY <1>1, <1>2 DEF IInv, Staged, Untried, Honest, Messages, Head, KeepXid, policy
  <2>3. InOrder'
    BY <1>1, <1>2 DEF IInv, InOrder, Overtaken, Head, KeepXid
  <2>4. Lease'
    BY <1>2 DEF IInv, Lease, LeaseGranted, LeaseIsTarget, Head, policy
  <2> QED
    BY <2>1, <2>2, <2>3, <2>4 DEF IInv
<1>3. CASE held = None /\ tried /\ Dora /\ UNCHANGED tried
  BY <1>1, <1>3, BeginStep DEF Head, Dora
<1>4. CASE held = None /\ ~tried /\ tried' = TRUE /\ pc' = "reboot" /\ n' = 1 /\ NewXid
  BY <1>1, <1>4, BeginStep DEF Head
<1> QED
  BY <1>1, <1>2, <1>3, <1>4 DEF Head

(* The waits of the loop and the start of an exchange out of one.             *)
LEMMA LoopStep == IInv /\ (Renew \/ Rebind \/ Expire \/ Pause) => IInv'
<1> SUFFICES ASSUME IInv, Renew \/ Rebind \/ Expire \/ Pause PROVE IInv'
  OBVIOUS
<1>1. waiting = FALSE /\ tried = TRUE
  BY DEF IInv, TypeOK, Staged, Untried, Renew, Rebind, Expire, Pause, Exchange
<1>2. pc' \in {"head", "renew", "rebind"} /\ held' \in {held, None}
      /\ n' \in 1 .. RebootAttempts + DoraAttempts + RenewAttempts
      /\ UNCHANGED <<network, faults, capture, policy, tried, waiting, stopping, escaped>>
  BY Attempts DEF IInv, TypeOK, Renew, Rebind, Expire, Pause
<1>3. TypeOK'
  BY <1>2 DEF IInv, TypeOK, network, capture, policy, Exchange
<1>4. Staged' /\ Untried' /\ Honest'
  BY <1>1, <1>2 DEF IInv, Staged, Untried, Honest, Messages, network, capture, policy
<1>5. InOrder'
  BY <1>1, <1>2 DEF IInv, InOrder, Overtaken, Renew, Rebind, Expire, Pause, network, capture, Exchange
<1>6. Lease'
  BY <1>2 DEF IInv, Lease, LeaseGranted, LeaseIsTarget, network, policy,
     Renew, Rebind, Expire, Pause
<1> QED
  BY <1>3, <1>4, <1>5, <1>6 DEF IInv

LEMMA ObservedStep == IInv /\ CheckObserved => IInv'
<1> SUFFICES ASSUME IInv, CheckObserved PROVE IInv'
  OBVIOUS
<1>1. faults' \in 0 .. MaxFaults
  BY FaultTyped DEF IInv, TypeOK, CheckObserved, Refuses
<1>2. pc \in {"hold", "rebindwait", "pause"} /\ observed \in Addr /\ observed' = None
      /\ UNCHANGED <<network, alive, hand, slot, tried, pc, waiting, n, stopping, escaped>>
  BY DEF IInv, TypeOK, CheckObserved
<1>3. \/ Follows(observed) /\ held' = observed
      \/ UNCHANGED <<policy, held>>
  BY DEF CheckObserved, Refuses
<1>4. tried = TRUE /\ ~waiting
  BY <1>2 DEF IInv, TypeOK, Untried, Staged, Exchange
<1>5. TypeOK'
  BY <1>1, <1>2, <1>3 DEF IInv, TypeOK, Follows, policy, network
<1>6. Staged' /\ Untried'
  BY <1>2, <1>4 DEF Staged, Untried
<1>7. Honest'
  BY <1>2 DEF IInv, Honest, Messages, network
<1>8. InOrder'
  BY <1>2, <1>4 DEF IInv, InOrder, Overtaken
<1>9. Lease'
  BY <1>2, <1>3 DEF IInv, Honest, Lease, LeaseGranted, LeaseIsTarget, Follows, policy, network
<1> QED
  BY <1>5, <1>6, <1>7, <1>8, <1>9 DEF IInv

LEMMA GiveUpStep == IInv /\ GiveUp => IInv'
<1> SUFFICES ASSUME IInv, GiveUp PROVE IInv'
  OBVIOUS
<1> QED
  BY FailedStep DEF IInv, TypeOK, GiveUp, policy

LEMMA SendStep == IInv /\ Send => IInv'
<1> SUFFICES ASSUME IInv, Send PROVE IInv'
  OBVIOUS
<1>1. tried = TRUE /\ slot' = NoMsg /\ waiting' = TRUE /\ hand' = hand /\ wire' = wire
  BY DEF IInv, TypeOK, Untried, Send, Fresh, Exchange
<1>2. asked' \in Request /\ (pc = "reboot" => asked'.addr = target)
  BY DEF IInv, TypeOK, Send, Request, Exchange
<1>3. TypeOK'
  BY <1>1, <1>2 DEF IInv, TypeOK, Send, policy
<1>4. Staged' /\ Untried'
  BY <1>1, LimitTyped DEF IInv, Staged, Untried, Send, Limit
<1>5. Honest'
  BY <1>1, <1>2, AddrAssumption DEF IInv, Honest, Messages, Send, policy, NoMsg, None, Temporary
<1>6. InOrder'
  BY <1>1 DEF IInv, InOrder, Overtaken, Send, NoMsg, Exchange
<1>7. Lease'
  BY DEF IInv, Lease, LeaseGranted, LeaseIsTarget, Send, policy
<1> QED
  BY <1>3, <1>4, <1>5, <1>6, <1>7 DEF IInv

LEMMA SendFailsStep == IInv /\ SendFails => IInv'
<1> SUFFICES ASSUME IInv, SendFails PROVE IInv'
  OBVIOUS
<1>1. tried = TRUE /\ faults' \in 0 .. MaxFaults /\ waiting' = FALSE /\ alive' \in BOOLEAN
      /\ pc \in Exchange
  BY FaultTyped DEF IInv, TypeOK, Untried, SendFails, Exchange
<1>2. CASE pc \in {"renew", "rebind"}
  <2>1. KeepXid /\ n' = n /\ held' = held /\ pc' \in {"head", "rebindwait"}
    BY <1>2 DEF SendFails, Failed, Cleared
  <2>2. TypeOK'
    BY <1>1, <2>1 DEF IInv, TypeOK, SendFails, KeepXid, policy
  <2>3. Staged' /\ Untried'
    BY <1>1, <2>1 DEF Staged, Untried, SendFails
  <2>4. Honest'
    BY <1>2, <2>1 DEF IInv, Honest, Messages, KeepXid, SendFails
  <2>5. InOrder'
    BY <1>1, <1>2, <2>1 DEF IInv, InOrder, Overtaken, KeepXid
  <2>6. Lease'
    BY <1>2, <2>1 DEF IInv, Lease, LeaseGranted, LeaseIsTarget, SendFails, policy
  <2> QED
    BY <2>2, <2>3, <2>4, <2>5, <2>6 DEF IInv
<1>3. CASE pc \notin {"renew", "rebind"}
  <2>1. n' = n + 1 /\ slot' = NoMsg /\ UNCHANGED <<held, pc, wire, hand, asked>>
    BY <1>3 DEF SendFails, Fresh
  <2>2. n' \in 1 .. RebootAttempts + DoraAttempts + RenewAttempts
    BY <2>1, LimitTyped, Attempts DEF IInv, TypeOK, SendFails
  <2>3. TypeOK'
    BY <1>1, <2>1, <2>2 DEF IInv, TypeOK, SendFails, policy
  <2>4. Staged' /\ Untried'
    BY <1>1, <2>1 DEF IInv, Staged, Untried, SendFails
  <2>5. Honest'
    BY <2>1 DEF IInv, Honest, Messages, SendFails, policy, NoMsg, None, Temporary
  <2>6. InOrder'
    BY <1>1, <2>1 DEF IInv, InOrder, Overtaken
  <2>7. Lease'
    BY <2>1 DEF IInv, Lease, LeaseGranted, LeaseIsTarget, SendFails, policy
  <2> QED
    BY <2>3, <2>4, <2>5, <2>6, <2>7 DEF IInv
<1> QED
  BY <1>2, <1>3

LEMMA RaisesStep == IInv /\ SnifferRaises => IInv'
<1> SUFFICES ASSUME IInv, SnifferRaises PROVE IInv'
  OBVIOUS
<1>1. tried = TRUE /\ faults' \in 0 .. MaxFaults /\ waiting' = FALSE /\ waiting = FALSE
      /\ escaped' \in BOOLEAN /\ pc \in Exchange
  BY FaultTyped DEF IInv, TypeOK, Untried, SnifferRaises, Exchange
<1>2. TypeOK'
  BY <1>1 DEF IInv, TypeOK, SnifferRaises, network, capture, policy
<1>3. Staged' /\ Untried'
  BY <1>1 DEF Staged, Untried, SnifferRaises
<1>4. Honest'
  BY DEF IInv, Honest, Messages, SnifferRaises, network, capture, policy
<1>5. InOrder'
  BY <1>1 DEF IInv, Staged, InOrder, Overtaken, SnifferRaises, network, capture, Exchange
<1>6. Lease'
  BY <1>1 DEF IInv, Lease, LeaseGranted, LeaseIsTarget, SnifferRaises, network, policy
<1> QED
  BY <1>2, <1>3, <1>4, <1>5, <1>6 DEF IInv

LEMMA TimeoutStep == IInv /\ Timeout => IInv'
<1> SUFFICES ASSUME IInv, Timeout PROVE IInv'
  OBVIOUS
<1>1. tried = TRUE /\ faults' \in 0 .. MaxFaults /\ waiting' = FALSE /\ pc' = pc
  BY FaultTyped DEF IInv, TypeOK, Untried, Timeout, Exchange
<1>2. n' \in 1 .. RebootAttempts + DoraAttempts + RenewAttempts
  BY LimitTyped, Attempts DEF IInv, TypeOK, Staged, Timeout
<1>3. TypeOK'
  BY <1>1, <1>2 DEF IInv, TypeOK, Timeout, network, capture, policy
<1>4. Staged' /\ Untried'
  BY <1>1 DEF IInv, Staged, Untried, Timeout
<1>5. Honest' /\ Lease'
  BY DEF IInv, Honest, Messages, Lease, LeaseGranted, LeaseIsTarget, Timeout, network, capture, policy
<1>6. InOrder'
  BY <1>1 DEF IInv, InOrder, Overtaken, Timeout, network, capture
<1> QED
  BY <1>3, <1>4, <1>5, <1>6 DEF IInv

(* The heart of it: whatever the slot held, what it binds was granted.        *)
LEMMA ReadStep == IInv /\ Read => IInv'
<1> SUFFICES ASSUME IInv, Read PROVE IInv'
  OBVIOUS
<1>1. pc \in Exchange /\ waiting' = FALSE /\ tried = TRUE /\ slot \in Reply /\ slot.addr # Temporary
      /\ faults \in 0 .. MaxFaults /\ target \in Addr /\ throttled \in BOOLEAN
      /\ UNCHANGED <<assigned, granted, alive, observed, tried, stopping, escaped>>
  BY DEF IInv, TypeOK, Untried, Honest, Read, Answers, Want, NoMsg, Exchange
<1>2. CASE slot.kind = "nak"
  BY <1>1, <1>2, FailedStep DEF Read, policy
<1>3. CASE slot.kind = "offer"
  <2>1. pc = "discover" /\ held' = slot.addr /\ pc' = "request" /\ n' = 1 /\ KeepXid
        /\ UNCHANGED <<policy, faults>> /\ waiting
    BY <1>1, <1>3 DEF Read, Answers, Want
  <2>2. held' \in Addr
    BY <1>1, <1>3, <2>1 DEF IInv, Honest, Messages, Reply
  <2>3. TypeOK'
    BY <1>1, <2>1, <2>2, Attempts DEF IInv, TypeOK, KeepXid, policy, Exchange
  <2>4. Staged' /\ Untried' /\ Honest'
    BY <1>1, <2>1 DEF IInv, Staged, Untried, Honest, Messages, KeepXid
  <2>5. InOrder'
    BY <1>1, <1>3, <2>1 DEF IInv, InOrder, Overtaken, KeepXid, NoMsg
  <2>6. Lease'
    BY <2>1 DEF Lease, LeaseGranted, LeaseIsTarget
  <2> QED
    BY <2>3, <2>4, <2>5, <2>6 DEF IInv
<1>4. CASE slot.kind = "ack"
  <2>1. pc # "discover" /\ (slot.addr \in granted \/ slot.addr = None) /\ slot.addr \in Addr \cup {None}
        /\ (pc = "reboot" /\ slot.addr = None => target \in granted)
    BY <1>1, <1>4 DEF IInv, Honest, Messages, Reply, Read, Answers, Want
  <2>2. CASE Expected(slot.addr)
    <3> DEFINE a == IF slot.addr # None THEN slot.addr ELSE IF pc = "reboot" THEN target ELSE held
    <3>1. Bound(a) /\ UNCHANGED <<policy, faults>>
      BY <1>4, <2>2 DEF Read
    <3>2. a \in Addr \cup {None}
      BY <1>1, <2>1 DEF IInv, TypeOK
    <3>3. ~escaped => a \in granted \cup {None} /\ a \in {None, target}
      BY <1>1, <2>1, <2>2, AddrAssumption DEF Expected, IInv, TypeOK, Lease, LeaseGranted, LeaseIsTarget, None
    <3> QED
      BY <1>1, <2>1, <3>1, <3>2, <3>3, BoundStep DEF policy
  <2>3. CASE ~Expected(slot.addr)
    <3>1. Changed(slot.addr, pc \in {"reboot", "request"})
      BY <1>4, <2>3 DEF Read
    <3>2. CASE Follows(slot.addr) /\ Bound(slot.addr) /\ UNCHANGED faults
      BY <1>1, <2>1, <3>2, AddrAssumption, BoundStep DEF Follows, None
    <3>3. CASE Refuses(slot.addr)
               /\ Failed(IF mode = "enforce" /\ pc \in {"reboot", "request"} THEN None ELSE held)
      <4>1. faults' \in 0 .. MaxFaults /\ UNCHANGED policy
        BY <1>1, <3>3, FaultTyped DEF IInv, Refuses
      <4> QED
        BY <1>1, <3>3, <4>1, FailedStep
    <3> QED
      BY <3>1, <3>2, <3>3 DEF Changed
  <2> QED
    BY <2>2, <2>3
<1> QED
  BY <1>1, <1>2, <1>3, <1>4 DEF Reply

(* The capture thread passes on what is of this exchange, and only that.      *)
LEMMA SniffStep == IInv /\ Sniff => IInv'
<1> SUFFICES ASSUME IInv, Sniff PROVE IInv'
  OBVIOUS
<1>1. PICK m \in wire :
         /\ wire' = wire \ {m}
         /\ IF Matches(m) THEN hand' = m /\ UNCHANGED observed
            ELSE /\ observed' = IF /\ mode = "follow" /\ held # None
                                   /\ m.kind = "ack" /\ m.addr \in Addr \ {held}
                                THEN m.addr ELSE observed
                 /\ UNCHANGED hand
  BY DEF Sniff
<1>2. UNCHANGED <<assigned, granted, asked, faults, alive, slot, policy, main, stopping, escaped>>
  BY DEF Sniff
<1>3. m \in Reply /\ (hand' = hand \/ (hand' = m /\ m.mine)) /\ (hand' = hand \/ tried = TRUE)
  BY <1>1 DEF IInv, TypeOK, Untried, Matches
<1>4. observed' = observed \/ (observed' = m.addr /\ m.kind = "ack" /\ m.addr \in Addr)
  BY <1>1
<1>5. Messages' \subseteq Messages
  BY <1>1, <1>2, <1>3 DEF Messages
<1>6. TypeOK'
  BY <1>1, <1>2, <1>3, <1>4 DEF IInv, TypeOK, policy, main
<1>7. Staged' /\ Untried'
  BY <1>1, <1>2, <1>3 DEF IInv, Staged, Untried, main, Limit
<1>8. Honest'
  BY <1>1, <1>2, <1>4, <1>5 DEF IInv, Honest, Messages, policy, main
<1>9. InOrder'
  BY <1>2, <1>3 DEF IInv, InOrder, Overtaken, main
<1>10. Lease'
  BY <1>2 DEF IInv, Lease, LeaseGranted, LeaseIsTarget, policy, main
<1> QED
  BY <1>6, <1>7, <1>8, <1>9, <1>10 DEF IInv

(* What is fed while a REQUEST or a renew waits is of that exchange.          *)
LEMMA FeedStep == IInv /\ Feed => IInv'
<1> SUFFICES ASSUME IInv, Feed PROVE IInv'
  OBVIOUS
<1>1. tried = TRUE /\ hand # NoMsg /\ hand' = NoMsg
      /\ (slot' = slot \/ (slot' = hand /\ hand.addr # Temporary))
      /\ UNCHANGED <<network, faults, alive, observed, policy, main, stopping, escaped>>
  BY DEF IInv, TypeOK, Untried, Feed, Kept
<1>2. Messages' \subseteq Messages \cup {NoMsg} /\ slot'.addr # Temporary
  BY <1>1 DEF Messages, network, IInv, Honest
<1>3. TypeOK'
  BY <1>1 DEF IInv, TypeOK, network, policy, main
<1>4. Staged' /\ Untried'
  BY <1>1 DEF IInv, Staged, Untried, main, Limit
<1>5. Honest'
  BY <1>1, <1>2 DEF IInv, Honest, network, policy, main, NoMsg
<1>6. InOrder'
  BY <1>1 DEF IInv, Staged, InOrder, Overtaken, main, Exchange
<1>7. Lease'
  BY <1>1 DEF IInv, Lease, LeaseGranted, LeaseIsTarget, network, policy, main
<1> QED
  BY <1>3, <1>4, <1>5, <1>6, <1>7 DEF IInv

(* Nothing else in the capture, the loop's flags or the network adds a reply. *)
LEMMA QuietStep ==
    IInv /\ (ThrottleEnds \/ Stop \/ CaptureDies \/ Missed \/ Lose \/ Renumber) => IInv'
<1> SUFFICES ASSUME IInv, ThrottleEnds \/ Stop \/ CaptureDies \/ Missed \/ Lose \/ Renumber
             PROVE  IInv'
  OBVIOUS
<1>1. faults' \in 0 .. MaxFaults
  BY FaultTyped DEF IInv, TypeOK, ThrottleEnds, Stop, CaptureDies, Missed, Lose, Renumber
<1>2. /\ assigned' \in Addr /\ wire' \subseteq wire /\ asked' \in {asked, NoMsg}
      /\ {alive', throttled', stopping'} \subseteq BOOLEAN
      /\ UNCHANGED <<granted, hand, slot, observed, mode, target, main, escaped>>
  BY DEF IInv, TypeOK, ThrottleEnds, Stop, CaptureDies, Missed, Lose, Renumber,
     network, capture, policy
<1>3. TypeOK'
  BY <1>1, <1>2 DEF IInv, TypeOK, main
<1>4. Staged' /\ Untried'
  BY <1>2 DEF IInv, Staged, Untried, main, Limit
<1>5. Honest'
  BY <1>2 DEF IInv, Honest, Messages, main
<1>6. InOrder'
  BY <1>2 DEF IInv, InOrder, Overtaken, main
<1>7. Lease'
  BY <1>2 DEF IInv, Lease, LeaseGranted, LeaseIsTarget, main
<1> QED
  BY <1>3, <1>4, <1>5, <1>6, <1>7 DEF IInv

(* A reply that joins those on their way, one the server granted if it is an  *)
(* ACK for an address.                                                        *)
LEMMA ReplyStep ==
    ASSUME IInv, NEW r \in Reply, wire' = wire \cup {r},
           granted' = granted \/ granted' = granted \cup {assigned},
           r.kind = "ack" /\ r.addr \in Addr => r.addr \in granted',
           r.kind = "offer" => r.addr # None,
           r.kind = "ack" /\ r.addr = None => tried /\ (pc = "reboot" => target \in granted'),
           r.mine => tried,
           asked' \in {asked, NoMsg}, faults' \in 0 .. MaxFaults,
           UNCHANGED <<assigned, capture, policy, main, stopping, escaped>>
    PROVE  IInv'
<1>1. TypeOK'
  BY DEF IInv, TypeOK, capture, policy, main
<1>2. Staged' /\ Untried'
  BY DEF IInv, Staged, Untried, capture, main, Limit
<1>3. Messages' = Messages \cup {r} /\ granted \subseteq granted'
  BY DEF Messages, capture
<1>4. Honest'
  BY <1>3 DEF IInv, Honest, capture, policy, main
<1>5. InOrder'
  BY DEF IInv, InOrder, Overtaken, capture, main
<1>6. Lease'
  BY DEF IInv, Lease, LeaseGranted, LeaseIsTarget, policy, main
<1> QED
  BY <1>1, <1>2, <1>4, <1>5, <1>6 DEF IInv

LEMMA AnswerStep == IInv /\ Answer => IInv'
<1> SUFFICES ASSUME IInv, Answer PROVE IInv'
  OBVIOUS
<1>1. tried = TRUE /\ asked \in Request /\ assigned \in Addr /\ assigned # None
      /\ asked' \in {asked, NoMsg} /\ faults' \in 0 .. MaxFaults
      /\ UNCHANGED <<assigned, capture, policy, main, stopping, escaped>>
  BY FaultTyped, AddrAssumption DEF IInv, TypeOK, Untried, Answer, None
<1>2. PICK r \in ServerReplies(asked) :
         /\ wire' = wire \cup {r}
         /\ granted' = IF r.kind = "ack" THEN granted \cup {assigned} ELSE granted
  BY DEF Answer
<1>3. \/ r = [kind |-> "offer", addr |-> assigned, mine |-> TRUE]
      \/ r = [kind |-> "ack", addr |-> assigned, mine |-> TRUE]
      \/ r = [kind |-> "nak", addr |-> None, mine |-> TRUE]
      \/ r = [kind |-> "ack", addr |-> None, mine |-> TRUE] /\ asked.addr = assigned
  <2>1. CASE asked.kind = "discover"
    BY <1>2, <2>1 DEF ServerReplies
  <2>2. CASE asked.kind # "discover" /\ asked.addr # assigned
    BY <1>2, <2>2 DEF ServerReplies
  <2>3. CASE asked.kind # "discover" /\ asked.addr = assigned
    BY <1>2, <2>3 DEF ServerReplies
  <2> QED
    BY <2>1, <2>2, <2>3
<1>4. r \in Reply
  <2>1. [kind |-> "offer", addr |-> assigned, mine |-> TRUE] \in Reply
    BY <1>1 DEF Reply
  <2>2. [kind |-> "ack", addr |-> assigned, mine |-> TRUE] \in Reply
    BY <1>1 DEF Reply
  <2>3. [kind |-> "nak", addr |-> None, mine |-> TRUE] \in Reply
        /\ [kind |-> "ack", addr |-> None, mine |-> TRUE] \in Reply
    BY DEF Reply
  <2> QED
    BY <1>3, <2>1, <2>2, <2>3
<1>5. r.mine /\ (r.kind = "ack" => r.addr = assigned \/ (r.addr = None /\ asked.addr = assigned))
      /\ (r.kind = "offer" => r.addr = assigned)
  BY <1>3
<1>6. r.kind = "ack" => assigned \in granted'
  BY <1>2
<1>7. granted' = granted \/ granted' = granted \cup {assigned}
  BY <1>2
<1>8. pc = "reboot" => asked.addr = target
  BY DEF IInv, Honest, Answer
<1>9. r.kind = "ack" /\ r.addr \in Addr => r.addr \in granted'
  BY <1>1, <1>5, <1>6, AddrAssumption DEF None
<1>10. r.kind = "ack" /\ r.addr = None => tried /\ (pc = "reboot" => target \in granted')
  BY <1>1, <1>5, <1>6, <1>8
<1>11. r.kind = "offer" => r.addr # None
  BY <1>1, <1>5
<1>12. wire' = wire \cup {r} /\ (r.mine => tried)
  BY <1>1, <1>2
<1> QED
  BY <1>1, <1>4, <1>7, <1>9, <1>10, <1>11, <1>12, ReplyStep

LEMMA IntrudeStep == IInv /\ Intrude => IInv'
<1> SUFFICES ASSUME IInv, Intrude PROVE IInv'
  OBVIOUS
<1>1. assigned \in Addr /\ assigned # None /\ faults' \in 0 .. MaxFaults /\ tried \in BOOLEAN
      /\ (asked # NoMsg => tried)
      /\ UNCHANGED <<assigned, asked, capture, policy, main, stopping, escaped>>
  BY FaultTyped, AddrAssumption DEF IInv, TypeOK, Untried, Intrude, None
<1>2. PICK r \in [kind : {"offer", "ack"}, addr : {Temporary}, mine : {asked # NoMsg}]
            \cup [kind : {"nak"}, addr : {None}, mine : {asked # NoMsg}]
            \cup [kind : {"ack"}, addr : {assigned}, mine : {FALSE}] :
         /\ wire' = wire \cup {r}
         /\ granted' = IF r.addr = assigned THEN granted \cup {assigned} ELSE granted
  BY DEF Intrude
<1>3. r \in Reply /\ (r.mine => tried)
      /\ (r.kind = "nak" \/ r.addr = Temporary \/ r.addr = assigned)
  BY <1>1, <1>2 DEF Reply
<1>4. Temporary \notin Addr /\ Temporary # None
  BY AddrAssumption DEF Temporary, None
<1> QED
  BY <1>1, <1>2, <1>3, <1>4, ReplyStep

(* The invariant is inductive.                                                *)
LEMMA StepIInv == IInv /\ [Next]_vars => IInv'
<1> SUFFICES ASSUME IInv, [Next]_vars PROVE IInv'
  OBVIOUS
<1>1. CASE MainStep
  BY <1>1, HeadStep, LoopStep, ObservedStep, GiveUpStep, SendStep, ReadStep, TimeoutStep DEF MainStep
<1>2. CASE SendFails \/ SnifferRaises
  BY <1>2, SendFailsStep, RaisesStep
<1>3. CASE Sniff \/ Feed
  BY <1>3, SniffStep, FeedStep
<1>4. CASE ThrottleEnds \/ Stop \/ CaptureDies \/ Missed \/ Lose \/ Renumber
  BY <1>4, QuietStep
<1>5. CASE Answer \/ Intrude
  BY <1>5, AnswerStep, IntrudeStep
<1>6. CASE UNCHANGED vars
  BY <1>6 DEF IInv, TypeOK, Staged, Untried, Honest, Messages, InOrder, Overtaken,
     Lease, LeaseGranted, LeaseIsTarget, vars, network, capture, policy, main, Limit
<1> QED
  BY <1>1, <1>2, <1>3, <1>4, <1>5, <1>6 DEF Next

LEMMA AlwaysIInv == Spec => []IInv
  BY InitIInv, StepIInv, PTL DEF Spec

-----------------------------------------------------------------------------

(* Every variable stays in its type: no attempt counter leaves its range and  *)
(* no temporary lease becomes the address of the binding.                     *)
THEOREM TypeCorrect == Spec => []TypeOK
<1>1. IInv => TypeOK
  BY DEF IInv
<1> QED
  BY <1>1, AlwaysIInv, PTL

(* Once no DORA has its offer parked, the binding holds nothing the server    *)
(* has not acknowledged (Read, GiveUp, CheckObserved).                        *)
THEOREM LeaseGrantedAlways == Spec => []LeaseGranted
<1>1. IInv => LeaseGranted
  BY DEF IInv, Lease
<1> QED
  BY <1>1, AlwaysIInv, PTL

(* The address of the lease and the VIP never differ (Changed, Follows).      *)
THEOREM LeaseIsTargetAlways == Spec => []LeaseIsTarget
<1>1. IInv => LeaseIsTarget
  BY DEF IInv, Lease
<1> QED
  BY <1>1, AlwaysIInv, PTL

(* No late ACK of an exchange that is over binds or extends a lease.          *)
THEOREM AcksOwnExchangeAlways == Spec => AcksOwnExchange
<1>1. ASSUME IInv, [Next]_vars PROVE [Read /\ slot.kind = "ack" => slot.mine]_vars
  <2>1. ASSUME Read, slot.kind = "ack" PROVE slot.mine
    BY <1>1, <2>1 DEF IInv, InOrder, Read, Answers, Want
  <2> QED
    BY <2>1
<1> QED
  BY <1>1, AlwaysIInv, PTL DEF Spec, AcksOwnExchange

-----------------------------------------------------------------------------
(* The refinement of HeldLease. *)

(* The lease as HeldLease sees it. *)
Lent == IF pc = "request" THEN None ELSE held

LEMMA LentAtInit == Init => Binding!Init
BY DEF Init, Binding!Init

(* Only an accepted change of address moves the VIP, to the address then held. *)
LEMMA VipFollows ==
    ASSUME IInv, [Next]_vars, target' # target
    PROVE  /\ mode = "follow" /\ UNCHANGED <<mode, granted>>
           /\ Lent' = target'
<1>1. CASE CheckObserved
  BY <1>1 DEF CheckObserved, Follows, Refuses, policy, network, Lent
<1>2. CASE Read
  <2>1. PICK a \in {slot.addr} : Follows(a) /\ Bound(a)
    BY <1>2 DEF Read, Changed, Refuses, policy
  <2> QED
    BY <1>2, <2>1 DEF Read, Follows, Bound, Lent
<1>3. ~CheckObserved /\ ~Read => UNCHANGED target
  BY DEF Next, MainStep, Head, Renew, Rebind, Expire, Pause, GiveUp, Send, Timeout, SendFails,
         SnifferRaises, ThrottleEnds, Stop, Sniff, Feed, CaptureDies, Missed, Answer, Intrude, Lose,
         Renumber, vars, policy
<1> QED
  BY <1>1, <1>2, <1>3

(* An acknowledgement of the server leaves the keeper as it is. *)
LEMMA GrantsApart ==
    ASSUME IInv, [Next]_vars, granted' # granted
    PROVE  /\ \E a \in Addr : granted' = granted \cup {a}
           /\ UNCHANGED <<mode, target, escaped>> /\ Lent' = Lent
<1>1. CASE Answer
  BY <1>1 DEF Answer, IInv, TypeOK, policy, main, Lent
<1>2. CASE Intrude
  BY <1>2 DEF Intrude, IInv, TypeOK, policy, main, Lent
<1>3. ~Answer /\ ~Intrude => UNCHANGED granted
  BY DEF Next, MainStep, Head, Renew, Rebind, Expire, Pause, CheckObserved, GiveUp, Send, Read,
         Timeout, SendFails, SnifferRaises, ThrottleEnds, Stop, Sniff, Feed, CaptureDies, Missed,
         Lose, Renumber, vars, network
<1> QED
  BY <1>1, <1>2, <1>3

LEMMA PolicyFixed == [Next]_vars => UNCHANGED mode
BY DEF Next, MainStep, Head, Renew, Rebind, Expire, Pause, CheckObserved, GiveUp, Send, Read, Timeout,
       SendFails, SnifferRaises, ThrottleEnds, Stop, Sniff, Feed, CaptureDies, Missed, Answer, Intrude,
       Lose, Renumber, Changed, Follows, Refuses, vars, policy

(* What a step makes of the lease follows from what the invariant says of it   *)
(* before and after.                                                           *)
LEMMA LentStep == IInv /\ IInv' /\ [Next]_vars => [Binding!Next \/ escaped']_(Binding!vars)
<1> SUFFICES ASSUME IInv, IInv', [Next]_vars, ~escaped'
             PROVE  [Binding!Next]_(Binding!vars)
  OBVIOUS
<1>1. ~escaped /\ escaped' = escaped
  <2>1. escaped \in BOOLEAN /\ escaped' \in BOOLEAN
    BY DEF IInv, TypeOK
  <2>2. escaped' = escaped \/ escaped' = (escaped \/ pc = "request")
    BY DEF Next, MainStep, Head, Renew, Rebind, Expire, Pause, CheckObserved, GiveUp, Send, Read,
           Timeout, SendFails, SnifferRaises, ThrottleEnds, Stop, Sniff, Feed, CaptureDies, Missed,
           Answer, Intrude, Lose, Renumber, vars
  <2> QED
    BY <2>1, <2>2
<1>2. /\ Lent \in {None, target} /\ Lent \in granted \cup {None}
      /\ Lent' \in {None, target'} /\ Lent' \in granted' \cup {None}
  BY <1>1 DEF IInv, Lease, LeaseGranted, LeaseIsTarget, Lent
<1>3. UNCHANGED mode
  BY PolicyFixed
<1>4. CASE granted' # granted
  BY <1>4, <1>1, GrantsApart DEF Binding!Next, Binding!Acknowledge, Lent
<1>5. CASE target' # target
  <2>1. mode = "follow" /\ granted' = granted /\ Lent' = target' /\ target' \in Addr
    BY <1>5, VipFollows DEF IInv, TypeOK
  <2>2. Lent' \in granted
    BY <1>2, <2>1, AddrAssumption DEF None
  <2> QED
    BY <1>1, <1>3, <2>1, <2>2 DEF Binding!Next, Binding!Follow, Lent
<1>6. CASE granted' = granted /\ target' = target
  <2>1. CASE Lent' = None
    BY <1>1, <1>3, <1>6, <2>1 DEF Binding!Next, Binding!Lose, Lent
  <2>2. CASE Lent = None /\ Lent' # None
    BY <1>1, <1>2, <1>3, <1>6, <2>2 DEF Binding!Next, Binding!Win, Lent
  <2>3. CASE Lent # None /\ Lent' # None
    BY <1>1, <1>2, <1>3, <1>6, <2>3 DEF Binding!vars, Lent
  <2> QED
    BY <2>1, <2>2, <2>3
<1> QED
  BY <1>4, <1>5, <1>6

(* For any addresses, attempts and failures the exchanges win, follow and lose *)
(* the lease as HeldLease promises: in particular the VIP moves only under a   *)
(* policy that follows, and only to the acknowledged address of the lease.     *)
THEOREM ImplementsHeldLeaseAlways == Spec => ImplementsHeldLease
BY LentAtInit, LentStep, AlwaysIInv, PTL DEF Spec, ImplementsHeldLease, Binding!Safe

-----------------------------------------------------------------------------
(***************************************************************************)
(* LeaseClock, for all options a server may send and any default lease: how  *)
(* long a lease is held that these exchanges won.                            *)
(***************************************************************************)

(* What is left to count before the lease is given up, in ticks.              *)
Gap == T2 * Grain - elapsed

(* How far age a may have run ahead of what is counted, e ticks: what is      *)
(* counted beyond t is a third of what passed, but for 13 seconds of each of  *)
(* the h short waits and c seconds of an attempt made last or being made.     *)
Ahead(a, t, h, c, e, g) == (a - t - 13 * h - c) * g <= 3 * (e - t * g)

Lag(c) == Ahead(age, T1, short, c, elapsed, Grain)

(* The invariant: a full wait of at least 7.5 counted seconds pays for the    *)
(* second it is rounded up by and for the 12 seconds of the attempt it leads  *)
(* to; a short one pays for nothing, but divides the gap by four.             *)
Behind ==
    /\ phase = "hold" => age = 0
    /\ phase = "renew" => age <= T1 + 4 * attempt
    /\ phase \in {"hold", "renew"} => short = 0 /\ scale = 1
    /\ phase \in {"rebind", "rebinding"} =>
         /\ 0 <= 4 * Gap + 10 * Grain + 2
         /\ scale = 1 \/ (3 * Gap - 2) * scale <= 30 * Grain - 2
    /\ phase = "rebind" => Lag(12)
    /\ phase = "rebinding" => Lag(4 * attempt)
    /\ phase \in {"hold", "rebind"} => attempt = 0
    /\ scale <= 120 * Grain

ClockIInv == ClockTypeOK /\ Behind

USE OptionsAssumption, DefaultAssumption, GrainAssumption
USE DEF MIN_T1, MIN_LEASE, REBIND_MARGIN, REBIND_POLL_STEP, RENEW_ATTEMPTS, RENEW_TIMEOUT, RESTART

(* Products are monotonic in one factor, and comparing them compares it. *)
LEMMA Times ==
    ASSUME NEW a \in Int, NEW b \in Int, NEW c \in Nat, a <= b
    PROVE  a * c <= b * c
<1>1. 0 <= (b - a) * c
  OBVIOUS
<1> QED
  BY <1>1

LEMMA Divide ==
    ASSUME NEW a \in Int, NEW b \in Int, NEW c \in Nat \ {0}, a * c <= b * c
    PROVE  a <= b
<1> SUFFICES ASSUME b + 1 <= a PROVE FALSE
  OBVIOUS
<1>1. (b + 1) * c <= a * c
  BY Times
<1> QED
  BY <1>1

(* The timers of any lease the floor let through. *)
LEMMA LeaseTimers ==
    ASSUME ClockTypeOK, phase # "unbound"
    PROVE  /\ T1 \in Int /\ T2 \in Int
           /\ 30 <= T1 /\ T1 <= T2 /\ T2 <= lease
           /\ T1 + REBIND_MARGIN <= lease => T2 >= T1 + REBIND_MARGIN
<1>1. lease \in Int /\ lease >= 60 /\ t1_server \in Int /\ t2_server \in Int
      /\ t1_server >= 0 /\ t2_server >= 0
  BY DEF ClockTypeOK
<1>2. PICK h \in Int : h = IF t1_server # 0 THEN t1_server ELSE lease \div 2
  BY <1>1
<1>3. T1 = Largest(30, Least(h, lease))
  BY <1>1, <1>2 DEF T1
<1>4. T1 \in Int /\ 30 <= T1 /\ T1 <= lease
  BY <1>1, <1>2, <1>3 DEF Largest, Least
<1>5. PICK k \in Int : k = IF t2_server # 0 THEN t2_server ELSE (7 * lease) \div 8
  BY <1>1
<1>6. T2 = Least(Largest(T1 + 15, k), lease)
  BY <1>5 DEF T2, Cap
<1> QED
  BY <1>1, <1>4, <1>5, <1>6 DEF Largest, Least

LEMMA ClockInitIInv == ClockInit => ClockIInv
BY DEF ClockInit, ClockIInv, ClockTypeOK, Behind

(* The terms of an ACK are well-formed and the clock starts. *)
LEMMA AbsorbIInv ==
    ASSUME NEW default \in Nat, Absorb(default), elapsed \in Nat, UNCHANGED elapsed
    PROVE  ClockIInv'
BY DEF Absorb, Floor, Largest, ClockIInv, ClockTypeOK, Behind

(* The lag is kept while the age grows by no more than what is allowed for. *)
LEMMA LagKept ==
    ASSUME NEW a \in Int, NEW b \in Int, NEW t \in Int, NEW h \in Int, NEW e \in Int,
           NEW c \in Int, NEW d \in Int, NEW g \in Nat,
           Ahead(a, t, h, c, e, g), b <= a + (d - c)
    PROVE  Ahead(b, t, h, d, e, g)
<1>1. (b - t - 13 * h - d) * g <= (a - t - 13 * h - c) * g
  BY Times
<1> QED
  BY <1>1 DEF Ahead

(* At T1 the age may be ahead by one attempt. *)
LEMMA LagAtT1 ==
    ASSUME NEW b \in Int, NEW t \in Int, NEW g \in Nat, b <= t + 12
    PROVE  Ahead(b, t, 0, 12, t * g, g)
<1>1. (b - t - 12) * g <= 0 * g
  BY Times
<1> QED
  BY <1>1 DEF Ahead

(* A renew() that went unanswered took 12 seconds at most. *)
LEMMA GivesUp ==
    ASSUME ClockIInv, phase \in {"renew", "rebinding"}, Unanswered, UNCHANGED <<terms, shorts>>,
           age' \in Nat, age' <= age + (12 - 4 * attempt)
    PROVE  ClockIInv'
<1>1. /\ T1 \in Int /\ T2 \in Int /\ T1 <= T2 /\ T1' = T1 /\ T2' = T2 /\ 30 <= T1
      /\ age \in Nat /\ elapsed \in Nat /\ short \in Nat /\ scale \in Nat \ {0}
      /\ attempt \in 0 .. 2
      /\ short' = short /\ scale' = scale /\ phase' = "rebind" /\ attempt' = 0
  BY LeaseTimers DEF ClockIInv, ClockTypeOK, Unanswered, terms, shorts, T1, T2, Cap
<1>2. elapsed' \in Nat
  BY <1>1 DEF Unanswered
<1>3. ClockTypeOK'
  BY <1>1, <1>2 DEF ClockIInv, ClockTypeOK, terms
<1>4. CASE phase = "renew"
  <2>1. elapsed' = T1 * Grain /\ short = 0 /\ scale = 1 /\ age' <= T1 + 12
    BY <1>1, <1>4 DEF Unanswered, ClockIInv, Behind
  <2>2. T1 * Grain <= T2 * Grain
    BY <1>1, Times
  <2>3. Ahead(age', T1, 0, 12, T1 * Grain, Grain)
    BY <1>1, <2>1, LagAtT1
  <2>4. Lag(12)'
    BY <1>1, <2>1, <2>3 DEF Lag
  <2>5. Gap' = T2 * Grain - T1 * Grain
    BY <1>1, <2>1 DEF Gap
  <2>6. 0 <= 4 * Gap' + 10 * Grain + 2
    BY <1>1, <2>2, <2>5
  <2> QED
    BY <1>1, <1>3, <2>1, <2>4, <2>6 DEF ClockIInv, Behind
<1>5. CASE phase = "rebinding"
  <2>1. elapsed' = elapsed /\ Lag(4 * attempt)
    BY <1>5 DEF Unanswered, ClockIInv, Behind
  <2>2. Ahead(age, T1, short, 4 * attempt, elapsed, Grain)
    BY <2>1 DEF Lag
  <2>3. 4 * attempt \in Int /\ age' <= age + (12 - 4 * attempt)
    BY <1>1
  <2>4. Ahead(age', T1, short, 12, elapsed, Grain)
    BY <1>1, <2>2, <2>3, LagKept
  <2>5. Lag(12)'
    BY <1>1, <2>1, <2>4 DEF Lag
  <2>6. Gap' = Gap
    BY <1>1, <2>1 DEF Gap
  <2> QED
    BY <1>1, <1>3, <1>5, <2>5, <2>6 DEF ClockIInv, Behind
<1> QED
  BY <1>4, <1>5

LEMMA ClockStepIInv == ClockIInv /\ [ClockNext]_clock => ClockIInv'
<1> SUFFICES ASSUME ClockIInv, [ClockNext]_clock PROVE ClockIInv'
  OBVIOUS
<1> USE DEF ClockIInv
<1>1. CASE Bind
  BY <1>1, AbsorbIInv DEF Bind, ClockTypeOK
<1>2. CASE Answered
  BY <1>2, AbsorbIInv DEF Answered, ClockTypeOK
<1>3. CASE Hold
  <2>1. T1' = T1 /\ T1 \in Int /\ 30 <= T1
    BY <1>3, LeaseTimers DEF Hold, terms, T1
  <2>2. PICK w \in 0 .. T1 : age' = age + w
    BY <1>3 DEF Hold
  <2>3. age' <= T1 /\ age' \in Nat
    BY <1>3, <2>1, <2>2 DEF Hold, ClockTypeOK, Behind
  <2> QED
    BY <1>3, <2>1, <2>3 DEF Hold, terms, shorts, ClockTypeOK, Behind
<1>4. CASE Refused
  BY <1>4 DEF Refused, terms, shorts, ClockTypeOK, Behind
<1>5. CASE Silent
  <2>1. /\ T1' = T1 /\ T1 \in Int /\ T2' = T2 /\ T2 \in Int /\ T1 <= T2
        /\ age' \in Nat /\ age' <= age + 4 /\ attempt \in 0 .. 2
        /\ phase \in {"renew", "rebinding"}
    BY <1>5, LeaseTimers DEF Silent, terms, T1, T2, Cap, ClockTypeOK
  <2>2. CASE attempt + 1 < 3
    <3>1. /\ attempt' = attempt + 1 /\ UNCHANGED <<phase, elapsed, terms, shorts>>
          /\ attempt' \in 0 .. 2
      BY <1>5, <2>1, <2>2 DEF Silent
    <3>2. phase = "rebinding" => Lag(4 * attempt)'
      <4> SUFFICES ASSUME phase = "rebinding" PROVE Lag(4 * attempt)'
        OBVIOUS
      <4>1. Ahead(age, T1, short, 4 * attempt, elapsed, Grain)
        BY DEF Behind, Lag
      <4>2. /\ 4 * attempt \in Int /\ 4 * (attempt + 1) \in Int
            /\ age + (4 * (attempt + 1) - 4 * attempt) = age + 4
            /\ age \in Int /\ short \in Int /\ elapsed \in Int
        BY <2>1 DEF ClockTypeOK
      <4>3. Ahead(age', T1, short, 4 * (attempt + 1), elapsed, Grain)
        BY <2>1, <4>1, <4>2, LagKept
      <4> QED
        BY <2>1, <3>1, <4>3 DEF Lag, shorts
    <3>3. phase = "renew" => age' <= T1' + 4 * attempt'
      BY <2>1, <3>1 DEF Behind, ClockTypeOK
    <3> QED
      BY <1>5, <2>1, <3>1, <3>2, <3>3 DEF Silent, terms, shorts, ClockTypeOK, Behind, Gap
  <2>3. CASE ~(attempt + 1 < 3)
    <3>1. Unanswered /\ UNCHANGED <<terms, shorts>>
      BY <1>5, <2>3 DEF Silent
    <3>2. age' <= age + (12 - 4 * attempt)
      BY <2>1, <2>3 DEF ClockTypeOK
    <3> QED
      BY <2>1, <3>1, <3>2, GivesUp
  <2> QED
    BY <2>2, <2>3
<1>6. CASE Futile
  <2>1. Unanswered /\ UNCHANGED <<terms, shorts>> /\ phase \in {"renew", "rebinding"}
    BY <1>6 DEF Futile
  <2>2. age' \in Nat /\ age' <= age + (12 - 4 * attempt)
    BY <1>6 DEF Futile, ClockTypeOK
  <2> QED
    BY <2>1, <2>2, GivesUp
<1>7. CASE RebindWait
  <2>1. /\ T1' = T1 /\ T1 \in Int /\ T2' = T2 /\ T2 \in Int
        /\ age \in Nat /\ elapsed \in Nat /\ short \in Nat /\ scale \in Nat \ {0}
        /\ phase = "rebind" /\ attempt = 0
    BY <1>7, LeaseTimers DEF RebindWait, terms, T1, T2, Cap, ClockTypeOK, Behind
  <2>2. Gap \in Int /\ Gap > 0
    BY <1>7, <2>1 DEF RebindWait, Gap
  <2>3. PICK step \in Int, s \in Int :
          /\ step > 0 /\ 3 * Least(10 * Grain, Gap) <= 4 * step + 2
          /\ 4 * step <= 5 * Least(10 * Grain, Gap) + 2
          /\ elapsed' = elapsed + step
          /\ s >= 0 /\ (s - 1) * Grain < step /\ age' = age + s
    BY <1>7 DEF RebindWait, Advance, Jittered, Selects, Gap
  <2>4. /\ Gap <= 10 * Grain =>
             /\ short' = short + 1 /\ scale' = 4 * scale
             /\ 3 * Gap <= 4 * step + 2 /\ 4 * step <= 5 * Gap + 2
        /\ ~(Gap <= 10 * Grain) =>
             /\ short' = short /\ scale' = scale
             /\ 30 * Grain <= 4 * step + 2 /\ 4 * step <= 50 * Grain + 2
    <3>1. Gap <= 10 * Grain => Least(10 * Grain, Gap) = Gap
      BY <2>2 DEF Least
    <3>2. ~(Gap <= 10 * Grain) => Least(10 * Grain, Gap) = 10 * Grain
      BY <2>2 DEF Least
    <3> QED
      BY <1>7, <2>3, <3>1, <3>2 DEF RebindWait, Gap
  <2>5. Gap' = Gap - step
    BY <2>1, <2>3 DEF Gap
  <2>6. 0 <= 4 * Gap' + 10 * Grain + 2
    BY <2>2, <2>3, <2>4, <2>5
  <2>7. scale = 1 \/ (3 * Gap - 2) * scale <= 30 * Grain - 2
    BY <2>1 DEF Behind
  <2>8. /\ scale' = 1 \/ (3 * Gap' - 2) * scale' <= 30 * Grain - 2
        /\ scale' <= 120 * Grain
    <3>1. CASE Gap <= 10 * Grain
      <4>1. (3 * Gap - 2) * scale <= 30 * Grain - 2
        BY <2>2, <2>7, <3>1
      <4>2. 4 * (3 * Gap' - 2) <= 3 * Gap - 2
        BY <2>2, <2>3, <2>4, <2>5, <3>1
      <4>3. 4 * (3 * Gap' - 2) \in Int /\ 3 * Gap - 2 \in Int /\ 1 <= 3 * Gap - 2
        BY <2>2, <2>3, <2>5
      <4>4. (4 * (3 * Gap' - 2)) * scale <= (3 * Gap - 2) * scale
        BY <2>1, <4>2, <4>3, Times
      <4>5. 1 * scale <= (3 * Gap - 2) * scale
        BY <2>1, <4>3, Times
      <4>6. (3 * Gap' - 2) * (4 * scale) = (4 * (3 * Gap' - 2)) * scale
        BY <2>1, <2>2, <2>3, <2>5
      <4>7. scale' = 4 * scale
        BY <2>4, <3>1
      <4> QED
        BY <2>1, <2>2, <2>3, <2>5, <4>1, <4>4, <4>5, <4>6, <4>7
    <3>2. CASE ~(Gap <= 10 * Grain)
      <4>1. 3 * Gap' - 2 <= 3 * Gap - 2 /\ 3 * Gap' - 2 \in Int /\ 3 * Gap - 2 \in Int
        BY <2>2, <2>3, <2>5
      <4>2. (3 * Gap' - 2) * scale <= (3 * Gap - 2) * scale
        BY <2>1, <4>1, Times
      <4> QED
        BY <2>1, <2>2, <2>3, <2>4, <2>5, <2>7, <3>2, <4>1, <4>2 DEF Behind
    <3> QED
      BY <3>1, <3>2
  <2>9. Lag(0)'
    <3>1. Lag(12)
      BY <2>1 DEF Behind
    <3>2. CASE Gap <= 10 * Grain
      <4>1. short' = short + 1
        BY <2>4, <3>2
      <4>2. (age' - T1 - 13 * (short + 1)) * Grain
              = (age - T1 - 13 * short - 12) * Grain + (s - 1) * Grain
        BY <2>1, <2>3
      <4> QED
        BY <2>1, <2>3, <3>1, <4>1, <4>2 DEF Lag, Ahead
    <3>3. CASE ~(Gap <= 10 * Grain)
      <4>1. short' = short
        BY <2>4, <3>3
      <4>2. (age' - T1 - 13 * short) * Grain
              = (age - T1 - 13 * short - 12) * Grain + (s - 1) * Grain + 13 * Grain
        BY <2>1, <2>3
      <4>3. 15 * Grain <= 2 * step + 1
        BY <2>3, <2>4, <3>3
      <4> QED
        BY <2>1, <2>3, <3>1, <4>1, <4>2, <4>3 DEF Lag, Ahead
    <3> QED
      BY <3>2, <3>3
  <2>10. attempt' = 0 /\ phase' = "rebinding" /\ UNCHANGED terms
    BY <1>7, <2>1 DEF RebindWait
  <2>11. short' \in Nat /\ scale' \in Nat \ {0} /\ age' \in Nat /\ elapsed' \in Nat
    BY <2>1, <2>3, <2>4
  <2>12. ClockTypeOK'
    BY <2>1, <2>10, <2>11 DEF terms, ClockTypeOK
  <2>13. Lag(4 * attempt)'
    <3>1. 4 * attempt' = 0
      BY <2>10
    <3> QED
      BY <2>9, <3>1 DEF Lag
  <2>14. Behind'
    BY <2>6, <2>8, <2>10, <2>13 DEF Behind
  <2> QED
    BY <2>12, <2>14
<1>8. CASE LeaseEnds
  BY <1>8 DEF LeaseEnds, terms, shorts, ClockTypeOK, Behind
<1>9. CASE UNCHANGED clock
  BY <1>9 DEF clock, terms, shorts, ClockTypeOK, Behind, Lag, Ahead, Gap, T1, T2, Cap
<1> QED
  BY <1>1, <1>2, <1>3, <1>4, <1>5, <1>6, <1>7, <1>8, <1>9 DEF ClockNext

(* How far the lease's age may be ahead of what _renew_bound_lease counts, at  *)
(* each point of the hold and the REBIND loop.                                 *)
THEOREM ClockInvariant == ClockSpec => []ClockIInv
BY ClockInitIInv, ClockStepIInv, PTL DEF ClockSpec

(* The clock stays in its types: ages are whole seconds, what is counted is    *)
(* whole ticks, no option leads out of a lease.                                *)
THEOREM ClockTypeCorrect == ClockSpec => []ClockTypeOK
<1>1. ClockIInv => ClockTypeOK
  BY DEF ClockIInv
<1> QED
  BY <1>1, ClockInvariant, PTL

(* timing() keeps T1 and T2 in order and within the lease whatever options   *)
(* 51, 58 and 59 say: a consequence of the floors and caps alone.            *)
THEOREM TimersOrderedAlways == ClockSpec => []TimersOrdered
<1>1. ClockIInv => TimersOrdered
  BY LeaseTimers DEF ClockIInv, TimersOrdered, ClockTypeOK
<1> QED
  BY <1>1, ClockInvariant, PTL

(* The REBIND loop counts its waits and not its attempts; Behind bounds what *)
(* that adds up to, for every lease and every grain of its floats, with the  *)
(* waits near T2, which count next to nothing, named and limited.            *)
THEOREM OverrunBoundedAlways == ClockSpec => []OverrunBounded
<1>1. ASSUME ClockIInv, phase # "unbound"
      PROVE  age <= T2 + 2 * (T2 - T1) + 21 + 13 * short
  <2>1. T1 \in Int /\ T2 \in Int /\ 30 <= T1 /\ T1 <= T2
    BY <1>1, LeaseTimers DEF ClockIInv
  <2>2. age \in Nat /\ elapsed \in Nat /\ attempt \in 0 .. 2 /\ short \in Nat
    BY <1>1 DEF ClockIInv, ClockTypeOK
  <2>3. CASE phase \in {"hold", "renew"}
    BY <1>1, <2>1, <2>2, <2>3 DEF ClockIInv, Behind
  <2>4. CASE phase \in {"rebind", "rebinding"}
    <3>1. PICK c \in 0 .. 12 : Lag(c)
      <4>1. CASE phase = "rebind"
        BY <1>1, <4>1 DEF ClockIInv, Behind
      <4>2. CASE phase = "rebinding"
        <5>1. 4 * attempt \in 0 .. 12
          BY <2>2
        <5> QED
          BY <1>1, <4>2, <5>1 DEF ClockIInv, Behind
      <4> QED
        BY <2>4, <4>1, <4>2
    <3>2. 4 * elapsed <= 4 * (T2 * Grain) + 10 * Grain + 2
      BY <1>1, <2>1, <2>2, <2>4 DEF ClockIInv, Behind, Gap
    <3>3. (age - T1 - 13 * short - c) * Grain <= (3 * (T2 - T1) + 9) * Grain
      <4>1. (3 * (T2 - T1) + 9) * Grain = 3 * (T2 * Grain) - 3 * (T1 * Grain) + 9 * Grain
        BY <2>1
      <4>2. 3 * (elapsed - T1 * Grain) <= 3 * (T2 * Grain) - 3 * (T1 * Grain) + 9 * Grain
        BY <2>1, <2>2, <3>2
      <4> QED
        BY <2>1, <2>2, <3>1, <4>1, <4>2 DEF Lag, Ahead
    <3>4. age - T1 - 13 * short - c <= 3 * (T2 - T1) + 9
      <4>1. age - T1 - 13 * short - c \in Int /\ 3 * (T2 - T1) + 9 \in Int
        BY <2>1, <2>2
      <4> QED
        BY <3>3, <4>1, Divide
    <3> QED
      BY <2>1, <2>2, <3>4
  <2> QED
    BY <1>1, <2>3, <2>4 DEF ClockIInv, ClockTypeOK
<1>2. ClockIInv => scale <= 120 * Grain
  BY DEF ClockIInv, Behind
<1> QED
  BY <1>1, <1>2, ClockInvariant, PTL DEF OverrunBounded
=============================================================================
