----------------------------- MODULE LeaseClock -----------------------------
(***************************************************************************)
(* How long a keeper that stays master goes on holding a lease whose       *)
(* server falls silent: the timers it takes from the ACK (dhcpclient.py,   *)
(* timing and _absorb_reply) and the time its waits and its DHCP attempts  *)
(* really take, against the time it counts (keeper.py, _hold_lease and     *)
(* _renew_bound_lease).  Time starts at the ACK.  What passes is in whole  *)
(* seconds, the length of a select and of a receive timeout; what is       *)
(* counted is a float, here a number of ticks of 1/Grain second, to which  *)
(* a jittered wait is rounded.  The commands the upkeep runs between two   *)
(* waits take no time here.                                                *)
(***************************************************************************)
EXTENDS Integers

CONSTANTS
    LeaseTimes,     \* option 51 of the server's ACKs, 0 for none
    RenewalTimes,   \* option 58, 0 for none
    RebindingTimes, \* option 59, 0 for none
    DefaultLease,   \* DEFAULT_LEASE
    Grain           \* the ticks of a second that a float keeps apart

ASSUME OptionsAssumption ==
    LeaseTimes \subseteq Nat /\ RenewalTimes \subseteq Nat /\ RebindingTimes \subseteq Nat
ASSUME DefaultAssumption == DefaultLease \in Nat \ {0}
ASSUME GrainAssumption == Grain \in Nat \ {0}

MIN_T1           == 30
MIN_LEASE        == 60
REBIND_MARGIN    == 15
REBIND_POLL_STEP == 10
RENEW_ATTEMPTS   == 3
RENEW_TIMEOUT    == 3
RESTART          == 1   \* _ensure_sniffer: the sleep after a restart

VARIABLES
    phase,      \* "unbound", "hold", "renew", "rebind" (wait), "rebinding" (attempt)
    lease,      \* binding.lease_secs
    t1_server, t2_server,
    age,        \* seconds since the ACK of the lease
    elapsed,    \* _renew_bound_lease: what it counts towards T2, in ticks
    attempt,    \* REQUESTs this renew() sent without an answer
    short,      \* history: waits of this lease begun within REBIND_POLL_STEP of T2
    scale       \* history: 4^short

terms == <<lease, t1_server, t2_server>>
shorts == <<short, scale>>
clock == <<phase, terms, age, elapsed, attempt, shorts>>

ClockTypeOK ==
    /\ phase \in {"unbound", "hold", "renew", "rebind", "rebinding"}
    /\ lease \in Nat /\ (phase # "unbound" => lease >= MIN_LEASE)
    /\ t1_server \in Nat /\ t2_server \in Nat
    /\ age \in Nat /\ elapsed \in Nat
    /\ attempt \in 0 .. RENEW_ATTEMPTS - 1
    /\ short \in Nat /\ scale \in Nat \ {0}

Least(a, b)   == IF a < b THEN a ELSE b
Largest(a, b) == IF a > b THEN a ELSE b

(* timing(): options 58 and 59 if present, otherwise 0.5 and 0.875 of the    *)
(* lease; then both forced into the lease, T2 behind T1.                     *)
T1 == LET t == Least(IF t1_server # 0 THEN t1_server ELSE lease \div 2, lease)
      IN IF lease > MIN_T1 THEN Largest(MIN_T1, t) ELSE t

\* Mutant: T2 past the end of the lease.
MutCap(t) == t
Cap(t) == Least(t, lease)

T2 == Cap(Largest(T1 + REBIND_MARGIN,
                  IF t2_server # 0 THEN t2_server ELSE (7 * lease) \div 8))

ClockInit ==
    /\ phase = "unbound"
    /\ lease = DefaultLease /\ t1_server = 0 /\ t2_server = 0
    /\ age = 0 /\ elapsed = 0 /\ attempt = 0
    /\ short = 0 /\ scale = 1

-----------------------------------------------------------------------------

Floor(secs) == Largest(secs, MIN_LEASE)

(* _absorb_reply: the terms of an ACK; without option 51 the lease is        *)
(* default long.                                                             *)
Absorb(default) ==
    /\ \E secs \in LeaseTimes : lease' = Floor(IF secs # 0 THEN secs ELSE default)
    /\ t1_server' \in RenewalTimes /\ t2_server' \in RebindingTimes
    /\ age' = 0 /\ attempt' = 0
    /\ short' = 0 /\ scale' = 1
    /\ phase' = "hold"

Bind ==
    /\ phase = "unbound"
    /\ Absorb(DefaultLease)
    /\ UNCHANGED elapsed

(* _hold_lease: the wait until T1, cut short by an early renew.              *)
Hold ==
    /\ phase = "hold"
    /\ \E w \in 0 .. T1 : age' = age + w
    /\ phase' = "renew"
    /\ UNCHANGED <<terms, elapsed, attempt, shorts>>

(* renew(): an attempt is answered with an ACK, for this address or for one  *)
(* that is adopted, ...                                                      *)
Answered ==
    /\ phase \in {"renew", "rebinding"}
    /\ \E default \in {lease, DefaultLease} : Absorb(default)
    /\ UNCHANGED elapsed

(* ... with a NAK, ... *)
Refused ==
    /\ phase \in {"renew", "rebinding"}
    /\ phase' = "unbound" /\ attempt' = 0
    /\ UNCHANGED <<terms, age, elapsed, shorts>>

(* What a renew() that got no answer goes on with: a RENEW, which is taken   *)
(* to have begun at T1, with the REBIND wait.                                *)
Unanswered ==
    /\ phase' = "rebind" /\ attempt' = 0
    /\ elapsed' = IF phase = "renew" THEN T1 * Grain ELSE elapsed

(* ... or not at all; the last one ends it.  An attempt waits its timeout, a *)
(* second longer when it finds the capture down and restarts it.             *)
Silent ==
    /\ phase \in {"renew", "rebinding"}
    /\ age' \in {age + RENEW_TIMEOUT, age + RENEW_TIMEOUT + RESTART}
    /\ IF attempt + 1 < RENEW_ATTEMPTS
       THEN attempt' = attempt + 1 /\ UNCHANGED <<phase, elapsed>>
       ELSE Unanswered
    /\ UNCHANGED <<terms, shorts>>

(* A REQUEST that cannot be sent, or an ACK for an address the policy        *)
(* refuses, ends it at once.                                                 *)
Futile ==
    /\ phase \in {"renew", "rebinding"}
    /\ Unanswered
    /\ age' \in {age, age + RESTART}
    /\ UNCHANGED <<terms, shorts>>

\* Mutant: counts a second for a wait, whatever its length.
MutAdvance(e, step) == e + Grain
Advance(e, step) == e + step

(* _jittered: what a delay of r ticks may become, within a quarter of it and *)
(* rounded to a tick.                                                        *)
Jittered(r) == {step \in 1 .. 2 * r : 3 * r <= 4 * step + 2 /\ 4 * step <= 5 * r + 2}

(* _sleep_interruptible: the selects a wait of step ticks may need, a second *)
(* each, of which an early wake cuts short any number.                       *)
Selects(step) == {s \in 0 .. 2 * REBIND_POLL_STEP : (s - 1) * Grain < step}

(* The wait before a REBIND: a jittered step towards T2, all of which is     *)
(* counted whatever it took.                                                 *)
RebindWait ==
    /\ phase = "rebind" /\ elapsed < T2 * Grain
    /\ LET gap == T2 * Grain - elapsed
           near == gap <= REBIND_POLL_STEP * Grain IN
       /\ \E step \in Jittered(Least(REBIND_POLL_STEP * Grain, gap)) :
            /\ elapsed' = Advance(elapsed, step)
            /\ \E s \in Selects(step) : age' = age + s
       /\ short' = IF near THEN short + 1 ELSE short
       /\ scale' = IF near THEN 4 * scale ELSE scale
    /\ phase' = "rebinding"
    /\ UNCHANGED <<terms, attempt>>

LeaseEnds ==
    /\ phase = "rebind" /\ elapsed >= T2 * Grain
    /\ phase' = "unbound"
    /\ UNCHANGED <<terms, age, elapsed, attempt, shorts>>

ClockNext ==
    \/ Bind \/ Hold \/ Answered \/ Refused \/ Silent \/ Futile
    \/ RebindWait \/ LeaseEnds

ClockSpec == ClockInit /\ [][ClockNext]_clock

-----------------------------------------------------------------------------
(* Properties *)

(* Whatever the server's options, the timers lie in order within the lease,  *)
(* and T2 leaves the REBIND its margin when the lease has room for it.       *)
TimersOrdered ==
    phase # "unbound" =>
        /\ 0 < T1 /\ T1 <= T2 /\ T2 <= lease
        /\ T1 + REBIND_MARGIN <= lease => T2 >= T1 + REBIND_MARGIN

(* A lease whose server is silent is given up.  It is held beyond T2 by no   *)
(* more than twice the REBIND window, 21 seconds, and 13 for each wait that  *)
(* began within REBIND_POLL_STEP of T2.  A wait of that kind leaves at most  *)
(* a quarter of the gap (and the rounding), counts next to nothing of the    *)
(* attempt it leads to, and is repeated until nothing of the gap is left     *)
(* that a float can express: log4(120 * Grain) times at most.                *)
OverrunBounded ==
    /\ phase # "unbound" => age <= T2 + 2 * (T2 - T1) + 21 + 13 * short
    /\ scale <= 120 * Grain

(* "REBIND until T2, then expire": a lease is not held after it ended.       *)
HeldWithinLease == phase # "unbound" => age <= lease
=============================================================================
