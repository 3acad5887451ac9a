------------------------------ MODULE HeldLease ------------------------------
(***************************************************************************)
(* What the DHCP client promises of the lease a keeper holds, whatever     *)
(* exchange, late reply or observation it goes by (dhcpclient.py,          *)
(* policy.py): it is won for the VIP, of an address the server has         *)
(* acknowledged; it changes to another such address only together with the *)
(* VIP, and only under a policy that follows; it may be lost at any time.  *)
(***************************************************************************)
CONSTANTS Addr, None

VARIABLES
    follows,    \* --follow (fixed)
    granted,    \* the addresses the server has acknowledged
    vip,        \* the VIP as the keeper has it
    held,       \* the address of the lease, or None
    broken      \* an exception left an exchange half done: nothing is promised

vars == <<follows, granted, vip, held, broken>>

Init ==
    /\ follows \in BOOLEAN /\ granted = {} /\ vip \in Addr
    /\ held = None /\ broken = FALSE

Acknowledge ==
    /\ \E a \in Addr : granted' = granted \cup {a}
    /\ UNCHANGED <<follows, vip, held, broken>>

Win ==
    /\ held = None /\ vip \in granted
    /\ held' = vip
    /\ UNCHANGED <<follows, granted, vip, broken>>

Follow ==
    /\ follows
    /\ \E a \in granted : held' = a /\ vip' = a
    /\ UNCHANGED <<follows, granted, broken>>

Lose ==
    /\ held' = None
    /\ UNCHANGED <<follows, granted, vip, broken>>

Next == Acknowledge \/ Win \/ Follow \/ Lose

Safe == Init /\ [][Next \/ broken']_vars
=============================================================================
