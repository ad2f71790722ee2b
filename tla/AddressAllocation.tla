-------------------------- MODULE AddressAllocation --------------------------
(***************************************************************************)
(* What the IPAM controller promises about addresses, with no controller,   *)
(* cache or message in sight.  A slot (an address of a VNI) is held by at   *)
(* most one attachment.  An attachment shows a slot in its status only      *)
(* while it holds it: it takes the slot first, and gives it up only when    *)
(* it no longer shows it.                                                   *)
(***************************************************************************)
CONSTANTS Slots, Keys, Nobody, NoSlot

VARIABLES
    holder, \* slot -> the attachment that holds it
    shown   \* attachment -> the slot in its status

allocVars == <<holder, shown>>

Init ==
    /\ holder = [slot \in Slots |-> Nobody]
    /\ shown = [k \in Keys |-> NoSlot]

Acquire(k, slot) ==
    /\ holder[slot] = Nobody
    /\ holder' = [holder EXCEPT ![slot] = k]
    /\ UNCHANGED shown

Show(k, slot) ==
    /\ holder[slot] = k
    /\ shown' = [shown EXCEPT ![k] = slot]
    /\ UNCHANGED holder

\* The status loses its address, or the attachment goes away.
Withdraw(k) ==
    /\ shown' = [shown EXCEPT ![k] = NoSlot]
    /\ UNCHANGED holder

Release(slot) ==
    /\ \A k \in Keys : shown[k] # slot
    /\ holder' = [holder EXCEPT ![slot] = Nobody]
    /\ UNCHANGED shown

Next ==
    \/ \E k \in Keys, slot \in Slots : Acquire(k, slot) \/ Show(k, slot)
    \/ \E k \in Keys : Withdraw(k)
    \/ \E slot \in Slots : Release(slot)

Spec == Init /\ [][Next]_allocVars

\* No two attachments show the same slot.
Exclusive ==
    \A k, m \in Keys : k # m /\ shown[k] # NoSlot => shown[k] # shown[m]
=============================================================================
