----------------------- MODULE AddressAllocation_proofs -----------------------
(***************************************************************************)
(* What the abstract allocation is worth: an implementation of it never     *)
(* shows one address of a VNI in the statuses of two attachments.           *)
(***************************************************************************)
EXTENDS AddressAllocation, TLAPS

\* What an attachment shows, it holds.
ShownIsHeld ==
    /\ holder \in [Slots -> Keys \cup {Nobody}]
    /\ shown \in [Keys -> Slots \cup {NoSlot}]
    /\ \A k \in Keys : shown[k] # NoSlot => holder[shown[k]] = k

\* No two attachments show the same slot, because each of them would hold it.
THEOREM AllocationExclusive ==
    ASSUME Nobody \notin Keys, NoSlot \notin Slots
    PROVE  Spec => []Exclusive
<1>1. Init => ShownIsHeld
  BY DEF Init, ShownIsHeld
<1>2. ShownIsHeld /\ [Next]_allocVars => ShownIsHeld'
  <2> SUFFICES ASSUME ShownIsHeld, [Next]_allocVars PROVE ShownIsHeld'
    OBVIOUS
  <2> USE DEF ShownIsHeld
  <2>1. ASSUME NEW k \in Keys, NEW slot \in Slots, Acquire(k, slot)
        PROVE  ShownIsHeld'
    BY <2>1 DEF Acquire
  <2>2. ASSUME NEW k \in Keys, NEW slot \in Slots, Show(k, slot)
        PROVE  ShownIsHeld'
    BY <2>2 DEF Show
  <2>3. ASSUME NEW k \in Keys, Withdraw(k) PROVE ShownIsHeld'
    BY <2>3 DEF Withdraw
  <2>4. ASSUME NEW slot \in Slots, Release(slot) PROVE ShownIsHeld'
    BY <2>4 DEF Release
  <2>5. CASE UNCHANGED allocVars
    BY <2>5 DEF allocVars
  <2> QED BY <2>1, <2>2, <2>3, <2>4, <2>5 DEF Next
<1>3. ShownIsHeld => Exclusive
  BY DEF ShownIsHeld, Exclusive
<1> QED BY <1>1, <1>2, <1>3, PTL DEF Spec
=============================================================================
