----------------------------- MODULE IPAM_proofs -----------------------------
(***************************************************************************)
(* Proofs about the IPAM controller, for any number of attachments,         *)
(* Subnets, addresses, controllers and workers: what holds whatever fails,  *)
(* restarts or changes, and, in the second half, what holds in a calm       *)
(* environment.                                                             *)
(***************************************************************************)
EXTENDS IPAM, FiniteSetTheorems, TLAPS

-----------------------------------------------------------------------------
(* The inductive invariant for the types.                                   *)

\* A pass that is to pick an address has a Subnet and no lock yet; once it has
\* picked one, the address is one of a Subnet.
PassOK(p) ==
    /\ p.pc \in {"pick", "create", "recover"} => p.then = "pick"
    /\ p.then = "pick" => p.want.rv # 0
    /\ p.then = "pick" /\ p.pc # "update" => p.st.lock = 0
    /\ p.pc \in {"create", "recover"} => PickedSlot(p) \in Slots

PassesOK == \A c \in Controllers, k \in Keys : PassOK(proc[c][k])

TypeInv == TypeOK /\ PassesOK

-----------------------------------------------------------------------------
(* Facts about the objects.                                                 *)

\* A slot is a pair of a VNI and an address.
LEMMA SlotParts ==
    ASSUME NEW slot \in Slots
    PROVE  slot = <<slot[1], slot[2]>> /\ slot[1] \in Nat /\ slot[2] \in Addresses
<1>1. PICK d \in SubnetDefs : slot \in {d.vni} \X (d.base .. d.last)
  BY DEF Slots
<1>2. d \in [vni : Nat \ {0}, base : Nat, last : Nat]
  BY ApiAssumption
<1>3. slot[2] \in Addresses
  BY DEF Addresses
<1> QED BY <1>1, <1>2, <1>3

\* Addresses are natural numbers, so none of them is the absent address.
LEMMA AddressesNat == Addresses \subseteq Nat /\ NoIP \notin Addresses
<1>1. ASSUME NEW a \in Addresses PROVE a \in Nat
  <2>1. PICK slot \in Slots : a = slot[2]
    BY DEF Addresses
  <2>2. PICK d \in SubnetDefs : slot \in {d.vni} \X (d.base .. d.last)
    BY DEF Slots
  <2>3. d \in [vni : Nat \ {0}, base : Nat, last : Nat]
    BY ApiAssumption
  <2> QED BY <2>1, <2>2, <2>3
<1> QED BY <1>1 DEF NoIP

\* PickAddress gives out addresses of the Subnet only.
LEMMA PickRangeInSlots ==
    ASSUME NEW subnet \in Subnet, subnet.rv # 0, NEW a \in PickRange(subnet)
    PROVE  <<subnet.vni, a>> \in Slots /\ a \in Addresses /\ subnet.vni \in Nat
<1>1. PICK d \in SubnetDefs : subnet = Revision(d, subnet.rv)
  BY DEF Subnet, NoSubnet
<1>2. d \in [vni : Nat \ {0}, base : Nat, last : Nat]
  BY ApiAssumption
<1>3. subnet.vni = d.vni /\ subnet.base = d.base /\ subnet.last = d.last
  BY <1>1 DEF Revision
<1>4. a \in d.base .. d.last
  BY <1>2, <1>3 DEF PickRange
<1>5. <<d.vni, a>> \in Slots
  BY <1>4 DEF Slots
<1>6. a \in Addresses
  BY <1>5, <<d.vni, a>>[2] = a DEF Addresses
<1> QED BY <1>2, <1>3, <1>5, <1>6

\* A client's Subnet spec makes a Subnet.
LEMMA RevisionType ==
    ASSUME NEW d \in SubnetDefs, NEW n \in Nat
    PROVE  Revision(d, n) \in Subnet
<1>1. d \in [vni : Nat \ {0}, base : Nat, last : Nat]
  BY ApiAssumption
<1>2. Revision(d, n) \in [rv : Nat, vni : Nat, base : Nat, last : Nat]
  BY <1>1 DEF Revision
<1>3. Revision(d, n).rv = n
  BY DEF Revision
<1> QED BY <1>2, <1>3 DEF Subnet

\* The zero records have their types.
LEMMA ZeroTypes ==
    /\ NoAtt \in NetworkAttachment
    /\ NoSubnet \in Subnet
    /\ NoStatus \in Status
    /\ NoAnticipation \in NetworkAttachmentData
    /\ Idle \in Pass
    /\ PassOK(Idle)
<1>1. NoSubnet \in Subnet
  BY DEF NoSubnet, Subnet
<1>2. NoAtt \in NetworkAttachment
  BY DEF NoAtt, NetworkAttachment, NoIP
<1>3. NoStatus \in Status
  BY DEF NoStatus, Status, NoIP
<1>4. NoAnticipation \in NetworkAttachmentData
  BY DEF NoAnticipation, NetworkAttachmentData, NoIP
<1>5. Idle \in Pass
  BY <1>1, <1>2, <1>3 DEF Idle, Pass
<1>6. PassOK(Idle)
  BY DEF Idle, PassOK
<1> QED BY <1>1, <1>2, <1>3, <1>4, <1>5, <1>6

\* A new attachment, one that a client updated, one with a new status.
LEMMA NewAttType ==
    ASSUME NEW n \in Nat, NEW s \in Subnets
    PROVE  [NoAtt EXCEPT !.uid = n, !.rv = n, !.subnet = s] \in NetworkAttachment
BY DEF NoAtt, NetworkAttachment, NoIP

LEMMA UpdatedAttType ==
    ASSUME NEW a \in NetworkAttachment, NEW n \in Nat, NEW s \in Subnets
    PROVE  [a EXCEPT !.rv = n, !.subnet = s] \in NetworkAttachment
BY DEF NetworkAttachment

LEMMA StatusAttType ==
    ASSUME NEW a \in NetworkAttachment, NEW n \in Nat, NEW st \in Status
    PROVE  [[a EXCEPT !.ip = st.ip, !.vni = st.vni, !.lock = st.lock,
                      !.err = st.err] EXCEPT !.rv = n] \in NetworkAttachment
BY DEF NetworkAttachment, Status

\* Proceed keeps a pass well formed.
LEMMA ProceedType ==
    ASSUME NEW p \in Pass, PassOK(p), p.pc = "release"
    PROVE  Proceed(p) \in Pass /\ PassOK(Proceed(p))
<1>1. CASE p.release # {}
  <2>1. Proceed(p) = [p EXCEPT !.pc = "release"]
    BY <1>1 DEF Proceed
  <2>2. Proceed(p) = p
    BY <2>1 DEF Pass
  <2> QED BY <2>2
<1>2. CASE p.release = {} /\ p.then = "idle"
  BY <1>2, ZeroTypes DEF Proceed
<1>3. CASE p.release = {} /\ p.then # "idle"
  <2>1. Proceed(p) = [p EXCEPT !.pc = p.then]
    BY <1>3 DEF Proceed
  <2>2. p.then \in {"pick", "update"}
    BY <1>3 DEF Pass
  <2>3. Proceed(p) \in Pass
    BY <2>1, <2>2 DEF Pass
  <2>4. PassOK(Proceed(p))
    BY <2>1, <2>2 DEF Pass, PassOK
  <2> QED BY <2>3, <2>4
<1> QED BY <1>1, <1>2, <1>3

-----------------------------------------------------------------------------
(* Facts about the parts of steps.                                          *)

\* A write of an attachment keeps the store and the watches typed.
LEMMA PutAttType ==
    ASSUME atts \in [Keys -> NetworkAttachment],
           attEvents \in [Controllers -> Seq(AttEvent)],
           NEW k \in Keys, NEW att \in NetworkAttachment, PutAtt(k, att)
    PROVE  /\ atts' \in [Keys -> NetworkAttachment]
           /\ attEvents' \in [Controllers -> Seq(AttEvent)]
<1>1. [key |-> k, obj |-> att] \in AttEvent
  BY DEF AttEvent
<1>2. \A c \in Controllers :
         Append(attEvents[c], [key |-> k, obj |-> att]) \in Seq(AttEvent)
  BY <1>1
<1>3. attEvents' \in [Controllers -> Seq(AttEvent)]
  BY <1>2 DEF PutAtt, Broadcast
<1> QED BY <1>3 DEF PutAtt

\* A write of a Subnet keeps the store and the watches typed.
LEMMA PutSubnetType ==
    ASSUME subnets \in [Subnets -> Subnet],
           subnetEvents \in [Controllers -> Seq(SubnetEvent)],
           NEW s \in Subnets, NEW subnet \in Subnet, PutSubnet(s, subnet)
    PROVE  /\ subnets' \in [Subnets -> Subnet]
           /\ subnetEvents' \in [Controllers -> Seq(SubnetEvent)]
<1>1. [key |-> s, obj |-> subnet] \in SubnetEvent
  BY DEF SubnetEvent
<1>2. \A c \in Controllers :
         Append(subnetEvents[c], [key |-> s, obj |-> subnet]) \in Seq(SubnetEvent)
  BY <1>1
<1>3. subnetEvents' \in [Controllers -> Seq(SubnetEvent)]
  BY <1>2 DEF PutSubnet, Broadcast
<1> QED BY <1>3 DEF PutSubnet

LocksTyped ==
    /\ locks \subseteq IPLock /\ IsFiniteSet(locks)
    /\ lockUID \in Nat
    /\ lockTime \in Nat
    /\ lockEvents \in [Controllers -> Seq(LockEvent)]

\* The creation of a lock keeps the store and the watches typed.
LEMMA CreateLockType ==
    ASSUME LocksTyped, NEW slot \in Slots, NEW k \in Keys,
           NEW att \in NetworkAttachment, CreateLock(slot, k, att)
    PROVE  LocksTyped'
<1>1. PICK tick \in Ticks :
         LET l == [slot |-> slot, owner |-> k, ouid |-> att.uid,
                   uid |-> lockUID + 1, ctime |-> lockTime + tick]
         IN /\ locks' = locks \cup {l}
            /\ lockUID' = lockUID + 1
            /\ lockTime' = lockTime + tick
            /\ lockEvents' = Broadcast(lockEvents, [op |-> "create", lock |-> l])
  BY DEF CreateLock
<1> DEFINE l == [slot |-> slot, owner |-> k, ouid |-> att.uid,
                 uid |-> lockUID + 1, ctime |-> lockTime + tick]
           e == [op |-> "create", lock |-> l]
<1>2. tick \in Nat
  BY ApiAssumption
<1>3. att.uid \in Nat
  BY DEF NetworkAttachment
<1>4. l \in IPLock
  BY <1>2, <1>3 DEF IPLock, LocksTyped
<1>5. e \in LockEvent
  BY <1>4 DEF LockEvent
<1>6. lockEvents' = [c \in Controllers |-> Append(lockEvents[c], e)]
  BY <1>1 DEF Broadcast
<1>7. lockEvents' \in [Controllers -> Seq(LockEvent)]
  <2> HIDE DEF e
  <2> QED BY <1>5, <1>6 DEF LocksTyped
<1>8. IsFiniteSet(locks')
  BY <1>1, FS_AddElement DEF LocksTyped
<1> QED BY <1>1, <1>2, <1>4, <1>7, <1>8 DEF LocksTyped

\* The deletion of a lock keeps the store and the watches typed.
LEMMA DeleteLockType ==
    ASSUME LocksTyped, NEW l, DeleteLock(l), UNCHANGED <<lockUID, lockTime>>
    PROVE  LocksTyped'
<1>1. l \in IPLock
  BY DEF DeleteLock, LocksTyped
<1>2. [op |-> "delete", lock |-> l] \in LockEvent
  BY <1>1 DEF LockEvent
<1>3. \A c \in Controllers :
         Append(lockEvents[c], [op |-> "delete", lock |-> l]) \in Seq(LockEvent)
  BY <1>2 DEF LocksTyped
<1>4. lockEvents' \in [Controllers -> Seq(LockEvent)]
  BY <1>3 DEF DeleteLock, Broadcast
<1>5. IsFiniteSet(locks')
  BY FS_RemoveElement DEF DeleteLock, LocksTyped
<1> QED BY <1>4, <1>5 DEF DeleteLock, LocksTyped

\* Environment events use up the budget.
LEMMA SpendType ==
    ASSUME budget \in [Events -> Nat], NEW e \in Events, Spend(e)
    PROVE  budget' \in [Events -> Nat]
<1>1. budget[e] \in Nat /\ budget[e] - 1 \in Nat
  BY DEF Spend
<1> QED BY <1>1 DEF Spend

Passes == proc \in [Controllers -> [Keys -> Pass]] /\ PassesOK

\* A worker's step leaves the passes over other keys alone.
LEMMA StepPasses ==
    ASSUME Passes, NEW c \in Controllers, NEW k \in Keys, NEW p \in Pass,
           PassOK(p), proc' = [proc EXCEPT ![c][k] = p]
    PROVE  Passes'
<1>1. proc' \in [Controllers -> [Keys -> Pass]]
  BY DEF Passes
<1>2. \A d \in Controllers, m \in Keys :
         proc'[d][m] = p \/ proc'[d][m] = proc[d][m]
  BY DEF Passes
<1>3. PassesOK'
  BY <1>2 DEF Passes, PassesOK, PassOK, PickedSlot, Slots
<1> QED BY <1>1, <1>3 DEF Passes

\* The end of a pass, with or without an error.
LEMMA EndPass ==
    ASSUME Passes, queue \in [Controllers -> SUBSET Keys],
           NEW c \in Controllers, NEW k \in Keys, Done(c, k) \/ Retry(c, k)
    PROVE  Passes' /\ queue' \in [Controllers -> SUBSET Keys]
<1>1. Passes'
  BY StepPasses, ZeroTypes DEF Done, Retry
<1> QED BY <1>1 DEF Done, Retry

\* A pass that goes on.
LEMMA ContinuePass ==
    ASSUME Passes, queue \in [Controllers -> SUBSET Keys],
           NEW c \in Controllers, NEW k \in Keys, NEW p \in Pass, PassOK(p),
           Continue(c, k, p)
    PROVE  Passes' /\ queue' \in [Controllers -> SUBSET Keys]
BY StepPasses DEF Continue

-----------------------------------------------------------------------------
(* What analyzeAndRelease returns.                                          *)

\* The Subnet an attachment refers to, as the cache has it.
LEMMA DesiredSubnetType ==
    ASSUME TypeOK, NEW c \in Controllers, NEW k \in Keys
    PROVE  DesiredSubnet(c, k) \in Subnet
<1>1. attCache[c][k] \in NetworkAttachment
  BY DEF TypeOK
<1>2. Exists(attCache[c][k]) => attCache[c][k].subnet \in Subnets
  BY <1>1 DEF NetworkAttachment, Exists
<1>3. subnetCache[c] \in [Subnets -> Subnet]
  BY DEF TypeOK
<1> QED BY <1>2, <1>3, ZeroTypes DEF DesiredSubnet

\* The best of a list of locks is one of the list.
LEMMA BestType == ASSUME NEW list PROVE Best(list) \subseteq list
BY DEF Best

\* The locks a pass considers are locks.
LEMMA ConsideredType ==
    ASSUME TypeOK, NEW c \in Controllers, NEW k \in Keys
    PROVE  OwnedObjs(c, k) \subseteq IPLock /\ Fetched(c, k) \subseteq IPLock
<1>1. locks \subseteq IPLock /\ lockCache[c] \subseteq IPLock
  BY DEF TypeOK, ApiTypeOK
<1> QED BY <1>1 DEF OwnedObjs, Fetched, LocksAt

\* The pass that analyzeAndRelease starts is well formed.
LEMMA AnalyzeType ==
    ASSUME TypeOK, NEW c \in Controllers, NEW k \in Keys,
           NEW fetched \in SUBSET IPLock, ~SubnetMissing(c, k)
    PROVE  LET p == analyzeAndRelease(c, k, fetched)
           IN p \in Pass /\ PassOK(p) /\ p.pc = "release"
<1> DEFINE att          == attCache[c][k]
           subnet       == DesiredSubnet(c, k)
           considered   == {l \in OwnedObjs(c, k) \cup fetched :
                               Exists(att) => OwnedBy(l, k, att)}
           usable       == {l \in considered : InSubnet(l.slot, subnet)}
           lockInStatus == {l \in usable : l.uid = att.lock /\ l.slot[2] = att.ip}
           keep         == IF lockInStatus # {} THEN lockInStatus ELSE Best(usable)
           anticipated  == StillAnticipated(c, k).ip
           lockForStatus == CHOOSE l \in keep : TRUE
           st           == [ip |-> lockForStatus.slot[2],
                            vni |-> lockForStatus.slot[1],
                            lock |-> lockForStatus.uid, err |-> FALSE]
           pass         == [pc |-> "release", att |-> att, want |-> subnet,
                            release |-> considered \ keep, then |-> "idle",
                            st |-> NoStatus]
           toUpdate     == [pass EXCEPT !.then = "update", !.st = st]
           toPick       == [pass EXCEPT !.then = "pick"]
           p            == analyzeAndRelease(c, k, fetched)
<1>1. considered \subseteq IPLock
  BY ConsideredType
<1>2. att \in NetworkAttachment /\ subnet \in Subnet
  BY DesiredSubnetType DEF TypeOK
<1>3. considered \ keep \in SUBSET IPLock
  BY <1>1
<1>4. pass \in Pass /\ PassOK(pass)
  <2> HIDE DEF considered, keep, att, subnet
  <2>1. NoStatus \in Status
    BY ZeroTypes
  <2>2. pass \in Pass
    BY <1>2, <1>3, <2>1 DEF Pass
  <2> QED BY <2>2 DEF PassOK
<1>5. CASE p = pass
  BY <1>4, <1>5
<1>6. CASE keep # {} /\ p = toUpdate
  <2>1. keep \subseteq considered
    BY BestType
  <2>2. lockForStatus \in IPLock
    BY <1>1, <1>6, <2>1
  <2>3. st \in Status
    <3> HIDE DEF lockForStatus
    <3>1. lockForStatus.slot \in Slots /\ lockForStatus.uid \in Nat
      BY <2>2 DEF IPLock
    <3> QED BY <3>1, SlotParts DEF Status
  <2> HIDE DEF st, considered, keep, att, subnet
  <2>4. toUpdate \in Pass
    BY <1>4, <2>3 DEF Pass
  <2>5. toUpdate.pc = "release" /\ toUpdate.then = "update"
    OBVIOUS
  <2>6. PassOK(toUpdate)
    BY <2>5 DEF PassOK
  <2> HIDE DEF toUpdate
  <2> QED BY <1>6, <2>4, <2>5, <2>6
<1>7. CASE Exists(att) /\ p = toPick
  <2>1. subnet.rv # 0
    BY <1>7 DEF SubnetMissing
  <2> HIDE DEF considered, keep, att, subnet
  <2>2. toPick \in Pass
    BY <1>4 DEF Pass
  <2>3. /\ toPick.pc = "release" /\ toPick.then = "pick"
        /\ toPick.st = NoStatus /\ toPick.want = subnet
    OBVIOUS
  <2>4. NoStatus.lock = 0
    BY DEF NoStatus
  <2>5. PassOK(toPick)
    <3> HIDE DEF toPick
    <3> QED BY <2>1, <2>3, <2>4 DEF PassOK
  <2> HIDE DEF toPick
  <2> QED BY <1>7, <2>2, <2>3, <2>5
<1>8. \/ p = pass
      \/ keep # {} /\ p = toUpdate
      \/ Exists(att) /\ p = toPick
  BY DEF analyzeAndRelease
<1> QED BY <1>5, <1>6, <1>7, <1>8

-----------------------------------------------------------------------------
(* Type correctness: one lemma per kind of step.                            *)

\* The initial states are typed.
LEMMA InitTypeInv == Init => TypeInv
<1> SUFFICES ASSUME Init PROVE TypeInv
  OBVIOUS
<1>1. PICK d \in [Subnets -> SubnetDefs] : subnets = [s \in Subnets |-> Revision(d[s], 1)]
  BY DEF Init, ApiInit
<1>2. \A s \in Subnets : Revision(d[s], 1) \in Subnet
  BY RevisionType
<1>3. subnets \in [Subnets -> Subnet]
  BY <1>1, <1>2
<1>4. atts \in [Keys -> NetworkAttachment]
  BY ZeroTypes DEF Init, ApiInit
<1>5. locks \subseteq IPLock /\ IsFiniteSet(locks)
  BY FS_EmptySet DEF Init, ApiInit
<1>6. budget \in [Events -> Nat]
  BY ApiAssumption DEF Init, ApiInit
<1>7. /\ attEvents \in [Controllers -> Seq(AttEvent)]
      /\ lockEvents \in [Controllers -> Seq(LockEvent)]
      /\ subnetEvents \in [Controllers -> Seq(SubnetEvent)]
  BY DEF Init, ApiInit
<1>8. ApiTypeOK
  BY <1>3, <1>4, <1>5, <1>6, <1>7 DEF Init, ApiInit, ApiTypeOK
<1>9. proc \in [Controllers -> [Keys -> Pass]] /\ PassesOK
  BY ZeroTypes DEF Init, PassesOK
<1>10. nadat \in [Controllers -> [Keys -> NetworkAttachmentData]]
  BY ZeroTypes DEF Init
<1>11. TypeOK
  BY <1>3, <1>4, <1>8, <1>9, <1>10 DEF Init, TypeOK
<1> QED BY <1>9, <1>11 DEF TypeInv

\* What clients and the garbage collector do to the store.
LEMMA EnvironmentTypeInv ==
    ASSUME TypeInv, UNCHANGED localVars,
           ClientNext \/ \E l \in locks : CollectGarbage(l)
    PROVE  TypeInv'
<1> USE DEF TypeInv
<1>1. ApiTypeOK
  BY DEF TypeOK
<1>2. ApiTypeOK'
  <2>1. CASE \E k \in Keys, s \in Subnets : s \in SubnetsOf[k] /\ CreateAttachment(k, s)
    <3>1. PICK k \in Keys, s \in Subnets : CreateAttachment(k, s)
      BY <2>1
    <3> DEFINE att == [NoAtt EXCEPT !.uid = attRV[k] + 1, !.rv = attRV[k] + 1,
                                    !.subnet = s]
    <3>2. att \in NetworkAttachment
      <4>1. attRV[k] + 1 \in Nat
        BY <1>1 DEF ApiTypeOK
      <4> QED BY <4>1, NewAttType, Zenon
    <3>3. budget' \in [Events -> Nat]
      BY <1>1, <3>1, SpendType DEF CreateAttachment, Events, ApiTypeOK
    <3> QED BY <1>1, <3>1, <3>2, <3>3, PutAttType DEF CreateAttachment, ApiTypeOK
  <2>2. CASE \E k \in Keys : DeleteAttachment(k)
    <3>1. PICK k \in Keys : DeleteAttachment(k)
      BY <2>2
    <3>2. budget' \in [Events -> Nat]
      BY <1>1, <3>1, SpendType DEF DeleteAttachment, Events, ApiTypeOK
    <3> QED BY <1>1, <3>1, <3>2, PutAttType, ZeroTypes DEF DeleteAttachment, ApiTypeOK
  <2>3. CASE \E k \in Keys, s \in Subnets : s \in SubnetsOf[k] /\ UpdateAttachment(k, s)
    <3>1. PICK k \in Keys, s \in Subnets : UpdateAttachment(k, s)
      BY <2>3
    <3> DEFINE att == [atts[k] EXCEPT !.rv = attRV[k] + 1, !.subnet = s]
    <3>2. atts[k] \in NetworkAttachment /\ attRV[k] \in Nat
      BY <1>1 DEF ApiTypeOK
    <3>3. att \in NetworkAttachment
      <4>1. attRV[k] + 1 \in Nat
        BY <3>2
      <4> QED BY <3>2, <4>1, UpdatedAttType, Zenon
    <3>4. budget' \in [Events -> Nat]
      BY <1>1, <3>1, SpendType DEF UpdateAttachment, Events, ApiTypeOK
    <3> QED BY <1>1, <3>1, <3>3, <3>4, PutAttType DEF UpdateAttachment, ApiTypeOK
  <2>4. CASE \E s \in Subnets, d \in SubnetDefs : WriteSubnet(s, d)
    <3>1. PICK s \in Subnets, d \in SubnetDefs : WriteSubnet(s, d)
      BY <2>4
    <3>2. Revision(d, subnetRV[s] + 1) \in Subnet
      BY <1>1, RevisionType DEF ApiTypeOK
    <3>3. budget' \in [Events -> Nat]
      BY <1>1, <3>1, SpendType DEF WriteSubnet, Events, ApiTypeOK
    <3> QED BY <1>1, <3>1, <3>2, <3>3, PutSubnetType DEF WriteSubnet, ApiTypeOK
  <2>5. CASE \E s \in Subnets : DeleteSubnet(s)
    <3>1. PICK s \in Subnets : DeleteSubnet(s)
      BY <2>5
    <3>2. budget' \in [Events -> Nat]
      BY <1>1, <3>1, SpendType DEF DeleteSubnet, Events, ApiTypeOK
    <3> QED BY <1>1, <3>1, <3>2, PutSubnetType, ZeroTypes DEF DeleteSubnet, ApiTypeOK
  <2>6. CASE \E l \in locks : CollectGarbage(l)
    <3>1. PICK l \in locks : CollectGarbage(l)
      BY <2>6
    <3>2. LocksTyped'
      BY <1>1, <3>1, DeleteLockType DEF CollectGarbage, ApiTypeOK, LocksTyped
    <3> QED BY <1>1, <3>1, <3>2 DEF CollectGarbage, ApiTypeOK, LocksTyped
  <2> QED BY <2>1, <2>2, <2>3, <2>4, <2>5, <2>6 DEF ClientNext
<1>3. TypeOK'
  BY <1>2 DEF TypeOK, localVars
<1>4. PassesOK'
  BY DEF PassesOK, PassOK, PickedSlot, localVars
<1> QED BY <1>3, <1>4

\* What the informers do.
LEMMA InformerTypeInv ==
    ASSUME TypeInv, NEW c \in Controllers, InformerStep(c)
    PROVE  TypeInv'
<1> USE DEF TypeInv
<1>1. CASE OnAttachmentNotify(c)
  <2> DEFINE e == Head(attEvents[c])
  <2>1. attEvents[c] \in Seq(AttEvent) /\ attEvents[c] # <<>>
    BY <1>1 DEF OnAttachmentNotify, TypeOK, ApiTypeOK
  <2>2. e \in AttEvent /\ Tail(attEvents[c]) \in Seq(AttEvent)
    BY <2>1
  <2>3. e.key \in Keys /\ e.obj \in NetworkAttachment
    BY <2>2 DEF AttEvent
  <2>4. attEvents' \in [Controllers -> Seq(AttEvent)]
    BY <1>1, <2>2 DEF OnAttachmentNotify, TypeOK, ApiTypeOK
  <2>5. attCache' \in [Controllers -> [Keys -> NetworkAttachment]]
    BY <1>1, <2>3 DEF OnAttachmentNotify, TypeOK
  <2>6. queue' \in [Controllers -> SUBSET Keys]
    BY <1>1, <2>3 DEF OnAttachmentNotify, TypeOK
  <2>7. PassesOK'
    BY <1>1 DEF OnAttachmentNotify, PassesOK, PassOK, PickedSlot
  <2>8. ApiTypeOK'
    BY <1>1, <2>4 DEF OnAttachmentNotify, TypeOK, ApiTypeOK, storeVars
  <2> QED BY <1>1, <2>5, <2>6, <2>7, <2>8 DEF OnAttachmentNotify, TypeOK
<1>2. CASE OnSubnetNotify(c)
  <2> DEFINE e == Head(subnetEvents[c])
  <2>1. subnetEvents[c] \in Seq(SubnetEvent) /\ subnetEvents[c] # <<>>
    BY <1>2 DEF OnSubnetNotify, TypeOK, ApiTypeOK
  <2>2. e \in SubnetEvent /\ Tail(subnetEvents[c]) \in Seq(SubnetEvent)
    BY <2>1
  <2>3. e.key \in Subnets /\ e.obj \in Subnet
    BY <2>2 DEF SubnetEvent
  <2>4. subnetEvents' \in [Controllers -> Seq(SubnetEvent)]
    BY <1>2, <2>2 DEF OnSubnetNotify, TypeOK, ApiTypeOK
  <2>5. subnetCache' \in [Controllers -> [Subnets -> Subnet]]
    BY <1>2, <2>3 DEF OnSubnetNotify, TypeOK
  <2>6. queue' \in [Controllers -> SUBSET Keys]
    BY <1>2 DEF OnSubnetNotify, TypeOK
  <2>7. PassesOK'
    BY <1>2 DEF OnSubnetNotify, PassesOK, PassOK, PickedSlot
  <2>8. ApiTypeOK'
    BY <1>2, <2>4 DEF OnSubnetNotify, TypeOK, ApiTypeOK, storeVars
  <2> QED BY <1>2, <2>5, <2>6, <2>7, <2>8 DEF OnSubnetNotify, TypeOK
<1>3. CASE IndexLock(c)
  <2> DEFINE e == Head(lockEvents[c])
  <2>1. lockEvents[c] \in Seq(LockEvent) /\ lockEvents[c] # <<>>
    BY <1>3 DEF IndexLock, TypeOK, ApiTypeOK
  <2>2. e \in LockEvent /\ Tail(lockEvents[c]) \in Seq(LockEvent)
    BY <2>1
  <2>3. e.lock \in IPLock
    BY <2>2 DEF LockEvent
  <2>4. lockEvents' \in [Controllers -> Seq(LockEvent)]
    BY <1>3, <2>2 DEF IndexLock, TypeOK, ApiTypeOK
  <2>5. lockCache' \in [Controllers -> SUBSET IPLock]
    BY <1>3, <2>3 DEF IndexLock, TypeOK
  <2>6. Append(lockNotes[c], e) \in Seq(LockEvent)
    BY <2>2 DEF TypeOK
  <2>7. lockNotes' \in [Controllers -> Seq(LockEvent)]
    BY <1>3, <2>6 DEF IndexLock, TypeOK
  <2>8. PassesOK'
    BY <1>3 DEF IndexLock, PassesOK, PassOK, PickedSlot
  <2>9. ApiTypeOK'
    BY <1>3, <2>4 DEF IndexLock, TypeOK, ApiTypeOK, storeVars
  <2> QED BY <1>3, <2>5, <2>7, <2>8, <2>9 DEF IndexLock, TypeOK
<1>4. CASE OnLockNotify(c)
  <2> DEFINE e == Head(lockNotes[c])
  <2>1. lockNotes[c] \in Seq(LockEvent) /\ lockNotes[c] # <<>>
    BY <1>4 DEF OnLockNotify, TypeOK
  <2>2. e \in LockEvent /\ Tail(lockNotes[c]) \in Seq(LockEvent)
    BY <2>1
  <2>3. e.lock.slot \in Slots /\ e.lock.owner \in Keys
    BY <2>2 DEF LockEvent, IPLock
  <2>4. lockNotes' \in [Controllers -> Seq(LockEvent)]
    BY <1>4, <2>2 DEF OnLockNotify, TypeOK
  <2>5. addrCache' \in [Controllers -> SUBSET Slots]
    BY <1>4, <2>3 DEF OnLockNotify, TypeOK, TakeAddress, ReleaseAddress
  <2>6. queue' \in [Controllers -> SUBSET Keys]
    BY <1>4, <2>3 DEF OnLockNotify, TypeOK
  <2>7. PassesOK'
    BY <1>4 DEF OnLockNotify, PassesOK, PassOK, PickedSlot
  <2>8. ApiTypeOK'
    BY <1>4 DEF OnLockNotify, TypeOK, ApiTypeOK, apiVars, storeVars, watchVars
  <2> QED BY <1>4, <2>4, <2>5, <2>6, <2>7, <2>8 DEF OnLockNotify, TypeOK
<1> QED BY <1>1, <1>2, <1>3, <1>4 DEF InformerStep

\* The first step of a pass.
LEMMA ProcessTypeInv ==
    ASSUME TypeInv, NEW c \in Controllers, NEW k \in Keys,
           processNetworkAttachment(c, k)
    PROVE  TypeInv'
<1> USE DEF TypeInv
<1>1. Passes
  BY DEF Passes, TypeOK
<1>2. budget \in [Events -> Nat]
  BY DEF TypeOK, ApiTypeOK
<1>3. queue' \in [Controllers -> SUBSET Keys]
  BY DEF processNetworkAttachment, TypeOK
<1>4. /\ Passes'
      /\ nadat' \in [Controllers -> [Keys -> NetworkAttachmentData]]
      /\ budget' \in [Events -> Nat]
  <2>1. CASE SubnetMissing(c, k)
    <3> DEFINE p == [Idle EXCEPT !.pc = "update", !.att = attCache[c][k],
                                 !.st = [NoStatus EXCEPT !.err = TRUE]]
    <3>1. attCache[c][k] \in NetworkAttachment
      BY DEF TypeOK
    <3>2. [NoStatus EXCEPT !.err = TRUE] \in Status
      BY ZeroTypes DEF Status
    <3>3. Idle.then = "idle"
      BY DEF Idle
    <3>4. p \in Pass /\ p.pc = "update" /\ p.then = Idle.then
      BY <3>1, <3>2, ZeroTypes DEF Pass
    <3>5. PassOK(p)
      <4> HIDE DEF p
      <4> QED BY <3>3, <3>4 DEF PassOK
    <3>6. /\ proc' = [proc EXCEPT ![c][k] = p]
          /\ UNCHANGED <<nadat, budget>>
      BY <2>1 DEF processNetworkAttachment
    <3>7. Passes'
      <4> HIDE DEF p
      <4> QED BY <1>1, <3>4, <3>5, <3>6, StepPasses
    <3> QED BY <1>2, <3>6, <3>7 DEF TypeOK
  <2>2. CASE ~SubnetMissing(c, k)
    <3>1. PICK fetched \in {{}, Fetched(c, k)} :
             /\ UNCHANGED budget \/ Spend("fault")
             /\ proc' = [proc EXCEPT ![c][k] =
                            Proceed(analyzeAndRelease(c, k, fetched))]
      BY <2>2 DEF processNetworkAttachment
    <3> DEFINE p == analyzeAndRelease(c, k, fetched)
    <3>2. fetched \in SUBSET IPLock
      BY ConsideredType
    <3>3. p \in Pass /\ PassOK(p) /\ p.pc = "release"
      BY <2>2, <3>2, AnalyzeType
    <3>4. Passes'
      <4> HIDE DEF p
      <4>1. Proceed(p) \in Pass /\ PassOK(Proceed(p))
        BY <3>3, ProceedType
      <4>2. proc' = [proc EXCEPT ![c][k] = Proceed(p)]
        BY <3>1 DEF p
      <4> QED BY <1>1, <4>1, <4>2, StepPasses
    <3>5. StillAnticipated(c, k) \in NetworkAttachmentData
      BY ZeroTypes DEF StillAnticipated, TypeOK
    <3>6. nadat' \in [Controllers -> [Keys -> NetworkAttachmentData]]
      <4>1. nadat' = [nadat EXCEPT ![c][k] = StillAnticipated(c, k)]
        BY <2>2 DEF processNetworkAttachment
      <4>2. nadat \in [Controllers -> [Keys -> NetworkAttachmentData]]
        BY DEF TypeOK
      <4> QED BY <3>5, <4>1, <4>2
    <3>7. budget' \in [Events -> Nat]
      BY <1>2, <3>1, SpendType DEF Events
    <3> QED BY <3>4, <3>6, <3>7
  <2> QED BY <2>1, <2>2
<1>5. ApiTypeOK'
  BY <1>4 DEF processNetworkAttachment, TypeOK, ApiTypeOK, storeVars, watchVars
<1> QED BY <1>3, <1>4, <1>5 DEF processNetworkAttachment, TypeOK, Passes

\* The deletion of a lock.
LEMMA ReleaseTypeInv ==
    ASSUME TypeInv, NEW c \in Controllers, NEW k \in Keys,
           deleteIPLockObject(c, k)
    PROVE  TypeInv'
<1> USE DEF TypeInv
<1> DEFINE p == proc[c][k]
<1>1. Passes /\ LocksTyped /\ budget \in [Events -> Nat]
  BY DEF Passes, LocksTyped, TypeOK, ApiTypeOK
<1>2. p \in Pass /\ PassOK(p) /\ p.pc = "release"
  BY DEF deleteIPLockObject, TypeOK, PassesOK
<1>3. UNCHANGED <<lockUID, lockTime>>
  BY DEF deleteIPLockObject
<1>4. PICK l \in NextToRelease(p) :
         /\ (\E m : DeleteLock(m)) \/ UNCHANGED <<locks, lockEvents>>
         /\ UNCHANGED budget \/ Spend("fault")
         /\ \/ Continue(c, k, Proceed([p EXCEPT !.release = @ \ {l}]))
            \/ Retry(c, k)
  BY DEF deleteIPLockObject
<1>5. LocksTyped'
  BY <1>1, <1>3, <1>4, DeleteLockType DEF LocksTyped
<1>6. budget' \in [Events -> Nat]
  BY <1>1, <1>4, SpendType DEF Events
<1>7. Passes' /\ queue' \in [Controllers -> SUBSET Keys]
  <2> DEFINE q == [p EXCEPT !.release = @ \ {l}]
  <2>1. q \in Pass /\ PassOK(q) /\ q.pc = "release"
    BY <1>2 DEF Pass, PassOK, PickedSlot
  <2> HIDE DEF q
  <2>2. Proceed(q) \in Pass /\ PassOK(Proceed(q))
    BY <2>1, ProceedType
  <2>3. Continue(c, k, Proceed(q)) \/ Retry(c, k)
    BY <1>4 DEF q
  <2>4. queue \in [Controllers -> SUBSET Keys]
    BY DEF TypeOK
  <2> QED BY <1>1, <2>2, <2>3, <2>4, ContinuePass, EndPass
<1>8. ApiTypeOK'
  BY <1>5, <1>6 DEF deleteIPLockObject, TypeOK, ApiTypeOK, LocksTyped
<1> QED BY <1>7, <1>8 DEF deleteIPLockObject, TypeOK, Passes

\* The choice of an address.
LEMMA PickTypeInv ==
    ASSUME TypeInv, NEW c \in Controllers, NEW k \in Keys, PickAddress(c, k)
    PROVE  TypeInv'
<1> USE DEF TypeInv
<1> DEFINE p == proc[c][k]
<1>1. Passes /\ queue \in [Controllers -> SUBSET Keys]
  BY DEF Passes, TypeOK
<1>2. p \in Pass /\ PassOK(p) /\ p.pc = "pick"
  BY DEF PickAddress, TypeOK, PassesOK
<1>3. p.want \in Subnet /\ p.want.rv # 0 /\ p.st \in Status /\ p.st.lock = 0
  BY <1>2 DEF Pass, PassOK
<1>4. /\ Passes' /\ queue' \in [Controllers -> SUBSET Keys]
      /\ addrCache' \in [Controllers -> SUBSET Slots]
  <2>1. CASE Retry(c, k) /\ UNCHANGED addrCache
    BY <1>1, <2>1, EndPass DEF TypeOK
  <2>2. ASSUME NEW a \in PickRange(p.want),
               addrCache' = [addrCache EXCEPT ![c] =
                                TakeAddress(@, <<p.want.vni, a>>)],
               Continue(c, k, [p EXCEPT !.pc = "create", !.st.ip = a,
                                        !.st.vni = p.want.vni])
        PROVE  /\ Passes' /\ queue' \in [Controllers -> SUBSET Keys]
               /\ addrCache' \in [Controllers -> SUBSET Slots]
    <3> DEFINE q == [p EXCEPT !.pc = "create", !.st.ip = a,
                              !.st.vni = p.want.vni]
    <3>1. <<p.want.vni, a>> \in Slots /\ a \in Addresses /\ p.want.vni \in Nat
      BY <1>3, PickRangeInSlots
    <3>2. q \in Pass
      BY <1>2, <1>3, <3>1 DEF Pass, Status
    <3>3. /\ q.pc = "create" /\ q.then = p.then /\ q.want = p.want
          /\ q.st.lock = 0 /\ q.st.ip = a /\ q.st.vni = p.want.vni
      BY <1>2, <1>3 DEF Pass, Status
    <3> HIDE DEF q
    <3>4. PickedSlot(q) \in Slots
      BY <3>1, <3>3 DEF PickedSlot
    <3>5. PassOK(q)
      BY <1>2, <1>3, <3>3, <3>4 DEF PassOK
    <3>6. Passes' /\ queue' \in [Controllers -> SUBSET Keys]
      BY <1>1, <2>2, <3>2, <3>5, ContinuePass DEF q
    <3>7. addrCache' \in [Controllers -> SUBSET Slots]
      BY <2>2, <3>1 DEF TakeAddress, TypeOK
    <3> QED BY <3>6, <3>7
  <2> QED BY <2>1, <2>2 DEF PickAddress
<1>5. ApiTypeOK'
  BY DEF PickAddress, TypeOK, ApiTypeOK, apiVars, storeVars, watchVars
<1> QED BY <1>4, <1>5 DEF PickAddress, TypeOK, Passes

\* The creation of a lock.
LEMMA LockTypeInv ==
    ASSUME TypeInv, NEW c \in Controllers, NEW k \in Keys, LockAddress(c, k)
    PROVE  TypeInv'
<1> USE DEF TypeInv
<1> DEFINE p == proc[c][k]
<1>1. Passes /\ queue \in [Controllers -> SUBSET Keys] /\ LocksTyped
      /\ budget \in [Events -> Nat]
  BY DEF Passes, LocksTyped, TypeOK, ApiTypeOK
<1>2. p \in Pass /\ PassOK(p) /\ p.pc = "create"
  BY DEF LockAddress, TypeOK, PassesOK
<1>3. PickedSlot(p) \in Slots /\ p.att \in NetworkAttachment /\ p.then = "pick"
      /\ p.st.lock = 0 /\ p.want.rv # 0 /\ p.st \in Status
  BY <1>2 DEF Pass, PassOK
<1>4. \/ CreateLock(PickedSlot(p), k, p.att)
      \/ UNCHANGED <<locks, lockUID, lockTime, lockEvents>>
  BY DEF LockAddress
<1>5. LocksTyped'
  BY <1>1, <1>3, <1>4, CreateLockType DEF LocksTyped
<1>6. budget' \in [Events -> Nat]
  <2>1. UNCHANGED budget \/ Spend("fault") \/ Spend("invalid")
    BY DEF LockAddress
  <2> QED BY <1>1, <2>1, SpendType DEF Events
<1>7. addrCache' \in [Controllers -> SUBSET Slots]
  <2>1. \/ UNCHANGED addrCache
        \/ addrCache' = [addrCache EXCEPT ![c] = ReleaseAddress(@, PickedSlot(p))]
    BY DEF LockAddress
  <2>2. addrCache \in [Controllers -> SUBSET Slots]
    BY DEF TypeOK
  <2> HIDE DEF p
  <2> QED BY <2>1, <2>2 DEF ReleaseAddress
<1>8. Passes' /\ queue' \in [Controllers -> SUBSET Keys]
  <2>1. lockUID' \in Nat
    BY <1>5 DEF LocksTyped
  <2>2. \/ Continue(c, k, [p EXCEPT !.pc = "update", !.st.lock = lockUID'])
        \/ Continue(c, k, [p EXCEPT !.pc = "recover"])
        \/ Continue(c, k, [p EXCEPT !.pc = "update"])
        \/ Retry(c, k)
    BY DEF LockAddress
  <2>3. CASE Continue(c, k, [p EXCEPT !.pc = "update", !.st.lock = lockUID'])
    <3> DEFINE q == [p EXCEPT !.pc = "update", !.st.lock = lockUID']
    <3>1. q \in Pass /\ q.pc = "update" /\ q.then = p.then /\ q.want = p.want
      BY <1>2, <1>3, <2>1 DEF Pass, Status
    <3> HIDE DEF q
    <3>2. PassOK(q)
      BY <1>3, <3>1 DEF PassOK
    <3> QED BY <1>1, <2>3, <3>1, <3>2, ContinuePass DEF q
  <2>4. CASE Continue(c, k, [p EXCEPT !.pc = "recover"])
    <3> DEFINE q == [p EXCEPT !.pc = "recover"]
    <3>1. q \in Pass /\ q.pc = "recover" /\ q.then = p.then /\ q.want = p.want
          /\ q.st = p.st
      BY <1>2 DEF Pass
    <3> HIDE DEF q
    <3>2. PassOK(q)
      BY <1>3, <3>1 DEF PassOK, PickedSlot
    <3> QED BY <1>1, <2>4, <3>1, <3>2, ContinuePass DEF q
  <2>5. CASE Continue(c, k, [p EXCEPT !.pc = "update"])
    <3> DEFINE q == [p EXCEPT !.pc = "update"]
    <3>1. q \in Pass /\ q.pc = "update" /\ q.then = p.then /\ q.want = p.want
      BY <1>2 DEF Pass
    <3> HIDE DEF q
    <3>2. PassOK(q)
      BY <1>3, <3>1 DEF PassOK
    <3> QED BY <1>1, <2>5, <3>1, <3>2, ContinuePass DEF q
  <2>6. CASE Retry(c, k)
    BY <1>1, <2>6, EndPass
  <2> QED BY <2>2, <2>3, <2>4, <2>5, <2>6
<1>9. ApiTypeOK'
  BY <1>5, <1>6 DEF LockAddress, TypeOK, ApiTypeOK, LocksTyped
<1> QED BY <1>7, <1>8, <1>9 DEF LockAddress, TypeOK, Passes

\* The look at a lock that exists already.
LEMMA RecoverTypeInv ==
    ASSUME TypeInv, NEW c \in Controllers, NEW k \in Keys, RecoverLock(c, k)
    PROVE  TypeInv'
<1> USE DEF TypeInv
<1> DEFINE p == proc[c][k]
<1>1. Passes /\ queue \in [Controllers -> SUBSET Keys]
      /\ budget \in [Events -> Nat] /\ locks \subseteq IPLock
  BY DEF Passes, TypeOK, ApiTypeOK
<1>2. p \in Pass /\ PassOK(p) /\ p.pc = "recover"
  BY DEF RecoverLock, TypeOK, PassesOK
<1>3. PickedSlot(p) \in Slots /\ p.then = "pick" /\ p.st.lock = 0
      /\ p.want.rv # 0 /\ p.st \in Status
  BY <1>2 DEF Pass, PassOK
<1>4. budget' \in [Events -> Nat]
  <2>1. UNCHANGED budget \/ Spend("fault")
    BY DEF RecoverLock
  <2> QED BY <1>1, <2>1, SpendType DEF Events
<1>5. Passes' /\ queue' \in [Controllers -> SUBSET Keys]
  <2>1. \/ Continue(c, k, [p EXCEPT !.pc = "create"])
        \/ \E l \in locks : Continue(c, k, [p EXCEPT !.pc = "update", !.st.lock = l.uid])
        \/ Retry(c, k)
    BY DEF RecoverLock, LocksAt
  <2>2. CASE Continue(c, k, [p EXCEPT !.pc = "create"])
    <3> DEFINE q == [p EXCEPT !.pc = "create"]
    <3>1. q \in Pass /\ q.pc = "create" /\ q.then = p.then /\ q.want = p.want
          /\ q.st = p.st
      BY <1>2 DEF Pass
    <3> HIDE DEF q
    <3>2. PassOK(q)
      BY <1>3, <3>1 DEF PassOK, PickedSlot
    <3> QED BY <1>1, <2>2, <3>1, <3>2, ContinuePass DEF q
  <2>3. ASSUME NEW l \in locks,
               Continue(c, k, [p EXCEPT !.pc = "update", !.st.lock = l.uid])
        PROVE  Passes' /\ queue' \in [Controllers -> SUBSET Keys]
    <3> DEFINE q == [p EXCEPT !.pc = "update", !.st.lock = l.uid]
    <3>1. l.uid \in Nat
      BY <1>1 DEF IPLock
    <3>2. q \in Pass /\ q.pc = "update" /\ q.then = p.then /\ q.want = p.want
      BY <1>2, <1>3, <3>1 DEF Pass, Status
    <3> HIDE DEF q
    <3>3. PassOK(q)
      BY <1>3, <3>2 DEF PassOK
    <3> QED BY <1>1, <2>3, <3>2, <3>3, ContinuePass DEF q
  <2>4. CASE Retry(c, k)
    BY <1>1, <2>4, EndPass
  <2> QED BY <2>1, <2>2, <2>3, <2>4
<1>6. ApiTypeOK'
  BY <1>4 DEF RecoverLock, TypeOK, ApiTypeOK, storeVars, watchVars
<1> QED BY <1>5, <1>6 DEF RecoverLock, TypeOK, Passes

\* The status update.
LEMMA WriteStatusType ==
    ASSUME atts \in [Keys -> NetworkAttachment], attRV \in [Keys -> Nat],
           attEvents \in [Controllers -> Seq(AttEvent)],
           NEW k \in Keys, NEW st \in Status, WriteStatus(k, st)
    PROVE  /\ atts' \in [Keys -> NetworkAttachment]
           /\ attRV' \in [Keys -> Nat]
           /\ attEvents' \in [Controllers -> Seq(AttEvent)]
<1> DEFINE updated == [atts[k] EXCEPT !.ip = st.ip, !.vni = st.vni,
                                      !.lock = st.lock, !.err = st.err]
           written == [updated EXCEPT !.rv = attRV[k] + 1]
<1>1. CASE UNCHANGED <<atts, attRV, attEvents>>
  BY <1>1
<1>2. CASE /\ attRV' = [attRV EXCEPT ![k] = @ + 1]
           /\ PutAtt(k, written)
  <2>1. attRV[k] + 1 \in Nat /\ atts[k] \in NetworkAttachment
    OBVIOUS
  <2>2. written \in NetworkAttachment
    BY <2>1, StatusAttType, Zenon
  <2> HIDE DEF written
  <2> QED BY <1>2, <2>1, <2>2, PutAttType
<1> QED BY <1>1, <1>2 DEF WriteStatus

LEMMA UpdateTypeInv ==
    ASSUME TypeInv, NEW c \in Controllers, NEW k \in Keys, updateNAStatus(c, k)
    PROVE  TypeInv'
<1> USE DEF TypeInv
<1> DEFINE p == proc[c][k]
<1>1. Passes /\ queue \in [Controllers -> SUBSET Keys]
      /\ budget \in [Events -> Nat]
      /\ atts \in [Keys -> NetworkAttachment] /\ attRV \in [Keys -> Nat]
      /\ attEvents \in [Controllers -> Seq(AttEvent)]
      /\ nadat \in [Controllers -> [Keys -> NetworkAttachmentData]]
  BY DEF Passes, TypeOK, ApiTypeOK
<1>2. p \in Pass
  BY DEF TypeOK
<1>3. p.st \in Status /\ p.att \in NetworkAttachment /\ p.want \in Subnet
  BY <1>2 DEF Pass
<1>4. WriteStatus(k, p.st) \/ UNCHANGED <<atts, attRV, attEvents>>
  BY DEF updateNAStatus
<1>5. /\ atts' \in [Keys -> NetworkAttachment]
      /\ attRV' \in [Keys -> Nat]
      /\ attEvents' \in [Controllers -> Seq(AttEvent)]
  <2>1. CASE WriteStatus(k, p.st)
    BY <1>1, <1>3, <2>1, WriteStatusType
  <2>2. CASE UNCHANGED <<atts, attRV, attEvents>>
    BY <1>1, <2>2
  <2> QED BY <1>4, <2>1, <2>2
<1>6. nadat' \in [Controllers -> [Keys -> NetworkAttachmentData]]
  <2> DEFINE na == [ip |-> p.st.ip, anticipating |-> p.att.rv,
                    anticipated |-> atts'[k].rv, subnetRV |-> p.want.rv]
  <2>1. p.st.ip \in Addresses \cup {NoIP} /\ p.att.rv \in Nat /\ p.want.rv \in Nat
    BY <1>3 DEF Status, NetworkAttachment, Subnet
  <2>2. atts'[k].rv \in Nat
    BY <1>5 DEF NetworkAttachment
  <2>3. na \in NetworkAttachmentData
    BY <2>1, <2>2 DEF NetworkAttachmentData
  <2>4. nadat' = nadat \/ nadat' = [nadat EXCEPT ![c][k] = na]
    BY DEF updateNAStatus
  <2>5. nadat \in [Controllers -> [Keys -> NetworkAttachmentData]]
    BY <1>1
  <2> HIDE DEF na, p
  <2> QED BY <2>3, <2>4, <2>5
<1>7. Passes' /\ queue' \in [Controllers -> SUBSET Keys]
  <2>1. Done(c, k) \/ Retry(c, k)
    BY DEF updateNAStatus
  <2> QED BY <1>1, <2>1, EndPass
<1>8. budget' \in [Events -> Nat]
  <2>1. UNCHANGED budget \/ Spend("fault")
    BY DEF updateNAStatus
  <2> QED BY <1>1, <2>1, SpendType DEF Events
<1>9. ApiTypeOK'
  BY <1>5, <1>8 DEF updateNAStatus, TypeOK, ApiTypeOK
<1> QED BY <1>6, <1>7, <1>9 DEF updateNAStatus, TypeOK, Passes

\* A restart: the informers list what is in the store.
LEMMA RestartTypeInv ==
    ASSUME TypeInv, NEW c \in Controllers, Restart(c)
    PROVE  TypeInv'
<1> USE DEF TypeInv
<1>1. ApiTypeOK
  BY DEF TypeOK
<1>2. PICK notes \in Listings : lockNotes' = [lockNotes EXCEPT ![c] = notes]
  BY DEF Restart
<1>3. notes \in Seq(LockEvent)
  <2>1. Cardinality(locks) \in Nat
    BY <1>1, FS_CardinalityType DEF ApiTypeOK
  <2>2. {[op |-> "create", lock |-> l] : l \in locks} \subseteq LockEvent
    BY <1>1 DEF ApiTypeOK, LockEvent
  <2>3. notes \in [1 .. Cardinality(locks) -> LockEvent]
    BY <2>2 DEF Listings
  <2> QED BY <2>1, <2>3
<1>4. lockNotes' \in [Controllers -> Seq(LockEvent)]
  BY <1>2, <1>3 DEF TypeOK
<1>5. /\ attEvents' \in [Controllers -> Seq(AttEvent)]
      /\ lockEvents' \in [Controllers -> Seq(LockEvent)]
      /\ subnetEvents' \in [Controllers -> Seq(SubnetEvent)]
  BY <1>1 DEF Restart, ApiTypeOK
<1>6. budget' \in [Events -> Nat]
  BY <1>1, SpendType DEF Restart, ApiTypeOK, Events
<1>7. ApiTypeOK'
  BY <1>1, <1>5, <1>6 DEF Restart, ApiTypeOK, storeVars
<1>8. /\ attCache' \in [Controllers -> [Keys -> NetworkAttachment]]
      /\ lockCache' \in [Controllers -> SUBSET IPLock]
      /\ subnetCache' \in [Controllers -> [Subnets -> Subnet]]
      /\ queue' \in [Controllers -> SUBSET Keys]
      /\ addrCache' \in [Controllers -> SUBSET Slots]
  BY <1>1 DEF Restart, TypeOK, ApiTypeOK
<1>9. nadat' \in [Controllers -> [Keys -> NetworkAttachmentData]]
  <2>1. [k \in Keys |-> NoAnticipation] \in [Keys -> NetworkAttachmentData]
    BY ZeroTypes
  <2> QED BY <2>1 DEF Restart, TypeOK
<1>10. proc' \in [Controllers -> [Keys -> Pass]] /\ PassesOK'
  <2>1. [k \in Keys |-> Idle] \in [Keys -> Pass]
    BY ZeroTypes
  <2>2. proc' = [proc EXCEPT ![c] = [k \in Keys |-> Idle]]
    BY DEF Restart
  <2>3. proc' \in [Controllers -> [Keys -> Pass]]
    BY <2>1, <2>2 DEF TypeOK
  <2>4. \A d \in Controllers, k \in Keys :
           proc'[d][k] = Idle \/ proc'[d][k] = proc[d][k]
    BY <2>2 DEF TypeOK
  <2>5. PassesOK'
    BY <2>4, ZeroTypes DEF PassesOK, PassOK, PickedSlot, Slots
  <2> QED BY <2>3, <2>5
<1> QED BY <1>4, <1>7, <1>8, <1>9, <1>10 DEF TypeOK

\* The type invariant is inductive.
LEMMA NextTypeInv ==
    ASSUME TypeInv, [Next]_vars
    PROVE  TypeInv'
<1>1. CASE ClientNext /\ UNCHANGED localVars
  BY <1>1, EnvironmentTypeInv
<1>2. CASE \E l \in locks : CollectGarbage(l) /\ UNCHANGED localVars
  BY <1>2, EnvironmentTypeInv
<1>3. CASE \E c \in Controllers : InformerStep(c)
  BY <1>3, InformerTypeInv
<1>4. CASE \E c \in Controllers, k \in Keys : WorkerStep(c, k)
  BY <1>4, ProcessTypeInv, ReleaseTypeInv, PickTypeInv, LockTypeInv,
     RecoverTypeInv, UpdateTypeInv DEF WorkerStep
<1>5. CASE \E c \in Controllers : Restart(c)
  BY <1>5, RestartTypeInv
<1>6. CASE UNCHANGED vars
  <2>1. TypeOK'
    BY <1>6 DEF TypeInv, TypeOK, ApiTypeOK, vars, apiVars, storeVars,
                watchVars, localVars
  <2>2. PassesOK'
    BY <1>6 DEF TypeInv, PassesOK, PassOK, PickedSlot, vars, localVars
  <2> QED BY <2>1, <2>2 DEF TypeInv
<1> QED BY <1>1, <1>2, <1>3, <1>4, <1>5, <1>6 DEF Next

\* Type correctness: whatever clients, failures and restarts do, every variable
\* keeps its type; in particular the controller never picks or locks an address
\* outside the Subnets.
THEOREM TypeCorrect == Spec => []TypeOK
<1>1. Init => TypeInv
  BY InitTypeInv
<1>2. TypeInv /\ [Next]_vars => TypeInv'
  BY NextTypeInv
<1>3. TypeInv => TypeOK
  BY DEF TypeInv
<1> QED BY <1>1, <1>2, <1>3, PTL DEF Spec

-----------------------------------------------------------------------------
(* The lock in a status: the inductive invariant.  The lock UID in an       *)
(* attachment's status is never that of somebody else's lock, nor that of a *)
(* lock on another address, whatever the order of notifications, the        *)
(* failures, the restarts and the number of controllers that run at once.   *)

\* The locks in the store, in the indexers, or on their way to an indexer.
LocksAnnounced(c) == {lockEvents[c][i].lock : i \in 1 .. Len(lockEvents[c])}

LocksSeen ==
    locks \cup (UNION {lockCache[c] : c \in Controllers})
          \cup (UNION {LocksAnnounced(c) : c \in Controllers})

\* A UID identifies a lock, past or present.
UIDsIdentify ==
    /\ \A l \in LocksSeen : l.uid \in 1 .. lockUID
    /\ \A l, m \in LocksSeen : l.uid = m.uid => l = m

\* The revisions of attachment k in the store, in the caches, on their way to a
\* cache, or in the hands of a worker.
AttsAnnounced(c, k) ==
    {attEvents[c][i].obj : i \in {j \in 1 .. Len(attEvents[c]) : attEvents[c][j].key = k}}

Revisions(k) ==
    {atts[k]} \cup {attCache[c][k] : c \in Controllers}
              \cup {proc[c][k].att : c \in Controllers}
              \cup (UNION {AttsAnnounced(c, k) : c \in Controllers})

\* Revision a is not newer than the last one, and if it is the present one
\* it belongs to the present incarnation.
RevisionOf(a, present, last) ==
    /\ a.rv <= last
    /\ a.rv = 0 => a.uid = 0
    /\ a.rv = present.rv => a.uid = present.uid

RevisionsIdentify ==
    \A k \in Keys : \A a \in Revisions(k) : RevisionOf(a, atts[k], attRV[k])

\* Of the locks in the set held, only one of incarnation uid of attachment k on
\* the address in st can have the UID in st, and this UID is not still to come.
Truthful(st, k, uid, held, last) ==
    /\ st.lock <= last
    /\ \A l \in held : l.uid = st.lock =>
          /\ l.owner = k /\ l.ouid = uid
          /\ l.slot = <<st.vni, st.ip>>

StatusesTruthful ==
    /\ \A k \in Keys : Truthful(atts[k], k, atts[k].uid, locks, lockUID)
    /\ \A c \in Controllers, k \in Keys :
          Truthful(proc[c][k].st, k, proc[c][k].att.uid, locks, lockUID)

IInv == UIDsIdentify /\ RevisionsIdentify /\ StatusesTruthful

-----------------------------------------------------------------------------
(* UIDs of locks.                                                           *)

\* What it is to be among the locks seen, now and after a step.
LEMMA SeenIff ==
    \A l : l \in LocksSeen <=>
              \/ l \in locks
              \/ \E c \in Controllers : l \in lockCache[c]
              \/ \E c \in Controllers : \E i \in 1 .. Len(lockEvents[c]) :
                    l = lockEvents[c][i].lock
<1> SUFFICES ASSUME NEW l
             PROVE  l \in LocksSeen <=>
                       \/ l \in locks
                       \/ \E c \in Controllers : l \in lockCache[c]
                       \/ \E c \in Controllers : \E i \in 1 .. Len(lockEvents[c]) :
                             l = lockEvents[c][i].lock
  OBVIOUS
<1>1. \A c : l \in LocksAnnounced(c) <=> \E i \in 1 .. Len(lockEvents[c]) :
                                       l = lockEvents[c][i].lock
  BY DEF LocksAnnounced
<1> QED BY <1>1, Zenon DEF LocksSeen

LEMMA SeenIffNext ==
    \A l : l \in LocksSeen' <=>
              \/ l \in locks'
              \/ \E c \in Controllers : l \in lockCache'[c]
              \/ \E c \in Controllers : \E i \in 1 .. Len(lockEvents'[c]) :
                    l = lockEvents'[c][i].lock
<1> SUFFICES ASSUME NEW l
             PROVE  l \in LocksSeen' <=>
                       \/ l \in locks'
                       \/ \E c \in Controllers : l \in lockCache'[c]
                       \/ \E c \in Controllers : \E i \in 1 .. Len(lockEvents'[c]) :
                             l = lockEvents'[c][i].lock
  OBVIOUS
<1>1. \A c : l \in LocksAnnounced(c)' <=> \E i \in 1 .. Len(lockEvents'[c]) :
                                       l = lockEvents'[c][i].lock
  BY DEF LocksAnnounced
<1> QED BY <1>1, Zenon DEF LocksSeen

\* The locks seen are locks.
LEMMA SeenType == ASSUME TypeOK PROVE LocksSeen \subseteq IPLock
<1> SUFFICES ASSUME NEW l \in LocksSeen PROVE l \in IPLock
  OBVIOUS
<1>1. CASE l \in locks
  BY <1>1 DEF TypeOK, ApiTypeOK
<1>2. CASE \E c \in Controllers : l \in lockCache[c]
  BY <1>2 DEF TypeOK
<1>3. ASSUME NEW c \in Controllers, NEW i \in 1 .. Len(lockEvents[c]),
             l = lockEvents[c][i].lock
      PROVE  l \in IPLock
  <2>1. lockEvents[c] \in Seq(LockEvent)
    BY DEF TypeOK, ApiTypeOK
  <2>2. lockEvents[c][i] \in LockEvent
    BY <2>1
  <2> QED BY <1>3, <2>2 DEF LockEvent
<1> QED BY <1>1, <1>2, <1>3, SeenIff

\* A broadcast shows the watchers nothing but the lock it is about.
LEMMA BroadcastSeen ==
    ASSUME TypeOK, NEW e \in LockEvent, lockCache' = lockCache,
           lockEvents' = Broadcast(lockEvents, e)
    PROVE  LocksSeen' \subseteq LocksSeen \cup locks' \cup {e.lock}
<1> SUFFICES ASSUME NEW c \in Controllers, NEW i \in 1 .. Len(lockEvents'[c])
             PROVE  lockEvents'[c][i].lock \in LocksSeen \cup {e.lock}
  BY SeenIff, SeenIffNext
<1>1. lockEvents[c] \in Seq(LockEvent) /\ lockEvents'[c] = Append(lockEvents[c], e)
  BY DEF TypeOK, ApiTypeOK, Broadcast
<1>2. CASE i \in 1 .. Len(lockEvents[c])
  <2>1. lockEvents'[c][i] = lockEvents[c][i]
    BY <1>1, <1>2
  <2> QED BY <1>2, <2>1, SeenIff
<1>3. CASE i = Len(lockEvents[c]) + 1
  <2>1. lockEvents'[c][i] = e
    BY <1>1, <1>3
  <2> QED BY <2>1
<1> QED BY <1>1, <1>2, <1>3

\* A step that shows no new lock.
LEMMA UIDsKept ==
    ASSUME UIDsIdentify, LocksSeen' \subseteq LocksSeen, lockUID' = lockUID
    PROVE  UIDsIdentify'
BY DEF UIDsIdentify

\* The creation of a lock, seen from outside: the new lock has a new UID.
LEMMA CreateLockEffect ==
    ASSUME TypeOK, NEW slot \in Slots, NEW k \in Keys,
           NEW att \in NetworkAttachment, CreateLock(slot, k, att)
    PROVE  /\ lockUID' = lockUID + 1
           /\ \E l \in IPLock :
                 /\ l.slot = slot /\ l.owner = k /\ l.ouid = att.uid
                 /\ l.uid = lockUID + 1
                 /\ locks' = locks \cup {l}
                 /\ lockEvents' = Broadcast(lockEvents, [op |-> "create", lock |-> l])
<1>1. PICK tick \in Ticks :
         LET l == [slot |-> slot, owner |-> k, ouid |-> att.uid,
                   uid |-> lockUID + 1, ctime |-> lockTime + tick]
         IN /\ locks' = locks \cup {l}
            /\ lockUID' = lockUID + 1
            /\ lockEvents' = Broadcast(lockEvents, [op |-> "create", lock |-> l])
  BY DEF CreateLock
<1> DEFINE l == [slot |-> slot, owner |-> k, ouid |-> att.uid,
                 uid |-> lockUID + 1, ctime |-> lockTime + tick]
<1>2. lockTime + tick \in Nat /\ lockUID + 1 \in Nat /\ att.uid \in Nat
  <2>1. tick \in Nat /\ lockTime \in Nat /\ lockUID \in Nat
    BY ApiAssumption DEF TypeOK, ApiTypeOK
  <2>2. att.uid \in Nat
    BY DEF NetworkAttachment
  <2> QED BY <2>1, <2>2
<1>3. l \in IPLock
  BY <1>2 DEF IPLock
<1> QED BY <1>1, <1>3

LEMMA UIDsNew ==
    ASSUME TypeOK, UIDsIdentify, NEW slot \in Slots, NEW k \in Keys,
           NEW att \in NetworkAttachment, CreateLock(slot, k, att),
           lockCache' = lockCache
    PROVE  UIDsIdentify'
<1>1. PICK l \in IPLock :
         /\ l.uid = lockUID + 1
         /\ locks' = locks \cup {l}
         /\ lockEvents' = Broadcast(lockEvents, [op |-> "create", lock |-> l])
  BY CreateLockEffect
<1>2. lockUID' = lockUID + 1 /\ lockUID \in Nat
  BY CreateLockEffect DEF TypeOK, ApiTypeOK
<1>3. [op |-> "create", lock |-> l] \in LockEvent
  BY DEF LockEvent
<1>4. LocksSeen' \subseteq LocksSeen \cup {l}
  <2>1. LocksSeen' \subseteq LocksSeen \cup locks' \cup {[op |-> "create", lock |-> l].lock}
    BY <1>1, <1>3, BroadcastSeen
  <2> QED BY <1>1, <2>1, SeenIff
<1>5. \A m \in LocksSeen' : m.uid \in 1 .. lockUID'
  BY <1>1, <1>2, <1>4 DEF UIDsIdentify
<1>6. \A m, n \in LocksSeen' : m.uid = n.uid => m = n
  BY <1>1, <1>2, <1>4 DEF UIDsIdentify
<1> QED BY <1>5, <1>6 DEF UIDsIdentify

\* The deletion of a lock shows no new lock.
LEMMA DeleteLockSeen ==
    ASSUME TypeOK, NEW l, DeleteLock(l), lockCache' = lockCache
    PROVE  LocksSeen' \subseteq LocksSeen
<1>1. l \in locks /\ locks' \subseteq locks /\ l \in IPLock
  BY DEF DeleteLock, TypeOK, ApiTypeOK
<1>2. [op |-> "delete", lock |-> l] \in LockEvent
  BY <1>1 DEF LockEvent
<1>3. LocksSeen' \subseteq LocksSeen \cup locks' \cup {[op |-> "delete", lock |-> l].lock}
  BY <1>2, BroadcastSeen DEF DeleteLock
<1> QED BY <1>1, <1>3, SeenIff

-----------------------------------------------------------------------------
(* Revisions of attachments.                                                *)

\* What it is to be among the revisions of an attachment, now and after a step.
LEMMA RevisionsIff ==
    ASSUME NEW k \in Keys, NEW a
    PROVE  a \in Revisions(k) <=>
              \/ a = atts[k]
              \/ \E c \in Controllers : a = attCache[c][k] \/ a = proc[c][k].att
              \/ \E c \in Controllers : \E i \in 1 .. Len(attEvents[c]) :
                    attEvents[c][i].key = k /\ a = attEvents[c][i].obj
<1>1. \A c : a \in AttsAnnounced(c, k) <=>
         \E i \in 1 .. Len(attEvents[c]) :
            attEvents[c][i].key = k /\ a = attEvents[c][i].obj
  BY DEF AttsAnnounced
<1> QED BY <1>1, Zenon DEF Revisions

LEMMA RevisionsIffNext ==
    ASSUME NEW k \in Keys, NEW a
    PROVE  a \in Revisions(k)' <=>
              \/ a = atts'[k]
              \/ \E c \in Controllers : a = attCache'[c][k] \/ a = proc'[c][k].att
              \/ \E c \in Controllers : \E i \in 1 .. Len(attEvents'[c]) :
                    attEvents'[c][i].key = k /\ a = attEvents'[c][i].obj
<1>1. \A c : a \in AttsAnnounced(c, k)' <=>
         \E i \in 1 .. Len(attEvents'[c]) :
            attEvents'[c][i].key = k /\ a = attEvents'[c][i].obj
  BY DEF AttsAnnounced
<1> QED BY <1>1, Zenon DEF Revisions


\* Revisions are attachments.
LEMMA RevisionsType ==
    ASSUME TypeOK, NEW k \in Keys
    PROVE  Revisions(k) \subseteq NetworkAttachment
<1> SUFFICES ASSUME NEW a \in Revisions(k) PROVE a \in NetworkAttachment
  OBVIOUS
<1>1. CASE a = atts[k]
  BY <1>1 DEF TypeOK, ApiTypeOK
<1>2. CASE \E c \in Controllers : a = attCache[c][k] \/ a = proc[c][k].att
  BY <1>2 DEF TypeOK, Pass
<1>3. ASSUME NEW c \in Controllers, NEW i \in 1 .. Len(attEvents[c]),
             a = attEvents[c][i].obj
      PROVE  a \in NetworkAttachment
  <2>1. attEvents[c] \in Seq(AttEvent)
    BY DEF TypeOK, ApiTypeOK
  <2>2. attEvents[c][i] \in AttEvent
    BY <2>1
  <2> QED BY <1>3, <2>2 DEF AttEvent
<1> QED BY <1>1, <1>2, <1>3, RevisionsIff

\* A ResourceVersion is given once: what a write may do to an attachment.
Rewritten(k) ==
    \/ atts'[k] = atts[k] /\ attRV'[k] = attRV[k]
    \/ atts'[k] = NoAtt /\ attRV'[k] = attRV[k]
    \/ atts'[k].rv = attRV[k] + 1 /\ attRV'[k] = attRV[k] + 1

\* Of the revisions after a step all but the one just written are older.
NothingElse(k) == Revisions(k)' \subseteq Revisions(k) \cup {atts'[k], NoAtt}

LEMMA RevisionsStep ==
    ASSUME TypeOK, TypeOK', RevisionsIdentify,
           \A k \in Keys : Rewritten(k) /\ NothingElse(k)
    PROVE  RevisionsIdentify'
<1> SUFFICES ASSUME NEW k \in Keys, NEW a \in Revisions(k)'
             PROVE  RevisionOf(a, atts'[k], attRV'[k])
  BY DEF RevisionsIdentify, RevisionOf
<1>1. atts[k] \in NetworkAttachment /\ attRV[k] \in Nat /\ attRV'[k] \in Nat
      /\ atts'[k] \in NetworkAttachment
  BY DEF TypeOK, ApiTypeOK
<1>2. NoAtt.rv = 0 /\ NoAtt.uid = 0
  BY DEF NoAtt
<1>3. atts[k] \in Revisions(k)
  BY RevisionsIff
<1>4. RevisionOf(atts[k], atts[k], attRV[k])
  BY <1>3 DEF RevisionsIdentify
<1>5. CASE a = NoAtt
  <2>1. atts'[k].rv = 0 => atts'[k].uid = 0
    BY <1>1, <1>2, <1>4 DEF Rewritten, RevisionOf
  <2> QED BY <1>1, <1>2, <1>5, <2>1 DEF RevisionOf
<1>6. CASE a = atts'[k]
  <2>1. a.rv <= attRV'[k] /\ (a.rv = 0 => a.uid = 0)
    BY <1>1, <1>2, <1>4, <1>6 DEF Rewritten, RevisionOf
  <2> QED BY <1>6, <2>1 DEF RevisionOf
<1>7. CASE a \in Revisions(k)
  <2>1. RevisionOf(a, atts[k], attRV[k])
    BY <1>7 DEF RevisionsIdentify
  <2>2. a \in NetworkAttachment
    BY <1>7, RevisionsType
  <2>3. a.rv \in Nat /\ atts[k].rv \in Nat
    BY <1>1, <2>2 DEF NetworkAttachment
  <2> QED BY <1>1, <1>2, <2>1, <2>3 DEF RevisionOf, Rewritten
<1> QED BY <1>5, <1>6, <1>7 DEF NothingElse

\* The attachment of a pass is the one it had, none, or the cached one.
PassesFromCache ==
    \A c \in Controllers, k \in Keys :
       proc'[c][k].att \in {proc[c][k].att, NoAtt, attCache[c][k]}

\* A write shows the watchers nothing but what it writes.
LEMMA PutAttRevisions ==
    ASSUME TypeOK, NEW k \in Keys, NEW att \in NetworkAttachment,
           PutAtt(k, att), attCache' = attCache, PassesFromCache
    PROVE  \A m \in Keys : NothingElse(m)
<1> SUFFICES ASSUME NEW m \in Keys, NEW a \in Revisions(m)'
             PROVE  a \in Revisions(m) \cup {atts'[m], NoAtt}
  BY DEF NothingElse
<1>1. atts'[k] = att
  BY DEF PutAtt, TypeOK, ApiTypeOK
<1>2. CASE a = atts'[m]
  BY <1>2
<1>3. CASE \E c \in Controllers : a = attCache'[c][m] \/ a = proc'[c][m].att
  BY <1>3, RevisionsIff DEF PassesFromCache
<1>4. ASSUME NEW c \in Controllers, NEW i \in 1 .. Len(attEvents'[c]),
             attEvents'[c][i].key = m, a = attEvents'[c][i].obj
      PROVE  a \in Revisions(m) \cup {atts'[m], NoAtt}
  <2> DEFINE e == [key |-> k, obj |-> att]
  <2>1. /\ attEvents[c] \in Seq(AttEvent)
        /\ attEvents'[c] = Append(attEvents[c], e)
        /\ e \in AttEvent
    BY DEF TypeOK, ApiTypeOK, PutAtt, Broadcast, AttEvent
  <2>2. e.key = k /\ e.obj = att
    OBVIOUS
  <2> HIDE DEF e
  <2>3. CASE i \in 1 .. Len(attEvents[c])
    <3>1. attEvents'[c][i] = attEvents[c][i]
      BY <2>1, <2>3
    <3> QED BY <1>4, <2>3, <3>1, RevisionsIff
  <2>4. CASE i = Len(attEvents[c]) + 1
    <3>1. attEvents'[c][i] = e
      BY <2>1, <2>4
    <3> QED BY <1>1, <1>4, <2>2, <3>1
  <2> QED BY <2>1, <2>3, <2>4
<1> QED BY <1>2, <1>3, <1>4, RevisionsIffNext

\* A step that writes no attachment.
LEMMA SameAttsRevisions ==
    ASSUME TypeOK, TypeOK', RevisionsIdentify,
           UNCHANGED <<atts, attRV, attEvents, attCache>>, PassesFromCache
    PROVE  RevisionsIdentify'
<1>1. ASSUME NEW k \in Keys PROVE NothingElse(k)
  <2> SUFFICES ASSUME NEW a \in Revisions(k)' PROVE a \in Revisions(k) \cup {NoAtt}
    BY DEF NothingElse
  <2> QED BY RevisionsIff, RevisionsIffNext DEF PassesFromCache
<1>2. \A k \in Keys : Rewritten(k)
  BY DEF Rewritten
<1> QED BY <1>1, <1>2, RevisionsStep

-----------------------------------------------------------------------------
(* Statuses.                                                                *)

\* The locks of the store after a step are old ones, and ones with new UIDs.
LocksGrow ==
    /\ lockUID <= lockUID'
    /\ \A l \in locks' : l \in locks \/ l.uid > lockUID

\* Statuses st and st2, of the same incarnation, name the same lock.
SameLock(st, st2) == st.lock = st2.lock /\ st.vni = st2.vni /\ st.ip = st2.ip

\* A status of the store after a step names the lock it named, none, or one
\* that is truly its own; so does a status about to be written.
TruthfulWrites ==
    /\ \A k \in Keys :
          \/ SameLock(atts[k], atts'[k]) /\ atts'[k].uid = atts[k].uid
          \/ atts'[k].lock = 0
          \/ Truthful(atts'[k], k, atts'[k].uid, locks', lockUID')
    /\ \A c \in Controllers, k \in Keys :
          \/ /\ SameLock(proc[c][k].st, proc'[c][k].st)
             /\ proc'[c][k].att.uid = proc[c][k].att.uid
          \/ proc'[c][k].st.lock = 0
          \/ Truthful(proc'[c][k].st, k, proc'[c][k].att.uid, locks', lockUID')

LEMMA StatusesStep ==
    ASSUME TypeOK, TypeOK', UIDsIdentify', StatusesTruthful, LocksGrow,
           TruthfulWrites
    PROVE  StatusesTruthful'
<1>1. lockUID \in Nat /\ lockUID' \in Nat
  BY DEF TypeOK, ApiTypeOK
<1>2. \A l \in locks' : l.uid \in Nat /\ l.uid # 0
  BY <1>1, SeenIffNext DEF UIDsIdentify
<1>3. ASSUME NEW k \in Keys
      PROVE  Truthful(atts'[k], k, atts'[k].uid, locks', lockUID')
  <2>1. Truthful(atts[k], k, atts[k].uid, locks, lockUID)
    BY DEF StatusesTruthful
  <2>2. atts[k].lock \in Nat
    BY DEF TypeOK, ApiTypeOK, NetworkAttachment
  <2> QED BY <1>1, <1>2, <2>1, <2>2 DEF TruthfulWrites, LocksGrow, Truthful, SameLock
<1>4. ASSUME NEW c \in Controllers, NEW k \in Keys
      PROVE  Truthful(proc'[c][k].st, k, proc'[c][k].att.uid, locks', lockUID')
  <2>1. Truthful(proc[c][k].st, k, proc[c][k].att.uid, locks, lockUID)
    BY DEF StatusesTruthful
  <2>2. proc[c][k] \in Pass
    BY DEF TypeOK
  <2>3. proc[c][k].st.lock \in Nat
    BY <2>2 DEF Pass, Status
  <2> QED BY <1>1, <1>2, <2>1, <2>3 DEF TruthfulWrites, LocksGrow, Truthful, SameLock
<1> QED BY <1>3, <1>4 DEF StatusesTruthful, Truthful

\* A step that touches no lock.
LEMMA SameLocksUIDs ==
    ASSUME TypeOK, UIDsIdentify,
           UNCHANGED <<locks, lockUID, lockEvents, lockCache>>
    PROVE  UIDsIdentify' /\ LocksGrow
<1>1. LocksSeen' \subseteq LocksSeen
  BY SeenIff, SeenIffNext
<1>2. LocksGrow
  BY DEF LocksGrow, TypeOK, ApiTypeOK
<1> QED BY <1>1, <1>2, UIDsKept

\* The deletion of a lock.
LEMMA DeleteLockUIDs ==
    ASSUME TypeOK, UIDsIdentify, NEW l, DeleteLock(l),
           UNCHANGED <<lockUID, lockCache>>
    PROVE  UIDsIdentify' /\ LocksGrow
<1>1. LocksGrow
  BY DEF LocksGrow, DeleteLock, TypeOK, ApiTypeOK
<1> QED BY <1>1, DeleteLockSeen, UIDsKept

\* The creation of a lock.
LEMMA CreateLockUIDs ==
    ASSUME TypeOK, UIDsIdentify, NEW slot \in Slots, NEW k \in Keys,
           NEW att \in NetworkAttachment, CreateLock(slot, k, att),
           lockCache' = lockCache
    PROVE  UIDsIdentify' /\ LocksGrow
<1>1. PICK l \in IPLock : l.uid = lockUID + 1 /\ locks' = locks \cup {l}
  BY CreateLockEffect
<1>2. lockUID' = lockUID + 1 /\ lockUID \in Nat
  BY CreateLockEffect DEF TypeOK, ApiTypeOK
<1>3. LocksGrow
  BY <1>1, <1>2 DEF LocksGrow
<1> QED BY <1>3, UIDsNew

-----------------------------------------------------------------------------
(* One lemma per kind of step.                                              *)

\* The initial states.
LEMMA InitIInv == Init => IInv
<1> SUFFICES ASSUME Init PROVE IInv
  OBVIOUS
<1>1. LocksSeen = {}
  <2>1. \A c \in Controllers : lockCache[c] = {} /\ Len(lockEvents[c]) = 0
    BY DEF Init, ApiInit
  <2>2. locks = {}
    BY DEF Init, ApiInit
  <2>3. 1 .. 0 = {}
    OBVIOUS
  <2> QED BY <2>1, <2>2, <2>3, SeenIff
<1>2. UIDsIdentify
  BY <1>1 DEF UIDsIdentify
<1>3. ASSUME NEW k \in Keys, NEW a \in Revisions(k)
      PROVE  a = NoAtt /\ atts[k] = NoAtt /\ attRV[k] = 0
  <2>1. atts[k] = NoAtt /\ attRV[k] = 0
    BY DEF Init, ApiInit
  <2>2. \A c \in Controllers : attCache[c][k] = NoAtt /\ proc[c][k].att = NoAtt
    BY <2>1 DEF Init, Idle
  <2>3. \A c \in Controllers : Len(attEvents[c]) = 0
    BY DEF Init, ApiInit
  <2>4. 1 .. 0 = {}
    OBVIOUS
  <2> QED BY <2>1, <2>2, <2>3, <2>4, RevisionsIff
<1>4. RevisionsIdentify
  <2>1. NoAtt.rv = 0 /\ NoAtt.uid = 0 /\ 0 <= 0
    BY DEF NoAtt
  <2> QED BY <1>3, <2>1 DEF RevisionsIdentify, RevisionOf
<1>5. StatusesTruthful
  <2>1. locks = {} /\ lockUID = 0
    BY DEF Init, ApiInit
  <2>2. \A k \in Keys : atts[k].lock = 0
    BY DEF Init, ApiInit, NoAtt
  <2>3. \A c \in Controllers, k \in Keys : proc[c][k].st.lock = 0
    BY DEF Init, Idle, NoStatus
  <2> QED BY <2>1, <2>2, <2>3 DEF StatusesTruthful, Truthful
<1> QED BY <1>2, <1>4, <1>5 DEF IInv

\* Clients and the garbage collector.
LEMMA EnvironmentIInv ==
    ASSUME TypeOK, TypeOK', IInv, UNCHANGED localVars,
           ClientNext \/ \E l \in locks : CollectGarbage(l)
    PROVE  IInv'
<1> USE DEF IInv
<1>1. UNCHANGED <<attCache, lockCache, proc>>
  BY DEF localVars
<1>2. PassesFromCache
  BY <1>1 DEF PassesFromCache
<1>3. \A c \in Controllers, k \in Keys :
         /\ SameLock(proc[c][k].st, proc'[c][k].st)
         /\ proc'[c][k].att.uid = proc[c][k].att.uid
  BY <1>1 DEF SameLock
<1>4. ASSUME NEW k \in Keys, NEW att \in NetworkAttachment, PutAtt(k, att),
             \/ att = NoAtt /\ attRV' = attRV
             \/ /\ att.rv = attRV[k] + 1 /\ attRV' = [attRV EXCEPT ![k] = @ + 1]
                /\ \/ att.lock = 0
                   \/ SameLock(atts[k], att) /\ att.uid = atts[k].uid,
             UNCHANGED <<locks, lockUID, lockEvents>>
      PROVE  IInv'
  <2>1. \A m \in Keys : atts'[m] = IF m = k THEN att ELSE atts[m]
    BY <1>4 DEF PutAtt, TypeOK, ApiTypeOK
  <2>2. NoAtt.lock = 0
    BY DEF NoAtt
  <2>3. UIDsIdentify' /\ LocksGrow
    BY <1>1, <1>4, SameLocksUIDs
  <2>4. \A m \in Keys : Rewritten(m)
    BY <1>4, <2>1 DEF Rewritten, TypeOK, ApiTypeOK
  <2>5. RevisionsIdentify'
    BY <1>1, <1>2, <1>4, <2>4, PutAttRevisions, RevisionsStep
  <2>6. TruthfulWrites
    BY <1>3, <1>4, <2>1, <2>2 DEF TruthfulWrites, SameLock
  <2> QED BY <2>3, <2>5, <2>6, StatusesStep
<1>5. ASSUME UNCHANGED <<atts, attRV, attEvents>>, UIDsIdentify', LocksGrow
      PROVE  IInv'
  <2>1. RevisionsIdentify'
    BY <1>1, <1>2, <1>5, SameAttsRevisions
  <2>2. TruthfulWrites
    BY <1>3, <1>5 DEF TruthfulWrites, SameLock
  <2> QED BY <1>5, <2>1, <2>2, StatusesStep
<1>6. CASE \E k \in Keys, s \in Subnets : s \in SubnetsOf[k] /\ CreateAttachment(k, s)
  <2>1. PICK k \in Keys, s \in Subnets : CreateAttachment(k, s)
    BY <1>6
  <2> DEFINE att == [NoAtt EXCEPT !.uid = attRV[k] + 1, !.rv = attRV[k] + 1,
                                  !.subnet = s]
  <2>2. att.lock = 0 /\ att.rv = attRV[k] + 1
    BY DEF NoAtt
  <2>3. att \in NetworkAttachment
    <3>1. attRV[k] + 1 \in Nat
      BY DEF TypeOK, ApiTypeOK
    <3> QED BY <3>1, NewAttType, Zenon
  <2>4. /\ PutAtt(k, att) /\ attRV' = [attRV EXCEPT ![k] = @ + 1]
        /\ UNCHANGED <<locks, lockUID, lockEvents>>
    BY <2>1 DEF CreateAttachment
  <2> HIDE DEF att
  <2> QED BY <1>4, <2>2, <2>3, <2>4
<1>7. CASE \E k \in Keys : DeleteAttachment(k)
  BY <1>4, <1>7, ZeroTypes DEF DeleteAttachment
<1>8. CASE \E k \in Keys, s \in Subnets : s \in SubnetsOf[k] /\ UpdateAttachment(k, s)
  <2>1. PICK k \in Keys, s \in Subnets : UpdateAttachment(k, s)
    BY <1>8
  <2> DEFINE att == [atts[k] EXCEPT !.rv = attRV[k] + 1, !.subnet = s]
  <2>2. atts[k] \in NetworkAttachment /\ attRV[k] + 1 \in Nat
    BY DEF TypeOK, ApiTypeOK
  <2>3. att.rv = attRV[k] + 1 /\ SameLock(atts[k], att) /\ att.uid = atts[k].uid
    BY <2>2 DEF NetworkAttachment, SameLock
  <2>4. att \in NetworkAttachment
    BY <2>2, UpdatedAttType, Zenon
  <2>5. /\ PutAtt(k, att) /\ attRV' = [attRV EXCEPT ![k] = @ + 1]
        /\ UNCHANGED <<locks, lockUID, lockEvents>>
    BY <2>1 DEF UpdateAttachment
  <2> HIDE DEF att
  <2> QED BY <1>4, <2>3, <2>4, <2>5
<1>9. CASE \/ \E s \in Subnets, d \in SubnetDefs : WriteSubnet(s, d)
           \/ \E s \in Subnets : DeleteSubnet(s)
  <2>1. UNCHANGED <<atts, attRV, attEvents, locks, lockUID, lockEvents>>
    BY <1>9 DEF WriteSubnet, DeleteSubnet
  <2> QED BY <1>1, <1>5, <2>1, SameLocksUIDs
<1>10. CASE \E l \in locks : CollectGarbage(l)
  <2>1. PICK l \in locks : CollectGarbage(l)
    BY <1>10
  <2>2. DeleteLock(l) /\ UNCHANGED <<atts, attRV, attEvents, lockUID>>
    BY <2>1 DEF CollectGarbage
  <2> QED BY <1>1, <1>5, <2>2, DeleteLockUIDs
<1> QED BY <1>6, <1>7, <1>8, <1>9, <1>10 DEF ClientNext

\* What remains of a stream after a delivery was in it before.
LEMMA TailElement ==
    ASSUME NEW S, NEW s \in Seq(S), s # <<>>, NEW i \in 1 .. Len(Tail(s))
    PROVE  i + 1 \in 1 .. Len(s) /\ Tail(s)[i] = s[i + 1]
OBVIOUS

\* The informers.
LEMMA InformerIInv ==
    ASSUME TypeOK, TypeOK', IInv, NEW c \in Controllers, InformerStep(c)
    PROVE  IInv'
<1> USE DEF IInv
<1>1. UNCHANGED <<atts, attRV, locks, lockUID, proc>>
  BY DEF InformerStep, OnAttachmentNotify, OnSubnetNotify, IndexLock,
         OnLockNotify, apiVars, storeVars
<1>2. PassesFromCache
  BY <1>1 DEF PassesFromCache
<1>3. LocksGrow /\ TruthfulWrites
  BY <1>1 DEF LocksGrow, TruthfulWrites, SameLock, TypeOK, ApiTypeOK
<1>4. UIDsIdentify'
  <2>1. CASE UNCHANGED <<lockCache, lockEvents>>
    BY <1>1, <2>1, SameLocksUIDs
  <2>2. CASE IndexLock(c)
    <3> DEFINE e == Head(lockEvents[c])
    <3>1. /\ lockEvents[c] \in Seq(LockEvent) /\ lockEvents[c] # <<>>
          /\ lockEvents' = [lockEvents EXCEPT ![c] = Tail(@)]
          /\ \A d \in Controllers : lockCache'[d] \subseteq lockCache[d] \cup {e.lock}
      BY <2>2 DEF IndexLock, TypeOK, ApiTypeOK
    <3>2. 1 \in 1 .. Len(lockEvents[c]) /\ e = lockEvents[c][1]
      BY <3>1
    <3>3. e.lock \in LocksSeen
      BY <3>2, SeenIff
    <3>4. ASSUME NEW d \in Controllers, NEW i \in 1 .. Len(lockEvents'[d])
          PROVE  lockEvents'[d][i].lock \in LocksSeen
      <4>1. CASE d # c
        <5>1. lockEvents'[d] = lockEvents[d]
          BY <3>1, <4>1 DEF TypeOK, ApiTypeOK
        <5> QED BY <3>4, <5>1, SeenIff
      <4>2. CASE d = c
        <5>1. lockEvents'[c] = Tail(lockEvents[c])
          BY <3>1 DEF TypeOK, ApiTypeOK
        <5>2. /\ i + 1 \in 1 .. Len(lockEvents[c])
              /\ lockEvents'[c][i] = lockEvents[c][i + 1]
          BY <3>1, <3>4, <4>2, <5>1, TailElement
        <5> QED BY <4>2, <5>2, SeenIff
      <4> QED BY <4>1, <4>2
    <3>5. LocksSeen' \subseteq LocksSeen
      <4> HIDE DEF e
      <4> QED BY <1>1, <3>1, <3>3, <3>4, SeenIff, SeenIffNext
    <3> QED BY <1>1, <3>5, UIDsKept
  <2> QED BY <2>1, <2>2 DEF InformerStep, OnAttachmentNotify, OnSubnetNotify,
                            OnLockNotify, apiVars, watchVars
<1>5. RevisionsIdentify'
  <2>1. CASE UNCHANGED <<attCache, attEvents>>
    BY <1>1, <1>2, <2>1, SameAttsRevisions
  <2>2. CASE OnAttachmentNotify(c)
    <3> DEFINE e == Head(attEvents[c])
    <3>1. /\ attEvents[c] \in Seq(AttEvent) /\ attEvents[c] # <<>>
          /\ attEvents' = [attEvents EXCEPT ![c] = Tail(@)]
          /\ attCache' = [attCache EXCEPT ![c][e.key] = e.obj]
      BY <2>2 DEF OnAttachmentNotify, TypeOK, ApiTypeOK
    <3>2. 1 \in 1 .. Len(attEvents[c]) /\ e = attEvents[c][1]
      BY <3>1
    <3>3. ASSUME NEW k \in Keys PROVE NothingElse(k)
      <4> SUFFICES ASSUME NEW a \in Revisions(k)' PROVE a \in Revisions(k)
        BY DEF NothingElse
      <4>1. CASE a = atts'[k] \/ \E d \in Controllers : a = proc'[d][k].att
        BY <1>1, <4>1, RevisionsIff
      <4>2. ASSUME NEW d \in Controllers, a = attCache'[d][k]
            PROVE  a \in Revisions(k)
        <5>1. \/ attCache'[d][k] = attCache[d][k]
              \/ d = c /\ k = e.key /\ attCache'[d][k] = e.obj
          <6> HIDE DEF e
          <6> QED BY <3>1 DEF TypeOK
        <5> QED BY <3>2, <4>2, <5>1, RevisionsIff
      <4>3. ASSUME NEW d \in Controllers, NEW i \in 1 .. Len(attEvents'[d]),
                   attEvents'[d][i].key = k, a = attEvents'[d][i].obj
            PROVE  a \in Revisions(k)
        <5>1. CASE d # c
          <6>1. attEvents'[d] = attEvents[d]
            BY <3>1, <5>1 DEF TypeOK, ApiTypeOK
          <6> QED BY <4>3, <6>1, RevisionsIff
        <5>2. CASE d = c
          <6>1. attEvents'[c] = Tail(attEvents[c])
            BY <3>1 DEF TypeOK, ApiTypeOK
          <6>2. /\ i + 1 \in 1 .. Len(attEvents[c])
                /\ attEvents'[c][i] = attEvents[c][i + 1]
            BY <3>1, <4>3, <5>2, <6>1, TailElement
          <6> QED BY <4>3, <5>2, <6>2, RevisionsIff
        <5> QED BY <5>1, <5>2
      <4> QED BY <4>1, <4>2, <4>3, RevisionsIffNext
    <3>4. \A k \in Keys : Rewritten(k)
      BY <1>1 DEF Rewritten
    <3> QED BY <3>3, <3>4, RevisionsStep
  <2> QED BY <2>1, <2>2 DEF InformerStep, IndexLock, OnSubnetNotify,
                            OnLockNotify, apiVars, watchVars
<1> QED BY <1>3, <1>4, <1>5, StatusesStep

\* A controller restarts.
LEMMA RestartIInv ==
    ASSUME TypeOK, TypeOK', IInv, NEW c \in Controllers, Restart(c)
    PROVE  IInv'
<1> USE DEF IInv
<1>1. UNCHANGED <<atts, attRV, locks, lockUID>>
  BY DEF Restart, storeVars
<1>2. \A d \in Controllers :
         /\ lockCache'[d] = IF d = c THEN locks ELSE lockCache[d]
         /\ lockEvents'[d] = IF d = c THEN <<>> ELSE lockEvents[d]
         /\ attCache'[d] = IF d = c THEN atts ELSE attCache[d]
         /\ attEvents'[d] = IF d = c THEN <<>> ELSE attEvents[d]
  BY DEF Restart, TypeOK, ApiTypeOK
<1>3. \A d \in Controllers, k \in Keys :
         proc'[d][k] = IF d = c THEN Idle ELSE proc[d][k]
  BY DEF Restart, TypeOK
<1>4. 1 .. Len(<<>>) = {}
  OBVIOUS
<1>5. LocksSeen' \subseteq LocksSeen
  BY <1>1, <1>2, <1>4, SeenIff, SeenIffNext
<1>6. UIDsIdentify'
  BY <1>1, <1>5, UIDsKept
<1>7. ASSUME NEW k \in Keys PROVE NothingElse(k)
  <2> SUFFICES ASSUME NEW a \in Revisions(k)' PROVE a \in Revisions(k) \cup {NoAtt}
    BY DEF NothingElse
  <2>1. Idle.att = NoAtt
    BY DEF Idle
  <2> QED BY <1>1, <1>2, <1>3, <1>4, <2>1, RevisionsIff, RevisionsIffNext
<1>8. RevisionsIdentify'
  BY <1>1, <1>7, RevisionsStep DEF Rewritten
<1>9. LocksGrow
  BY <1>1 DEF LocksGrow, TypeOK, ApiTypeOK
<1>10. TruthfulWrites
  <2>1. Idle.st.lock = 0
    BY DEF Idle, NoStatus
  <2> QED BY <1>1, <1>3, <2>1 DEF TruthfulWrites, SameLock
<1> QED BY <1>6, <1>8, <1>9, <1>10, StatusesStep

-----------------------------------------------------------------------------
(* The workers.                                                             *)

\* A worker's step that writes no attachment, and whose pass goes on with the
\* status it had, with none, or with one that names the worker's own lock.
LEMMA WorkerIInv ==
    ASSUME TypeOK, TypeOK', IInv, NEW c \in Controllers, NEW k \in Keys, NEW p,
           proc' = [proc EXCEPT ![c][k] = p],
           p.att \in {proc[c][k].att, NoAtt, attCache[c][k]},
           \/ p.st.lock = 0
           \/ SameLock(proc[c][k].st, p.st) /\ p.att.uid = proc[c][k].att.uid
           \/ Truthful(p.st, k, p.att.uid, locks', lockUID'),
           UNCHANGED <<atts, attRV, attEvents, attCache>>,
           UIDsIdentify', LocksGrow
    PROVE  IInv'
<1>1. \A d \in Controllers, m \in Keys :
         proc'[d][m] = IF d = c /\ m = k THEN p ELSE proc[d][m]
  BY DEF TypeOK
<1>2. PassesFromCache
  BY <1>1 DEF PassesFromCache
<1>3. RevisionsIdentify'
  BY <1>2, SameAttsRevisions DEF IInv
<1>4. TruthfulWrites
  BY <1>1 DEF TruthfulWrites, SameLock
<1> QED BY <1>3, <1>4, StatusesStep DEF IInv

\* Proceed ends a pass, or keeps its attachment and its status.
LEMMA ProceedParts ==
    ASSUME NEW p \in Pass
    PROVE  Proceed(p) = Idle \/ (Proceed(p).att = p.att /\ Proceed(p).st = p.st)
<1>1. CASE p.release # {}
  <2>1. Proceed(p) = [p EXCEPT !.pc = "release"]
    BY <1>1 DEF Proceed
  <2> QED BY <2>1 DEF Pass
<1>2. CASE p.release = {} /\ p.then = "idle"
  BY <1>2 DEF Proceed
<1>3. CASE p.release = {} /\ p.then # "idle"
  <2>1. Proceed(p) = [p EXCEPT !.pc = p.then]
    BY <1>3 DEF Proceed
  <2> QED BY <2>1 DEF Pass
<1> QED BY <1>1, <1>2, <1>3

\* Idle passes have no attachment and no status.
LEMMA IdleParts == Idle.att = NoAtt /\ Idle.st.lock = 0
BY DEF Idle, NoStatus

\* The status that analyzeAndRelease decides on names a lock of the attachment:
\* one that the indexer or the API server showed, which may be gone by now.
LEMMA AnalyzeTruthful ==
    ASSUME TypeOK, UIDsIdentify, NEW c \in Controllers, NEW k \in Keys,
           NEW fetched \in SUBSET locks
    PROVE  LET p == analyzeAndRelease(c, k, fetched)
           IN /\ p.att = attCache[c][k]
              /\ p.st.lock = 0 \/ Truthful(p.st, k, p.att.uid, locks, lockUID)
<1> DEFINE att          == attCache[c][k]
           subnet       == DesiredSubnet(c, k)
           considered   == {l \in OwnedObjs(c, k) \cup fetched :
                               Exists(att) => OwnedBy(l, k, att)}
           usable       == {l \in considered : InSubnet(l.slot, subnet)}
           lockInStatus == {l \in usable : l.uid = att.lock /\ l.slot[2] = att.ip}
           keep         == IF lockInStatus # {} THEN lockInStatus ELSE Best(usable)
           lockForStatus == CHOOSE l \in keep : TRUE
           st           == [ip |-> lockForStatus.slot[2],
                            vni |-> lockForStatus.slot[1],
                            lock |-> lockForStatus.uid, err |-> FALSE]
           pass         == [pc |-> "release", att |-> att, want |-> subnet,
                            release |-> considered \ keep, then |-> "idle",
                            st |-> NoStatus]
           toUpdate     == [pass EXCEPT !.then = "update", !.st = st]
           toPick       == [pass EXCEPT !.then = "pick"]
           p            == analyzeAndRelease(c, k, fetched)
<1>1. NoStatus.lock = 0
  BY DEF NoStatus
<1>2. CASE p = pass \/ p = toPick
  <2> HIDE DEF att, subnet, considered, keep, p
  <2>1. p.att = att /\ p.st = NoStatus
    BY <1>2
  <2> USE DEF att, p
  <2> QED BY <1>1, <2>1
<1>3. CASE Exists(att) /\ keep # {} /\ p = toUpdate
  <2>1. keep \subseteq considered
    BY BestType
  <2>2. lockForStatus \in considered
    BY <1>3, <2>1
  <2>3. p.att = att /\ p.st = st
    BY <1>3
  <2> HIDE DEF lockForStatus, p
  <2>4. OwnedBy(lockForStatus, k, att)
    BY <1>3, <2>2
  <2>5. lockForStatus \in LocksSeen
    <3>1. OwnedObjs(c, k) \subseteq lockCache[c]
      BY DEF OwnedObjs
    <3> QED BY <2>2, <3>1, SeenIff
  <2>6. lockForStatus \in IPLock
    BY <2>5, SeenType
  <2>7. lockForStatus.slot \in Slots
    BY <2>6 DEF IPLock
  <2>8. lockForStatus.slot = <<st.vni, st.ip>> /\ st.lock = lockForStatus.uid
    BY <2>7, SlotParts
  <2>9. \A l \in locks : l.uid = lockForStatus.uid => l = lockForStatus
    BY <2>5, SeenIff DEF UIDsIdentify
  <2>10. lockForStatus.uid <= lockUID
    BY <2>5 DEF UIDsIdentify, TypeOK, ApiTypeOK
  <2>11. Truthful(st, k, att.uid, locks, lockUID)
    <3> HIDE DEF st
    <3> QED BY <2>4, <2>8, <2>9, <2>10 DEF Truthful, OwnedBy
  <2> HIDE DEF st
  <2> QED BY <2>3, <2>11 DEF p
<1>4. \/ p = pass \/ p = toPick
      \/ Exists(att) /\ keep # {} /\ p = toUpdate
  BY DEF analyzeAndRelease
<1> QED BY <1>2, <1>3, <1>4

LEMMA ProcessIInv ==
    ASSUME TypeInv, TypeOK', IInv, NEW c \in Controllers, NEW k \in Keys,
           processNetworkAttachment(c, k)
    PROVE  IInv'
<1> USE DEF IInv
<1>1. /\ UNCHANGED <<atts, attRV, attEvents, attCache>>
      /\ UNCHANGED <<locks, lockUID, lockEvents, lockCache>>
  BY DEF processNetworkAttachment, storeVars, watchVars
<1>2. TypeOK /\ UIDsIdentify' /\ LocksGrow
  BY <1>1, SameLocksUIDs DEF TypeInv
<1>3. CASE SubnetMissing(c, k)
  <2> DEFINE p == [Idle EXCEPT !.pc = "update", !.att = attCache[c][k],
                               !.st = [NoStatus EXCEPT !.err = TRUE]]
  <2>1. [NoStatus EXCEPT !.err = TRUE].lock = 0
    BY DEF NoStatus
  <2>2. p.att = attCache[c][k] /\ p.st = [NoStatus EXCEPT !.err = TRUE]
    BY ZeroTypes DEF Pass
  <2>3. proc' = [proc EXCEPT ![c][k] = p]
    BY <1>3 DEF processNetworkAttachment
  <2> HIDE DEF p
  <2> QED BY <1>1, <1>2, <2>1, <2>2, <2>3, WorkerIInv
<1>4. CASE ~SubnetMissing(c, k)
  <2>1. PICK fetched \in {{}, Fetched(c, k)} :
           proc' = [proc EXCEPT ![c][k] = Proceed(analyzeAndRelease(c, k, fetched))]
    BY <1>4 DEF processNetworkAttachment
  <2> DEFINE p == analyzeAndRelease(c, k, fetched)
             q == Proceed(p)
  <2>2. fetched \in SUBSET locks /\ fetched \in SUBSET IPLock
    BY ConsideredType, <1>2 DEF Fetched, LocksAt
  <2>3. /\ p.att = attCache[c][k]
        /\ p.st.lock = 0 \/ Truthful(p.st, k, p.att.uid, locks, lockUID)
    BY <1>2, <2>2, AnalyzeTruthful
  <2>4. p \in Pass
    BY <1>2, <1>4, <2>2, AnalyzeType
  <2> HIDE DEF p
  <2>5. q = Idle \/ (q.att = p.att /\ q.st = p.st)
    BY <2>4, ProceedParts
  <2>6. proc' = [proc EXCEPT ![c][k] = q]
    BY <2>1 DEF p
  <2> HIDE DEF q
  <2>7. q.att \in {NoAtt, attCache[c][k]}
    BY <2>3, <2>5, IdleParts
  <2>8. q.st.lock = 0 \/ Truthful(q.st, k, q.att.uid, locks', lockUID')
    BY <1>1, <2>3, <2>5, IdleParts
  <2> QED BY <1>1, <1>2, <2>6, <2>7, <2>8, WorkerIInv
<1> QED BY <1>3, <1>4

LEMMA ReleaseIInv ==
    ASSUME TypeInv, TypeOK', IInv, NEW c \in Controllers, NEW k \in Keys,
           deleteIPLockObject(c, k)
    PROVE  IInv'
<1> USE DEF IInv
<1> DEFINE p == proc[c][k]
<1>1. UNCHANGED <<atts, attRV, attEvents, attCache, lockUID, lockCache>>
  BY DEF deleteIPLockObject
<1>2. TypeOK /\ p \in Pass
  BY DEF TypeInv, TypeOK
<1>3. PICK l \in NextToRelease(p) :
         /\ (\E m : DeleteLock(m)) \/ UNCHANGED <<locks, lockEvents>>
         /\ \/ Continue(c, k, Proceed([p EXCEPT !.release = @ \ {l}]))
            \/ Retry(c, k)
  BY DEF deleteIPLockObject
<1>4. UIDsIdentify' /\ LocksGrow
  BY <1>1, <1>2, <1>3, DeleteLockUIDs, SameLocksUIDs
<1>5. CASE Retry(c, k)
  BY <1>1, <1>2, <1>4, <1>5, IdleParts, WorkerIInv DEF Retry
<1>6. CASE Continue(c, k, Proceed([p EXCEPT !.release = @ \ {l}]))
  <2> DEFINE q == [p EXCEPT !.release = @ \ {l}]
             r == Proceed(q)
  <2>1. q \in Pass /\ q.att = p.att /\ q.st = p.st
    BY <1>2 DEF Pass
  <2>2. proc' = [proc EXCEPT ![c][k] = r]
    BY <1>6 DEF Continue
  <2> HIDE DEF q
  <2>3. r = Idle \/ (r.att = p.att /\ r.st = p.st)
    BY <2>1, ProceedParts
  <2> HIDE DEF r
  <2>4. /\ r.att \in {p.att, NoAtt}
        /\ r.st.lock = 0 \/ (SameLock(p.st, r.st) /\ r.att.uid = p.att.uid)
    BY <2>3, IdleParts DEF SameLock
  <2> QED BY <1>1, <1>2, <1>4, <2>2, <2>4, WorkerIInv
<1> QED BY <1>3, <1>5, <1>6

LEMMA PickIInv ==
    ASSUME TypeInv, TypeOK', IInv, NEW c \in Controllers, NEW k \in Keys,
           PickAddress(c, k)
    PROVE  IInv'
<1> USE DEF IInv
<1> DEFINE p == proc[c][k]
<1>1. /\ UNCHANGED <<atts, attRV, attEvents, attCache>>
      /\ UNCHANGED <<locks, lockUID, lockEvents, lockCache>>
  BY DEF PickAddress, apiVars, storeVars, watchVars
<1>2. TypeOK /\ UIDsIdentify' /\ LocksGrow
  BY <1>1, SameLocksUIDs DEF TypeInv
<1>3. p \in Pass /\ p.st \in Status /\ p.st.lock = 0
  <2>1. p \in Pass /\ PassOK(p) /\ p.pc = "pick"
    BY DEF PickAddress, TypeInv, TypeOK, PassesOK
  <2> QED BY <2>1 DEF PassOK, Pass
<1>4. CASE Retry(c, k)
  BY <1>1, <1>2, <1>4, IdleParts, WorkerIInv DEF Retry
<1>5. ASSUME NEW a \in PickRange(p.want),
             Continue(c, k, [p EXCEPT !.pc = "create", !.st.ip = a,
                                      !.st.vni = p.want.vni])
      PROVE  IInv'
  <2> DEFINE q == [p EXCEPT !.pc = "create", !.st.ip = a, !.st.vni = p.want.vni]
  <2>1. q.att = p.att /\ q.st.lock = 0
    BY <1>3 DEF Pass, Status
  <2>2. proc' = [proc EXCEPT ![c][k] = q]
    BY <1>5 DEF Continue
  <2> HIDE DEF q
  <2> QED BY <1>1, <1>2, <2>1, <2>2, WorkerIInv
<1> QED BY <1>4, <1>5 DEF PickAddress

\* The new lock belongs to the attachment whose status will name it.
LEMMA NewLockTruthful ==
    ASSUME TypeOK, UIDsIdentify, NEW slot \in Slots, NEW k \in Keys,
           NEW att \in NetworkAttachment, CreateLock(slot, k, att),
           NEW st, st.lock = lockUID', <<st.vni, st.ip>> = slot
    PROVE  Truthful(st, k, att.uid, locks', lockUID')
<1>1. PICK tick \in Ticks :
         locks' = locks \cup {[slot |-> slot, owner |-> k, ouid |-> att.uid,
                               uid |-> lockUID + 1, ctime |-> lockTime + tick]}
  BY DEF CreateLock
<1> DEFINE l == [slot |-> slot, owner |-> k, ouid |-> att.uid,
                 uid |-> lockUID + 1, ctime |-> lockTime + tick]
<1>2. lockUID' = lockUID + 1 /\ lockUID \in Nat
  BY CreateLockEffect DEF TypeOK, ApiTypeOK
<1>3. \A m \in locks : m.uid \in Nat /\ m.uid # lockUID'
  BY <1>2, SeenIff DEF UIDsIdentify
<1>4. l.slot = slot /\ l.owner = k /\ l.ouid = att.uid
  OBVIOUS
<1>5. \A m \in locks' : m.uid = st.lock => m = l
  BY <1>1, <1>3
<1> HIDE DEF l
<1> QED BY <1>2, <1>4, <1>5 DEF Truthful

LEMMA LockIInv ==
    ASSUME TypeInv, TypeOK', IInv, NEW c \in Controllers, NEW k \in Keys,
           LockAddress(c, k)
    PROVE  IInv'
<1> USE DEF IInv
<1> DEFINE p == proc[c][k]
<1>1. UNCHANGED <<atts, attRV, attEvents, attCache, lockCache>>
  BY DEF LockAddress
<1>2. TypeOK /\ p \in Pass /\ PassOK(p) /\ p.pc = "create"
  BY DEF LockAddress, TypeInv, TypeOK, PassesOK
<1>3. /\ PickedSlot(p) \in Slots /\ p.att \in NetworkAttachment
      /\ p.st \in Status /\ p.st.lock = 0
  BY <1>2 DEF Pass, PassOK
<1>4. \/ CreateLock(PickedSlot(p), k, p.att)
      \/ UNCHANGED <<locks, lockUID, lockTime, lockEvents>>
  BY DEF LockAddress
<1>5. UIDsIdentify' /\ LocksGrow
  BY <1>1, <1>2, <1>3, <1>4, CreateLockUIDs, SameLocksUIDs
<1>6. \/ /\ CreateLock(PickedSlot(p), k, p.att)
         /\ Continue(c, k, [p EXCEPT !.pc = "update", !.st.lock = lockUID'])
      \/ Continue(c, k, [p EXCEPT !.pc = "recover"])
      \/ Continue(c, k, [p EXCEPT !.pc = "update"])
      \/ Retry(c, k)
  BY DEF LockAddress
<1>7. CASE Retry(c, k)
  BY <1>1, <1>2, <1>5, <1>7, IdleParts, WorkerIInv DEF Retry
<1>8. ASSUME NEW pc, Continue(c, k, [p EXCEPT !.pc = pc]) PROVE IInv'
  <2> DEFINE q == [p EXCEPT !.pc = pc]
  <2>1. q.att = p.att /\ q.st = p.st
    BY <1>2 DEF Pass
  <2>2. proc' = [proc EXCEPT ![c][k] = q]
    BY <1>8 DEF Continue
  <2> HIDE DEF q
  <2> QED BY <1>1, <1>2, <1>3, <1>5, <2>1, <2>2, WorkerIInv
<1>9. CASE /\ CreateLock(PickedSlot(p), k, p.att)
           /\ Continue(c, k, [p EXCEPT !.pc = "update", !.st.lock = lockUID'])
  <2> DEFINE q == [p EXCEPT !.pc = "update", !.st.lock = lockUID']
  <2>1. /\ q.att = p.att
        /\ q.st.lock = lockUID' /\ q.st.vni = p.st.vni /\ q.st.ip = p.st.ip
    BY <1>2, <1>3 DEF Pass, Status
  <2>2. proc' = [proc EXCEPT ![c][k] = q]
    BY <1>9 DEF Continue
  <2> HIDE DEF q
  <2>3. q.st.lock = lockUID' /\ <<q.st.vni, q.st.ip>> = PickedSlot(p)
    BY <2>1 DEF PickedSlot
  <2>4. Truthful(q.st, k, p.att.uid, locks', lockUID')
    BY <1>2, <1>3, <1>9, <2>3, NewLockTruthful
  <2> QED BY <1>1, <1>2, <1>5, <2>1, <2>2, <2>4, WorkerIInv
<1> QED BY <1>6, <1>7, <1>8, <1>9

\* A lock found on the picked address is taken over only if it is ours.
LEMMA RecoverIInv ==
    ASSUME TypeInv, TypeOK', IInv, NEW c \in Controllers, NEW k \in Keys,
           RecoverLock(c, k)
    PROVE  IInv'
<1> USE DEF IInv
<1> DEFINE p == proc[c][k]
<1>1. /\ UNCHANGED <<atts, attRV, attEvents, attCache>>
      /\ UNCHANGED <<locks, lockUID, lockEvents, lockCache>>
  BY DEF RecoverLock, storeVars, watchVars
<1>2. TypeOK /\ UIDsIdentify' /\ LocksGrow
  BY <1>1, SameLocksUIDs DEF TypeInv
<1>3. p \in Pass /\ p.st \in Status
  BY <1>2 DEF TypeOK, Pass
<1>4. CASE Retry(c, k)
  BY <1>1, <1>2, <1>4, IdleParts, WorkerIInv DEF Retry
<1>5. CASE Continue(c, k, [p EXCEPT !.pc = "create"])
  <2> DEFINE q == [p EXCEPT !.pc = "create"]
  <2>1. q.att = p.att /\ q.st = p.st
    BY <1>3 DEF Pass
  <2>2. proc' = [proc EXCEPT ![c][k] = q]
    BY <1>5 DEF Continue
  <2> HIDE DEF q
  <2>3. SameLock(p.st, q.st) /\ q.att.uid = p.att.uid
    BY <2>1 DEF SameLock
  <2> QED BY <1>1, <1>2, <2>1, <2>2, <2>3, WorkerIInv
<1>6. ASSUME NEW l \in LocksAt(PickedSlot(p)), OwnedBy(l, k, p.att),
             Continue(c, k, [p EXCEPT !.pc = "update", !.st.lock = l.uid])
      PROVE  IInv'
  <2> DEFINE q == [p EXCEPT !.pc = "update", !.st.lock = l.uid]
  <2>1. /\ q.att = p.att
        /\ q.st.lock = l.uid /\ q.st.vni = p.st.vni /\ q.st.ip = p.st.ip
    BY <1>3 DEF Pass, Status
  <2>2. proc' = [proc EXCEPT ![c][k] = q]
    BY <1>6 DEF Continue
  <2> HIDE DEF q
  <2>3. l \in locks /\ l.slot = <<q.st.vni, q.st.ip>>
    BY <2>1 DEF LocksAt, PickedSlot
  <2>4. l.uid <= lockUID /\ \A m \in locks : m.uid = l.uid => m = l
    BY <1>2, <2>3, SeenIff DEF UIDsIdentify, TypeOK, ApiTypeOK
  <2>5. Truthful(q.st, k, q.att.uid, locks, lockUID)
    BY <1>6, <2>1, <2>3, <2>4 DEF Truthful, OwnedBy
  <2> QED BY <1>1, <1>2, <2>1, <2>2, <2>5, WorkerIInv
<1> QED BY <1>4, <1>5, <1>6 DEF RecoverLock

\* The ResourceVersion makes sure that the status goes to the incarnation it
\* was made for.
LEMMA UpdateIInv ==
    ASSUME TypeInv, TypeOK', IInv, NEW c \in Controllers, NEW k \in Keys,
           updateNAStatus(c, k)
    PROVE  IInv'
<1> USE DEF IInv
<1> DEFINE p == proc[c][k]
<1>1. UNCHANGED <<attCache, locks, lockUID, lockEvents, lockCache>>
  BY DEF updateNAStatus
<1>2. TypeOK /\ UIDsIdentify' /\ LocksGrow
  BY <1>1, SameLocksUIDs DEF TypeInv
<1>3. proc' = [proc EXCEPT ![c][k] = Idle]
  BY DEF updateNAStatus, Done, Retry
<1>4. CASE UNCHANGED <<atts, attRV, attEvents>>
  BY <1>1, <1>2, <1>3, <1>4, IdleParts, WorkerIInv
<1>5. CASE Exists(atts[k]) /\ atts[k].rv = p.att.rv /\ WriteStatus(k, p.st)
  <2> DEFINE updated == [atts[k] EXCEPT !.ip = p.st.ip, !.vni = p.st.vni,
                                        !.lock = p.st.lock, !.err = p.st.err]
             written == [updated EXCEPT !.rv = attRV[k] + 1]
  <2>1. CASE /\ attRV' = [attRV EXCEPT ![k] = @ + 1]
             /\ PutAtt(k, written)
    <3>1. atts[k] \in NetworkAttachment /\ attRV[k] + 1 \in Nat
      BY <1>2 DEF TypeOK, ApiTypeOK
    <3>2. p \in Pass /\ p.st \in Status
      BY <1>2 DEF TypeOK, Pass
    <3>3. written \in NetworkAttachment
      BY <3>1, <3>2, StatusAttType, Zenon
    <3>4. /\ written.rv = attRV[k] + 1 /\ written.uid = atts[k].uid
          /\ SameLock(p.st, written)
      BY <3>1 DEF NetworkAttachment, SameLock
    <3> HIDE DEF written
    <3>5. \A m \in Keys : atts'[m] = IF m = k THEN written ELSE atts[m]
      BY <1>2, <2>1 DEF PutAtt, TypeOK, ApiTypeOK
    <3>6. \A d \in Controllers, m \in Keys :
             proc'[d][m] = IF d = c /\ m = k THEN Idle ELSE proc[d][m]
      BY <1>2, <1>3 DEF TypeOK
    <3>7. PassesFromCache
      BY <3>6, IdleParts DEF PassesFromCache
    <3>8. \A m \in Keys : Rewritten(m)
      BY <1>2, <2>1, <3>4, <3>5 DEF Rewritten, TypeOK, ApiTypeOK
    <3>9. RevisionsIdentify'
      BY <1>1, <1>2, <2>1, <3>3, <3>7, <3>8, PutAttRevisions, RevisionsStep
    <3>10. p.att.uid = atts[k].uid
      <4>1. p.att \in Revisions(k)
        BY RevisionsIff
      <4>2. RevisionOf(p.att, atts[k], attRV[k])
        BY <4>1 DEF RevisionsIdentify
      <4> QED BY <1>5, <4>2 DEF RevisionOf
    <3>11. Truthful(p.st, k, atts[k].uid, locks, lockUID)
      BY <3>10 DEF StatusesTruthful
    <3>12. Truthful(written, k, written.uid, locks', lockUID')
      BY <1>1, <3>4, <3>11 DEF Truthful, SameLock
    <3>13. TruthfulWrites
      BY <3>5, <3>6, <3>12, IdleParts DEF TruthfulWrites, SameLock
    <3> QED BY <1>2, <3>9, <3>13, StatusesStep
  <2> QED BY <1>4, <1>5, <2>1 DEF WriteStatus
<1> QED BY <1>4, <1>5 DEF updateNAStatus

\* The invariant is inductive.
LEMMA NextIInv ==
    ASSUME TypeInv, IInv, [Next]_vars
    PROVE  IInv'
<1>1. TypeOK /\ TypeOK'
  BY NextTypeInv DEF TypeInv
<1>2. CASE ClientNext /\ UNCHANGED localVars
  BY <1>1, <1>2, EnvironmentIInv
<1>3. CASE \E l \in locks : CollectGarbage(l) /\ UNCHANGED localVars
  BY <1>1, <1>3, EnvironmentIInv
<1>4. CASE \E c \in Controllers : InformerStep(c)
  BY <1>1, <1>4, InformerIInv
<1>5. CASE \E c \in Controllers, k \in Keys : WorkerStep(c, k)
  BY <1>1, <1>5, ProcessIInv, ReleaseIInv, PickIInv, LockIInv, RecoverIInv,
     UpdateIInv DEF WorkerStep
<1>6. CASE \E c \in Controllers : Restart(c)
  BY <1>1, <1>6, RestartIInv
<1>7. CASE UNCHANGED vars
  <2>1. /\ UNCHANGED <<atts, attRV, attEvents, attCache, proc>>
        /\ UNCHANGED <<locks, lockUID, lockEvents, lockCache>>
    BY <1>7 DEF vars, apiVars, storeVars, watchVars, localVars
  <2>2. UIDsIdentify' /\ LocksGrow
    BY <1>1, <2>1, SameLocksUIDs DEF IInv
  <2>3. RevisionsIdentify'
    BY <1>1, <2>1, SameAttsRevisions DEF IInv, PassesFromCache
  <2>4. StatusesTruthful'
    BY <2>1 DEF IInv, StatusesTruthful, Truthful
  <2> QED BY <2>2, <2>3, <2>4 DEF IInv
<1> QED BY <1>2, <1>3, <1>4, <1>5, <1>6, <1>7 DEF Next

\* A status names its own lock: for any number of attachments, controllers and
\* workers, whatever clients do and however calls fail, the lock whose UID an
\* attachment's status carries, if it exists, belongs to that incarnation of the
\* attachment and is on the address in the status.
THEOREM StatusCorrect == Spec => []StatusNamesItsLock
<1>1. Init => TypeInv /\ IInv
  BY InitTypeInv, InitIInv
<1>2. TypeInv /\ IInv /\ [Next]_vars => TypeInv' /\ IInv'
  BY NextTypeInv, NextIInv
<1>3. IInv => StatusNamesItsLock
  BY DEF IInv, StatusesTruthful, Truthful, StatusNamesItsLock, OwnedBy
<1> QED BY <1>1, <1>2, <1>3, PTL DEF Spec

-----------------------------------------------------------------------------
(* The pool of addresses: the inductive invariant.  No error path takes an  *)
(* address out of circulation, whatever fails, restarts or runs at once.    *)

\* A notification that makes the handler take the slot out of the cache.
Frees(e, slot) == e.op = "delete" /\ e.lock.slot = slot

FreedIn(s, slot) == \E j \in DOMAIN s : Frees(s[j], slot)

FreedAfter(s, i, slot) == \E j \in DOMAIN s : j > i /\ Frees(s[j], slot)

\* The slot has a lock among ls.
Locked(ls, slot) == \E l \in ls : l.slot = slot

\* A creation on its way to the handler is of a slot that is still locked, or a
\* deletion of that slot follows.
EventsFollowed(c) ==
    \A i \in DOMAIN lockEvents[c] :
       LET e == lockEvents[c][i] IN
       e.op = "create" => \/ Locked(locks, e.lock.slot)
                          \/ FreedAfter(lockEvents[c], i, e.lock.slot)

NotesFollowed(c) ==
    \A i \in DOMAIN lockNotes[c] :
       LET e == lockNotes[c][i] IN
       e.op = "create" => \/ Locked(locks, e.lock.slot)
                          \/ FreedAfter(lockNotes[c], i, e.lock.slot)
                          \/ FreedIn(lockEvents[c], e.lock.slot)

\* The pass is about to create the lock on the slot.
Locking(c, k, slot) == proc[c][k].pc = "create" /\ PickedSlot(proc[c][k]) = slot

\* A slot in the cache of a controller is accounted for.  A pass that recovers a
\* lock needs no mention: it came there because the slot was locked.
Accounted(c, slot) ==
    \/ Locked(locks, slot)
    \/ PendingRelease(c, slot)
    \/ \E k \in Keys : Locking(c, k, slot)

PoolInv ==
    \A c \in Controllers : /\ EventsFollowed(c)
                           /\ NotesFollowed(c)
                           /\ \A slot \in addrCache[c] : Accounted(c, slot)

\* What an event at the end of a stream changes.
LEMMA FreedAppend ==
    ASSUME NEW s \in Seq(LockEvent), NEW e \in LockEvent, NEW slot
    PROVE  LET t == Append(s, e) IN
           /\ FreedIn(s, slot) \/ Frees(e, slot) => FreedIn(t, slot)
           /\ \A i \in DOMAIN s : FreedAfter(s, i, slot) \/ Frees(e, slot) => FreedAfter(t, i, slot)
           /\ DOMAIN s \subseteq DOMAIN t /\ \A i \in DOMAIN s : t[i] = s[i]
           /\ \A i \in DOMAIN t : i \in DOMAIN s \/ t[i] = e
<1> DEFINE t == Append(s, e)
<1>1. /\ Len(t) = Len(s) + 1 /\ Len(s) \in Nat /\ t[Len(s) + 1] = e
      /\ DOMAIN s = 1 .. Len(s) /\ DOMAIN t = 1 .. Len(t)
      /\ \A i \in 1 .. Len(s) : t[i] = s[i]
  OBVIOUS
<1> HIDE DEF t
<1>2. DOMAIN s \subseteq DOMAIN t /\ \A i \in DOMAIN s : t[i] = s[i]
  BY <1>1
<1>3. \A i \in DOMAIN t : i \in DOMAIN s \/ t[i] = e
  BY <1>1
<1>4. Len(s) + 1 \in DOMAIN t /\ \A i \in DOMAIN s : Len(s) + 1 > i
  BY <1>1
<1>5. FreedIn(s, slot) \/ Frees(e, slot) => FreedIn(t, slot)
  BY <1>1, <1>2, <1>4 DEF FreedIn
<1>6. \A i \in DOMAIN s : FreedAfter(s, i, slot) \/ Frees(e, slot) => FreedAfter(t, i, slot)
  BY <1>1, <1>2, <1>4 DEF FreedAfter
<1> QED BY <1>2, <1>3, <1>5, <1>6 DEF t

\* What is left when the first event has gone.
LEMMA FreedTail ==
    ASSUME NEW s \in Seq(LockEvent), s # <<>>, NEW slot
    PROVE  LET t == Tail(s) IN
           /\ FreedIn(s, slot) => Frees(Head(s), slot) \/ FreedIn(t, slot)
           /\ FreedAfter(s, 1, slot) => FreedIn(t, slot)
           /\ \A i \in DOMAIN t : FreedAfter(s, i + 1, slot) => FreedAfter(t, i, slot)
           /\ \A i \in DOMAIN t : i + 1 \in DOMAIN s /\ t[i] = s[i + 1]
           /\ 1 \in DOMAIN s /\ Head(s) = s[1]
<1> DEFINE t == Tail(s)
<1>1. /\ Len(s) \in Nat \ {0} /\ Len(t) = Len(s) - 1 /\ Head(s) = s[1]
      /\ DOMAIN s = 1 .. Len(s) /\ DOMAIN t = 1 .. Len(t)
      /\ \A i \in 1 .. Len(t) : t[i] = s[i + 1]
  OBVIOUS
<1> HIDE DEF t
<1>2. \A i \in DOMAIN t : i + 1 \in DOMAIN s /\ t[i] = s[i + 1]
  BY <1>1
<1>3. \A j \in DOMAIN s : j = 1 \/ (j - 1 \in DOMAIN t /\ t[j - 1] = s[j])
  BY <1>1
<1>4. FreedIn(s, slot) => Frees(Head(s), slot) \/ FreedIn(t, slot)
  BY <1>1, <1>3 DEF FreedIn
<1>5. FreedAfter(s, 1, slot) => FreedIn(t, slot)
  BY <1>1, <1>3 DEF FreedIn, FreedAfter
<1>6. ASSUME NEW i \in DOMAIN t, FreedAfter(s, i + 1, slot)
      PROVE  FreedAfter(t, i, slot)
  <2>1. PICK j \in DOMAIN s : j > i + 1 /\ Frees(s[j], slot)
    BY <1>6 DEF FreedAfter
  <2>2. j - 1 \in DOMAIN t /\ t[j - 1] = s[j] /\ j - 1 > i
    BY <1>1, <1>3, <2>1
  <2> QED BY <2>1, <2>2 DEF FreedAfter
<1>7. 1 \in DOMAIN s
  BY <1>1
<1> QED BY <1>1, <1>2, <1>4, <1>5, <1>6, <1>7 DEF t

LEMMA LockedIff ==
    ASSUME NEW slot
    PROVE  LocksAt(slot) # {} <=> Locked(locks, slot)
BY DEF LocksAt, Locked

LEMMA PendingIff ==
    ASSUME NEW c, NEW slot
    PROVE  PendingRelease(c, slot) <=> FreedIn(lockEvents[c], slot) \/ FreedIn(lockNotes[c], slot)
BY DEF PendingRelease, FreedIn, Frees

\* A controller none of whose state, and no lock, has changed.
LEMMA SamePool ==
    ASSUME PoolInv, NEW d \in Controllers, locks' = locks, lockEvents'[d] = lockEvents[d],
           lockNotes'[d] = lockNotes[d], addrCache'[d] = addrCache[d], proc'[d] = proc[d]
    PROVE  /\ EventsFollowed(d)' /\ NotesFollowed(d)'
           /\ \A slot \in addrCache'[d] : Accounted(d, slot)'
<1>1. EventsFollowed(d)'
  BY DEF PoolInv, EventsFollowed
<1>2. NotesFollowed(d)'
  BY DEF PoolInv, NotesFollowed
<1>3. ASSUME NEW slot \in addrCache'[d] PROVE Accounted(d, slot)'
  <2>1. Accounted(d, slot)
    BY DEF PoolInv
  <2>2. PendingRelease(d, slot) => PendingRelease(d, slot)'
    BY DEF PendingRelease
  <2>3. \A k \in Keys : Locking(d, k, slot) => Locking(d, k, slot)'
    BY DEF Locking, PickedSlot
  <2> QED BY <2>1, <2>2, <2>3 DEF Accounted
<1> QED BY <1>1, <1>2, <1>3

\* How the set of locks changes: not at all, by a creation or by a deletion.
LocksMove ==
    \/ UNCHANGED <<locks, lockEvents>>
    \/ \E l \in IPLock : /\ locks' = locks \cup {l}
                         /\ lockEvents' = Broadcast(lockEvents, [op |-> "create", lock |-> l])
    \/ \E l \in IPLock : DeleteLock(l)

\* A change of the locks reaches all streams.
LEMMA MoveFollowed ==
    ASSUME TypeOK, PoolInv, LocksMove, lockNotes' = lockNotes, NEW c \in Controllers
    PROVE  /\ EventsFollowed(c)' /\ NotesFollowed(c)'
           /\ \A slot : Locked(locks, slot) \/ PendingRelease(c, slot)
                           => Locked(locks', slot) \/ PendingRelease(c, slot)'
<1> DEFINE s == lockEvents[c]
<1>1. s \in Seq(LockEvent)
  BY DEF TypeOK, ApiTypeOK
<1>2. EventsFollowed(c) /\ NotesFollowed(c)
  BY DEF PoolInv
<1>3. CASE UNCHANGED <<locks, lockEvents>>
  BY <1>2, <1>3 DEF EventsFollowed, NotesFollowed, Locked, PendingRelease
<1>4. ASSUME NEW e \in LockEvent, lockEvents' = Broadcast(lockEvents, e),
             \A slot : Locked(locks, slot) => Locked(locks', slot) \/ Frees(e, slot),
             e.op = "create" => Locked(locks', e.lock.slot)
      PROVE  /\ EventsFollowed(c)' /\ NotesFollowed(c)'
             /\ \A slot : Locked(locks, slot) \/ PendingRelease(c, slot)
                             => Locked(locks', slot) \/ PendingRelease(c, slot)'
  <2> DEFINE t == Append(s, e)
  <2>1. lockEvents'[c] = t
    BY <1>4 DEF Broadcast
  <2>2. /\ \A slot : FreedIn(s, slot) \/ Frees(e, slot) => FreedIn(t, slot)
        /\ \A slot : \A i \in DOMAIN s :
              FreedAfter(s, i, slot) \/ Frees(e, slot) => FreedAfter(t, i, slot)
        /\ \A i \in DOMAIN t : i \in DOMAIN s \/ t[i] = e
        /\ \A i \in DOMAIN s : t[i] = s[i]
    BY <1>1, <1>4, FreedAppend
  <2> HIDE DEF t
  <2>3. EventsFollowed(c)'
    <3> SUFFICES ASSUME NEW i \in DOMAIN t, t[i].op = "create"
                 PROVE  Locked(locks', t[i].lock.slot) \/ FreedAfter(t, i, t[i].lock.slot)
      BY <2>1 DEF EventsFollowed
    <3>1. CASE i \in DOMAIN s
      <4>1. t[i] = s[i]
        BY <2>2, <3>1
      <4>2. Locked(locks, s[i].lock.slot) \/ FreedAfter(s, i, s[i].lock.slot)
        BY <1>2, <3>1, <4>1 DEF EventsFollowed
      <4> QED BY <1>4, <2>2, <3>1, <4>1, <4>2
    <3>2. CASE t[i] = e
      BY <1>4, <3>2
    <3> QED BY <2>2, <3>1, <3>2
  <2>4. NotesFollowed(c)'
    <3> SUFFICES ASSUME NEW i \in DOMAIN lockNotes[c], lockNotes[c][i].op = "create"
                 PROVE  LET slot == lockNotes[c][i].lock.slot IN
                        \/ Locked(locks', slot) \/ FreedAfter(lockNotes[c], i, slot)
                        \/ FreedIn(t, slot)
      BY <2>1 DEF NotesFollowed
    <3> DEFINE slot == lockNotes[c][i].lock.slot
    <3>1. Locked(locks, slot) \/ FreedAfter(lockNotes[c], i, slot) \/ FreedIn(s, slot)
      BY <1>2 DEF NotesFollowed
    <3> QED BY <1>4, <2>2, <3>1
  <2>5. ASSUME NEW slot, Locked(locks, slot) \/ PendingRelease(c, slot)
        PROVE  Locked(locks', slot) \/ PendingRelease(c, slot)'
    <3>1. (PendingRelease(c, slot) <=> FreedIn(lockEvents[c], slot) \/ FreedIn(lockNotes[c], slot))'
      BY DEF PendingRelease, FreedIn, Frees
    <3>2. PendingRelease(c, slot) => FreedIn(s, slot) \/ FreedIn(lockNotes[c], slot)
      BY PendingIff
    <3> QED BY <1>4, <2>1, <2>2, <2>5, <3>1, <3>2
  <2> QED BY <2>3, <2>4, <2>5
<1>5. ASSUME NEW l \in IPLock, locks' = locks \cup {l},
             lockEvents' = Broadcast(lockEvents, [op |-> "create", lock |-> l])
      PROVE  /\ EventsFollowed(c)' /\ NotesFollowed(c)'
             /\ \A slot : Locked(locks, slot) \/ PendingRelease(c, slot)
                             => Locked(locks', slot) \/ PendingRelease(c, slot)'
  <2>1. \A slot : Locked(locks, slot) => Locked(locks', slot)
    BY <1>5 DEF Locked
  <2>2. Locked(locks', l.slot)
    BY <1>5 DEF Locked
  <2>3. [op |-> "create", lock |-> l] \in LockEvent
    BY DEF LockEvent
  <2> QED BY <1>4, <1>5, <2>1, <2>2, <2>3
<1>6. ASSUME NEW l \in IPLock, DeleteLock(l)
      PROVE  /\ EventsFollowed(c)' /\ NotesFollowed(c)'
             /\ \A slot : Locked(locks, slot) \/ PendingRelease(c, slot)
                             => Locked(locks', slot) \/ PendingRelease(c, slot)'
  <2> DEFINE e == [op |-> "delete", lock |-> l]
  <2>1. ASSUME NEW slot, Locked(locks, slot) PROVE Locked(locks', slot) \/ Frees(e, slot)
    BY <1>6, <2>1 DEF Locked, DeleteLock, Frees
  <2>2. e \in LockEvent /\ e.op = "delete"
    BY DEF LockEvent
  <2>3. lockEvents' = Broadcast(lockEvents, e)
    BY <1>6 DEF DeleteLock
  <2> HIDE DEF e
  <2> QED BY <1>4, <2>1, <2>2, <2>3
<1> QED BY <1>3, <1>5, <1>6 DEF LocksMove

\* A step outside the informers keeps the pool if each slot it leaves in a cache
\* is locked now, or is being locked, as long as it was before.
LEMMA MovePool ==
    ASSUME TypeOK, PoolInv, LocksMove, lockNotes' = lockNotes,
           \A c \in Controllers : \A slot \in addrCache'[c] :
              \/ Locked(locks', slot)
              \/ \E k \in Keys : Locking(c, k, slot)'
              \/ /\ slot \in addrCache[c]
                 /\ \A k \in Keys : Locking(c, k, slot) => Locking(c, k, slot)'
    PROVE  PoolInv'
<1> SUFFICES ASSUME NEW c \in Controllers
             PROVE  /\ EventsFollowed(c)' /\ NotesFollowed(c)'
                    /\ \A slot \in addrCache'[c] : Accounted(c, slot)'
  BY DEF PoolInv
<1>1. EventsFollowed(c)' /\ NotesFollowed(c)'
  BY MoveFollowed
<1>2. ASSUME NEW slot \in addrCache'[c] PROVE Accounted(c, slot)'
  <2>1. slot \in addrCache[c] => Accounted(c, slot)
    BY DEF PoolInv
  <2>2. Locked(locks, slot) \/ PendingRelease(c, slot)
           => Locked(locks', slot) \/ PendingRelease(c, slot)'
    BY MoveFollowed
  <2> QED BY <2>1, <2>2 DEF Accounted
<1> QED BY <1>1, <1>2

\* The same for a step over k of controller c that touches no other pass.
LEMMA WorkerPool ==
    ASSUME TypeOK, PoolInv, LocksMove, lockNotes' = lockNotes,
           NEW c \in Controllers, NEW k \in Keys, NEW p, proc' = [proc EXCEPT ![c][k] = p],
           \A d \in Controllers \ {c} : addrCache'[d] = addrCache[d],
           \A slot \in addrCache'[c] :
              \/ Locked(locks', slot)
              \/ p.pc = "create" /\ PickedSlot(p) = slot
              \/ slot \in addrCache[c] /\ ~Locking(c, k, slot)
    PROVE  PoolInv'
<1>1. /\ proc'[c][k] = p
      /\ \A d \in Controllers, m \in Keys : d # c \/ m # k => proc'[d][m] = proc[d][m]
  BY DEF TypeOK
<1>2. \A d \in Controllers, m \in Keys : d # c \/ m # k =>
         \A slot : Locking(d, m, slot) => Locking(d, m, slot)'
  BY <1>1 DEF Locking, PickedSlot
<1>3. \A slot : p.pc = "create" /\ PickedSlot(p) = slot => Locking(c, k, slot)'
  BY <1>1 DEF Locking, PickedSlot
<1>4. ASSUME NEW d \in Controllers, NEW slot \in addrCache'[d]
      PROVE  \/ Locked(locks', slot)
             \/ \E m \in Keys : Locking(d, m, slot)'
             \/ /\ slot \in addrCache[d]
                /\ \A m \in Keys : Locking(d, m, slot) => Locking(d, m, slot)'
  <2>1. CASE d # c
    BY <1>2, <2>1
  <2>2. CASE d = c
    BY <1>2, <1>3, <2>2
  <2> QED BY <2>1, <2>2
<1> QED BY <1>4, MovePool

LEMMA ReleasePool ==
    ASSUME TypeInv, PoolInv, NEW c \in Controllers, NEW k \in Keys, deleteIPLockObject(c, k)
    PROVE  PoolInv'
<1>1. lockNotes' = lockNotes /\ addrCache' = addrCache /\ proc[c][k].pc = "release"
  BY DEF deleteIPLockObject
<1>2. LocksMove
  <2>1. UNCHANGED <<locks, lockEvents>> \/ \E l : DeleteLock(l)
    BY DEF deleteIPLockObject
  <2>2. \A l : DeleteLock(l) => l \in IPLock
    BY DEF DeleteLock, TypeInv, TypeOK, ApiTypeOK
  <2> QED BY <2>1, <2>2 DEF LocksMove
<1>3. \E p : proc' = [proc EXCEPT ![c][k] = p]
  BY DEF deleteIPLockObject, Continue, Retry
<1>4. \A slot : ~Locking(c, k, slot)
  BY <1>1 DEF Locking
<1> QED BY <1>1, <1>2, <1>3, <1>4, WorkerPool DEF TypeInv

LEMMA PickPool ==
    ASSUME TypeInv, PoolInv, NEW c \in Controllers, NEW k \in Keys, PickAddress(c, k)
    PROVE  PoolInv'
<1> DEFINE p == proc[c][k]
<1>1. lockNotes' = lockNotes /\ UNCHANGED <<locks, lockEvents>> /\ p.pc = "pick"
  BY DEF PickAddress, apiVars, storeVars, watchVars
<1>2. LocksMove
  BY <1>1 DEF LocksMove
<1>3. \A slot : ~Locking(c, k, slot)
  BY <1>1 DEF Locking
<1>4. CASE Retry(c, k) /\ UNCHANGED addrCache
  BY <1>1, <1>2, <1>3, <1>4, WorkerPool DEF Retry, TypeInv
<1>5. CASE \E a \in PickRange(p.want) :
              /\ addrCache' = [addrCache EXCEPT ![c] = TakeAddress(@, <<p.want.vni, a>>)]
              /\ Continue(c, k, [p EXCEPT !.pc = "create", !.st.ip = a,
                                          !.st.vni = p.want.vni])
  <2>1. PICK a \in PickRange(p.want) :
              /\ addrCache' = [addrCache EXCEPT ![c] = TakeAddress(@, <<p.want.vni, a>>)]
              /\ Continue(c, k, [p EXCEPT !.pc = "create", !.st.ip = a,
                                          !.st.vni = p.want.vni])
    BY <1>5
  <2> DEFINE q == [p EXCEPT !.pc = "create", !.st.ip = a, !.st.vni = p.want.vni]
  <2>2. q.pc = "create" /\ PickedSlot(q) = <<p.want.vni, a>>
    <3>1. p \in Pass /\ p.st \in Status
      BY DEF TypeInv, TypeOK, Pass
    <3>2. q.pc = "create" /\ q.st.ip = a /\ q.st.vni = p.want.vni
      BY <3>1 DEF Pass, Status
    <3> QED BY <3>2 DEF PickedSlot
  <2>3. /\ addrCache'[c] = addrCache[c] \cup {<<p.want.vni, a>>}
        /\ \A d \in Controllers \ {c} : addrCache'[d] = addrCache[d]
    BY <2>1 DEF TakeAddress, TypeInv, TypeOK
  <2>4. proc' = [proc EXCEPT ![c][k] = q]
    BY <2>1 DEF Continue
  <2> HIDE DEF q
  <2> QED BY <1>1, <1>2, <1>3, <2>2, <2>3, <2>4, WorkerPool DEF TypeInv
<1> QED BY <1>4, <1>5 DEF PickAddress

LEMMA LockPool ==
    ASSUME TypeInv, PoolInv, NEW c \in Controllers, NEW k \in Keys, LockAddress(c, k)
    PROVE  PoolInv'
<1> DEFINE p == proc[c][k]
<1>0. PICK slot : slot = PickedSlot(p)
  OBVIOUS
<1>1. lockNotes' = lockNotes /\ p.pc = "create" /\ p \in Pass /\ slot \in Slots
  BY <1>0 DEF LockAddress, TypeInv, TypeOK, PassesOK, PassOK
<1>2. \A s : Locking(c, k, s) => s = slot
  BY <1>0 DEF Locking
<1>3. p.att \in NetworkAttachment
  BY <1>1 DEF Pass
<1>4. ASSUME CreateLock(slot, k, p.att) PROVE LocksMove /\ Locked(locks', slot)
  <2>1. PICK l \in IPLock : /\ l.slot = slot /\ locks' = locks \cup {l}
                            /\ lockEvents' = Broadcast(lockEvents, [op |-> "create", lock |-> l])
    BY <1>1, <1>3, <1>4, CreateLockEffect DEF TypeInv
  <2> QED BY <2>1 DEF LocksMove, Locked
<1>5. \E q : proc' = [proc EXCEPT ![c][k] = q]
  BY DEF LockAddress, Continue, Retry
<1> HIDE DEF p
<1>6. CASE CreateLock(slot, k, p.att) /\ UNCHANGED addrCache
  BY <1>1, <1>2, <1>4, <1>5, <1>6, WorkerPool DEF TypeInv
<1>7. CASE Locked(locks, slot) /\ UNCHANGED <<addrCache, locks, lockEvents>>
  <2>1. LocksMove /\ Locked(locks', slot)
    BY <1>7 DEF LocksMove, Locked
  <2> QED BY <1>1, <1>2, <1>5, <1>7, <2>1, WorkerPool DEF TypeInv
<1>8. CASE /\ CreateLock(slot, k, p.att) \/ UNCHANGED <<locks, lockEvents>>
           /\ addrCache' = [addrCache EXCEPT ![c] = ReleaseAddress(@, slot)]
  <2>1. LocksMove
    BY <1>4, <1>8 DEF LocksMove
  <2>2. /\ addrCache'[c] = addrCache[c] \ {slot}
        /\ \A d \in Controllers \ {c} : addrCache'[d] = addrCache[d]
    BY <1>8 DEF ReleaseAddress, TypeInv, TypeOK
  <2> QED BY <1>1, <1>2, <1>5, <2>1, <2>2, WorkerPool DEF TypeInv
<1> QED BY <1>0, <1>6, <1>7, <1>8, LockedIff DEF LockAddress, p

\* Passes that have no address or found it locked.
LEMMA OtherPool ==
    ASSUME TypeInv, PoolInv, NEW c \in Controllers, NEW k \in Keys,
           \/ processNetworkAttachment(c, k) \/ RecoverLock(c, k) \/ updateNAStatus(c, k)
    PROVE  PoolInv'
<1>1. lockNotes' = lockNotes /\ addrCache' = addrCache /\ UNCHANGED <<locks, lockEvents>>
  BY DEF processNetworkAttachment, RecoverLock, updateNAStatus, storeVars, watchVars
<1>2. proc[c][k].pc # "create"
  BY DEF processNetworkAttachment, RecoverLock, updateNAStatus
<1>3. LocksMove
  BY <1>1 DEF LocksMove
<1>4. \E p : proc' = [proc EXCEPT ![c][k] = p]
  BY DEF processNetworkAttachment, RecoverLock, updateNAStatus, Continue, Retry, Done
<1>5. \A slot : ~Locking(c, k, slot)
  BY <1>2 DEF Locking
<1> QED BY <1>1, <1>3, <1>4, <1>5, WorkerPool DEF TypeInv

LEMMA EnvironmentPool ==
    ASSUME TypeInv, PoolInv, UNCHANGED localVars,
           ClientNext \/ \E l \in locks : CollectGarbage(l)
    PROVE  PoolInv'
<1>1. lockNotes' = lockNotes /\ addrCache' = addrCache /\ proc' = proc
  BY DEF localVars
<1>2. LocksMove
  <2>1. CASE ClientNext
    BY <2>1 DEF ClientNext, CreateAttachment, DeleteAttachment, UpdateAttachment, WriteSubnet,
                DeleteSubnet, LocksMove
  <2>2. CASE \E l \in locks : CollectGarbage(l)
    BY <2>2 DEF CollectGarbage, LocksMove, TypeInv, TypeOK, ApiTypeOK
  <2> QED BY <2>1, <2>2
<1>3. \A c \in Controllers, k \in Keys : \A slot : Locking(c, k, slot) => Locking(c, k, slot)'
  BY <1>1 DEF Locking, PickedSlot
<1> QED BY <1>1, <1>2, <1>3, MovePool DEF TypeInv

LEMMA IndexPool ==
    ASSUME TypeInv, PoolInv, NEW c \in Controllers, IndexLock(c)
    PROVE  PoolInv'
<1> DEFINE s == lockEvents[c]
           n == lockNotes[c]
           e == Head(s)
           t == Tail(s)
           m == Append(n, e)
<1>1. s \in Seq(LockEvent) /\ s # <<>> /\ n \in Seq(LockEvent)
  BY DEF IndexLock, TypeInv, TypeOK, ApiTypeOK
<1>2. e \in LockEvent
  BY <1>1
<1>3. /\ locks' = locks /\ addrCache' = addrCache /\ proc' = proc
      /\ lockEvents'[c] = t /\ lockNotes'[c] = m
      /\ \A d \in Controllers \ {c} : /\ lockEvents'[d] = lockEvents[d]
                                      /\ lockNotes'[d] = lockNotes[d]
  BY DEF IndexLock, storeVars, TypeInv, TypeOK, ApiTypeOK
<1>4. /\ \A slot : FreedIn(s, slot) => Frees(e, slot) \/ FreedIn(t, slot)
      /\ \A slot : FreedAfter(s, 1, slot) => FreedIn(t, slot)
      /\ \A slot : \A i \in DOMAIN t : FreedAfter(s, i + 1, slot) => FreedAfter(t, i, slot)
      /\ \A i \in DOMAIN t : i + 1 \in DOMAIN s /\ t[i] = s[i + 1]
      /\ 1 \in DOMAIN s /\ e = s[1]
  BY <1>1, FreedTail
<1>5. /\ \A slot : FreedIn(n, slot) \/ Frees(e, slot) => FreedIn(m, slot)
      /\ \A slot : \A i \in DOMAIN n :
            FreedAfter(n, i, slot) \/ Frees(e, slot) => FreedAfter(m, i, slot)
      /\ \A i \in DOMAIN m : i \in DOMAIN n \/ m[i] = e
      /\ \A i \in DOMAIN n : m[i] = n[i]
  BY <1>1, <1>2, FreedAppend
<1>6. EventsFollowed(c) /\ NotesFollowed(c)
  BY DEF PoolInv
<1> HIDE DEF e, t, m
<1>7. EventsFollowed(c)'
  <2> SUFFICES ASSUME NEW i \in DOMAIN t, t[i].op = "create"
               PROVE  Locked(locks, t[i].lock.slot) \/ FreedAfter(t, i, t[i].lock.slot)
    BY <1>3 DEF EventsFollowed, Locked
  <2>1. Locked(locks, s[i + 1].lock.slot) \/ FreedAfter(s, i + 1, s[i + 1].lock.slot)
    BY <1>4, <1>6 DEF EventsFollowed
  <2> QED BY <1>4, <2>1
<1>8. NotesFollowed(c)'
  <2> SUFFICES ASSUME NEW i \in DOMAIN m, m[i].op = "create"
               PROVE  LET slot == m[i].lock.slot IN
                      Locked(locks, slot) \/ FreedAfter(m, i, slot) \/ FreedIn(t, slot)
    BY <1>3 DEF NotesFollowed, Locked
  <2>1. CASE i \in DOMAIN n
    <3> DEFINE slot == n[i].lock.slot
    <3>1. m[i] = n[i]
      BY <1>5, <2>1
    <3>2. Locked(locks, slot) \/ FreedAfter(n, i, slot) \/ FreedIn(s, slot)
      BY <1>6, <2>1, <3>1 DEF NotesFollowed
    <3> QED BY <1>4, <1>5, <2>1, <3>1, <3>2
  <2>2. CASE m[i] = e
    <3>1. Locked(locks, e.lock.slot) \/ FreedAfter(s, 1, e.lock.slot)
      BY <1>4, <1>6, <2>2 DEF EventsFollowed
    <3> QED BY <1>4, <2>2, <3>1
  <2> QED BY <1>5, <2>1, <2>2
<1>9. ASSUME NEW slot \in addrCache'[c] PROVE Accounted(c, slot)'
  <2>1. Accounted(c, slot)
    BY <1>3 DEF PoolInv
  <2>2. (PendingRelease(c, slot) <=> FreedIn(lockEvents[c], slot) \/ FreedIn(lockNotes[c], slot))'
    BY DEF PendingRelease, FreedIn, Frees
  <2>3. PendingRelease(c, slot) => PendingRelease(c, slot)'
    BY <1>3, <1>4, <1>5, <2>2, PendingIff
  <2> QED BY <1>3, <2>1, <2>3 DEF Accounted, Locked, Locking, PickedSlot
<1>10. ASSUME NEW d \in Controllers \ {c}
       PROVE  /\ EventsFollowed(d)' /\ NotesFollowed(d)'
              /\ \A slot \in addrCache'[d] : Accounted(d, slot)'
  BY <1>3, SamePool
<1> QED BY <1>7, <1>8, <1>9, <1>10 DEF PoolInv

LEMMA NotePool ==
    ASSUME TypeInv, PoolInv, NEW c \in Controllers, OnLockNotify(c)
    PROVE  PoolInv'
<1> DEFINE n == lockNotes[c]
           e == Head(n)
           t == Tail(n)
<1>1. n \in Seq(LockEvent) /\ n # <<>>
  BY DEF OnLockNotify, TypeInv, TypeOK
<1>2. e \in LockEvent
  BY <1>1
<1>3. /\ locks' = locks /\ lockEvents' = lockEvents /\ proc' = proc
      /\ lockNotes'[c] = t
      /\ \A d \in Controllers \ {c} : /\ addrCache'[d] = addrCache[d]
                                      /\ lockNotes'[d] = lockNotes[d]
      /\ addrCache'[c] = IF e.op = "create" THEN addrCache[c] \cup {e.lock.slot}
                                            ELSE addrCache[c] \ {e.lock.slot}
  BY DEF OnLockNotify, apiVars, storeVars, watchVars, TypeInv, TypeOK, TakeAddress,
     ReleaseAddress
<1>4. /\ \A slot : FreedIn(n, slot) => Frees(e, slot) \/ FreedIn(t, slot)
      /\ \A slot : FreedAfter(n, 1, slot) => FreedIn(t, slot)
      /\ \A slot : \A i \in DOMAIN t : FreedAfter(n, i + 1, slot) => FreedAfter(t, i, slot)
      /\ \A i \in DOMAIN t : i + 1 \in DOMAIN n /\ t[i] = n[i + 1]
      /\ 1 \in DOMAIN n /\ e = n[1]
  BY <1>1, FreedTail
<1>5. EventsFollowed(c) /\ NotesFollowed(c)
  BY DEF PoolInv
<1> HIDE DEF e, t
<1>6. EventsFollowed(c)'
  BY <1>3, <1>5 DEF EventsFollowed, Locked
<1>7. NotesFollowed(c)'
  <2> SUFFICES ASSUME NEW i \in DOMAIN t, t[i].op = "create"
               PROVE  LET slot == t[i].lock.slot IN
                      \/ Locked(locks, slot) \/ FreedAfter(t, i, slot)
                      \/ FreedIn(lockEvents[c], slot)
    BY <1>3 DEF NotesFollowed, Locked
  <2> DEFINE slot == n[i + 1].lock.slot
  <2>1. \/ Locked(locks, slot) \/ FreedAfter(n, i + 1, slot)
        \/ FreedIn(lockEvents[c], slot)
    BY <1>4, <1>5 DEF NotesFollowed
  <2> QED BY <1>4, <2>1
<1>8. ASSUME NEW slot \in addrCache'[c] PROVE Accounted(c, slot)'
  <2>1. (PendingRelease(c, slot) <=> FreedIn(lockEvents[c], slot) \/ FreedIn(lockNotes[c], slot))'
    BY DEF PendingRelease, FreedIn, Frees
  <2>2. CASE e.op = "create" /\ slot = e.lock.slot
    <3>1. \/ Locked(locks, slot) \/ FreedAfter(n, 1, slot)
          \/ FreedIn(lockEvents[c], slot)
      BY <1>4, <1>5, <2>2 DEF NotesFollowed
    <3> QED BY <1>3, <1>4, <2>1, <3>1 DEF Accounted, Locked
  <2>3. CASE ~(e.op = "create" /\ slot = e.lock.slot)
    <3>1. slot \in addrCache[c] /\ ~Frees(e, slot)
      BY <1>2, <1>3, <2>3 DEF Frees, LockEvent
    <3>2. Accounted(c, slot)
      BY <3>1 DEF PoolInv
    <3>3. PendingRelease(c, slot) => PendingRelease(c, slot)'
      BY <1>3, <1>4, <2>1, <3>1, PendingIff
    <3> QED BY <1>3, <3>2, <3>3 DEF Accounted, Locked, Locking, PickedSlot
  <2> QED BY <2>2, <2>3
<1>9. ASSUME NEW d \in Controllers \ {c}
      PROVE  /\ EventsFollowed(d)' /\ NotesFollowed(d)'
             /\ \A slot \in addrCache'[d] : Accounted(d, slot)'
  BY <1>3, SamePool
<1> QED BY <1>6, <1>7, <1>8, <1>9 DEF PoolInv

LEMMA RestartPool ==
    ASSUME TypeInv, PoolInv, NEW c \in Controllers, Restart(c)
    PROVE  PoolInv'
<1>1. PICK notes \in Listings : lockNotes' = [lockNotes EXCEPT ![c] = notes]
  BY DEF Restart
<1>2. \A i \in DOMAIN notes : notes[i].lock \in locks
  BY DEF Listings
<1>3. /\ locks' = locks /\ lockEvents'[c] = <<>> /\ lockNotes'[c] = notes /\ addrCache'[c] = {}
      /\ \A d \in Controllers \ {c} :
            /\ lockEvents'[d] = lockEvents[d] /\ lockNotes'[d] = lockNotes[d]
            /\ addrCache'[d] = addrCache[d] /\ proc'[d] = proc[d]
  BY <1>1 DEF Restart, storeVars, TypeInv, TypeOK, ApiTypeOK
<1>4. EventsFollowed(c)' /\ NotesFollowed(c)'
  BY <1>2, <1>3 DEF EventsFollowed, NotesFollowed, Locked
<1>5. ASSUME NEW d \in Controllers \ {c}
      PROVE  /\ EventsFollowed(d)' /\ NotesFollowed(d)'
             /\ \A slot \in addrCache'[d] : Accounted(d, slot)'
  BY <1>3, SamePool
<1> QED BY <1>3, <1>4, <1>5 DEF PoolInv

LEMMA NextPool ==
    ASSUME TypeInv, PoolInv, [Next]_vars
    PROVE  PoolInv'
<1>1. CASE ClientNext /\ UNCHANGED localVars
  BY <1>1, EnvironmentPool
<1>2. CASE \E l \in locks : CollectGarbage(l) /\ UNCHANGED localVars
  BY <1>2, EnvironmentPool
<1>3. ASSUME NEW c \in Controllers, OnAttachmentNotify(c) \/ OnSubnetNotify(c) PROVE PoolInv'
  <2>1. /\ locks' = locks /\ lockEvents' = lockEvents /\ lockNotes' = lockNotes
        /\ addrCache' = addrCache /\ proc' = proc
    BY <1>3 DEF OnAttachmentNotify, OnSubnetNotify, storeVars
  <2> QED BY <2>1, SamePool DEF PoolInv
<1>4. CASE \E c \in Controllers : InformerStep(c)
  BY <1>3, <1>4, IndexPool, NotePool DEF InformerStep
<1>5. CASE \E c \in Controllers, k \in Keys : WorkerStep(c, k)
  BY <1>5, ReleasePool, PickPool, LockPool, OtherPool DEF WorkerStep
<1>6. CASE \E c \in Controllers : Restart(c)
  BY <1>6, RestartPool
<1>7. CASE UNCHANGED vars
  <2>1. /\ locks' = locks /\ lockEvents' = lockEvents /\ lockNotes' = lockNotes
        /\ addrCache' = addrCache /\ proc' = proc
    BY <1>7 DEF vars, apiVars, storeVars, watchVars, localVars
  <2> QED BY <2>1, SamePool DEF PoolInv
<1> QED BY <1>1, <1>2, <1>4, <1>5, <1>6, <1>7 DEF Next

\* Every address in the cache of taken addresses of a controller is locked, about
\* to be locked by one of its workers, or about to be released by a notification:
\* no failure in pickAndLockAddress, no lock deleted by another controller, a user
\* or the garbage collector, and no restart takes an address out of circulation.
THEOREM PoolCorrect == Spec => []NoAddressLeaks
<1>1. ASSUME Init PROVE TypeInv /\ PoolInv
  <2>1. \A c \in Controllers : lockEvents[c] = <<>> /\ lockNotes[c] = <<>> /\ addrCache[c] = {}
    BY <1>1 DEF Init, ApiInit
  <2>2. PoolInv
    BY <2>1 DEF PoolInv, EventsFollowed, NotesFollowed
  <2> QED BY <1>1, <2>2, InitTypeInv
<1>2. TypeInv /\ PoolInv /\ [Next]_vars => (TypeInv /\ PoolInv)'
  BY NextTypeInv, NextPool
<1>3. TypeInv /\ PoolInv => NoAddressLeaks
  BY LockedIff DEF PoolInv, Accounted, Locking, NoAddressLeaks
<1> QED BY <1>1, <1>2, <1>3, PTL DEF Spec

-----------------------------------------------------------------------------
(***************************************************************************)
(* In a calm environment the IPAM controller gives every address to one     *)
(* attachment at a time, and implements the abstract allocation, however    *)
(* often attachments come and go and the controller crashes, and whatever   *)
(* the order in which notifications arrive.                                 *)
(***************************************************************************)

\* The calm environment: one controller runs, attachments of different keys
\* have different names, Subnets stay as they are, nobody else updates an
\* attachment and the calls to the API server succeed.  TLC shows that a failed
\* call, a refused one, an update by others or a Subnet that moves each break
\* the refinement.
Calm ==
    /\ \A c, d \in Controllers : c = d
    /\ \A k, m \in Keys : NameOf[k] = NameOf[m] => k = m
    /\ \A b \in Budgets : \A e \in {"touch", "subnet", "fault", "invalid"} : b[e] = 0

-----------------------------------------------------------------------------
(* The inductive invariant.                                                 *)

\* The environment is calm, and Subnets are as they were.
Quiet ==
    /\ \A e \in {"touch", "subnet", "fault", "invalid"} : budget[e] = 0
    /\ \A s \in Subnets : subnets[s].rv # 0
    /\ \A c \in Controllers : subnetCache[c] = subnets /\ subnetEvents[c] = <<>>

\* An attachment as it was created.
Blank(att) == [NoAtt EXCEPT !.uid = att.uid, !.rv = att.uid, !.subnet = att.subnet]

\* The locks of the present incarnation of an attachment.
Mine(k) == {l \in locks : l.owner = k /\ l.ouid = atts[k].uid}

\* The revisions of the present incarnation are the first and the present one.
TwoRevisions ==
    \A k \in Keys :
       /\ ~Exists(atts[k]) => atts[k] = NoAtt
       /\ \A a \in Revisions(k) :
             /\ a.uid <= attRV[k]
             /\ Exists(a) /\ a.uid = atts[k].uid => a \in {atts[k], Blank(atts[k])}

\* A status is empty, or it shows the address of the attachment's lock.
StatusBackedOf(k) ==
    Exists(atts[k]) =>
       \/ atts[k] = Blank(atts[k])
       \/ /\ atts[k].rv > atts[k].uid
          /\ \E l \in Mine(k) : l.uid = atts[k].lock /\ l.slot = <<atts[k].vni, atts[k].ip>>

StatusBacked == \A k \in Keys : StatusBackedOf(k)

\* Once a controller knows of the present incarnation it hears of no other.
Streams ==
    \A c \in Controllers, k \in Keys : Exists(atts[k]) =>
       \A i \in 1 .. Len(attEvents[c]) : attEvents[c][i].key = k =>
          /\ attCache[c][k].uid = atts[k].uid => attEvents[c][i].obj.uid = atts[k].uid
          /\ attEvents[c][i].obj.uid = atts[k].uid =>
               \A j \in i .. Len(attEvents[c]) : attEvents[c][j].key = k =>
                  attEvents[c][j].obj.uid = atts[k].uid

\* The owner of the lock is the present incarnation.
Live(l) == l.ouid = atts[l.owner].uid

\* A slot has one lock and an attachment has one lock; a lock is deleted only
\* when its owner is gone.
OneLock ==
    /\ \A l, m \in locks : l.slot = m.slot => l = m
    /\ \A k \in Keys : \A l, m \in Mine(k) : l = m
    /\ \A l \in LocksSeen : /\ l.ouid # 0 /\ l.ouid <= attRV[l.owner]
                            /\ Live(l) => l \in locks
    /\ \A c \in Controllers : \A i \in 1 .. Len(lockEvents[c]) :
          lockEvents[c][i].op = "delete" => ~Live(lockEvents[c][i].lock)

\* The record of the update in flight is about the present revision.
Anticipates(c, k, l) ==
    /\ nadat[c][k].ip = l.slot[2]
    /\ nadat[c][k].anticipating = atts[k].uid
    /\ nadat[c][k].anticipated = atts[k].rv
    /\ nadat[c][k].subnetRV = subnets[atts[k].subnet].rv

\* The controller knows of the lock of an attachment: from its informer, because
\* it is about to write it into the status, or because it just did.
LockKnownOf(c, k) ==
    \A l \in Mine(k) :
       /\ attCache[c][k].uid = atts[k].uid
       /\ InSubnet(l.slot, subnets[atts[k].subnet])
       /\ \/ l \in lockCache[c]
          \/ proc[c][k].pc = "update" /\ proc[c][k].att = atts[k]
          \/ Anticipates(c, k, l)

LockKnown == \A c \in Controllers, k \in Keys : LockKnownOf(c, k)

\* What is anticipated is so, or is about an incarnation that is gone.
RecordTrueOf(c, k) ==
    nadat[c][k].ip # NoIP =>
       /\ nadat[c][k].anticipating <= attRV[k] /\ nadat[c][k].anticipated <= attRV[k]
       /\ Exists(atts[k]) =>
             \/ nadat[c][k].anticipating < atts[k].uid /\ nadat[c][k].anticipated < atts[k].uid
             \/ \E l \in Mine(k) : Anticipates(c, k, l)

RecordsTrue == \A c \in Controllers, k \in Keys : RecordTrueOf(c, k)

\* What a pass will do once it has released what there is to release.
Goal(p) == IF p.pc = "release" THEN p.then ELSE p.pc

\* A pass releases no lock of the present incarnation; it picks an address for
\* it only if it has none, and writes only the address of its lock.
PassCalm(c, k, p) ==
    /\ ~p.st.err
    /\ \A l \in p.release :
          l.owner = k /\ l.ouid # atts[k].uid /\ l.ouid # 0 /\ l.ouid <= attRV[k]
    /\ Exists(p.att) =>
          /\ p.want = subnets[p.att.subnet]
          /\ p.att.uid = atts[k].uid => attCache[c][k].uid = atts[k].uid
    /\ Goal(p) # "idle" => Exists(p.att)
    /\ Goal(p) \in {"pick", "create", "recover"} /\ p.att.uid = atts[k].uid =>
          p.att = atts[k] /\ atts[k] = Blank(atts[k]) /\ Mine(k) = {}
    /\ p.pc \in {"create", "recover"} => InSubnet(PickedSlot(p), p.want)
    /\ Goal(p) = "update" /\ p.att.uid = atts[k].uid =>
          /\ p.att = Blank(p.att)
          /\ \E l \in Mine(k) : p.st.lock = l.uid /\ PickedSlot(p) = l.slot

PassesCalm == \A c \in Controllers, k \in Keys : PassCalm(c, k, proc[c][k])

CalmInv ==
    /\ Quiet /\ TwoRevisions /\ StatusBacked /\ Streams /\ OneLock /\ LockKnown
    /\ RecordsTrue /\ PassesCalm

-----------------------------------------------------------------------------
(* Facts.                                                                   *)

\* The fields of an attachment as it was created.
LEMMA BlankParts ==
    ASSUME NEW att
    PROVE  /\ Blank(att).uid = att.uid /\ Blank(att).rv = att.uid
           /\ Blank(att).subnet = att.subnet /\ Blank(att).ip = NoIP
           /\ Blank(att).vni = 0 /\ Blank(att).lock = 0 /\ Blank(att).err = FALSE
BY DEF Blank, NoAtt

\* It depends on the incarnation and the Subnet only.
LEMMA BlankSame ==
    ASSUME NEW a, NEW b, a.uid = b.uid, a.subnet = b.subnet
    PROVE  Blank(a) = Blank(b)
BY DEF Blank

\* The types the steps need.
LEMMA Types ==
    ASSUME TypeOK
    PROVE  /\ \A k \in Keys : /\ atts[k] \in NetworkAttachment /\ attRV[k] \in Nat
                              /\ atts[k].uid \in Nat /\ atts[k].rv \in Nat
           /\ \A c \in Controllers, k \in Keys :
                 /\ attCache[c][k] \in NetworkAttachment /\ proc[c][k] \in Pass
                 /\ proc[c][k].att \in NetworkAttachment
                 /\ nadat[c][k] \in NetworkAttachmentData
                 /\ nadat[c][k].anticipating \in Nat /\ nadat[c][k].anticipated \in Nat
           /\ \A c \in Controllers : /\ attEvents[c] \in Seq(AttEvent)
                                     /\ lockEvents[c] \in Seq(LockEvent)
                                     /\ lockCache[c] \in SUBSET IPLock
           /\ \A l \in LocksSeen : l.owner \in Keys /\ l.ouid \in Nat /\ l.slot \in Slots
           /\ locks \subseteq LocksSeen
<1>1. \A k \in Keys : atts[k] \in NetworkAttachment /\ attRV[k] \in Nat
  BY DEF TypeOK, ApiTypeOK
<1>2. \A c \in Controllers, k \in Keys :
         attCache[c][k] \in NetworkAttachment /\ proc[c][k] \in Pass
         /\ nadat[c][k] \in NetworkAttachmentData
  BY DEF TypeOK
<1>3. \A c \in Controllers : /\ attEvents[c] \in Seq(AttEvent)
                             /\ lockEvents[c] \in Seq(LockEvent)
                             /\ lockCache[c] \in SUBSET IPLock
  BY DEF TypeOK, ApiTypeOK
<1>4. \A k \in Keys : atts[k].uid \in Nat /\ atts[k].rv \in Nat
  BY <1>1 DEF NetworkAttachment
<1>5. \A c \in Controllers, k \in Keys :
         /\ proc[c][k].att \in NetworkAttachment
         /\ nadat[c][k].anticipating \in Nat /\ nadat[c][k].anticipated \in Nat
  BY <1>2 DEF Pass, NetworkAttachmentData
<1>6. \A l \in LocksSeen : l.owner \in Keys /\ l.ouid \in Nat /\ l.slot \in Slots
  BY SeenType DEF IPLock
<1>7. locks \subseteq LocksSeen
  BY SeenIff
<1> QED BY <1>1, <1>2, <1>3, <1>4, <1>5, <1>6, <1>7

\* Every revision is one of the revisions.
LEMMA AreRevisions ==
    ASSUME NEW k \in Keys
    PROVE  /\ atts[k] \in Revisions(k)
           /\ \A c \in Controllers : attCache[c][k] \in Revisions(k)
                                     /\ proc[c][k].att \in Revisions(k)
           /\ \A c \in Controllers : \A i \in 1 .. Len(attEvents[c]) :
                 attEvents[c][i].key = k => attEvents[c][i].obj \in Revisions(k)
BY RevisionsIff

\* What the invariant says of the locks of the present incarnation.
LEMMA MineFacts ==
    ASSUME TypeOK, OneLock, NEW k \in Keys
    PROVE  /\ \A l \in Mine(k) : /\ l \in locks /\ l.owner = k /\ l.ouid = atts[k].uid
                                 /\ Live(l) /\ Exists(atts[k])
           /\ \A l \in LocksSeen : l.owner = k /\ l.ouid = atts[k].uid => l \in Mine(k)
<1>1. \A l \in Mine(k) : l \in locks /\ l.owner = k /\ l.ouid = atts[k].uid
  BY DEF Mine
<1>2. \A l \in LocksSeen : l.ouid # 0
  BY DEF OneLock
<1>3. \A l \in Mine(k) : Live(l) /\ Exists(atts[k])
  BY <1>1, <1>2, Types DEF Live, Exists
<1>4. \A l \in LocksSeen : l.owner = k /\ l.ouid = atts[k].uid => l \in Mine(k)
  BY DEF OneLock, Live, Mine
<1> QED BY <1>1, <1>3, <1>4

-----------------------------------------------------------------------------
(* What a step leaves alone.                                                *)

\* Nothing the controller knows of attachment k changes in a way that matters.
LEMMA KeyKept ==
    ASSUME NEW c \in Controllers, NEW k \in Keys, TypeOK, OneLock,
           subnets' = subnets, atts'[k] = atts[k], attRV'[k] = attRV[k],
           Mine(k)' = Mine(k), proc'[c][k] = proc[c][k], nadat'[c][k] = nadat[c][k],
           Exists(atts[k]) /\ attCache[c][k].uid = atts[k].uid =>
              attCache'[c][k].uid = atts[k].uid,
           \A l \in Mine(k) : l \in lockCache[c] => l \in lockCache'[c],
           LockKnownOf(c, k), RecordTrueOf(c, k), PassCalm(c, k, proc[c][k])
    PROVE  LockKnownOf(c, k)' /\ RecordTrueOf(c, k)' /\ PassCalm(c, k, proc[c][k])'
<1>1. \A l : Anticipates(c, k, l)' <=> Anticipates(c, k, l)
  BY DEF Anticipates
<1>2. LockKnownOf(c, k)'
  BY <1>1, MineFacts DEF LockKnownOf, InSubnet
<1>3. RecordTrueOf(c, k)'
  BY <1>1 DEF RecordTrueOf
<1>4. PassCalm(c, k, proc[c][k])'
  BY DEF PassCalm, Goal, PickedSlot, InSubnet, Exists
<1> QED BY <1>2, <1>3, <1>4

\* The status of an attachment stays backed.
LEMMA BackedKept ==
    ASSUME NEW k \in Keys, atts'[k] = atts[k], Mine(k)' = Mine(k), StatusBackedOf(k)
    PROVE  StatusBackedOf(k)'
BY DEF StatusBackedOf

\* Subnets stay, and the environment only creates, deletes and crashes.
LEMMA QuietKept ==
    ASSUME TypeOK, Quiet, UNCHANGED <<subnets, subnetCache, subnetEvents>>,
           \/ budget' = budget
           \/ \E e \in {"create", "delete", "crash"} : Spend(e)
    PROVE  Quiet'
<1>1. \A e \in {"touch", "subnet", "fault", "invalid"} : budget'[e] = budget[e]
  BY DEF Spend, TypeOK, ApiTypeOK, Events
<1> QED BY <1>1 DEF Quiet

\* In a calm environment no call fails.
LEMMA NoFault ==
    ASSUME Quiet
    PROVE  /\ ~Spend("fault") /\ ~Spend("invalid") /\ ~Spend("touch")
           /\ ~Spend("subnet")
BY DEF Quiet, Spend

\* A step that writes no attachment has the same revisions, or fewer.
LEMMA TwoRevisionsKept ==
    ASSUME TypeOK, TwoRevisions, UNCHANGED <<atts, attRV>>,
           \A k \in Keys : NothingElse(k)
    PROVE  TwoRevisions'
<1> SUFFICES ASSUME NEW k \in Keys, NEW a \in Revisions(k)'
             PROVE  /\ a.uid <= attRV[k]
                    /\ Exists(a) /\ a.uid = atts[k].uid => a \in {atts[k], Blank(atts[k])}
  BY DEF TwoRevisions
<1>1. a \in Revisions(k) \/ a = NoAtt
  BY AreRevisions DEF NothingElse
<1>2. NoAtt.uid = 0 /\ attRV[k] \in Nat
  BY Types DEF NoAtt
<1> QED BY <1>1, <1>2 DEF TwoRevisions, Exists

LEMMA PassesKeepRevisions ==
    ASSUME UNCHANGED <<atts, attRV, attEvents, attCache>>, PassesFromCache
    PROVE  \A k \in Keys : NothingElse(k)
<1> SUFFICES ASSUME NEW k \in Keys, NEW a \in Revisions(k)'
             PROVE  a \in Revisions(k) \cup {NoAtt}
  BY DEF NothingElse
<1> QED BY RevisionsIff, RevisionsIffNext DEF PassesFromCache

\* A step that leaves attachments and their events alone.
LEMMA StreamsKept ==
    ASSUME Streams, UNCHANGED <<atts, attEvents, attCache>>
    PROVE  Streams'
BY DEF Streams

\* A step that leaves the locks and the attachments alone.
LEMMA OneLockKept ==
    ASSUME OneLock, UNCHANGED <<locks, atts, attRV, lockCache, lockEvents>>
    PROVE  OneLock' /\ \A k \in Keys : Mine(k)' = Mine(k)
<1>1. \A k \in Keys : Mine(k)' = Mine(k)
  BY DEF Mine
<1>2. LocksSeen' = LocksSeen
  BY DEF LocksSeen, LocksAnnounced
<1> QED BY <1>1, <1>2 DEF OneLock, Live

\* A step that removes a lock whose owner is gone.
LEMMA GarbageGoes ==
    ASSUME TypeOK, OneLock, UNCHANGED <<atts, attRV, lockCache>>,
           NEW l, ~Live(l), DeleteLock(l)
    PROVE  OneLock' /\ \A k \in Keys : Mine(k)' = Mine(k)
<1>1. l \in locks /\ locks' = locks \ {l}
      /\ lockEvents' = Broadcast(lockEvents, [op |-> "delete", lock |-> l])
  BY DEF DeleteLock
<1>2. \A k \in Keys : Mine(k)' = Mine(k)
  BY <1>1 DEF Mine, Live
<1>3. LocksSeen' \subseteq LocksSeen
  BY DeleteLockSeen
<1>4. \A m : Live(m)' <=> Live(m)
  BY DEF Live
<1>5. \A m \in LocksSeen' : /\ m.ouid # 0 /\ m.ouid <= attRV'[m.owner]
                            /\ Live(m)' => m \in locks'
  BY <1>1, <1>3, <1>4 DEF OneLock
<1>6. ASSUME NEW c \in Controllers, NEW i \in 1 .. Len(lockEvents'[c]),
             lockEvents'[c][i].op = "delete"
      PROVE  ~Live(lockEvents'[c][i].lock)
  <2> DEFINE e == [op |-> "delete", lock |-> l]
  <2>1. lockEvents[c] \in Seq(LockEvent) /\ lockEvents'[c] = Append(lockEvents[c], e)
    BY <1>1, Types DEF Broadcast
  <2>2. e.lock = l
    OBVIOUS
  <2> HIDE DEF e
  <2>3. CASE i \in 1 .. Len(lockEvents[c])
    <3>1. lockEvents'[c][i] = lockEvents[c][i]
      BY <2>1, <2>3
    <3> QED BY <1>6, <2>3, <3>1 DEF OneLock
  <2>4. CASE i = Len(lockEvents[c]) + 1
    <3>1. lockEvents'[c][i] = e
      BY <2>1, <2>4
    <3> QED BY <2>2, <3>1
  <2> QED BY <2>1, <2>3, <2>4
<1> QED BY <1>1, <1>2, <1>4, <1>5, <1>6 DEF OneLock

\* Once a step is known to keep what it must of each key, it is calm.
LEMMA Assembled ==
    ASSUME Quiet', TwoRevisions', Streams', OneLock',
           \A k \in Keys : StatusBackedOf(k)',
           \A c \in Controllers, k \in Keys :
              LockKnownOf(c, k)' /\ RecordTrueOf(c, k)' /\ PassCalm(c, k, proc[c][k])'
    PROVE  CalmInv'
<1>1. StatusBacked' /\ LockKnown' /\ RecordsTrue' /\ PassesCalm'
  BY DEF StatusBacked, LockKnown, RecordsTrue, PassesCalm
<1> QED BY <1>1 DEF CalmInv

\* The parts of the invariant for one key.
LEMMA Parts ==
    ASSUME CalmInv
    PROVE  /\ Quiet /\ TwoRevisions /\ Streams /\ OneLock
           /\ \A k \in Keys : StatusBackedOf(k)
           /\ \A c \in Controllers, k \in Keys :
                 LockKnownOf(c, k) /\ RecordTrueOf(c, k) /\ PassCalm(c, k, proc[c][k])
BY DEF CalmInv, StatusBacked, LockKnown, RecordsTrue, PassesCalm

-----------------------------------------------------------------------------
(* Initial states, clients, garbage collection.                             *)

\* A pass that is not under way.
LEMMA IdleCalm ==
    ASSUME NEW c \in Controllers, NEW k \in Keys, NEW p, p = Idle
    PROVE  PassCalm(c, k, p) /\ PassCalm(c, k, p)'
<1>1. /\ p.pc = "idle" /\ p.att = NoAtt /\ p.release = {} /\ p.then = "idle"
      /\ p.st.err = FALSE
  BY DEF Idle, NoStatus
<1>2. NoAtt.uid = 0
  BY DEF NoAtt
<1> QED BY <1>1, <1>2 DEF PassCalm, Goal, Exists

\* The initial states.
LEMMA InitCalm == ASSUME Calm, Init PROVE CalmInv
<1>1. PICK d \in [Subnets -> SubnetDefs] :
         subnets = [s \in Subnets |-> Revision(d[s], 1)]
  BY DEF Init, ApiInit
<1>2. \A s \in Subnets : subnets[s].rv # 0
  BY <1>1 DEF Revision
<1>3. \A e \in {"touch", "subnet", "fault", "invalid"} : budget[e] = 0
  BY DEF Init, ApiInit, Calm
<1>4. \A c \in Controllers : /\ subnetCache[c] = subnets /\ subnetEvents[c] = <<>>
                             /\ attEvents[c] = <<>> /\ lockEvents[c] = <<>>
                             /\ lockCache[c] = {}
                             /\ \A k \in Keys : /\ attCache[c][k] = NoAtt
                                                /\ nadat[c][k] = NoAnticipation
                                                /\ proc[c][k] = Idle
  BY DEF Init, ApiInit
<1>5. \A k \in Keys : atts[k] = NoAtt /\ attRV[k] = 0
  BY DEF Init, ApiInit
<1>6. locks = {}
  BY DEF Init, ApiInit
<1>7. 1 .. Len(<<>>) = {}
  OBVIOUS
<1>8. NoAtt.uid = 0 /\ ~Exists(NoAtt)
  BY DEF NoAtt, Exists
<1>9. Quiet
  BY <1>2, <1>3, <1>4 DEF Quiet
<1>10. TwoRevisions
  <2>1. ASSUME NEW k \in Keys, NEW a \in Revisions(k) PROVE a = NoAtt
    <3>1. Idle.att = NoAtt
      BY DEF Idle
    <3> QED BY <1>4, <1>5, <1>7, <3>1, RevisionsIff
  <2> QED BY <1>5, <1>8, <2>1 DEF TwoRevisions
<1>11. Streams
  BY <1>4, <1>7 DEF Streams
<1>12. OneLock /\ \A k \in Keys : Mine(k) = {}
  <2>1. LocksSeen = {}
    BY <1>4, <1>6, <1>7, SeenIff
  <2>2. \A k \in Keys : Mine(k) = {}
    BY <1>6 DEF Mine
  <2> QED BY <1>4, <1>6, <1>7, <2>1, <2>2 DEF OneLock
<1>13. StatusBacked /\ LockKnown
  BY <1>5, <1>8, <1>12 DEF StatusBacked, StatusBackedOf, LockKnown, LockKnownOf
<1>14. RecordsTrue
  BY <1>4 DEF RecordsTrue, RecordTrueOf, NoAnticipation
<1>15. PassesCalm
  BY <1>4, IdleCalm DEF PassesCalm
<1> QED BY <1>9, <1>10, <1>11, <1>12, <1>13, <1>14, <1>15 DEF CalmInv

\* A write reaches the streams: the invariant of streams survives the first
\* revision of an incarnation, a further one, and a deletion.
LEMMA StreamsPut ==
    ASSUME TypeOK, Streams, NEW k \in Keys, NEW att \in NetworkAttachment,
           PutAtt(k, att), attCache' = attCache,
           \/ att.uid = 0
           \/ att.uid = atts[k].uid
           \/ \A a \in Revisions(k) : a.uid # att.uid
    PROVE  Streams'
<1> SUFFICES ASSUME NEW c \in Controllers, NEW m \in Keys, Exists(atts'[m]),
                    NEW i \in 1 .. Len(attEvents'[c]), attEvents'[c][i].key = m
             PROVE  /\ attCache[c][m].uid = atts'[m].uid =>
                          attEvents'[c][i].obj.uid = atts'[m].uid
                    /\ attEvents'[c][i].obj.uid = atts'[m].uid =>
                          \A j \in i .. Len(attEvents'[c]) : attEvents'[c][j].key = m =>
                             attEvents'[c][j].obj.uid = atts'[m].uid
  BY DEF Streams
<1> DEFINE e == [key |-> k, obj |-> att]
           old == attEvents[c]
<1>1. /\ old \in Seq(AttEvent) /\ attEvents'[c] = Append(old, e)
      /\ e.key = k /\ e.obj = att
  BY Types DEF PutAtt, Broadcast
<1>2. \A j \in Keys : atts'[j] = IF j = k THEN att ELSE atts[j]
  BY DEF PutAtt, TypeOK, ApiTypeOK
<1>3. \A j \in 1 .. Len(attEvents'[c]) :
         \/ j \in 1 .. Len(old) /\ attEvents'[c][j] = old[j]
         \/ j = Len(old) + 1 /\ attEvents'[c][j] = e
  BY <1>1
<1>4. \A j \in 1 .. Len(old) : old[j].key = m => old[j].obj \in Revisions(m)
  BY AreRevisions
<1>5. attCache[c][m] \in Revisions(m)
  BY AreRevisions
<1>6. Len(attEvents'[c]) = Len(old) + 1 /\ Len(old) \in Nat
  BY <1>1
<1>7. Exists(atts[m]) =>
         \A j \in 1 .. Len(old) : old[j].key = m =>
            /\ attCache[c][m].uid = atts[m].uid => old[j].obj.uid = atts[m].uid
            /\ old[j].obj.uid = atts[m].uid =>
                 \A n \in j .. Len(old) : old[n].key = m => old[n].obj.uid = atts[m].uid
  BY DEF Streams
<1> HIDE DEF e, old
<1>8. CASE m # k \/ att.uid = atts[k].uid
  <2>1. atts'[m].uid = atts[m].uid /\ Exists(atts[m])
    BY <1>2, <1>8 DEF Exists
  <2>2. m = k => att.uid = atts'[m].uid
    BY <1>2
  <2> QED BY <1>1, <1>3, <1>6, <1>7, <1>8, <2>1, <2>2
<1>9. CASE m = k /\ \A a \in Revisions(k) : a.uid # att.uid
  <2>1. atts'[m] = att
    BY <1>2, <1>9
  <2> QED BY <1>1, <1>3, <1>4, <1>5, <1>6, <1>9, <2>1
<1>10. CASE m = k /\ att.uid = 0
  BY <1>2, <1>10 DEF Exists
<1> QED BY <1>8, <1>9, <1>10

\* The creation of an attachment: the new incarnation has no lock, no record
\* and no pass yet.
LEMMA CreateCalm ==
    ASSUME TypeOK, TypeOK', CalmInv, NEW k \in Keys, NEW s \in Subnets,
           CreateAttachment(k, s), UNCHANGED localVars
    PROVE  CalmInv'
<1> DEFINE att == [NoAtt EXCEPT !.uid = attRV[k] + 1, !.rv = attRV[k] + 1, !.subnet = s]
<1>1. /\ ~Exists(atts[k]) /\ Spend("create") /\ PutAtt(k, att)
      /\ attRV' = [attRV EXCEPT ![k] = @ + 1]
      /\ UNCHANGED <<locks, subnets, lockEvents, subnetEvents>>
  BY DEF CreateAttachment
<1>2. UNCHANGED <<attCache, lockCache, subnetCache, nadat, proc>>
  BY DEF localVars
<1>3. /\ \A m \in Keys : atts'[m] = IF m = k THEN att ELSE atts[m]
      /\ \A m \in Keys : attRV'[m] = IF m = k THEN attRV[k] + 1 ELSE attRV[m]
  BY <1>1 DEF PutAtt, TypeOK, ApiTypeOK
<1>4. att.uid = attRV[k] + 1 /\ att.subnet = s /\ att = Blank(att)
  BY DEF Blank, NoAtt
<1>5. att \in NetworkAttachment
  BY <1>3 DEF TypeOK, ApiTypeOK
<1> HIDE DEF att
<1>6. Quiet'
  BY <1>1, <1>2, QuietKept, Parts
<1>7. \A m \in Keys : \A a \in Revisions(m) : a.uid <= attRV[m] /\ a.uid \in Nat
  BY Parts, RevisionsType DEF TwoRevisions, NetworkAttachment
<1>8. \A m \in Keys : NothingElse(m)
  BY <1>1, <1>2, <1>5, PutAttRevisions DEF PassesFromCache
<1>9. TwoRevisions'
  <2> SUFFICES ASSUME NEW m \in Keys
               PROVE  /\ ~Exists(atts'[m]) => atts'[m] = NoAtt
                      /\ \A a \in Revisions(m)' :
                            /\ a.uid <= attRV'[m]
                            /\ Exists(a) /\ a.uid = atts'[m].uid =>
                                  a \in {atts'[m], Blank(atts'[m])}
    BY DEF TwoRevisions
  <2>1. NoAtt.uid = 0 /\ attRV[m] \in Nat /\ attRV[k] \in Nat
    BY Types DEF NoAtt
  <2>2. CASE m = k
    BY <1>3, <1>4, <1>7, <1>8, <2>1, <2>2 DEF Exists, NothingElse
  <2>3. CASE m # k
    BY <1>3, <1>8, <2>1, <2>3, Parts, AreRevisions DEF Exists, NothingElse, TwoRevisions
  <2> QED BY <2>2, <2>3
<1>10. Streams'
  <2>1. \A a \in Revisions(k) : a.uid # att.uid
    BY <1>4, <1>7, Types
  <2> QED BY <1>1, <1>2, <1>5, <2>1, StreamsPut, Parts
<1>11. \A m \in Keys : Mine(m)' = IF m = k THEN {} ELSE Mine(m)
  <2>1. \A l \in locks : l.owner = k => l.ouid # attRV[k] + 1
    BY Parts, Types DEF OneLock
  <2> QED BY <1>1, <1>3, <1>4, <2>1 DEF Mine
<1>12. OneLock'
  <2>1. LocksSeen' = LocksSeen
    BY <1>1, <1>2 DEF LocksSeen, LocksAnnounced
  <2>2. \A l \in LocksSeen : Live(l)' => Live(l)
    BY <1>3, <1>4, Parts, Types DEF OneLock, Live
  <2>3. \A l \in LocksSeen : attRV[l.owner] <= attRV'[l.owner] /\ l.ouid \in Nat
                             /\ attRV[l.owner] \in Nat /\ attRV'[l.owner] \in Nat
    BY <1>3, Types
  <2>4. \A c \in Controllers : \A i \in 1 .. Len(lockEvents[c]) :
           lockEvents[c][i].lock \in LocksSeen
    BY SeenIff
  <2> QED BY <1>1, <1>11, <2>1, <2>2, <2>3, <2>4, Parts DEF OneLock
<1>13. \A m \in Keys : StatusBackedOf(m)'
  <2>1. StatusBackedOf(k)'
    BY <1>3, <1>4 DEF StatusBackedOf
  <2> QED BY <1>3, <1>11, <2>1, BackedKept, Parts
<1>14. ASSUME NEW c \in Controllers, NEW m \in Keys
       PROVE  LockKnownOf(c, m)' /\ RecordTrueOf(c, m)' /\ PassCalm(c, m, proc[c][m])'
  <2>1. CASE m # k
    BY <1>1, <1>2, <1>3, <1>11, <2>1, KeyKept, Parts
  <2>2. CASE m = k
    <3>1. LockKnownOf(c, m)'
      BY <1>11, <2>2 DEF LockKnownOf
    <3>2. RecordTrueOf(c, m)'
      BY <1>2, <1>3, <1>4, <2>2, Parts, Types DEF RecordTrueOf
    <3>3. PassCalm(c, m, proc[c][m])'
      <4>1. PassCalm(c, k, proc[c][k])
        BY Parts
      <4>2. proc[c][k].att.uid <= attRV[k] /\ attRV[k] \in Nat
            /\ proc[c][k].att.uid \in Nat
        BY <1>7, AreRevisions, Types
      <4>3. \A l \in proc[c][k].release : l.ouid \in Nat
        BY Types DEF Pass, IPLock
      <4>4. atts'[k].uid = attRV[k] + 1 /\ attRV'[k] = attRV[k] + 1
        BY <1>3, <1>4
      <4> QED BY <1>1, <1>2, <2>2, <4>1, <4>2, <4>3, <4>4 DEF PassCalm
    <3> QED BY <3>1, <3>2, <3>3
  <2> QED BY <2>1, <2>2
<1> QED BY <1>6, <1>9, <1>10, <1>12, <1>13, <1>14, Assembled

\* The deletion of an attachment: its locks, its record and its pass are about
\* an incarnation that is gone.
LEMMA DeleteCalm ==
    ASSUME TypeOK, TypeOK', CalmInv, NEW k \in Keys, DeleteAttachment(k),
           UNCHANGED localVars
    PROVE  CalmInv'
<1>1. /\ Exists(atts[k]) /\ Spend("delete") /\ PutAtt(k, NoAtt)
      /\ UNCHANGED <<attRV, locks, subnets, lockEvents, subnetEvents>>
  BY DEF DeleteAttachment
<1>2. UNCHANGED <<attCache, lockCache, subnetCache, nadat, proc>>
  BY DEF localVars
<1>3. \A m \in Keys : atts'[m] = IF m = k THEN NoAtt ELSE atts[m]
  BY <1>1 DEF PutAtt, TypeOK, ApiTypeOK
<1>4. NoAtt.uid = 0 /\ NoAtt \in NetworkAttachment
  BY ZeroTypes DEF NoAtt
<1>5. Quiet'
  BY <1>1, <1>2, QuietKept, Parts
<1>6. \A m \in Keys : NothingElse(m)
  BY <1>1, <1>2, <1>4, PutAttRevisions DEF PassesFromCache
<1>7. TwoRevisions'
  <2> SUFFICES ASSUME NEW m \in Keys
               PROVE  /\ ~Exists(atts'[m]) => atts'[m] = NoAtt
                      /\ \A a \in Revisions(m)' :
                            /\ a.uid <= attRV'[m]
                            /\ Exists(a) /\ a.uid = atts'[m].uid =>
                                  a \in {atts'[m], Blank(atts'[m])}
    BY DEF TwoRevisions
  <2>1. attRV[m] \in Nat
    BY Types
  <2>2. CASE m = k
    BY <1>1, <1>3, <1>4, <1>6, <2>1, <2>2, Parts DEF Exists, NothingElse, TwoRevisions
  <2>3. CASE m # k
    BY <1>1, <1>3, <1>4, <1>6, <2>1, <2>3, Parts, AreRevisions
       DEF Exists, NothingElse, TwoRevisions
  <2> QED BY <2>2, <2>3
<1>8. Streams'
  BY <1>1, <1>2, <1>4, StreamsPut, Parts
<1>9. \A m \in Keys : Mine(m)' = IF m = k THEN {} ELSE Mine(m)
  <2>1. \A l \in locks : l.ouid # 0
    BY Parts, Types DEF OneLock
  <2> QED BY <1>1, <1>3, <1>4, <2>1 DEF Mine
<1>10. OneLock'
  <2>1. LocksSeen' = LocksSeen
    BY <1>1, <1>2 DEF LocksSeen, LocksAnnounced
  <2>2. \A l \in LocksSeen : Live(l)' => Live(l)
    BY <1>3, <1>4, Parts, Types DEF OneLock, Live
  <2>3. \A c \in Controllers : \A i \in 1 .. Len(lockEvents[c]) :
           lockEvents[c][i].lock \in LocksSeen
    BY SeenIff
  <2> QED BY <1>1, <1>9, <2>1, <2>2, <2>3, Parts DEF OneLock
<1>11. \A m \in Keys : StatusBackedOf(m)'
  <2>1. StatusBackedOf(k)'
    BY <1>3, <1>4 DEF StatusBackedOf, Exists
  <2> QED BY <1>3, <1>9, <2>1, BackedKept, Parts
<1>12. ASSUME NEW c \in Controllers, NEW m \in Keys
       PROVE  LockKnownOf(c, m)' /\ RecordTrueOf(c, m)' /\ PassCalm(c, m, proc[c][m])'
  <2>1. CASE m # k
    BY <1>1, <1>2, <1>3, <1>9, <2>1, KeyKept, Parts
  <2>2. CASE m = k
    <3>1. LockKnownOf(c, m)'
      BY <1>9, <2>2 DEF LockKnownOf
    <3>2. RecordTrueOf(c, m)'
      BY <1>1, <1>2, <1>3, <1>4, <2>2, Parts DEF RecordTrueOf, Exists
    <3>3. PassCalm(c, m, proc[c][m])'
      <4>1. PassCalm(c, k, proc[c][k])
        BY Parts
      <4>2. atts'[k].uid = 0
        BY <1>3, <1>4
      <4> QED BY <1>1, <1>2, <2>2, <4>1, <4>2 DEF PassCalm, Exists
    <3> QED BY <3>1, <3>2, <3>3
  <2> QED BY <2>1, <2>2
<1> QED BY <1>5, <1>7, <1>8, <1>10, <1>11, <1>12, Assembled

\* The garbage collector removes a lock whose owner is gone.
LEMMA GarbageCalm ==
    ASSUME TypeOK, TypeOK', CalmInv, NEW l \in locks, CollectGarbage(l),
           UNCHANGED localVars
    PROVE  CalmInv'
<1>1. /\ ~Live(l) /\ DeleteLock(l)
      /\ UNCHANGED <<atts, attRV, subnets, attEvents, subnetEvents, budget>>
  BY DEF CollectGarbage, OwnedBy, Live
<1>2. UNCHANGED <<attCache, lockCache, subnetCache, nadat, proc>>
  BY DEF localVars
<1>3. Quiet' /\ Streams'
  BY <1>1, <1>2, QuietKept, StreamsKept, Parts
<1>4. TwoRevisions'
  BY <1>1, <1>2, PassesKeepRevisions, TwoRevisionsKept, Parts DEF PassesFromCache
<1>5. OneLock' /\ \A k \in Keys : Mine(k)' = Mine(k)
  BY <1>1, <1>2, GarbageGoes, Parts
<1>6. \A k \in Keys : StatusBackedOf(k)'
  BY <1>1, <1>5, BackedKept, Parts
<1>7. \A c \in Controllers, k \in Keys :
         LockKnownOf(c, k)' /\ RecordTrueOf(c, k)' /\ PassCalm(c, k, proc[c][k])'
  BY <1>1, <1>2, <1>5, KeyKept, Parts
<1> QED BY <1>3, <1>4, <1>5, <1>6, <1>7, Assembled

-----------------------------------------------------------------------------
(* The informers.                                                           *)

\* The cached attachment changes: if the controller knew of the present
\* incarnation it still does.
LEMMA NotifyCalm ==
    ASSUME TypeOK, TypeOK', CalmInv, NEW c \in Controllers, OnAttachmentNotify(c)
    PROVE  CalmInv'
<1> DEFINE e == Head(attEvents[c])
<1>1. /\ attEvents[c] # <<>>
      /\ attCache' = [attCache EXCEPT ![c][e.key] = e.obj]
      /\ attEvents' = [attEvents EXCEPT ![c] = Tail(@)]
      /\ UNCHANGED <<atts, attRV, locks, subnets, lockEvents, subnetEvents, budget,
                     lockCache, subnetCache, nadat, proc>>
  BY DEF OnAttachmentNotify, storeVars
<1>2. attEvents[c] \in Seq(AttEvent)
  BY Types
<1>3. 1 \in 1 .. Len(attEvents[c]) /\ e = attEvents[c][1]
  BY <1>1, <1>2
<1>4. \A d \in Controllers, k \in Keys :
         attCache'[d][k] = IF d = c /\ k = e.key THEN e.obj ELSE attCache[d][k]
  BY <1>1 DEF TypeOK
<1>5. \A d \in Controllers :
         attEvents'[d] = IF d = c THEN Tail(attEvents[c]) ELSE attEvents[d]
  BY <1>1 DEF TypeOK, ApiTypeOK
<1> HIDE DEF e
<1>6. \A i \in 1 .. Len(Tail(attEvents[c])) :
         i + 1 \in 1 .. Len(attEvents[c]) /\ Tail(attEvents[c])[i] = attEvents[c][i + 1]
  BY <1>1, <1>2, TailElement
<1>7. Quiet'
  BY <1>1, QuietKept, Parts
<1>8. ASSUME NEW k \in Keys PROVE NothingElse(k)
  <2> SUFFICES ASSUME NEW a \in Revisions(k)' PROVE a \in Revisions(k)
    BY DEF NothingElse
  <2>1. CASE a = atts'[k]
    BY <1>1, <2>1, RevisionsIff
  <2>2. ASSUME NEW d \in Controllers, a = attCache'[d][k] \/ a = proc'[d][k].att
        PROVE  a \in Revisions(k)
    BY <1>1, <1>3, <1>4, <2>2, RevisionsIff
  <2>3. ASSUME NEW d \in Controllers, NEW i \in 1 .. Len(attEvents'[d]),
               attEvents'[d][i].key = k, a = attEvents'[d][i].obj
        PROVE  a \in Revisions(k)
    <3>1. CASE d = c
      <4>1. i \in 1 .. Len(Tail(attEvents[c])) /\ attEvents'[d][i] = Tail(attEvents[c])[i]
        BY <1>5, <3>1
      <4>2. i + 1 \in 1 .. Len(attEvents[c]) /\ attEvents'[d][i] = attEvents[c][i + 1]
        BY <1>6, <4>1
      <4> QED BY <2>3, <4>2, RevisionsIff
    <3>2. CASE d # c
      BY <1>5, <2>3, <3>2, RevisionsIff
    <3> QED BY <3>1, <3>2
  <2> QED BY <2>1, <2>2, <2>3, RevisionsIffNext
<1>9. TwoRevisions'
  BY <1>1, <1>8, TwoRevisionsKept, Parts
<1>10. \A d \in Controllers, k \in Keys :
          Exists(atts[k]) /\ attCache[d][k].uid = atts[k].uid =>
             attCache'[d][k].uid = atts[k].uid
  BY <1>3, <1>4, Parts DEF Streams
<1>11. Streams'
  <2> SUFFICES ASSUME NEW d \in Controllers, NEW k \in Keys, Exists(atts[k]),
                      NEW i \in 1 .. Len(attEvents'[d]), attEvents'[d][i].key = k
               PROVE  /\ attCache'[d][k].uid = atts[k].uid =>
                            attEvents'[d][i].obj.uid = atts[k].uid
                      /\ attEvents'[d][i].obj.uid = atts[k].uid =>
                            \A j \in i .. Len(attEvents'[d]) : attEvents'[d][j].key = k =>
                               attEvents'[d][j].obj.uid = atts[k].uid
    BY <1>1 DEF Streams
  <2>1. \A j \in 1 .. Len(attEvents[d]) : attEvents[d][j].key = k =>
           /\ attCache[d][k].uid = atts[k].uid => attEvents[d][j].obj.uid = atts[k].uid
           /\ attEvents[d][j].obj.uid = atts[k].uid =>
                \A n \in j .. Len(attEvents[d]) : attEvents[d][n].key = k =>
                   attEvents[d][n].obj.uid = atts[k].uid
    BY Parts DEF Streams
  <2>2. CASE d # c
    BY <1>4, <1>5, <2>1, <2>2
  <2>3. CASE d = c
    <3> DEFINE old == attEvents[c]
               new == Tail(attEvents[c])
    <3>1. new = attEvents'[d] /\ Len(new) = Len(old) - 1 /\ Len(old) \in Nat
      BY <1>1, <1>2, <1>5, <2>3
    <3>2. \A j \in 1 .. Len(new) : j + 1 \in 1 .. Len(old) /\ new[j] = old[j + 1]
      BY <1>6
    <3>3. \A j \in 1 .. Len(old) : old[j].key = k =>
             /\ attCache[c][k].uid = atts[k].uid => old[j].obj.uid = atts[k].uid
             /\ old[j].obj.uid = atts[k].uid =>
                  \A n \in j .. Len(old) : old[n].key = k => old[n].obj.uid = atts[k].uid
      BY <2>1, <2>3
    <3>4. e = old[1] /\ 1 \in 1 .. Len(old)
      BY <1>3
    <3> HIDE DEF old, new
    <3>5. i \in 1 .. Len(new) /\ new[i].key = k /\ i + 1 \in 1 .. Len(old)
      BY <3>1, <3>2
    <3>6. attCache'[c][k].uid = atts[k].uid => new[i].obj.uid = atts[k].uid
      BY <1>4, <3>2, <3>3, <3>4, <3>5
    <3>7. ASSUME new[i].obj.uid = atts[k].uid, NEW j \in i .. Len(new), new[j].key = k
          PROVE  new[j].obj.uid = atts[k].uid
      <4>1. j \in 1 .. Len(new) /\ j + 1 \in i + 1 .. Len(old)
        BY <3>1, <3>5
      <4> QED BY <3>2, <3>3, <3>5, <3>7, <4>1
    <3> QED BY <2>3, <3>1, <3>6, <3>7
  <2> QED BY <2>2, <2>3
<1>12. OneLock' /\ \A k \in Keys : Mine(k)' = Mine(k)
  BY <1>1, OneLockKept, Parts
<1>13. \A k \in Keys : StatusBackedOf(k)'
  BY <1>1, <1>12, BackedKept, Parts
<1>14. \A d \in Controllers, k \in Keys :
          LockKnownOf(d, k)' /\ RecordTrueOf(d, k)' /\ PassCalm(d, k, proc[d][k])'
  BY <1>1, <1>10, <1>12, KeyKept, Parts
<1> QED BY <1>7, <1>9, <1>11, <1>12, <1>13, <1>14, Assembled

\* The indexer takes a lock event: it forgets no lock whose owner is there.
LEMMA IndexCalm ==
    ASSUME TypeOK, TypeOK', CalmInv, NEW c \in Controllers, IndexLock(c)
    PROVE  CalmInv'
<1> DEFINE e == Head(lockEvents[c])
<1>1. /\ lockEvents[c] # <<>>
      /\ lockCache' = [lockCache EXCEPT ![c] = IF e.op = "create" THEN @ \cup {e.lock}
                                                                ELSE @ \ {e.lock}]
      /\ lockEvents' = [lockEvents EXCEPT ![c] = Tail(@)]
      /\ UNCHANGED <<atts, attRV, locks, subnets, attEvents, subnetEvents, budget,
                     attCache, subnetCache, nadat, proc>>
  BY DEF IndexLock, storeVars
<1>2. lockEvents[c] \in Seq(LockEvent)
  BY Types
<1>3. 1 \in 1 .. Len(lockEvents[c]) /\ e = lockEvents[c][1]
  BY <1>1, <1>2
<1>4. \A d \in Controllers :
         lockCache'[d] = IF d # c THEN lockCache[d]
                         ELSE IF e.op = "create" THEN lockCache[c] \cup {e.lock}
                                                 ELSE lockCache[c] \ {e.lock}
  BY <1>1 DEF TypeOK
<1>5. \A d \in Controllers :
         lockEvents'[d] = IF d = c THEN Tail(lockEvents[c]) ELSE lockEvents[d]
  BY <1>1 DEF TypeOK, ApiTypeOK
<1>6. e.op \in {"create", "delete"}
  <2>1. lockEvents[c][1] \in LockEvent
    BY <1>2, <1>3
  <2> QED BY <1>3, <2>1 DEF LockEvent
<1> HIDE DEF e
<1>7. \A i \in 1 .. Len(Tail(lockEvents[c])) :
         i + 1 \in 1 .. Len(lockEvents[c]) /\ Tail(lockEvents[c])[i] = lockEvents[c][i + 1]
  BY <1>1, <1>2, TailElement
<1>8. Quiet' /\ Streams'
  BY <1>1, QuietKept, StreamsKept, Parts
<1>9. TwoRevisions'
  BY <1>1, PassesKeepRevisions, TwoRevisionsKept, Parts DEF PassesFromCache
<1>10. LocksSeen' \subseteq LocksSeen
  BY <1>1, <1>3, <1>4, <1>5, <1>7, SeenIff, SeenIffNext
<1>11. \A k \in Keys : Mine(k)' = Mine(k)
  BY <1>1 DEF Mine
<1>12. OneLock'
  <2>1. \A l : Live(l)' <=> Live(l)
    BY <1>1 DEF Live
  <2>2. \A d \in Controllers : \A i \in 1 .. Len(lockEvents'[d]) :
           lockEvents'[d][i].op = "delete" => ~Live(lockEvents'[d][i].lock)
    <3> SUFFICES ASSUME NEW d \in Controllers, NEW i \in 1 .. Len(lockEvents'[d]),
                        lockEvents'[d][i].op = "delete"
                 PROVE  ~Live(lockEvents'[d][i].lock)
      OBVIOUS
    <3>1. CASE d = c
      <4>1. i \in 1 .. Len(Tail(lockEvents[c])) /\ lockEvents'[d][i] = Tail(lockEvents[c])[i]
        BY <1>5, <3>1
      <4>2. i + 1 \in 1 .. Len(lockEvents[c]) /\ lockEvents'[d][i] = lockEvents[c][i + 1]
        BY <1>7, <4>1
      <4> QED BY <4>2, Parts DEF OneLock
    <3>2. CASE d # c
      BY <1>5, <3>2, Parts DEF OneLock
    <3> QED BY <3>1, <3>2
  <2> QED BY <1>1, <1>10, <1>11, <2>1, <2>2, Parts DEF OneLock
<1>13. \A k \in Keys : StatusBackedOf(k)'
  BY <1>1, <1>11, BackedKept, Parts
<1>14. \A d \in Controllers, k \in Keys : \A l \in Mine(k) :
          l \in lockCache[d] => l \in lockCache'[d]
  BY <1>3, <1>4, <1>6, Parts, MineFacts DEF OneLock
<1>15. \A d \in Controllers, k \in Keys :
          LockKnownOf(d, k)' /\ RecordTrueOf(d, k)' /\ PassCalm(d, k, proc[d][k])'
  BY <1>1, <1>11, <1>14, KeyKept, Parts
<1> QED BY <1>8, <1>9, <1>12, <1>13, <1>15, Assembled

\* A step that leaves alone all that the invariant speaks of.
LEMMA NothingCalm ==
    ASSUME TypeOK, CalmInv,
           UNCHANGED <<apiVars, attCache, lockCache, subnetCache, nadat, proc>>
    PROVE  CalmInv'
<1>1. UNCHANGED <<atts, attRV, locks, subnets, attEvents, lockEvents, subnetEvents,
                  budget, attCache, lockCache, subnetCache, nadat, proc>>
  BY DEF apiVars, storeVars, watchVars
<1>2. Quiet' /\ Streams'
  BY <1>1, QuietKept, StreamsKept, Parts
<1>3. TwoRevisions'
  BY <1>1, PassesKeepRevisions, TwoRevisionsKept, Parts DEF PassesFromCache
<1>4. OneLock' /\ \A k \in Keys : Mine(k)' = Mine(k)
  BY <1>1, OneLockKept, Parts
<1>5. \A k \in Keys : StatusBackedOf(k)'
  BY <1>1, <1>4, BackedKept, Parts
<1>6. \A c \in Controllers, k \in Keys :
         LockKnownOf(c, k)' /\ RecordTrueOf(c, k)' /\ PassCalm(c, k, proc[c][k])'
  BY <1>1, <1>4, KeyKept, Parts
<1> QED BY <1>2, <1>3, <1>4, <1>5, <1>6, Assembled

-----------------------------------------------------------------------------
(* The workers.                                                             *)

\* A worker's step on k that writes no attachment.
LEMMA WorkerCalm ==
    ASSUME TypeOK, TypeOK', CalmInv, NEW c \in Controllers, NEW k \in Keys,
           UNCHANGED <<atts, attRV, attEvents, attCache, lockCache, subnets,
                       subnetCache, subnetEvents, budget>>,
           \A d \in Controllers, m \in Keys : d # c \/ m # k =>
              proc'[d][m] = proc[d][m] /\ nadat'[d][m] = nadat[d][m],
           proc'[c][k].att \in {proc[c][k].att, NoAtt, attCache[c][k]},
           OneLock', \A m \in Keys \ {k} : Mine(m)' = Mine(m), Calm,
           StatusBackedOf(k)', LockKnownOf(c, k)', RecordTrueOf(c, k)',
           PassCalm(c, k, proc[c][k])'
    PROVE  CalmInv'
<1>1. Quiet' /\ Streams'
  BY QuietKept, StreamsKept, Parts
<1>2. TwoRevisions'
  <2>1. PassesFromCache
    BY DEF PassesFromCache
  <2> QED BY <2>1, PassesKeepRevisions, TwoRevisionsKept, Parts
<1>3. \A m \in Keys : StatusBackedOf(m)'
  BY BackedKept, Parts
<1>4. ASSUME NEW d \in Controllers, NEW m \in Keys
      PROVE  LockKnownOf(d, m)' /\ RecordTrueOf(d, m)' /\ PassCalm(d, m, proc[d][m])'
  <2>1. d = c
    BY DEF Calm
  <2>2. CASE m = k
    BY <2>1, <2>2
  <2>3. CASE m # k
    BY <2>3, KeyKept, Parts
  <2> QED BY <2>2, <2>3
<1> QED BY <1>1, <1>2, <1>3, <1>4, Assembled

\* A worker's step that changes its pass only, or removes garbage too.
LEMMA PassStepCalm ==
    ASSUME TypeOK, TypeOK', CalmInv, Calm, NEW c \in Controllers, NEW k \in Keys,
           UNCHANGED <<atts, attRV, attEvents, attCache, lockCache, subnets,
                       subnetCache, subnetEvents, budget, nadat>>,
           \A d \in Controllers, m \in Keys : d # c \/ m # k =>
              proc'[d][m] = proc[d][m],
           proc'[c][k].att \in {proc[c][k].att, NoAtt},
           OneLock', \A m \in Keys : Mine(m)' = Mine(m),
           proc[c][k].pc = "update" => Mine(k) = {} \/ proc[c][k].att # atts[k],
           PassCalm(c, k, proc[c][k])'
    PROVE  CalmInv'
<1>1. \A l : Anticipates(c, k, l)' <=> Anticipates(c, k, l)
  BY DEF Anticipates
<1>2. LockKnownOf(c, k)'
  BY <1>1, Parts DEF LockKnownOf, InSubnet
<1>3. RecordTrueOf(c, k)'
  BY <1>1, Parts DEF RecordTrueOf
<1>4. StatusBackedOf(k)'
  BY BackedKept, Parts
<1> QED BY <1>2, <1>3, <1>4, WorkerCalm

\* What Proceed does with a pass.
LEMMA ProceedCalm ==
    ASSUME NEW p \in Pass
    PROVE  \/ Proceed(p) = Idle
           \/ /\ Proceed(p).att = p.att /\ Proceed(p).st = p.st
              /\ Proceed(p).want = p.want /\ Proceed(p).release = p.release
              /\ Goal(Proceed(p)) = p.then /\ Proceed(p).pc \in {"release", "pick", "update"}
<1>1. CASE p.release # {}
  <2>1. Proceed(p) = [p EXCEPT !.pc = "release"]
    BY <1>1 DEF Proceed
  <2> QED BY <2>1 DEF Pass, Goal
<1>2. CASE p.release = {} /\ p.then = "idle"
  BY <1>2 DEF Proceed
<1>3. CASE p.release = {} /\ p.then # "idle"
  <2>1. Proceed(p) = [p EXCEPT !.pc = p.then]
    BY <1>3 DEF Proceed
  <2> QED BY <1>3, <2>1 DEF Pass, Goal
<1> QED BY <1>1, <1>2, <1>3

\* A worker releases locks of incarnations that are gone.
LEMMA ReleaseCalm ==
    ASSUME TypeOK, TypeOK', CalmInv, Calm, NEW c \in Controllers, NEW k \in Keys,
           deleteIPLockObject(c, k)
    PROVE  CalmInv'
<1> DEFINE p == proc[c][k]
<1>1. /\ p.pc = "release" /\ p \in Pass /\ PassCalm(c, k, p)
      /\ UNCHANGED <<atts, attRV, attEvents, attCache, lockCache, subnets,
                     subnetCache, subnetEvents, nadat>>
  BY Types, Parts DEF deleteIPLockObject
<1>2. PICK l \in NextToRelease(p) :
         \/ /\ \/ DeleteLock(l)
               \/ LocksAt(l.slot) = {} /\ UNCHANGED <<locks, lockEvents>>
            /\ Continue(c, k, Proceed([p EXCEPT !.release = @ \ {l}]))
            /\ UNCHANGED budget
         \/ /\ LocksAt(l.slot) \ {l} # {}
            /\ Retry(c, k)
            /\ UNCHANGED <<locks, lockEvents, budget>>
         \/ /\ Spend("fault")
            /\ DeleteLock(l) \/ UNCHANGED <<locks, lockEvents>>
            /\ Retry(c, k)
  BY DEF deleteIPLockObject
<1>3. l \in p.release
  BY DEF NextToRelease
<1>4. ~Live(l)
  BY <1>1, <1>3 DEF PassCalm, Live
<1>5. /\ budget' = budget
      /\ DeleteLock(l) \/ UNCHANGED <<locks, lockEvents>>
      /\ \/ Continue(c, k, Proceed([p EXCEPT !.release = @ \ {l}]))
         \/ Retry(c, k)
  BY <1>2, NoFault, Parts
<1>6. OneLock' /\ \A m \in Keys : Mine(m)' = Mine(m)
  BY <1>1, <1>4, <1>5, GarbageGoes, OneLockKept, Parts
<1> DEFINE q == [p EXCEPT !.release = @ \ {l}]
<1>7. /\ q \in Pass /\ q.att = p.att /\ q.st = p.st /\ q.want = p.want
      /\ q.then = p.then /\ q.release \subseteq p.release
  BY <1>1 DEF Pass
<1>8. \A d \in Controllers, m \in Keys : d # c \/ m # k => proc'[d][m] = proc[d][m]
  BY <1>5 DEF Continue, Retry, TypeOK
<1>9. proc'[c][k] = Idle \/ proc'[c][k] = Proceed(q)
  BY <1>5 DEF Continue, Retry, TypeOK
<1> HIDE DEF p, q
<1>10. CASE proc'[c][k] = Idle
  <2>1. proc'[c][k].att = NoAtt
    BY <1>10, IdleParts
  <2>2. PassCalm(c, k, proc[c][k])'
    BY <1>10, IdleCalm
  <2> QED BY <1>1, <1>5, <1>6, <1>8, <2>1, <2>2, PassStepCalm DEF p
<1>11. CASE proc'[c][k] = Proceed(q) /\ Proceed(q) # Idle
  <2>1. /\ proc'[c][k].att = p.att /\ proc'[c][k].st = p.st
        /\ proc'[c][k].want = p.want /\ proc'[c][k].release \subseteq p.release
        /\ Goal(proc'[c][k]) = p.then
        /\ proc'[c][k].pc \in {"release", "pick", "update"}
    BY <1>7, <1>11, ProceedCalm
  <2>2. Goal(p) = p.then
    BY <1>1 DEF Goal
  <2>3. PassCalm(c, k, proc[c][k])'
    BY <1>1, <1>6, <2>1, <2>2 DEF PassCalm, PickedSlot
  <2>4. proc'[c][k].att = proc[c][k].att
    BY <2>1 DEF p
  <2> QED BY <1>1, <1>5, <1>6, <1>8, <2>3, <2>4, PassStepCalm DEF p
<1> QED BY <1>9, <1>10, <1>11

\* What ends or continues a pass leaves the other passes alone.
LEMMA PassOnly ==
    ASSUME TypeOK, NEW c \in Controllers, NEW k \in Keys
    PROVE  /\ Done(c, k) \/ Retry(c, k) =>
                 /\ proc'[c][k] = Idle
                 /\ \A d \in Controllers, m \in Keys : d # c \/ m # k =>
                       proc'[d][m] = proc[d][m]
           /\ \A p : Continue(c, k, p) =>
                 /\ proc'[c][k] = p
                 /\ \A d \in Controllers, m \in Keys : d # c \/ m # k =>
                       proc'[d][m] = proc[d][m]
BY DEF Done, Retry, Continue, TypeOK

\* The end of a pass that was not to write the status of the lock it found.
LEMMA EndCalm ==
    ASSUME TypeOK, TypeOK', CalmInv, Calm, NEW c \in Controllers, NEW k \in Keys,
           UNCHANGED <<atts, attRV, attEvents, attCache, locks, lockEvents, lockCache,
                       subnets, subnetCache, subnetEvents, budget, nadat>>,
           Done(c, k) \/ Retry(c, k),
           proc[c][k].pc = "update" => Mine(k) = {} \/ proc[c][k].att # atts[k]
    PROVE  CalmInv'
<1>1. /\ proc'[c][k] = Idle
      /\ \A d \in Controllers, m \in Keys : d # c \/ m # k => proc'[d][m] = proc[d][m]
  BY PassOnly
<1>2. proc'[c][k].att = NoAtt
  BY <1>1, IdleParts
<1>3. PassCalm(c, k, proc[c][k])'
  BY <1>1, IdleCalm
<1>4. OneLock' /\ \A m \in Keys : Mine(m)' = Mine(m)
  BY OneLockKept, Parts
<1> QED BY <1>1, <1>2, <1>3, <1>4, PassStepCalm

\* A pass goes on that touches nothing else.
LEMMA GoOnCalm ==
    ASSUME TypeOK, TypeOK', CalmInv, Calm, NEW c \in Controllers, NEW k \in Keys,
           UNCHANGED <<atts, attRV, attEvents, attCache, locks, lockEvents, lockCache,
                       subnets, subnetCache, subnetEvents, budget, nadat>>,
           proc[c][k].pc # "update",
           \A d \in Controllers, m \in Keys : d # c \/ m # k => proc'[d][m] = proc[d][m],
           proc'[c][k].att = proc[c][k].att, PassCalm(c, k, proc'[c][k])
    PROVE  CalmInv'
<1>1. OneLock' /\ \A m \in Keys : Mine(m)' = Mine(m)
  BY OneLockKept, Parts
<1>2. PassCalm(c, k, proc[c][k])'
  BY <1>1 DEF PassCalm, PickedSlot, Goal, InSubnet
<1> QED BY <1>1, <1>2, PassStepCalm

\* A worker picks an address: it is one of the Subnet.
LEMMA PickCalm ==
    ASSUME TypeOK, TypeOK', CalmInv, Calm, NEW c \in Controllers, NEW k \in Keys,
           PickAddress(c, k)
    PROVE  CalmInv'
<1> DEFINE p == proc[c][k]
<1>1. /\ p.pc = "pick" /\ p \in Pass /\ PassCalm(c, k, p)
      /\ UNCHANGED <<atts, attRV, attEvents, attCache, locks, lockEvents, lockCache,
                     subnets, subnetCache, subnetEvents, budget, nadat>>
  BY Types, Parts DEF PickAddress, apiVars, storeVars, watchVars
<1>2. CASE Retry(c, k)
  BY <1>1, <1>2, EndCalm
<1>3. ASSUME NEW a \in PickRange(p.want),
             Continue(c, k, [p EXCEPT !.pc = "create", !.st.ip = a, !.st.vni = p.want.vni])
      PROVE  CalmInv'
  <2> DEFINE q == [p EXCEPT !.pc = "create", !.st.ip = a, !.st.vni = p.want.vni]
  <2>1. /\ q.pc = "create" /\ q.att = p.att /\ q.want = p.want /\ q.release = p.release
        /\ q.st.err = p.st.err /\ q.st.ip = a /\ q.st.vni = p.want.vni
    BY <1>1 DEF Pass, Status
  <2>2. InSubnet(PickedSlot(q), q.want)
    <3>1. p.want.base \in Nat /\ p.want.last \in Nat
      BY <1>1 DEF Pass, Subnet
    <3>2. a \in p.want.base .. p.want.last
      BY <3>1 DEF PickRange
    <3> QED BY <2>1, <3>2 DEF InSubnet, PickedSlot
  <2>3. PassCalm(c, k, q)
    <3> HIDE DEF q
    <3> QED BY <1>1, <2>1, <2>2 DEF PassCalm, Goal
  <2>4. /\ proc'[c][k] = q
        /\ \A d \in Controllers, m \in Keys : d # c \/ m # k => proc'[d][m] = proc[d][m]
    BY <1>3, PassOnly
  <2>5. /\ proc'[c][k].att = proc[c][k].att /\ PassCalm(c, k, proc'[c][k])
        /\ proc[c][k].pc # "update"
    <3> HIDE DEF q
    <3> QED BY <1>1, <2>1, <2>3, <2>4
  <2> HIDE DEF q, p
  <2> QED BY <1>1, <2>4, <2>5, GoOnCalm DEF p
<1> QED BY <1>2, <1>3 DEF PickAddress

\* What the creation of a lock adds, and when it can.
LEMMA NewLock ==
    ASSUME TypeOK, NEW slot \in Slots, NEW k \in Keys,
           NEW att \in NetworkAttachment, CreateLock(slot, k, att)
    PROVE  /\ LocksAt(slot) = {} /\ lockUID' = lockUID + 1
           /\ \E l \in IPLock :
                 /\ l.slot = slot /\ l.owner = k /\ l.ouid = att.uid
                 /\ l.uid = lockUID + 1
                 /\ locks' = locks \cup {l}
                 /\ lockEvents' = Broadcast(lockEvents, [op |-> "create", lock |-> l])
<1>1. LocksAt(slot) = {}
  BY DEF CreateLock
<1> QED BY <1>1, CreateLockEffect

\* The new lock is the only one at its slot and, if its owner is there, the
\* only one its owner has.
LEMMA NewLockOne ==
    ASSUME TypeOK, OneLock, NEW l \in IPLock, LocksAt(l.slot) = {},
           locks' = locks \cup {l}, UNCHANGED <<atts, attRV, lockCache>>,
           lockEvents' = Broadcast(lockEvents, [op |-> "create", lock |-> l]),
           l.ouid # 0, l.ouid <= attRV[l.owner], Live(l) => Mine(l.owner) = {}
    PROVE  /\ OneLock'
           /\ \A k \in Keys : Mine(k)' = IF k = l.owner /\ Live(l) THEN {l} ELSE Mine(k)
<1>1. \A k \in Keys : Mine(k)' = IF k = l.owner /\ Live(l) THEN {l} ELSE Mine(k)
  BY DEF Mine, Live
<1>2. [op |-> "create", lock |-> l] \in LockEvent
  BY DEF LockEvent
<1>3. LocksSeen' \subseteq LocksSeen \cup {l}
  <2>1. LocksSeen' \subseteq LocksSeen \cup locks' \cup {[op |-> "create", lock |-> l].lock}
    BY <1>2, BroadcastSeen
  <2> QED BY <2>1, Types
<1>4. \A m : Live(m)' <=> Live(m)
  BY DEF Live
<1>5. \A m \in LocksSeen' : /\ m.ouid # 0 /\ m.ouid <= attRV'[m.owner]
                            /\ Live(m)' => m \in locks'
  BY <1>3, <1>4 DEF OneLock
<1>6. \A m, n \in locks' : m.slot = n.slot => m = n
  BY DEF OneLock, LocksAt
<1>7. \A k \in Keys : \A m, n \in Mine(k)' : m = n
  BY <1>1 DEF OneLock
<1>8. ASSUME NEW c \in Controllers, NEW i \in 1 .. Len(lockEvents'[c]),
             lockEvents'[c][i].op = "delete"
      PROVE  ~Live(lockEvents'[c][i].lock)
  <2> DEFINE e == [op |-> "create", lock |-> l]
  <2>1. lockEvents[c] \in Seq(LockEvent) /\ lockEvents'[c] = Append(lockEvents[c], e)
    BY Types DEF Broadcast
  <2>2. e.op # "delete"
    OBVIOUS
  <2> HIDE DEF e
  <2>3. CASE i \in 1 .. Len(lockEvents[c])
    <3>1. lockEvents'[c][i] = lockEvents[c][i]
      BY <2>1, <2>3
    <3> QED BY <1>8, <2>3, <3>1 DEF OneLock
  <2>4. CASE i = Len(lockEvents[c]) + 1
    <3>1. lockEvents'[c][i] = e
      BY <2>1, <2>4
    <3> QED BY <1>8, <2>2, <3>1
  <2> QED BY <2>1, <2>3, <2>4
<1>9. OneLock'
  BY <1>4, <1>5, <1>6, <1>7, <1>8 DEF OneLock
<1> QED BY <1>1, <1>9

\* A worker creates the lock it picked: the controller knows of it, because the
\* pass is about to write it.
LEMMA LockCalm ==
    ASSUME TypeInv, TypeOK', CalmInv, Calm, NEW c \in Controllers, NEW k \in Keys,
           LockAddress(c, k)
    PROVE  CalmInv'
<1> DEFINE p == proc[c][k]
           slot == PickedSlot(p)
<1>0. TypeOK
  BY DEF TypeInv
<1>1. /\ p.pc = "create" /\ p \in Pass /\ PassCalm(c, k, p) /\ slot \in Slots
      /\ p.att \in NetworkAttachment /\ Exists(p.att)
      /\ UNCHANGED <<atts, attRV, attEvents, attCache, lockCache, subnets,
                     subnetCache, subnetEvents, nadat>>
  <2>1. slot \in Slots
    BY DEF LockAddress, TypeInv, PassesOK, PassOK
  <2> QED BY <1>0, <2>1, Types, Parts DEF LockAddress, PassCalm, Goal
<1>2. \/ /\ CreateLock(slot, k, p.att)
         /\ Continue(c, k, [p EXCEPT !.pc = "update", !.st.lock = lockUID'])
         /\ budget' = budget
      \/ /\ Continue(c, k, [p EXCEPT !.pc = "recover"])
         /\ UNCHANGED <<locks, lockEvents, budget>>
  BY NoFault, Parts DEF LockAddress
<1>3. CASE /\ Continue(c, k, [p EXCEPT !.pc = "recover"])
           /\ UNCHANGED <<locks, lockEvents, budget>>
  <2> DEFINE q == [p EXCEPT !.pc = "recover"]
  <2>1. /\ q.pc = "recover" /\ q.att = p.att /\ q.want = p.want
        /\ q.release = p.release /\ q.st = p.st
    BY <1>1 DEF Pass
  <2>2. PassCalm(c, k, q)
    <3> HIDE DEF q
    <3> QED BY <1>1, <2>1 DEF PassCalm, Goal, PickedSlot
  <2>3. /\ proc'[c][k] = q
        /\ \A d \in Controllers, m \in Keys : d # c \/ m # k => proc'[d][m] = proc[d][m]
    BY <1>0, <1>3, PassOnly
  <2>4. /\ proc'[c][k].att = proc[c][k].att /\ PassCalm(c, k, proc'[c][k])
        /\ proc[c][k].pc # "update"
    <3> HIDE DEF q
    <3> QED BY <1>1, <2>1, <2>2, <2>3
  <2> HIDE DEF q, p
  <2> QED BY <1>0, <1>1, <1>3, <2>3, <2>4, GoOnCalm DEF p
<1>4. CASE /\ CreateLock(slot, k, p.att)
           /\ Continue(c, k, [p EXCEPT !.pc = "update", !.st.lock = lockUID'])
           /\ budget' = budget
  <2> DEFINE q == [p EXCEPT !.pc = "update", !.st.lock = lockUID']
  <2>1. PICK l \in IPLock :
           /\ l.slot = slot /\ l.owner = k /\ l.ouid = p.att.uid
           /\ l.uid = lockUID + 1 /\ locks' = locks \cup {l}
           /\ lockEvents' = Broadcast(lockEvents, [op |-> "create", lock |-> l])
    BY <1>0, <1>1, <1>4, NewLock
  <2>2. LocksAt(slot) = {} /\ lockUID' = lockUID + 1
    BY <1>0, <1>1, <1>4, NewLock
  <2>3. l.ouid # 0 /\ l.ouid <= attRV[l.owner]
    BY <1>1, <2>1, Parts, AreRevisions DEF TwoRevisions, Exists
  <2>4. p.att.uid = atts[k].uid =>
           p.att = atts[k] /\ atts[k] = Blank(atts[k]) /\ Mine(k) = {}
    BY <1>1 DEF PassCalm, Goal
  <2>5. Live(l) <=> p.att.uid = atts[k].uid
    BY <2>1 DEF Live
  <2>6. /\ OneLock'
        /\ \A m \in Keys : Mine(m)' = IF m = k /\ Live(l) THEN {l} ELSE Mine(m)
    BY <1>0, <1>1, <2>1, <2>2, <2>3, <2>4, <2>5, NewLockOne, Parts
  <2>7. /\ q.pc = "update" /\ q.att = p.att /\ q.want = p.want /\ q.release = p.release
        /\ q.st.lock = l.uid /\ q.st.ip = p.st.ip /\ q.st.vni = p.st.vni
        /\ q.st.err = p.st.err
    BY <1>1, <2>1, <2>2 DEF Pass, Status
  <2>8. /\ proc'[c][k] = q
        /\ \A d \in Controllers, m \in Keys : d # c \/ m # k => proc'[d][m] = proc[d][m]
    BY <1>0, <1>4, PassOnly
  <2> HIDE DEF q
  <2>9. PassCalm(c, k, proc[c][k])'
    <3>1. PickedSlot(q) = l.slot
      BY <2>1, <2>7 DEF PickedSlot
    <3>2. Live(l) => l \in Mine(k)' /\ p.att = Blank(p.att)
      BY <2>4, <2>5, <2>6
    <3> HIDE DEF slot
    <3> QED BY <1>1, <2>5, <2>7, <2>8, <3>1, <3>2 DEF PassCalm, Goal, PickedSlot
  <2>10. \A m : Anticipates(c, k, m)' <=> Anticipates(c, k, m)
    BY <1>1 DEF Anticipates
  <2>11. LockKnownOf(c, k)'
    <3>1. CASE Live(l)
      <4>1. p.want = subnets[p.att.subnet] /\ attCache[c][k].uid = atts[k].uid
            /\ InSubnet(slot, p.want)
        BY <1>1, <2>5, <3>1 DEF PassCalm
      <4>2. Mine(k)' = {l} /\ p.att = atts[k]
        BY <2>4, <2>5, <2>6, <3>1
      <4>3. InSubnet(l.slot, subnets[atts[k].subnet])
        BY <2>1, <4>1, <4>2
      <4> QED BY <1>1, <2>7, <2>8, <4>1, <4>2, <4>3 DEF LockKnownOf, InSubnet
    <3>2. CASE ~Live(l)
      <4>1. Mine(k)' = Mine(k)
        BY <2>6, <3>2
      <4> QED BY <1>1, <2>10, <4>1, Parts DEF LockKnownOf, InSubnet
    <3> QED BY <3>1, <3>2
  <2>12. RecordTrueOf(c, k)'
    <3>1. Mine(k) \subseteq Mine(k)'
      BY <2>4, <2>5, <2>6
    <3> QED BY <1>1, <2>10, <3>1, Parts DEF RecordTrueOf
  <2>13. StatusBackedOf(k)'
    BY <1>1, <2>4, <2>5, <2>6, Parts DEF StatusBackedOf
  <2>14. proc'[c][k].att = proc[c][k].att
    BY <2>7, <2>8
  <2> QED BY <1>0, <1>1, <1>4, <2>6, <2>8, <2>9, <2>11, <2>12, <2>13, <2>14, WorkerCalm
<1> QED BY <1>2, <1>3, <1>4

\* The lock at the address picked is somebody else's, or it has gone.
LEMMA RecoverCalm ==
    ASSUME TypeInv, TypeOK', CalmInv, Calm, NEW c \in Controllers, NEW k \in Keys,
           RecoverLock(c, k)
    PROVE  CalmInv'
<1> DEFINE p == proc[c][k]
<1>0. TypeOK
  BY DEF TypeInv
<1>1. /\ p.pc = "recover" /\ p \in Pass /\ PassCalm(c, k, p)
      /\ UNCHANGED <<atts, attRV, attEvents, attCache, locks, lockEvents, lockCache,
                     subnets, subnetCache, subnetEvents, nadat>>
  BY <1>0, Types, Parts DEF RecoverLock, storeVars, watchVars
<1>2. /\ budget' = budget
      /\ \/ Continue(c, k, [p EXCEPT !.pc = "create"])
         \/ \E l \in LocksAt(PickedSlot(p)) :
               /\ OwnedBy(l, k, p.att)
               /\ Continue(c, k, [p EXCEPT !.pc = "update", !.st.lock = l.uid])
         \/ Retry(c, k)
  BY NoFault, Parts DEF RecoverLock
<1>3. CASE Retry(c, k)
  BY <1>0, <1>1, <1>2, <1>3, EndCalm
<1>4. CASE Continue(c, k, [p EXCEPT !.pc = "create"])
  <2> DEFINE q == [p EXCEPT !.pc = "create"]
  <2>1. /\ q.pc = "create" /\ q.att = p.att /\ q.want = p.want
        /\ q.release = p.release /\ q.st = p.st
    BY <1>1 DEF Pass
  <2>2. PassCalm(c, k, q)
    <3> HIDE DEF q
    <3> QED BY <1>1, <2>1 DEF PassCalm, Goal, PickedSlot
  <2>3. /\ proc'[c][k] = q
        /\ \A d \in Controllers, m \in Keys : d # c \/ m # k => proc'[d][m] = proc[d][m]
    BY <1>0, <1>4, PassOnly
  <2>4. /\ proc'[c][k].att = proc[c][k].att /\ PassCalm(c, k, proc'[c][k])
        /\ proc[c][k].pc # "update"
    <3> HIDE DEF q
    <3> QED BY <1>1, <2>1, <2>2, <2>3
  <2> HIDE DEF q, p
  <2> QED BY <1>0, <1>1, <1>2, <2>3, <2>4, GoOnCalm DEF p
<1>5. ASSUME NEW l \in LocksAt(PickedSlot(p)), OwnedBy(l, k, p.att),
             Continue(c, k, [p EXCEPT !.pc = "update", !.st.lock = l.uid])
      PROVE  CalmInv'
  <2> DEFINE q == [p EXCEPT !.pc = "update", !.st.lock = l.uid]
  <2>1. /\ q.pc = "update" /\ q.att = p.att /\ q.want = p.want
        /\ q.release = p.release /\ q.st.err = p.st.err
    BY <1>1 DEF Pass, Status
  <2>2. p.att.uid # atts[k].uid
    <3>1. p.att.uid = atts[k].uid => l \in Mine(k)
      BY <1>5 DEF OwnedBy, Mine, LocksAt
    <3> QED BY <1>1, <3>1 DEF PassCalm, Goal
  <2>3. PassCalm(c, k, q)
    <3> HIDE DEF q
    <3> QED BY <1>1, <2>1, <2>2 DEF PassCalm, Goal
  <2>4. /\ proc'[c][k] = q
        /\ \A d \in Controllers, m \in Keys : d # c \/ m # k => proc'[d][m] = proc[d][m]
    BY <1>0, <1>5, PassOnly
  <2>5. /\ proc'[c][k].att = proc[c][k].att /\ PassCalm(c, k, proc'[c][k])
        /\ proc[c][k].pc # "update"
    <3> HIDE DEF q
    <3> QED BY <1>1, <2>1, <2>3, <2>4
  <2> HIDE DEF q, p
  <2> QED BY <1>0, <1>1, <1>2, <2>4, <2>5, GoOnCalm DEF p
<1> QED BY <1>2, <1>3, <1>4, <1>5

\* A status that is written shows the address of the attachment's lock, and the
\* record of the update in flight is about the revision written.
LEMMA WriteCalm ==
    ASSUME TypeOK, TypeOK', IInv, CalmInv, Calm, NEW c \in Controllers, NEW k \in Keys,
           proc[c][k].pc = "update", Exists(atts[k]), atts[k].rv = proc[c][k].att.rv,
           WriteStatus(k, proc[c][k].st), Done(c, k),
           nadat' = IF proc[c][k].st.err THEN nadat
                    ELSE [nadat EXCEPT ![c][k] =
                            [ip |-> proc[c][k].st.ip, anticipating |-> proc[c][k].att.rv,
                             anticipated |-> atts'[k].rv,
                             subnetRV |-> proc[c][k].want.rv]],
           UNCHANGED <<locks, subnets, lockEvents, subnetEvents, attCache, lockCache,
                       subnetCache, budget>>
    PROVE  CalmInv'
<1> DEFINE p == proc[c][k]
           att == atts[k]
           updated == [att EXCEPT !.ip = p.st.ip, !.vni = p.st.vni, !.lock = p.st.lock,
                                  !.err = p.st.err]
           written == [updated EXCEPT !.rv = attRV[k] + 1]
<1>1. /\ p \in Pass /\ p.att \in NetworkAttachment /\ att \in NetworkAttachment
      /\ p.st \in Status /\ PassCalm(c, k, p) /\ attRV[k] \in Nat /\ att.uid \in Nat
  BY Types, Parts DEF Pass
<1>2. p.att.uid = att.uid
  <2>1. RevisionOf(p.att, att, attRV[k])
    BY AreRevisions DEF IInv, RevisionsIdentify
  <2> QED BY <2>1 DEF RevisionOf
<1>3. /\ p.att = Blank(p.att) /\ p.want = subnets[p.att.subnet]
      /\ attCache[c][k].uid = att.uid /\ ~p.st.err
  BY <1>1, <1>2 DEF PassCalm, Goal, Exists
<1>4. PICK l \in Mine(k) : p.st.lock = l.uid /\ PickedSlot(p) = l.slot
  BY <1>1, <1>2 DEF PassCalm, Goal, Exists
<1>5. att = p.att /\ att = Blank(att) /\ att.rv = att.uid
  <2>1. p.att \in {att, Blank(att)}
    BY <1>2, Parts, AreRevisions DEF TwoRevisions, Exists
  <2>2. Blank(p.att).rv = p.att.uid
    BY BlankParts
  <2>3. att.rv = att.uid
    BY <1>2, <1>3, <2>2
  <2>4. att = Blank(att)
    BY <1>1, <2>3, Parts DEF StatusBackedOf
  <2> QED BY <2>1, <2>3, <2>4
<1>6. l \in locks /\ l.slot \in Slots /\ l.owner = k /\ l.ouid = att.uid
  BY Parts, Types, MineFacts
<1>7. l.slot = <<p.st.vni, p.st.ip>> /\ l.slot[2] = p.st.ip /\ p.st.ip # NoIP
  <2>1. l.slot = <<p.st.vni, p.st.ip>>
    BY <1>4 DEF PickedSlot
  <2>2. l.slot[2] \in Addresses
    BY <1>6, SlotParts
  <2> QED BY <2>1, <2>2, AddressesNat
<1>8. att.ip = NoIP
  BY <1>5, BlankParts
<1>9. attRV' = [attRV EXCEPT ![k] = @ + 1] /\ PutAtt(k, written)
  <2>1. updated.ip = p.st.ip
    BY <1>1 DEF NetworkAttachment
  <2>2. updated # att
    BY <1>7, <1>8, <2>1
  <2> QED BY <2>2 DEF WriteStatus
<1>10. /\ written.rv = attRV[k] + 1 /\ written.uid = att.uid
       /\ written.subnet = att.subnet /\ written.ip = p.st.ip
       /\ written.vni = p.st.vni /\ written.lock = p.st.lock
  BY <1>1 DEF NetworkAttachment
<1>11. /\ \A m \in Keys : atts'[m] = IF m = k THEN written ELSE atts[m]
       /\ \A m \in Keys : attRV'[m] = IF m = k THEN attRV[k] + 1 ELSE attRV[m]
       /\ written \in NetworkAttachment
  <2>1. /\ \A m \in Keys : atts'[m] = IF m = k THEN written ELSE atts[m]
        /\ \A m \in Keys : attRV'[m] = IF m = k THEN attRV[k] + 1 ELSE attRV[m]
    BY <1>9 DEF PutAtt, TypeOK, ApiTypeOK
  <2> HIDE DEF written
  <2> QED BY <2>1 DEF TypeOK, ApiTypeOK
<1> HIDE DEF written, updated
<1>12. Blank(written) = att
  BY <1>5, <1>10, BlankSame
<1>13. /\ proc'[c][k] = Idle
       /\ \A d \in Controllers, m \in Keys : d # c \/ m # k => proc'[d][m] = proc[d][m]
  BY PassOnly
<1>14. \A m \in Keys : NothingElse(m)
  <2>1. PassesFromCache
    BY <1>13, IdleParts DEF PassesFromCache
  <2> QED BY <1>9, <1>11, <2>1, PutAttRevisions
<1>15. Quiet'
  BY QuietKept, Parts
<1>16. att.uid <= attRV[k]
  BY Parts, AreRevisions DEF TwoRevisions
<1>17. TwoRevisions'
  <2> SUFFICES ASSUME NEW m \in Keys
               PROVE  /\ ~Exists(atts'[m]) => atts'[m] = NoAtt
                      /\ \A a \in Revisions(m)' :
                            /\ a.uid <= attRV'[m]
                            /\ Exists(a) /\ a.uid = atts'[m].uid =>
                                  a \in {atts'[m], Blank(atts'[m])}
    BY DEF TwoRevisions
  <2>1. NoAtt.uid = 0 /\ attRV[m] \in Nat /\ \A a \in Revisions(m) : a.uid \in Nat
    BY Types, RevisionsType DEF NoAtt, NetworkAttachment
  <2>2. CASE m = k
    <3>1. Exists(atts'[m])
      BY <1>10, <1>11, <2>2 DEF Exists
    <3>2. \A a \in Revisions(m) : /\ a.uid <= attRV[k]
                                  /\ Exists(a) /\ a.uid = att.uid => a = att
      BY <1>5, <2>2, Parts DEF TwoRevisions
    <3>3. atts'[m].uid = att.uid /\ Blank(atts'[m]) = att
      BY <1>10, <1>11, <1>12, <2>2
    <3>4. \A a \in Revisions(m)' : a \in Revisions(m) \/ a = atts'[m] \/ a = NoAtt
      BY <1>14 DEF NothingElse
    <3>5. attRV'[m] = attRV[k] + 1
      BY <1>11, <2>2
    <3> QED BY <1>1, <1>16, <2>1, <2>2, <3>1, <3>2, <3>3, <3>4, <3>5 DEF Exists
  <2>3. CASE m # k
    BY <1>11, <1>14, <2>1, <2>3, Parts, AreRevisions DEF Exists, NothingElse, TwoRevisions
  <2> QED BY <2>2, <2>3
<1>18. Streams'
  BY <1>9, <1>10, <1>11, StreamsPut, Parts
<1>19. \A m \in Keys : Mine(m)' = Mine(m)
  BY <1>10, <1>11 DEF Mine
<1>20. OneLock'
  <2>1. LocksSeen' = LocksSeen
    BY DEF LocksSeen, LocksAnnounced
  <2>2. \A m \in LocksSeen : Live(m)' <=> Live(m)
    BY <1>10, <1>11, Types DEF Live
  <2>3. \A m \in LocksSeen : attRV[m.owner] <= attRV'[m.owner] /\ m.ouid \in Nat
                             /\ attRV[m.owner] \in Nat /\ attRV'[m.owner] \in Nat
    BY <1>11, Types
  <2>4. \A d \in Controllers : \A i \in 1 .. Len(lockEvents[d]) :
           lockEvents[d][i].lock \in LocksSeen
    BY SeenIff
  <2> QED BY <1>19, <2>1, <2>2, <2>3, <2>4, Parts DEF OneLock
<1>21. \A m \in Keys : StatusBackedOf(m)'
  <2>1. StatusBackedOf(k)'
    <3>1. l \in Mine(k)' /\ l.uid = written.lock /\ l.slot = <<written.vni, written.ip>>
      BY <1>4, <1>7, <1>10, <1>19
    <3>2. written.rv > written.uid
      BY <1>1, <1>10, <1>16
    <3> QED BY <1>11, <3>1, <3>2 DEF StatusBackedOf
  <2> QED BY <1>11, <1>19, <2>1, BackedKept, Parts
<1>22. ASSUME NEW d \in Controllers, NEW m \in Keys
       PROVE  LockKnownOf(d, m)' /\ RecordTrueOf(d, m)' /\ PassCalm(d, m, proc[d][m])'
  <2>1. d = c
    BY DEF Calm
  <2>2. CASE m # k
    <3>1. nadat'[d][m] = nadat[d][m]
      BY <2>2 DEF TypeOK
    <3> QED BY <1>11, <1>13, <1>19, <2>2, <3>1, KeyKept, Parts
  <2>3. CASE m = k
    <3>1. nadat'[c][k] = [ip |-> p.st.ip, anticipating |-> p.att.rv,
                          anticipated |-> atts'[k].rv, subnetRV |-> p.want.rv]
      BY <1>3 DEF TypeOK
    <3>2. /\ nadat'[c][k].ip = p.st.ip /\ nadat'[c][k].anticipating = p.att.rv
          /\ nadat'[c][k].anticipated = atts'[k].rv
          /\ nadat'[c][k].subnetRV = p.want.rv
      BY <3>1
    <3>3. Anticipates(c, k, l)'
      BY <1>3, <1>5, <1>7, <1>10, <1>11, <3>2 DEF Anticipates
    <3>4. LockKnownOf(c, k)'
      <4>1. \A n \in Mine(k)' : n = l
        BY <1>19, Parts DEF OneLock
      <4>2. InSubnet(l.slot, subnets[att.subnet])
        BY Parts DEF LockKnownOf
      <4> QED BY <1>3, <1>10, <1>11, <3>3, <4>1, <4>2 DEF LockKnownOf, InSubnet
    <3>5. RecordTrueOf(c, k)'
      <4>1. nadat'[c][k].anticipating <= attRV'[k] /\ nadat'[c][k].anticipated <= attRV'[k]
        BY <1>1, <1>5, <1>10, <1>11, <1>16, <3>2
      <4>2. l \in Mine(k)'
        BY <1>19
      <4> QED BY <3>3, <4>1, <4>2 DEF RecordTrueOf
    <3>6. PassCalm(c, k, proc[c][k])'
      BY <1>13, IdleCalm
    <3> QED BY <2>1, <2>3, <3>4, <3>5, <3>6
  <2> QED BY <2>2, <2>3
<1> QED BY <1>15, <1>17, <1>18, <1>20, <1>21, <1>22, Assembled

\* A worker updates a status, or finds that its attachment is not current.
LEMMA UpdateCalm ==
    ASSUME TypeOK, TypeOK', IInv, CalmInv, Calm, NEW c \in Controllers, NEW k \in Keys,
           updateNAStatus(c, k)
    PROVE  CalmInv'
<1> DEFINE p == proc[c][k]
<1>1. /\ p.pc = "update"
      /\ UNCHANGED <<locks, subnets, lockEvents, subnetEvents, attCache, lockCache,
                     subnetCache>>
  BY DEF updateNAStatus
<1>2. CASE /\ Exists(atts[k]) /\ atts[k].rv = p.att.rv /\ WriteStatus(k, p.st)
           /\ nadat' = IF p.st.err THEN nadat
                       ELSE [nadat EXCEPT ![c][k] =
                               [ip |-> p.st.ip, anticipating |-> p.att.rv,
                                anticipated |-> atts'[k].rv, subnetRV |-> p.want.rv]]
           /\ Done(c, k) /\ UNCHANGED budget
  BY <1>1, <1>2, WriteCalm
<1>3. CASE ~Exists(atts[k]) /\ Done(c, k) /\ UNCHANGED <<atts, attRV, attEvents, nadat, budget>>
  <2>1. Mine(k) = {}
    BY <1>3, MineFacts, Parts
  <2> QED BY <1>1, <1>3, <2>1, EndCalm
<1>4. CASE /\ Exists(atts[k]) /\ atts[k].rv # p.att.rv /\ Retry(c, k)
           /\ UNCHANGED <<atts, attRV, attEvents, nadat, budget>>
  BY <1>1, <1>4, EndCalm
<1> QED BY <1>2, <1>3, <1>4, NoFault, Parts DEF updateNAStatus

-----------------------------------------------------------------------------
(* The analysis of an attachment.                                           *)

Considered(c, k, fetched) ==
    {l \in OwnedObjs(c, k) \cup fetched :
        Exists(attCache[c][k]) => OwnedBy(l, k, attCache[c][k])}

Usable(c, k, fetched) ==
    {l \in Considered(c, k, fetched) : InSubnet(l.slot, DesiredSubnet(c, k))}

InStatus(c, k, fetched) ==
    {l \in Usable(c, k, fetched) : l.uid = attCache[c][k].lock /\ l.slot[2] = attCache[c][k].ip}

Keep(c, k, fetched) ==
    IF InStatus(c, k, fetched) # {} THEN InStatus(c, k, fetched)
                                    ELSE Best(Usable(c, k, fetched))

\* The status that shows the address of a lock.
StatusOf(l) == [ip |-> l.slot[2], vni |-> l.slot[1], lock |-> l.uid, err |-> FALSE]

\* What the analysis decides on.
LEMMA AnalyzeCases ==
    ASSUME NEW c \in Controllers, NEW k \in Keys, NEW fetched,
           NEW p, p = analyzeAndRelease(c, k, fetched)
    PROVE  /\ p.att = attCache[c][k] /\ p.want = DesiredSubnet(c, k)
           /\ p.release = Considered(c, k, fetched) \ Keep(c, k, fetched)
           /\ \/ p.then = "idle" /\ p.st = NoStatus
              \/ /\ p.then = "update" /\ Exists(attCache[c][k])
                 /\ InStatus(c, k, fetched) = {}
                 /\ \E l \in Keep(c, k, fetched) : p.st = StatusOf(l)
              \/ /\ p.then = "pick" /\ p.st = NoStatus /\ Exists(attCache[c][k])
                 /\ Keep(c, k, fetched) = {} /\ StillAnticipated(c, k).ip = NoIP
<1> DEFINE att           == attCache[c][k]
           subnet        == DesiredSubnet(c, k)
           considered    == Considered(c, k, fetched)
           lockInStatus  == InStatus(c, k, fetched)
           keep          == Keep(c, k, fetched)
           lockForStatus == CHOOSE l \in keep : TRUE
           st            == StatusOf(lockForStatus)
           pass          == [pc |-> "release", att |-> att, want |-> subnet,
                             release |-> considered \ keep, then |-> "idle",
                             st |-> NoStatus]
           toUpdate      == [pass EXCEPT !.then = "update", !.st = st]
           toPick        == [pass EXCEPT !.then = "pick"]
<1>1. \/ p = pass
      \/ /\ Exists(att) /\ lockInStatus = {} /\ keep # {} /\ p = toUpdate
      \/ /\ Exists(att) /\ keep = {} /\ p = toPick /\ StillAnticipated(c, k).ip = NoIP
  BY DEF analyzeAndRelease, Considered, Usable, InStatus, Keep, StatusOf
<1> HIDE DEF att, subnet, considered, lockInStatus, keep
<1>2. keep # {} => lockForStatus \in keep
  OBVIOUS
<1> HIDE DEF lockForStatus
<1>3. CASE p = pass
  <2>1. /\ p.att = att /\ p.want = subnet /\ p.release = considered \ keep
        /\ p.then = "idle" /\ p.st = NoStatus
    BY <1>3
  <2> QED BY <2>1 DEF att, subnet, considered, keep
<1>4. CASE Exists(att) /\ lockInStatus = {} /\ keep # {} /\ p = toUpdate
  <2>1. /\ p.att = att /\ p.want = subnet /\ p.release = considered \ keep
        /\ p.then = "update" /\ p.st = st
    BY <1>4
  <2> QED BY <1>2, <1>4, <2>1 DEF att, subnet, considered, keep, lockInStatus
<1>5. CASE Exists(att) /\ keep = {} /\ p = toPick /\ StillAnticipated(c, k).ip = NoIP
  <2>1. /\ p.att = att /\ p.want = subnet /\ p.release = considered \ keep
        /\ p.then = "pick" /\ p.st = NoStatus
    BY <1>5
  <2> QED BY <1>5, <2>1 DEF att, subnet, considered, keep
<1> QED BY <1>1, <1>3, <1>4, <1>5

\* The attachment in the cache, when it is the present incarnation, has its
\* Subnet and one of its two ResourceVersions.
LEMMA CachedIncarnation ==
    ASSUME TypeOK, CalmInv, NEW c \in Controllers, NEW k \in Keys,
           Exists(atts[k]), attCache[c][k].uid = atts[k].uid
    PROVE  /\ attCache[c][k] \in {atts[k], Blank(atts[k])}
           /\ attCache[c][k].subnet = atts[k].subnet
           /\ attCache[c][k].rv \in {atts[k].uid, atts[k].rv}
           /\ DesiredSubnet(c, k) = subnets[atts[k].subnet]
<1>1. attCache[c][k] \in {atts[k], Blank(atts[k])}
  BY Parts, AreRevisions DEF TwoRevisions, Exists
<1>2. attCache[c][k].subnet = atts[k].subnet /\ attCache[c][k].rv \in {atts[k].uid, atts[k].rv}
  BY <1>1, BlankParts
<1>3. subnetCache[c] = subnets
  BY Parts DEF Quiet
<1>4. Exists(attCache[c][k])
  BY DEF Exists
<1> QED BY <1>1, <1>2, <1>3, <1>4 DEF DesiredSubnet

\* A record of the present revision does not lapse.
LEMMA RecordStays ==
    ASSUME TypeOK, CalmInv, NEW c \in Controllers, NEW k \in Keys, NEW l \in Mine(k),
           Anticipates(c, k, l)
    PROVE  StillAnticipated(c, k) = nadat[c][k]
<1>1. Exists(atts[k]) /\ attCache[c][k].uid = atts[k].uid
  BY MineFacts, Parts DEF LockKnownOf
<1> QED BY <1>1, CachedIncarnation DEF StillAnticipated, Anticipates, Exists

LEMMA RecordStaysOrGoes ==
    ASSUME NEW c \in Controllers, NEW k \in Keys
    PROVE  StillAnticipated(c, k) \in {nadat[c][k], NoAnticipation}
BY DEF StillAnticipated

\* The locks considered are locks seen, of the attachment with that name.
LEMMA ConsideredCalm ==
    ASSUME TypeOK, CalmInv, Calm, NEW c \in Controllers, NEW k \in Keys,
           NEW l \in Considered(c, k, Fetched(c, k))
    PROVE  /\ l \in LocksSeen /\ l.owner = k
           /\ Exists(attCache[c][k]) => l.ouid = attCache[c][k].uid
<1>1. CASE l \in Fetched(c, k)
  <2>1. l \in locks /\ l.owner = k
    BY <1>1 DEF Fetched, LocksAt
  <2> QED BY <2>1, Types DEF Considered, OwnedBy
<1>2. CASE l \in OwnedObjs(c, k)
  <2>1. l \in lockCache[c] /\ NameOf[l.owner] = NameOf[k]
    BY <1>2 DEF OwnedObjs
  <2>2. l \in LocksSeen
    BY <2>1, SeenIff
  <2>3. l.owner = k
    BY <2>1, <2>2, Types DEF Calm
  <2> QED BY <2>2, <2>3 DEF Considered, OwnedBy
<1> QED BY <1>1, <1>2 DEF Considered

\* The best of one is that one.
LEMMA BestOfOne == ASSUME NEW l PROVE Best({l}) = {l}
BY DEF Best

\* The analysis of an attachment whose present incarnation is in the cache:
\* nothing is released, an address is picked only if it has none, and the
\* status is written only if it shows none.
LEMMA PresentCalm ==
    ASSUME TypeOK, CalmInv, Calm, NEW c \in Controllers, NEW k \in Keys,
           proc[c][k].pc = "idle", Exists(atts[k]), attCache[c][k].uid = atts[k].uid,
           NEW p, p = analyzeAndRelease(c, k, Fetched(c, k))
    PROVE  /\ p.release = {}
           /\ p.then = "pick" =>
                 p.att = atts[k] /\ atts[k] = Blank(atts[k]) /\ Mine(k) = {}
           /\ p.then = "update" =>
                 /\ p.att = Blank(p.att)
                 /\ \E l \in Mine(k) : p.st.lock = l.uid /\ PickedSlot(p) = l.slot
<1> DEFINE att == attCache[c][k]
           f == Fetched(c, k)
<1>1. /\ att \in {atts[k], Blank(atts[k])} /\ att.subnet = atts[k].subnet
      /\ DesiredSubnet(c, k) = subnets[atts[k].subnet] /\ Exists(att)
  BY CachedIncarnation DEF Exists
<1>2. Considered(c, k, f) \subseteq Mine(k)
  BY <1>1, ConsideredCalm, MineFacts, Parts
<1>3. \A l, m \in Mine(k) : l = m
  BY Parts DEF OneLock
<1>4. Usable(c, k, f) = Considered(c, k, f)
  BY <1>1, <1>2, Parts DEF LockKnownOf, Usable
<1>5. Keep(c, k, f) = Considered(c, k, f)
  <2>1. CASE Considered(c, k, f) = {}
    BY <1>4, <2>1, BestType DEF Keep, InStatus
  <2>2. ASSUME NEW l \in Considered(c, k, f) PROVE Keep(c, k, f) = Considered(c, k, f)
    <3>1. Considered(c, k, f) = {l}
      BY <1>2, <1>3
    <3>2. InStatus(c, k, f) = {} \/ InStatus(c, k, f) = {l}
      BY <1>4, <3>1 DEF InStatus
    <3>3. Best(Usable(c, k, f)) = {l}
      BY <1>4, <3>1, BestOfOne
    <3> QED BY <3>1, <3>2, <3>3 DEF Keep
  <2> QED BY <2>1, <2>2
<1>6. /\ p.att = att
      /\ p.release = Considered(c, k, f) \ Keep(c, k, f)
      /\ \/ p.then = "idle"
         \/ /\ p.then = "update" /\ InStatus(c, k, f) = {}
            /\ \E l \in Keep(c, k, f) : p.st = StatusOf(l)
         \/ /\ p.then = "pick"
            /\ Keep(c, k, f) = {} /\ StillAnticipated(c, k).ip = NoIP
  BY AnalyzeCases
<1> HIDE DEF att, f
<1>7. p.release = {}
  BY <1>5, <1>6
<1>8. ASSUME p.then = "pick"
      PROVE  p.att = atts[k] /\ atts[k] = Blank(atts[k]) /\ Mine(k) = {}
  <2>1. Considered(c, k, f) = {} /\ StillAnticipated(c, k).ip = NoIP
    BY <1>5, <1>6, <1>8
  <2>2. ASSUME NEW l \in Mine(k) PROVE FALSE
    <3>1. l \in locks /\ l.owner = k /\ l.ouid = atts[k].uid /\ l.slot \in Slots
      BY MineFacts, Types, Parts
    <3>2. l \notin lockCache[c]
      <4>1. l \in lockCache[c] => l \in Considered(c, k, f)
        BY <3>1 DEF Considered, OwnedObjs, OwnedBy
      <4> QED BY <2>1, <4>1
    <3>3. Anticipates(c, k, l)
      BY <3>2, Parts DEF LockKnownOf
    <3>4. nadat[c][k].ip = NoIP
      BY <2>1, <3>3, RecordStays
    <3>5. l.slot[2] # NoIP
      BY <3>1, SlotParts, AddressesNat
    <3> QED BY <3>3, <3>4, <3>5 DEF Anticipates
  <2>3. Mine(k) = {}
    BY <2>2
  <2>4. atts[k] = Blank(atts[k])
    BY <2>3, Parts DEF StatusBackedOf
  <2> QED BY <1>1, <1>6, <2>3, <2>4
<1>9. ASSUME p.then = "update"
      PROVE  /\ p.att = Blank(p.att)
             /\ \E l \in Mine(k) : p.st.lock = l.uid /\ PickedSlot(p) = l.slot
  <2>1. PICK l \in Considered(c, k, f) : p.st = StatusOf(l)
    BY <1>5, <1>6, <1>9
  <2>2. l \in Mine(k) /\ l.slot \in Slots
    BY <1>2, MineFacts, Types, Parts
  <2>3. p.st.lock = l.uid /\ PickedSlot(p) = l.slot
    BY <2>1, <2>2, SlotParts DEF PickedSlot, StatusOf
  <2>4. att = Blank(atts[k])
    <3> SUFFICES ASSUME att = atts[k], atts[k] # Blank(atts[k]) PROVE FALSE
      BY <1>1
    <3>1. PICK m \in Mine(k) : m.uid = atts[k].lock /\ m.slot = <<atts[k].vni, atts[k].ip>>
      BY Parts DEF StatusBackedOf
    <3>2. m = l
      BY <1>3, <2>2
    <3>3. l.uid = att.lock /\ l.slot[2] = att.ip
      BY <3>1, <3>2
    <3>4. l \in InStatus(c, k, f)
      BY <1>4, <3>3 DEF InStatus, att
    <3> QED BY <1>6, <1>9, <3>4
  <2>5. att = Blank(att)
    <3>1. Blank(atts[k]) = Blank(Blank(atts[k]))
      BY BlankParts, BlankSame
    <3> QED BY <2>4, <3>1
  <2> QED BY <1>6, <2>2, <2>3, <2>5
<1> QED BY <1>7, <1>8, <1>9

\* The analysis of an attachment that is gone, or whose present incarnation the
\* controller has yet to hear of: it releases locks of the past only.
LEMMA AbsentCalm ==
    ASSUME TypeOK, CalmInv, Calm, NEW c \in Controllers, NEW k \in Keys,
           ~(Exists(atts[k]) /\ attCache[c][k].uid = atts[k].uid)
    PROVE  /\ Mine(k) = {}
           /\ \A l \in Considered(c, k, Fetched(c, k)) : l.ouid # atts[k].uid
<1>1. Mine(k) = {}
  BY MineFacts, Parts DEF LockKnownOf
<1>2. ASSUME NEW l \in Considered(c, k, Fetched(c, k)), l.ouid = atts[k].uid PROVE FALSE
  BY <1>1, <1>2, ConsideredCalm, MineFacts, Parts
<1> QED BY <1>1, <1>2

\* A worker analyzes an attachment.
LEMMA ProcessCalm ==
    ASSUME TypeInv, TypeOK', CalmInv, Calm, NEW c \in Controllers, NEW k \in Keys,
           processNetworkAttachment(c, k)
    PROVE  CalmInv'
<1> DEFINE att == attCache[c][k]
           p == analyzeAndRelease(c, k, Fetched(c, k))
<1>0. TypeOK
  BY DEF TypeInv
<1>1. /\ proc[c][k].pc = "idle"
      /\ UNCHANGED <<atts, attRV, attEvents, attCache, locks, lockEvents, lockCache,
                     subnets, subnetCache, subnetEvents>>
  BY DEF processNetworkAttachment, storeVars, watchVars
<1>2. /\ att \in NetworkAttachment
      /\ Exists(att) => att.subnet \in Subnets
      /\ Exists(att) => DesiredSubnet(c, k) = subnets[att.subnet]
      /\ att.uid <= attRV[k]
  <2>1. att \in NetworkAttachment /\ (Exists(att) => att.subnet \in Subnets)
    BY <1>0, Types DEF NetworkAttachment, Exists
  <2>2. subnetCache[c] = subnets
    BY Parts DEF Quiet
  <2> QED BY <2>1, <2>2, Parts, AreRevisions DEF DesiredSubnet, TwoRevisions
<1>3. ~SubnetMissing(c, k)
  BY <1>2, Parts DEF SubnetMissing, Quiet
<1>4. PICK fetched \in {{}, Fetched(c, k)} :
         /\ IF fetched = Fetched(c, k) THEN UNCHANGED budget ELSE Spend("fault")
         /\ proc' = [proc EXCEPT ![c][k] = Proceed(analyzeAndRelease(c, k, fetched))]
  BY <1>3 DEF processNetworkAttachment
<1>5. /\ budget' = budget
      /\ proc' = [proc EXCEPT ![c][k] = Proceed(p)]
      /\ nadat' = [nadat EXCEPT ![c][k] = StillAnticipated(c, k)]
  BY <1>3, <1>4, NoFault, Parts DEF processNetworkAttachment
<1>6. /\ p.att = att /\ p.want = DesiredSubnet(c, k) /\ ~p.st.err
      /\ p.release \subseteq Considered(c, k, Fetched(c, k))
      /\ p.then # "idle" => Exists(att)
  <2>1. NoStatus.err = FALSE /\ \A l : StatusOf(l).err = FALSE
    BY DEF NoStatus, StatusOf
  <2> HIDE DEF att
  <2>2. \A q : q = p =>
           /\ q.att = att /\ q.want = DesiredSubnet(c, k) /\ ~q.st.err
           /\ q.release \subseteq Considered(c, k, Fetched(c, k))
           /\ q.then # "idle" => Exists(att)
    BY <2>1, AnalyzeCases DEF att
  <2> QED BY <2>2
<1>7. p \in Pass
  <2>1. Fetched(c, k) \subseteq IPLock
    BY <1>0 DEF Fetched, LocksAt, TypeOK, ApiTypeOK
  <2> QED BY <1>0, <1>3, <2>1, AnalyzeType
<1>8. /\ \A d \in Controllers, m \in Keys : d # c \/ m # k =>
            proc'[d][m] = proc[d][m] /\ nadat'[d][m] = nadat[d][m]
      /\ proc'[c][k] = Proceed(p) /\ nadat'[c][k] = StillAnticipated(c, k)
  BY <1>0, <1>5 DEF TypeOK
<1>9. OneLock' /\ \A m \in Keys : Mine(m)' = Mine(m)
  BY <1>1, OneLockKept, Parts
<1>10. CASE Exists(atts[k]) /\ att.uid = atts[k].uid =>
              /\ p.then = "pick" =>
                    p.att = atts[k] /\ atts[k] = Blank(atts[k]) /\ Mine(k) = {}
              /\ p.then = "update" =>
                    /\ p.att = Blank(p.att)
                    /\ \E l \in Mine(k) : p.st.lock = l.uid /\ PickedSlot(p) = l.slot
  <2>1. \A l \in p.release :
           l.owner = k /\ l.ouid # atts[k].uid /\ l.ouid # 0 /\ l.ouid <= attRV[k]
    <3> SUFFICES ASSUME NEW l \in p.release
                 PROVE  l.owner = k /\ l.ouid # atts[k].uid /\ l.ouid # 0
                        /\ l.ouid <= attRV[k]
      OBVIOUS
    <3>1. l \in LocksSeen /\ l.owner = k
      BY <1>0, <1>6, ConsideredCalm
    <3>2. l.ouid # 0 /\ l.ouid <= attRV[k]
      BY <3>1, Parts DEF OneLock
    <3>3. l.ouid # atts[k].uid
      <4>1. CASE Exists(atts[k]) /\ att.uid = atts[k].uid
        <5>1. p.release = {}
          BY <1>0, <1>1, <4>1, PresentCalm
        <5> QED BY <5>1
      <4>2. CASE ~(Exists(atts[k]) /\ att.uid = atts[k].uid)
        BY <1>0, <1>6, <4>2, AbsentCalm
      <4> QED BY <4>1, <4>2
    <3> QED BY <3>1, <3>2, <3>3
  <2> HIDE DEF p
  <2>2. PassCalm(c, k, proc[c][k])'
    <3>1. CASE Proceed(p) = Idle
      BY <1>8, <3>1, IdleCalm
    <3>2. CASE Proceed(p) # Idle
      <4>1. /\ proc'[c][k].att = p.att /\ proc'[c][k].st = p.st
            /\ proc'[c][k].want = p.want /\ proc'[c][k].release = p.release
            /\ Goal(proc'[c][k]) = p.then
            /\ proc'[c][k].pc \in {"release", "pick", "update"}
        BY <1>7, <1>8, <3>2, ProceedCalm
      <4>2. p.then \in {"idle", "pick", "update"}
        BY <1>7 DEF Pass
      <4>3. p.att.uid = atts[k].uid /\ Exists(p.att) => Exists(atts[k])
        BY DEF Exists
      <4> HIDE DEF att
      <4> QED BY <1>1, <1>2, <1>6, <1>9, <1>10, <2>1, <4>1, <4>2, <4>3
              DEF PassCalm, PickedSlot, att
    <3> QED BY <3>1, <3>2
  <2>3. StatusBackedOf(k)'
    BY <1>1, <1>9, BackedKept, Parts
  <2>4. \A l \in Mine(k) : Anticipates(c, k, l) => Anticipates(c, k, l)'
    BY <1>0, <1>1, <1>8, RecordStays DEF Anticipates
  <2>5. LockKnownOf(c, k)'
    BY <1>1, <1>9, <2>4, Parts DEF LockKnownOf, InSubnet
  <2>6. RecordTrueOf(c, k)'
    <3>1. CASE nadat'[c][k] = NoAnticipation
      BY <3>1 DEF RecordTrueOf, NoAnticipation
    <3>2. CASE nadat'[c][k] = nadat[c][k]
      BY <1>1, <1>9, <2>4, <3>2, Parts DEF RecordTrueOf
    <3> QED BY <1>8, <3>1, <3>2, RecordStaysOrGoes
  <2>7. proc'[c][k].att \in {NoAtt, attCache[c][k]}
    BY <1>6, <1>7, <1>8, ProceedParts, IdleParts
  <2> QED BY <1>0, <1>1, <1>5, <1>8, <1>9, <2>2, <2>3, <2>5, <2>6, <2>7, WorkerCalm
<1>11. CASE Exists(atts[k]) /\ att.uid = atts[k].uid
  BY <1>0, <1>1, <1>10, <1>11, PresentCalm
<1> QED BY <1>10, <1>11

\* The controller restarts: it lists what there is, and knows every lock.
LEMMA RestartCalm ==
    ASSUME TypeOK, TypeOK', CalmInv, Calm, NEW c \in Controllers, Restart(c)
    PROVE  CalmInv'
<1>1. UNCHANGED <<atts, attRV, locks, subnets>> /\ Spend("crash")
  BY DEF Restart, storeVars
<1>2. \A d \in Controllers : /\ d = c /\ subnetCache'[d] = subnets /\ subnetEvents'[d] = <<>>
                             /\ attCache'[d] = atts /\ attEvents'[d] = <<>>
                             /\ lockCache'[d] = locks /\ lockEvents'[d] = <<>>
                             /\ \A k \in Keys : /\ nadat'[d][k] = NoAnticipation
                                                /\ proc'[d][k] = Idle
  BY DEF Restart, Calm, TypeOK, ApiTypeOK
<1>3. 1 .. Len(<<>>) = {}
  OBVIOUS
<1>4. Quiet'
  <2>1. \A e \in {"touch", "subnet", "fault", "invalid"} : budget'[e] = budget[e]
    BY <1>1 DEF Spend, TypeOK, ApiTypeOK, Events
  <2> QED BY <1>1, <1>2, <2>1, Parts DEF Quiet
<1>5. TwoRevisions'
  <2>1. ASSUME NEW k \in Keys PROVE NothingElse(k)
    <3> SUFFICES ASSUME NEW a \in Revisions(k)' PROVE a \in {atts[k], NoAtt}
      BY <1>1 DEF NothingElse
    <3> QED BY <1>1, <1>2, <1>3, IdleParts, RevisionsIffNext
  <2> QED BY <1>1, <2>1, TwoRevisionsKept, Parts
<1>6. Streams'
  BY <1>2, <1>3 DEF Streams
<1>7. \A k \in Keys : Mine(k)' = Mine(k)
  BY <1>1 DEF Mine
<1>8. OneLock'
  <2>1. LocksSeen' \subseteq locks
    BY <1>1, <1>2, <1>3, SeenIffNext
  <2>2. locks \subseteq LocksSeen
    BY SeenIff
  <2> QED BY <1>1, <1>2, <1>3, <1>7, <2>1, <2>2, Parts DEF OneLock, Live
<1>9. \A k \in Keys : StatusBackedOf(k)'
  BY <1>1, <1>7, BackedKept, Parts
<1>10. ASSUME NEW d \in Controllers, NEW k \in Keys
       PROVE  LockKnownOf(d, k)' /\ RecordTrueOf(d, k)' /\ PassCalm(d, k, proc[d][k])'
  <2>1. LockKnownOf(d, k)'
    <3>1. \A l \in Mine(k) : l \in locks /\ InSubnet(l.slot, subnets[atts[k].subnet])
      BY Parts, MineFacts DEF LockKnownOf
    <3> QED BY <1>1, <1>2, <1>7, <3>1 DEF LockKnownOf, InSubnet
  <2>2. RecordTrueOf(d, k)'
    BY <1>2 DEF RecordTrueOf, NoAnticipation
  <2>3. PassCalm(d, k, proc[d][k])'
    BY <1>2, IdleCalm
  <2> QED BY <2>1, <2>2, <2>3
<1> QED BY <1>4, <1>5, <1>6, <1>8, <1>9, <1>10, Assembled

\* The invariant is inductive, relative to the types and to what is proved of
\* UIDs and ResourceVersions.
LEMMA NextCalm ==
    ASSUME Calm, TypeInv, TypeInv', IInv, CalmInv, [Next]_vars
    PROVE  CalmInv'
<1> USE DEF TypeInv
<1>1. CASE UNCHANGED vars
  BY <1>1, NothingCalm DEF vars, localVars
<1>2. CASE ClientNext /\ UNCHANGED localVars
  <2>1. ASSUME NEW k \in Keys, NEW s \in Subnets, CreateAttachment(k, s) PROVE CalmInv'
    BY <1>2, <2>1, CreateCalm
  <2>2. ASSUME NEW k \in Keys, DeleteAttachment(k) PROVE CalmInv'
    BY <1>2, <2>2, DeleteCalm
  <2>3. ~Spend("touch") /\ ~Spend("subnet")
    BY NoFault, Parts
  <2> QED BY <1>2, <2>1, <2>2, <2>3
          DEF ClientNext, UpdateAttachment, WriteSubnet, DeleteSubnet
<1>3. ASSUME NEW l \in locks, CollectGarbage(l), UNCHANGED localVars PROVE CalmInv'
  BY <1>3, GarbageCalm
<1>4. ASSUME NEW c \in Controllers, InformerStep(c) PROVE CalmInv'
  <2>1. CASE OnAttachmentNotify(c)
    BY <2>1, NotifyCalm
  <2>2. CASE OnSubnetNotify(c)
    BY <2>2, Parts DEF OnSubnetNotify, Quiet
  <2>3. CASE IndexLock(c)
    BY <2>3, IndexCalm
  <2>4. CASE OnLockNotify(c)
    BY <2>4, NothingCalm DEF OnLockNotify
  <2> QED BY <1>4, <2>1, <2>2, <2>3, <2>4 DEF InformerStep
<1>5. ASSUME NEW c \in Controllers, NEW k \in Keys, WorkerStep(c, k) PROVE CalmInv'
  BY <1>5, ProcessCalm, ReleaseCalm, PickCalm, LockCalm, RecoverCalm, UpdateCalm
     DEF WorkerStep
<1>6. ASSUME NEW c \in Controllers, Restart(c) PROVE CalmInv'
  BY <1>6, RestartCalm
<1> QED BY <1>1, <1>2, <1>3, <1>4, <1>5, <1>6 DEF Next

\* All the invariants together.
Sound == TypeInv /\ IInv /\ CalmInv

LEMMA InitSound == ASSUME Calm, Init PROVE Sound
BY InitTypeInv, InitIInv, InitCalm DEF Sound

LEMMA NextSound == ASSUME Calm, Sound, [Next]_vars PROVE Sound'
<1>1. TypeInv'
  BY NextTypeInv DEF Sound
<1>2. IInv'
  BY <1>1, NextIInv DEF Sound
<1>3. CalmInv'
  BY <1>1, NextCalm DEF Sound
<1> QED BY <1>1, <1>2, <1>3 DEF Sound

-----------------------------------------------------------------------------
(* The theorems.                                                            *)

\* What the invariant says of two statuses that show an address.
LEMMA SoundExclusive == ASSUME Sound PROVE AddressExclusive
<1>1. TypeOK /\ CalmInv
  BY DEF Sound, TypeInv
<1> SUFFICES ASSUME NEW k \in Keys, NEW m \in Keys, k # m, atts[k].ip # NoIP,
                    <<atts[k].vni, atts[k].ip>> = <<atts[m].vni, atts[m].ip>>
             PROVE  FALSE
  BY DEF AddressExclusive
<1>2. \A n \in Keys : atts[n].ip # NoIP =>
         \E l \in Mine(n) : l.slot = <<atts[n].vni, atts[n].ip>>
  <2>1. NoAtt.ip = NoIP
    BY DEF NoAtt
  <2>2. \A n \in Keys : Blank(atts[n]).ip = NoIP
    BY BlankParts
  <2>3. \A n \in Keys : atts[n].ip # NoIP => Exists(atts[n]) /\ atts[n] # Blank(atts[n])
    BY <1>1, <2>1, <2>2, Parts DEF TwoRevisions
  <2> QED BY <1>1, <2>3, Parts DEF StatusBackedOf
<1>3. atts[m].ip = atts[k].ip
  OBVIOUS
<1>4. PICK l \in Mine(k), n \in Mine(m) : l.slot = n.slot
  BY <1>2, <1>3
<1>5. l = n
  BY <1>1, <1>4, Parts, MineFacts DEF OneLock
<1> QED BY <1>1, <1>5, Parts, MineFacts

\* README.md's promise, proved where it holds: while the environment is calm no
\* two attachments' statuses show the same address of the same VNI, whatever the
\* lag of the informers, the interleaving of the workers and the crashes.
THEOREM CalmExclusive ==
    ASSUME Calm
    PROVE  Spec => []AddressExclusive
<1>1. Init => Sound
  BY InitSound
<1>2. Sound /\ [Next]_vars => Sound'
  BY NextSound
<1>3. Sound => AddressExclusive
  BY SoundExclusive
<1> QED BY <1>1, <1>2, <1>3, PTL DEF Spec

\* What the invariant says of a record that applies.
LEMMA SoundAnticipation == ASSUME Sound PROVE AnticipationSupported
<1>1. TypeOK /\ CalmInv
  BY DEF Sound, TypeInv
<1> SUFFICES ASSUME NEW c \in Controllers, NEW k \in Keys,
                    StillAnticipated(c, k).ip # NoIP, atts[k].uid = attCache[c][k].uid
             PROVE  \E l \in locks :
                       /\ OwnedBy(l, k, atts[k])
                       /\ l.slot = <<DesiredSubnet(c, k).vni, StillAnticipated(c, k).ip>>
  BY DEF AnticipationSupported
<1>2. /\ StillAnticipated(c, k) = nadat[c][k] /\ Exists(attCache[c][k])
      /\ attCache[c][k].rv \in {nadat[c][k].anticipating, nadat[c][k].anticipated}
  BY DEF StillAnticipated, NoAnticipation
<1>3. Exists(atts[k])
  BY <1>2 DEF Exists
<1>4. /\ attCache[c][k].rv \in {atts[k].uid, atts[k].rv}
      /\ DesiredSubnet(c, k) = subnets[atts[k].subnet]
  BY <1>1, <1>3, CachedIncarnation
<1>5. atts[k].uid <= atts[k].rv /\ atts[k].uid \in Nat /\ atts[k].rv \in Nat
  <2>1. Blank(atts[k]).rv = atts[k].uid
    BY BlankParts
  <2>2. atts[k].uid \in Nat /\ atts[k].rv \in Nat
    BY <1>1, Types
  <2>3. atts[k] = Blank(atts[k]) \/ atts[k].rv > atts[k].uid
    BY <1>1, <1>3, Parts DEF StatusBackedOf
  <2> QED BY <2>1, <2>2, <2>3
<1>6. PICK l \in Mine(k) : Anticipates(c, k, l)
  <2>1. ~(nadat[c][k].anticipating < atts[k].uid /\ nadat[c][k].anticipated < atts[k].uid)
    BY <1>1, <1>2, <1>4, <1>5, Types
  <2> QED BY <1>1, <1>2, <1>3, <2>1, Parts DEF RecordTrueOf
<1>7. /\ l \in locks /\ l.owner = k /\ l.ouid = atts[k].uid /\ l.slot \in Slots
      /\ InSubnet(l.slot, subnets[atts[k].subnet])
  BY <1>1, Parts, Types, MineFacts DEF LockKnownOf
<1>8. l.slot = <<l.slot[1], l.slot[2]>>
  BY <1>7, SlotParts
<1> QED BY <1>2, <1>4, <1>6, <1>7, <1>8 DEF Anticipates, InSubnet, OwnedBy

\* The comment on NetworkAttachmentData holds in a calm environment: an address
\* that is anticipated has its lock.
THEOREM CalmAnticipation ==
    ASSUME Calm
    PROVE  Spec => []AnticipationSupported
<1>1. Init => Sound
  BY InitSound
<1>2. Sound /\ [Next]_vars => Sound'
  BY NextSound
<1>3. Sound => AnticipationSupported
  BY SoundAnticipation
<1> QED BY <1>1, <1>2, <1>3, PTL DEF Spec

-----------------------------------------------------------------------------
(* The refinement.                                                          *)

\* The refinement mapping of Alloc.
holderOf == [slot \in Slots |-> IF LocksAt(slot) = {} THEN Nobody
                                ELSE (CHOOSE l \in LocksAt(slot) : TRUE).owner]
shownOf == [k \in Keys |-> IF atts[k].ip = NoIP THEN NoSlot
                           ELSE <<atts[k].vni, atts[k].ip>>]

\* The abstract steps, in terms of the mapping.
LEMMA AbstractSteps ==
    /\ \A k \in Keys, slot \in Slots :
          \/ /\ holderOf[slot] = Nobody /\ shownOf' = shownOf
             /\ holderOf' = [holderOf EXCEPT ![slot] = k]
          \/ /\ holderOf[slot] = k /\ holderOf' = holderOf
             /\ shownOf' = [shownOf EXCEPT ![k] = slot]
          => Alloc!Next
    /\ \A k \in Keys :
          holderOf' = holderOf /\ shownOf' = [shownOf EXCEPT ![k] = NoSlot] => Alloc!Next
    /\ \A slot \in Slots :
          /\ \A k \in Keys : shownOf[k] # slot
          /\ holderOf' = [holderOf EXCEPT ![slot] = Nobody] /\ shownOf' = shownOf
          => Alloc!Next
    /\ holderOf' = holderOf /\ shownOf' = shownOf => UNCHANGED Alloc!allocVars
<1>1. ASSUME NEW k \in Keys, NEW slot \in Slots,
             holderOf[slot] = Nobody, shownOf' = shownOf,
             holderOf' = [holderOf EXCEPT ![slot] = k]
      PROVE  Alloc!Next
  <2>1. Alloc!Acquire(k, slot)
    BY <1>1 DEF Alloc!Acquire, holderOf, shownOf
  <2> QED BY <2>1 DEF Alloc!Next
<1>2. ASSUME NEW k \in Keys, NEW slot \in Slots,
             holderOf[slot] = k, holderOf' = holderOf,
             shownOf' = [shownOf EXCEPT ![k] = slot]
      PROVE  Alloc!Next
  <2>1. Alloc!Show(k, slot)
    BY <1>2 DEF Alloc!Show, holderOf, shownOf
  <2> QED BY <2>1 DEF Alloc!Next
<1>3. ASSUME NEW k \in Keys, holderOf' = holderOf, shownOf' = [shownOf EXCEPT ![k] = NoSlot]
      PROVE  Alloc!Next
  <2>1. Alloc!Withdraw(k)
    BY <1>3 DEF Alloc!Withdraw, holderOf, shownOf
  <2> QED BY <2>1 DEF Alloc!Next
<1>4. ASSUME NEW slot \in Slots, \A k \in Keys : shownOf[k] # slot,
             holderOf' = [holderOf EXCEPT ![slot] = Nobody], shownOf' = shownOf
      PROVE  Alloc!Next
  <2>1. Alloc!Release(slot)
    BY <1>4 DEF Alloc!Release, holderOf, shownOf
  <2> QED BY <2>1 DEF Alloc!Next
<1>5. holderOf' = holderOf /\ shownOf' = shownOf => UNCHANGED Alloc!allocVars
  BY DEF Alloc!allocVars, holderOf, shownOf
<1> QED BY <1>1, <1>2, <1>3, <1>4, <1>5

\* Who holds a slot.
LEMMA Holders ==
    ASSUME TypeOK, OneLock, NEW slot \in Slots
    PROVE  /\ LocksAt(slot) = {} => holderOf[slot] = Nobody
           /\ \A l \in locks : l.slot = slot => holderOf[slot] = l.owner
<1>1. \A l \in locks : l.slot = slot => LocksAt(slot) = {l}
  BY DEF LocksAt, OneLock
<1> QED BY <1>1 DEF holderOf

LEMMA HoldersNext ==
    ASSUME OneLock', NEW slot \in Slots
    PROVE  /\ LocksAt(slot)' = {} => holderOf'[slot] = Nobody
           /\ \A l \in locks' : l.slot = slot => holderOf'[slot] = l.owner
<1>1. \A l \in locks' : l.slot = slot => LocksAt(slot)' = {l}
  BY DEF LocksAt, OneLock
<1> QED BY <1>1 DEF holderOf

\* A step that changes no lock changes no holder; likewise for statuses.
LEMMA MappingKept ==
    /\ locks' = locks => holderOf' = holderOf
    /\ atts' = atts => shownOf' = shownOf
<1>1. ASSUME locks' = locks PROVE holderOf' = holderOf
  <2>1. \A slot \in Slots : LocksAt(slot)' = LocksAt(slot)
    BY <1>1 DEF LocksAt
  <2>2. ASSUME NEW slot \in Slots PROVE holderOf'[slot] = holderOf[slot]
    <3>1. LocksAt(slot)' = LocksAt(slot)
      BY <2>1
    <3> QED BY <3>1 DEF holderOf
  <2>3. holderOf = [slot \in Slots |-> holderOf[slot]]
    BY DEF holderOf
  <2>4. holderOf' = [slot \in Slots |-> holderOf'[slot]]
    BY DEF holderOf
  <2> QED BY <2>2, <2>3, <2>4
<1>2. atts' = atts => shownOf' = shownOf
  BY DEF shownOf
<1> QED BY <1>1, <1>2

\* An attachment shows the address of its lock.
LEMMA ShownIsMine ==
    ASSUME TypeOK, CalmInv, NEW k \in Keys, shownOf[k] \in Slots
    PROVE  \E l \in Mine(k) : l.slot = shownOf[k]
<1>1. NoSlot \notin Slots
  <2>1. NoSlot[2] = NoIP
    BY DEF NoSlot
  <2> QED BY <2>1, SlotParts, AddressesNat
<1>2. atts[k].ip # NoIP /\ shownOf[k] = <<atts[k].vni, atts[k].ip>>
  BY <1>1 DEF shownOf
<1>3. NoAtt.ip = NoIP /\ Blank(atts[k]).ip = NoIP
  BY BlankParts DEF NoAtt
<1>4. Exists(atts[k]) /\ atts[k] # Blank(atts[k])
  BY <1>2, <1>3, Parts DEF TwoRevisions
<1> QED BY <1>2, <1>4, Parts DEF StatusBackedOf

\* The removal of a lock whose owner is gone releases its slot.
LEMMA ReleaseMaps ==
    ASSUME TypeOK, CalmInv, OneLock', NEW l, ~Live(l), DeleteLock(l), atts' = atts
    PROVE  Alloc!Next
<1>1. l \in locks /\ locks' = locks \ {l} /\ l.slot \in Slots
  BY Types DEF DeleteLock
<1>2. \A k \in Keys : shownOf[k] # l.slot
  <2> SUFFICES ASSUME NEW k \in Keys, shownOf[k] = l.slot PROVE FALSE
    OBVIOUS
  <2>1. PICK m \in Mine(k) : m.slot = l.slot
    BY <1>1, ShownIsMine
  <2>2. m = l
    BY <1>1, <2>1, MineFacts, Parts DEF OneLock
  <2> QED BY <2>1, <2>2, MineFacts, Parts
<1>3. ASSUME NEW slot \in Slots
      PROVE  holderOf'[slot] = IF slot = l.slot THEN Nobody ELSE holderOf[slot]
  <2>1. CASE slot = l.slot
    <3>1. LocksAt(slot)' = {}
      BY <1>1, <2>1, Parts DEF LocksAt, OneLock
    <3> QED BY <2>1, <3>1, HoldersNext
  <2>2. CASE slot # l.slot
    <3>1. LocksAt(slot)' = LocksAt(slot)
      BY <1>1, <2>2 DEF LocksAt
    <3> QED BY <2>2, <3>1 DEF holderOf
  <2> QED BY <2>1, <2>2
<1>4. holderOf' = [holderOf EXCEPT ![l.slot] = Nobody]
  <2>1. holderOf = [slot \in Slots |-> holderOf[slot]]
    BY DEF holderOf
  <2>2. holderOf' = [slot \in Slots |-> holderOf'[slot]]
    BY DEF holderOf
  <2> QED BY <1>1, <1>3, <2>1, <2>2
<1> QED BY <1>1, <1>2, <1>4, MappingKept, AbstractSteps

\* The creation of a lock acquires its slot.
LEMMA AcquireMaps ==
    ASSUME TypeOK, CalmInv, OneLock', NEW l \in IPLock, LocksAt(l.slot) = {},
           locks' = locks \cup {l}, atts' = atts
    PROVE  Alloc!Next
<1>1. l.slot \in Slots /\ l.owner \in Keys
  BY DEF IPLock
<1>2. holderOf[l.slot] = Nobody
  BY <1>1, Holders, Parts
<1>3. ASSUME NEW slot \in Slots
      PROVE  holderOf'[slot] = IF slot = l.slot THEN l.owner ELSE holderOf[slot]
  <2>1. CASE slot = l.slot
    BY <2>1, HoldersNext
  <2>2. CASE slot # l.slot
    <3>1. LocksAt(slot)' = LocksAt(slot)
      BY <2>2 DEF LocksAt
    <3> QED BY <2>2, <3>1 DEF holderOf
  <2> QED BY <2>1, <2>2
<1>4. holderOf' = [holderOf EXCEPT ![l.slot] = l.owner]
  <2>1. holderOf = [slot \in Slots |-> holderOf[slot]]
    BY DEF holderOf
  <2>2. holderOf' = [slot \in Slots |-> holderOf'[slot]]
    BY DEF holderOf
  <2> QED BY <1>1, <1>3, <2>1, <2>2
<1> QED BY <1>1, <1>2, <1>4, MappingKept, AbstractSteps

\* A write of attachment k withdraws its address, or shows one that it holds.
LEMMA WriteMaps ==
    ASSUME TypeOK, TypeOK', CalmInv, CalmInv', NEW k \in Keys, locks' = locks,
           \A m \in Keys \ {k} : atts'[m] = atts[m]
    PROVE  Alloc!Next
<1>1. holderOf' = holderOf
  BY MappingKept
<1>2. \A m \in Keys \ {k} : shownOf'[m] = shownOf[m]
  BY DEF shownOf
<1>3. shownOf' = [shownOf EXCEPT ![k] = shownOf'[k]]
  <2>1. shownOf = [m \in Keys |-> shownOf[m]] /\ shownOf' = [m \in Keys |-> shownOf'[m]]
    BY DEF shownOf
  <2> QED BY <1>2, <2>1
<1>4. CASE atts'[k].ip = NoIP
  <2>1. shownOf'[k] = NoSlot
    BY <1>4 DEF shownOf
  <2> QED BY <1>1, <1>3, <2>1, AbstractSteps
<1>5. CASE atts'[k].ip # NoIP
  <2>1. NoAtt.ip = NoIP /\ Blank(atts'[k]).ip = NoIP
    BY BlankParts DEF NoAtt
  <2>2. Exists(atts'[k]) /\ atts'[k] # Blank(atts'[k])
    BY <1>5, <2>1 DEF CalmInv, TwoRevisions
  <2>3. PICK l \in Mine(k)' : l.slot = <<atts'[k].vni, atts'[k].ip>>
    BY <2>2 DEF CalmInv, StatusBacked, StatusBackedOf
  <2>4. l \in locks /\ l.owner = k
    BY <2>3 DEF Mine
  <2>5. l.slot \in Slots
    BY <2>4, Types
  <2>6. holderOf[l.slot] = k
    BY <2>4, <2>5, Holders, Parts
  <2>7. shownOf'[k] = l.slot
    BY <1>5, <2>3 DEF shownOf
  <2> QED BY <1>1, <1>3, <2>5, <2>6, <2>7, AbstractSteps
<1> QED BY <1>4, <1>5

\* Every step of the controller and its environment is an abstract step, or
\* changes neither a lock nor a status.
LEMMA StepMaps ==
    ASSUME Calm, Sound, Sound', [Next]_vars
    PROVE  [Alloc!Next]_(Alloc!allocVars)
<1>1. TypeInv /\ TypeOK /\ TypeOK' /\ CalmInv /\ CalmInv' /\ OneLock'
  BY DEF Sound, TypeInv, CalmInv
<1>2. CASE UNCHANGED <<atts, locks>>
  BY <1>2, MappingKept, AbstractSteps
<1>3. ASSUME NEW k \in Keys, NEW att, PutAtt(k, att), locks' = locks PROVE Alloc!Next
  BY <1>1, <1>3, WriteMaps DEF PutAtt, TypeOK, ApiTypeOK
<1>4. CASE UNCHANGED vars
  BY <1>2, <1>4 DEF vars, apiVars, storeVars
<1>5. CASE ClientNext
  <2>1. ~Spend("touch") /\ ~Spend("subnet")
    BY <1>1, NoFault, Parts
  <2> QED BY <1>3, <1>5, <2>1 DEF ClientNext, CreateAttachment, DeleteAttachment,
                                  UpdateAttachment, WriteSubnet, DeleteSubnet
<1>6. ASSUME NEW l \in locks, CollectGarbage(l) PROVE Alloc!Next
  BY <1>1, <1>6, ReleaseMaps DEF CollectGarbage, OwnedBy, Live
<1>7. ASSUME NEW c \in Controllers, InformerStep(c) PROVE UNCHANGED <<atts, locks>>
  BY <1>7 DEF InformerStep, OnAttachmentNotify, OnSubnetNotify, IndexLock, OnLockNotify,
              apiVars, storeVars
<1>8. ASSUME NEW c \in Controllers, Restart(c) PROVE UNCHANGED <<atts, locks>>
  BY <1>8 DEF Restart, storeVars
<1>9. ASSUME NEW c \in Controllers, NEW k \in Keys, WorkerStep(c, k)
      PROVE  Alloc!Next \/ UNCHANGED <<atts, locks>>
  <2>1. CASE processNetworkAttachment(c, k) \/ PickAddress(c, k) \/ RecoverLock(c, k)
    BY <2>1 DEF processNetworkAttachment, PickAddress, RecoverLock, apiVars, storeVars
  <2>2. CASE deleteIPLockObject(c, k)
    <3>1. PICK l \in NextToRelease(proc[c][k]) :
             DeleteLock(l) \/ UNCHANGED <<locks, lockEvents>>
      BY <2>2 DEF deleteIPLockObject
    <3>2. l \in proc[c][k].release
      BY DEF NextToRelease
    <3>3. ~Live(l)
      BY <1>1, <3>2, Parts DEF PassCalm, Live
    <3>4. atts' = atts
      BY <2>2 DEF deleteIPLockObject
    <3> QED BY <1>1, <3>1, <3>3, <3>4, ReleaseMaps
  <2>3. CASE LockAddress(c, k)
    <3>1. atts' = atts
      BY <2>3 DEF LockAddress
    <3>2. \/ CreateLock(PickedSlot(proc[c][k]), k, proc[c][k].att)
          \/ locks' = locks
      BY <2>3 DEF LockAddress
    <3>3. CASE CreateLock(PickedSlot(proc[c][k]), k, proc[c][k].att)
      <4>1. PickedSlot(proc[c][k]) \in Slots
        BY <1>1, <2>3 DEF LockAddress, TypeInv, PassesOK, PassOK
      <4>2. proc[c][k].att \in NetworkAttachment
        BY <1>1, Types
      <4>3. PICK l \in IPLock : l.slot = PickedSlot(proc[c][k]) /\ locks' = locks \cup {l}
        BY <1>1, <3>3, <4>1, <4>2, NewLock
      <4>4. LocksAt(l.slot) = {}
        BY <1>1, <3>3, <4>1, <4>2, <4>3, NewLock
      <4> QED BY <1>1, <3>1, <4>3, <4>4, AcquireMaps
    <3> QED BY <3>1, <3>2, <3>3
  <2>4. CASE updateNAStatus(c, k)
    <3>1. locks' = locks
      BY <2>4 DEF updateNAStatus
    <3>2. WriteStatus(k, proc[c][k].st) \/ atts' = atts
      BY <2>4 DEF updateNAStatus
    <3> QED BY <1>3, <3>1, <3>2 DEF WriteStatus
  <2> QED BY <1>9, <2>1, <2>2, <2>3, <2>4 DEF WorkerStep
<1> QED BY <1>2, <1>4, <1>5, <1>6, <1>7, <1>8, <1>9 DEF Next

\* The initial states show and hold nothing.
LEMMA InitMaps == ASSUME Init PROVE Alloc!Init
<1>1. locks = {} /\ \A k \in Keys : atts[k].ip = NoIP
  BY DEF Init, ApiInit, NoAtt
<1>2. \A slot \in Slots : LocksAt(slot) = {}
  BY <1>1 DEF LocksAt
<1> QED BY <1>1, <1>2 DEF Alloc!Init

\* While the environment is calm the controller implements the abstract
\* allocation: a status shows an address only while a lock of that attachment
\* holds it, and no pass over a stale cache deletes the lock of an address that
\* a status still shows.
THEOREM CalmAllocation ==
    ASSUME Calm
    PROVE  Spec => ImplementsAllocation
<1>1. Init => Sound
  BY InitSound
<1>2. Sound /\ [Next]_vars => Sound'
  BY NextSound
<1>3. Sound /\ Sound' /\ [Next]_vars => [Alloc!Next]_(Alloc!allocVars)
  BY StepMaps
<1>4. Init => Alloc!Init
  BY InitMaps
<1> QED BY <1>1, <1>2, <1>3, <1>4, PTL DEF Spec, ImplementsAllocation, Alloc!Spec

-----------------------------------------------------------------------------
(* Nothing is forgotten: the inductive invariant.  An attachment without an *)
(* address has an event on its way to the controller, is queued, or is      *)
(* being given one.                                                         *)

\* The events s hold news of attachment k.
Tells(s, k) == \E i \in 1 .. Len(s) : s[i].key = k

\* The last event of k in the stream s, or else the cache, shows what there is.
Synced(s, k, cached, present) ==
    /\ ~Tells(s, k) => cached = present
    /\ \A i \in 1 .. Len(s) :
          s[i].key = k /\ (\A j \in 1 .. Len(s) : j > i => s[j].key # k)
             => s[i].obj = present

\* A controller that remembers writing the present revision of an attachment
\* gave it an address.
Written(c, k) ==
    Exists(atts[k]) =>
       /\ ~atts[k].err
       /\ nadat[c][k].ip # NoIP /\ nadat[c][k].anticipated = atts[k].rv => atts[k].ip # NoIP

Owed(c, k) ==
    Exists(atts[k]) /\ atts[k].ip = NoIP =>
       \/ Tells(attEvents[c], k)
       \/ k \in queue[c]
       \/ Goal(proc[c][k]) # "idle"

SettleInv ==
    \A c \in Controllers, k \in Keys :
       /\ Synced(attEvents[c], k, attCache[c][k], atts[k])
       /\ Written(c, k)
       /\ Owed(c, k)

LEMMA SyncedAppend ==
    ASSUME NEW s \in Seq(AttEvent), NEW e \in AttEvent, NEW k, NEW cached, NEW present,
           Synced(s, k, cached, present)
    PROVE  /\ Tells(Append(s, e), k) <=> Tells(s, k) \/ e.key = k
           /\ Synced(Append(s, e), k, cached, IF e.key = k THEN e.obj ELSE present)
<1> DEFINE t == Append(s, e)
           n == Len(s)
<1>1. n \in Nat /\ Len(t) = n + 1 /\ t[n + 1] = e /\ \A i \in 1 .. n : t[i] = s[i]
  OBVIOUS
<1> HIDE DEF t, n
<1>2. Tells(t, k) <=> Tells(s, k) \/ e.key = k
  BY <1>1 DEF Tells, n
<1>3. CASE e.key = k
  <2>1. Tells(t, k)
    BY <1>2, <1>3
  <2>2. ASSUME NEW i \in 1 .. Len(t), t[i].key = k, \A j \in 1 .. Len(t) : j > i => t[j].key # k
        PROVE  t[i].obj = e.obj
    BY <1>1, <1>3, <2>2
  <2> QED BY <1>2, <1>3, <2>1, <2>2 DEF Synced, t
<1>4. CASE e.key # k
  <2>1. ASSUME NEW i \in 1 .. Len(t), t[i].key = k, \A j \in 1 .. Len(t) : j > i => t[j].key # k
        PROVE  t[i].obj = present
    <3>1. i \in 1 .. n /\ s[i].key = k
      BY <1>1, <1>4, <2>1
    <3>2. \A j \in 1 .. n : j > i => s[j].key # k
      BY <1>1, <2>1
    <3> QED BY <1>1, <3>1, <3>2 DEF Synced, n
  <2> QED BY <1>2, <1>4, <2>1 DEF Synced, t
<1> QED BY <1>3, <1>4

LEMMA SyncedTail ==
    ASSUME NEW s \in Seq(AttEvent), s # <<>>, NEW k, NEW cached, NEW present,
           Synced(s, k, cached, present)
    PROVE  /\ Tells(s, k) <=> Tells(Tail(s), k) \/ Head(s).key = k
           /\ Synced(Tail(s), k, IF Head(s).key = k THEN Head(s).obj ELSE cached, present)
<1> DEFINE t == Tail(s)
           n == Len(s)
<1>1. n \in Nat \ {0} /\ Len(t) = n - 1 /\ Head(s) = s[1] /\ \A i \in 1 .. n - 1 : t[i] = s[i + 1]
  OBVIOUS
<1> HIDE DEF t, n
<1>2. \A i \in 1 .. n : i = 1 \/ (i - 1 \in 1 .. Len(t) /\ t[i - 1] = s[i])
  BY <1>1
<1>3. Tells(s, k) <=> Tells(t, k) \/ Head(s).key = k
  <2>1. Tells(t, k) => Tells(s, k)
    <3> SUFFICES ASSUME NEW i \in 1 .. Len(t), t[i].key = k PROVE Tells(s, k)
      BY DEF Tells
    <3>1. i + 1 \in 1 .. n /\ s[i + 1].key = k
      BY <1>1
    <3> QED BY <3>1 DEF Tells, n
  <2>2. Head(s).key = k => Tells(s, k)
    BY <1>1 DEF Tells, n
  <2>3. Tells(s, k) => Tells(t, k) \/ Head(s).key = k
    BY <1>1, <1>2 DEF Tells, n
  <2> QED BY <2>1, <2>2, <2>3
<1>4. ASSUME NEW i \in 1 .. Len(t), t[i].key = k, \A j \in 1 .. Len(t) : j > i => t[j].key # k
      PROVE  t[i].obj = present
  <2>1. i + 1 \in 1 .. n /\ s[i + 1] = t[i]
    BY <1>1
  <2>2. ASSUME NEW j \in 1 .. n, j > i + 1 PROVE s[j].key # k
    <3>1. j - 1 \in 1 .. Len(t) /\ t[j - 1] = s[j] /\ j - 1 > i
      BY <1>1, <1>2, <2>2
    <3> QED BY <1>4, <3>1
  <2> QED BY <1>4, <2>1, <2>2 DEF Synced, n
<1>5. ASSUME ~Tells(t, k), Head(s).key = k PROVE Head(s).obj = present
  <2>1. ASSUME NEW j \in 1 .. n, j > 1 PROVE s[j].key # k
    <3>1. j - 1 \in 1 .. Len(t) /\ t[j - 1] = s[j]
      BY <1>1, <1>2, <2>1
    <3> QED BY <1>5, <3>1 DEF Tells
  <2>2. 1 \in 1 .. n /\ s[1].key = k
    BY <1>1, <1>5
  <2> QED BY <1>1, <2>1, <2>2 DEF Synced, n
<1>6. ASSUME ~Tells(t, k), Head(s).key # k PROVE cached = present
  BY <1>3, <1>6 DEF Synced
<1> QED BY <1>3, <1>4, <1>5, <1>6 DEF Synced, t

\* A step that writes no attachment and takes no event of one.
LEMMA SettleKept ==
    ASSUME SettleInv, UNCHANGED <<atts, attEvents, attCache>>,
           \A c \in Controllers, k \in Keys :
              nadat'[c][k] = nadat[c][k] \/ nadat'[c][k] = NoAnticipation,
           \A c \in Controllers, k \in Keys :
              Exists(atts[k]) /\ atts[k].ip = NoIP /\ ~Tells(attEvents[c], k)
              /\ (k \in queue[c] \/ Goal(proc[c][k]) # "idle")
                 => k \in queue'[c] \/ Goal(proc'[c][k]) # "idle"
    PROVE  SettleInv'
<1> SUFFICES ASSUME NEW c \in Controllers, NEW k \in Keys
             PROVE  /\ Synced(attEvents'[c], k, attCache'[c][k], atts'[k])
                    /\ Written(c, k)' /\ Owed(c, k)'
  BY DEF SettleInv
<1>1. Synced(attEvents'[c], k, attCache'[c][k], atts'[k])
  BY DEF SettleInv
<1>2. Written(c, k)'
  <2>1. NoAnticipation.ip = NoIP
    BY DEF NoAnticipation
  <2> QED BY <2>1 DEF SettleInv, Written
<1>3. Owed(c, k)'
  BY DEF SettleInv, Owed, Goal
<1> QED BY <1>1, <1>2, <1>3

\* A write of an attachment that either removes it, has no address yet or
\* gives it one.
LEMMA SettlePut ==
    ASSUME TypeOK, SettleInv, NEW m \in Keys, NEW att \in NetworkAttachment, PutAtt(m, att),
           attCache' = attCache, \A c \in Controllers : queue'[c] = queue[c],
           \A c \in Controllers, k \in Keys \ {m} :
              nadat'[c][k] = nadat[c][k] /\ proc'[c][k] = proc[c][k],
           \A c \in Controllers : Written(c, m)'
    PROVE  SettleInv'
<1> DEFINE e == [key |-> m, obj |-> att]
<1>1. e \in AttEvent /\ e.key = m /\ e.obj = att
  BY DEF AttEvent
<1>2. /\ \A k \in Keys : atts'[k] = IF k = m THEN att ELSE atts[k]
      /\ \A c \in Controllers : /\ attEvents'[c] = Append(attEvents[c], e)
                                /\ attEvents[c] \in Seq(AttEvent)
  BY DEF PutAtt, Broadcast, TypeOK, ApiTypeOK
<1> HIDE DEF e
<1> SUFFICES ASSUME NEW c \in Controllers, NEW k \in Keys
             PROVE  /\ Synced(attEvents'[c], k, attCache'[c][k], atts'[k])
                    /\ Written(c, k)' /\ Owed(c, k)'
  BY DEF SettleInv
<1>3. Synced(attEvents[c], k, attCache[c][k], atts[k]) /\ Written(c, k) /\ Owed(c, k)
  BY DEF SettleInv
<1>4. /\ Tells(attEvents'[c], k) <=> Tells(attEvents[c], k) \/ m = k
      /\ Synced(attEvents'[c], k, attCache[c][k], IF m = k THEN att ELSE atts[k])
  <2>1. /\ Tells(Append(attEvents[c], e), k) <=> Tells(attEvents[c], k) \/ e.key = k
        /\ Synced(Append(attEvents[c], e), k, attCache[c][k],
                  IF e.key = k THEN e.obj ELSE atts[k])
    BY <1>1, <1>2, <1>3, SyncedAppend
  <2> QED BY <1>1, <1>2, <2>1
<1>5. Synced(attEvents'[c], k, attCache'[c][k], atts'[k])
  BY <1>2, <1>4
<1>6. CASE k = m
  BY <1>4, <1>5, <1>6 DEF Owed
<1>7. CASE k # m
  <2>1. Written(c, k)'
    BY <1>2, <1>3, <1>7 DEF Written
  <2>2. Owed(c, k)'
    BY <1>2, <1>3, <1>4, <1>7 DEF Owed, Goal
  <2> QED BY <1>5, <2>1, <2>2
<1> QED BY <1>6, <1>7

LEMMA ClientSettle ==
    ASSUME Sound, SettleInv, ClientNext, UNCHANGED localVars
    PROVE  SettleInv'
<1>1. TypeOK /\ CalmInv
  BY DEF Sound, TypeInv
<1>2. UNCHANGED <<attCache, queue, nadat, proc>>
  BY DEF localVars
<1>3. ASSUME NEW k \in Keys, NEW s \in Subnets, CreateAttachment(k, s) PROVE SettleInv'
  <2> DEFINE att == [NoAtt EXCEPT !.uid = attRV[k] + 1, !.rv = attRV[k] + 1, !.subnet = s]
  <2>1. PutAtt(k, att) /\ attRV[k] \in Nat
    BY <1>1, <1>3, Types DEF CreateAttachment
  <2>2. att \in NetworkAttachment /\ att.rv = attRV[k] + 1 /\ ~att.err
    <3>1. attRV[k] + 1 \in Nat
      BY <2>1
    <3>2. att \in NetworkAttachment
      BY <3>1, NewAttType, Zenon
    <3> QED BY <3>2 DEF NoAtt
  <2> HIDE DEF att
  <2>3. atts'[k] = att
    BY <1>1, <2>1 DEF PutAtt, TypeOK, ApiTypeOK
  <2>4. ASSUME NEW c \in Controllers PROVE Written(c, k)'
    <3>1. nadat[c][k].ip # NoIP => nadat[c][k].anticipated <= attRV[k]
      BY <1>1, Parts DEF RecordTrueOf
    <3>2. nadat[c][k].anticipated \in Nat
      BY <1>1, Types
    <3> QED BY <1>2, <2>1, <2>2, <2>3, <3>1, <3>2 DEF Written
  <2> QED BY <1>1, <1>2, <2>1, <2>2, <2>4, SettlePut
<1>4. ASSUME NEW k \in Keys, DeleteAttachment(k) PROVE SettleInv'
  <2>1. PutAtt(k, NoAtt) /\ NoAtt \in NetworkAttachment
    BY <1>4, ZeroTypes DEF DeleteAttachment
  <2>2. ~Exists(atts'[k])
    BY <1>1, <2>1 DEF PutAtt, TypeOK, ApiTypeOK, Exists, NoAtt
  <2>3. \A c \in Controllers : Written(c, k)'
    BY <2>2 DEF Written, Exists
  <2> QED BY <1>1, <1>2, <2>1, <2>3, SettlePut
<1>5. ~Spend("touch") /\ ~Spend("subnet")
  BY <1>1, NoFault, Parts
<1> QED BY <1>3, <1>4, <1>5 DEF ClientNext, UpdateAttachment, WriteSubnet, DeleteSubnet

LEMMA NotifySettle ==
    ASSUME TypeOK, SettleInv, NEW c \in Controllers, OnAttachmentNotify(c)
    PROVE  SettleInv'
<1> DEFINE s == attEvents[c]
           e == Head(s)
<1>1. /\ s # <<>> /\ s \in Seq(AttEvent)
      /\ atts' = atts /\ nadat' = nadat /\ proc' = proc
      /\ \A d \in Controllers, k \in Keys :
            attCache'[d][k] = IF d = c /\ k = e.key THEN e.obj ELSE attCache[d][k]
      /\ \A d \in Controllers :
            /\ attEvents'[d] = IF d = c THEN Tail(s) ELSE attEvents[d]
            /\ queue'[d] = IF d = c THEN queue[d] \cup {e.key} ELSE queue[d]
  BY DEF OnAttachmentNotify, storeVars, TypeOK, ApiTypeOK
<1> SUFFICES ASSUME NEW d \in Controllers, NEW k \in Keys
             PROVE  /\ Synced(attEvents'[d], k, attCache'[d][k], atts'[k])
                    /\ Written(d, k)' /\ Owed(d, k)'
  BY DEF SettleInv
<1>2. Synced(attEvents[d], k, attCache[d][k], atts[k]) /\ Written(d, k) /\ Owed(d, k)
  BY DEF SettleInv
<1>3. Written(d, k)'
  BY <1>1, <1>2 DEF Written
<1>4. CASE d # c
  BY <1>1, <1>2, <1>3, <1>4 DEF Owed, Goal
<1>5. CASE d = c
  <2>1. /\ Tells(s, k) <=> Tells(Tail(s), k) \/ e.key = k
        /\ Synced(Tail(s), k, IF e.key = k THEN e.obj ELSE attCache[d][k], atts[k])
    BY <1>1, <1>2, <1>5, SyncedTail
  <2> HIDE DEF e, s
  <2>2. Synced(attEvents'[d], k, attCache'[d][k], atts'[k])
    BY <1>1, <1>5, <2>1
  <2>3. Owed(d, k)'
    <3>1. Owed(d, k) /\ attEvents[d] = s
      BY <1>2, <1>5 DEF s
    <3> QED BY <1>1, <1>5, <2>1, <3>1 DEF Owed, Goal
  <2> QED BY <1>3, <2>2, <2>3
<1> QED BY <1>4, <1>5

LEMMA RestartSettle ==
    ASSUME TypeOK, SettleInv, NEW c \in Controllers, Restart(c)
    PROVE  SettleInv'
<1>1. /\ atts' = atts
      /\ attCache'[c] = atts /\ attEvents'[c] = <<>>
      /\ queue'[c] = {k \in Keys : Exists(atts[k])}
      /\ \A k \in Keys : nadat'[c][k] = NoAnticipation
      /\ \A d \in Controllers \ {c} :
            /\ attCache'[d] = attCache[d] /\ attEvents'[d] = attEvents[d]
            /\ queue'[d] = queue[d] /\ nadat'[d] = nadat[d] /\ proc'[d] = proc[d]
  BY DEF Restart, storeVars, TypeOK, ApiTypeOK
<1> SUFFICES ASSUME NEW d \in Controllers, NEW k \in Keys
             PROVE  /\ Synced(attEvents'[d], k, attCache'[d][k], atts'[k])
                    /\ Written(d, k)' /\ Owed(d, k)'
  BY DEF SettleInv
<1>2. Synced(attEvents[d], k, attCache[d][k], atts[k]) /\ Written(d, k) /\ Owed(d, k)
  BY DEF SettleInv
<1>3. CASE d # c
  BY <1>1, <1>2, <1>3 DEF Owed, Goal, Written
<1>4. CASE d = c
  <2>1. Synced(<<>>, k, atts[k], atts[k])
    BY DEF Synced
  <2>2. Written(d, k)'
    BY <1>1, <1>2, <1>4 DEF Written, NoAnticipation
  <2>3. Owed(d, k)'
    BY <1>1, <1>4 DEF Owed
  <2> QED BY <1>1, <1>4, <2>1, <2>2, <2>3
<1> QED BY <1>3, <1>4

\* A worker goes on with the pass or gives it up and queues the key again.
LEMMA WorkerSettle ==
    ASSUME TypeOK, SettleInv, UNCHANGED <<atts, attEvents, attCache, nadat>>,
           NEW c \in Controllers, NEW k \in Keys,
           \/ Retry(c, k)
           \/ Done(c, k) /\ ~Exists(atts[k])
           \/ \E p : /\ Continue(c, k, p)
                     /\ Goal(proc[c][k]) # "idle" => Goal(p) # "idle"
    PROVE  SettleInv'
<1>1. ASSUME NEW d \in Controllers, NEW m \in Keys, Exists(atts[m]),
             m \in queue[d] \/ Goal(proc[d][m]) # "idle"
      PROVE  m \in queue'[d] \/ Goal(proc'[d][m]) # "idle"
  <2>1. CASE d # c \/ m # k
    <3>1. proc'[d][m] = proc[d][m] /\ (m \in queue[d] => m \in queue'[d])
      BY <2>1, PassOnly DEF Retry, Done, Continue, TypeOK
    <3> QED BY <1>1, <3>1
  <2>2. CASE d = c /\ m = k
    <3>1. Retry(c, k) => k \in queue'[c]
      BY DEF Retry, TypeOK
    <3>2. \A p : Continue(c, k, p) => proc'[c][k] = p /\ queue' = queue
      <4> SUFFICES ASSUME NEW p, Continue(c, k, p) PROVE proc'[c][k] = p /\ queue' = queue
        OBVIOUS
      <4>1. proc'[c][k] = p
        BY PassOnly
      <4> QED BY <4>1 DEF Continue
    <3> QED BY <1>1, <2>2, <3>1, <3>2
  <2> QED BY <2>1, <2>2
<1> QED BY <1>1, SettleKept

LEMMA ReleaseSettle ==
    ASSUME Sound, SettleInv, NEW c \in Controllers, NEW k \in Keys, deleteIPLockObject(c, k)
    PROVE  SettleInv'
<1> DEFINE p == proc[c][k]
           q(l) == [p EXCEPT !.release = @ \ {l}]
<1>1. TypeOK /\ p.pc = "release" /\ UNCHANGED <<atts, attEvents, attCache, nadat>>
  BY DEF deleteIPLockObject, Sound, TypeInv
<1>2. Retry(c, k) \/ \E l : Continue(c, k, Proceed(q(l)))
  BY DEF deleteIPLockObject
<1>3. ASSUME NEW l, p.then # "idle" PROVE Goal(Proceed(q(l))) # "idle"
  <2>1. p \in Pass
    BY <1>1, Types
  <2>2. q(l) \in Pass /\ q(l).then = p.then
    BY <2>1 DEF Pass
  <2> HIDE DEF q, p
  <2>3. Proceed(q(l)) = IF q(l).release # {} THEN [q(l) EXCEPT !.pc = "release"]
                                             ELSE [q(l) EXCEPT !.pc = q(l).then]
    BY <1>3, <2>2 DEF Proceed
  <2> QED BY <1>3, <2>2, <2>3 DEF Goal, Pass
<1>4. Goal(p) = p.then
  BY <1>1 DEF Goal
<1> HIDE DEF q
<1> QED BY <1>1, <1>2, <1>3, <1>4, WorkerSettle

\* The calls that pick, lock and recover an address.
LEMMA AddressSettle ==
    ASSUME Sound, SettleInv, NEW c \in Controllers, NEW k \in Keys,
           PickAddress(c, k) \/ LockAddress(c, k) \/ RecoverLock(c, k)
    PROVE  SettleInv'
<1> DEFINE p == proc[c][k]
<1>1. TypeOK /\ UNCHANGED <<atts, attEvents, attCache, nadat>>
  BY DEF PickAddress, LockAddress, RecoverLock, apiVars, storeVars, watchVars, Sound, TypeInv
<1>2. p \in Pass
  BY <1>1, Types
<1>3. Retry(c, k) \/ \E q : Continue(c, k, q) /\ q.pc \in {"create", "recover", "update"}
  <2> HIDE DEF p
  <2>1. CASE PickAddress(c, k)
    <3>1. \A a : [p EXCEPT !.pc = "create", !.st.ip = a, !.st.vni = p.want.vni].pc = "create"
      BY <1>2 DEF Pass
    <3> QED BY <2>1, <3>1 DEF PickAddress, p
  <2>2. CASE LockAddress(c, k)
    <3>1. /\ \A u : [p EXCEPT !.pc = "update", !.st.lock = u].pc = "update"
          /\ [p EXCEPT !.pc = "update"].pc = "update"
          /\ [p EXCEPT !.pc = "recover"].pc = "recover"
      BY <1>2 DEF Pass
    <3> QED BY <2>2, <3>1 DEF LockAddress, p
  <2>3. CASE RecoverLock(c, k)
    <3>1. /\ \A u : [p EXCEPT !.pc = "update", !.st.lock = u].pc = "update"
          /\ [p EXCEPT !.pc = "create"].pc = "create"
      BY <1>2 DEF Pass
    <3> QED BY <2>3, <3>1 DEF RecoverLock, p
  <2> QED BY <2>1, <2>2, <2>3
<1>4. \A q : q.pc \in {"create", "recover", "update"} => Goal(q) # "idle"
  BY DEF Goal
<1> QED BY <1>1, <1>3, <1>4, WorkerSettle
\* The write of a status gives the attachment an address.
LEMMA WriteSettle ==
    ASSUME Sound, SettleInv, NEW c \in Controllers, NEW k \in Keys,
           proc[c][k].pc = "update", Exists(atts[k]), atts[k].rv = proc[c][k].att.rv,
           WriteStatus(k, proc[c][k].st), Done(c, k), attCache' = attCache,
           \A d \in Controllers, m \in Keys \ {k} : nadat'[d][m] = nadat[d][m]
    PROVE  SettleInv'
<1> DEFINE p == proc[c][k]
           updated == [atts[k] EXCEPT !.ip = p.st.ip, !.vni = p.st.vni, !.lock = p.st.lock,
                                      !.err = p.st.err]
           written == [updated EXCEPT !.rv = attRV[k] + 1]
<1>1. /\ TypeOK /\ CalmInv /\ p \in Pass /\ p.st \in Status /\ PassCalm(c, k, p)
      /\ atts[k] \in NetworkAttachment /\ attRV[k] \in Nat
  BY Types, Parts DEF Sound, TypeInv, Pass
<1>2. p.att.uid = atts[k].uid
  BY AreRevisions DEF Sound, IInv, RevisionsIdentify, RevisionOf
<1>3. PICK l \in Mine(k) : PickedSlot(p) = l.slot
  BY <1>1, <1>2 DEF PassCalm, Goal
<1>4. p.st.ip # NoIP /\ ~p.st.err
  <2>1. l.slot[2] \in Addresses
    BY <1>1, Parts, Types, MineFacts, SlotParts
  <2>2. l.slot[2] = p.st.ip
    BY <1>3 DEF PickedSlot
  <2> QED BY <1>1, <2>1, <2>2, AddressesNat DEF PassCalm
<1>5. updated.ip = p.st.ip /\ updated.err = p.st.err
  BY <1>1 DEF NetworkAttachment
<1>6. written.ip = p.st.ip /\ written.err = p.st.err
  BY <1>1 DEF NetworkAttachment
<1>7. written \in NetworkAttachment
  <2>1. attRV[k] + 1 \in Nat
    BY <1>1
  <2> QED BY <1>1, <2>1, StatusAttType, Zenon
<1>8. \/ updated = atts[k] /\ UNCHANGED <<atts, attEvents>>
      \/ PutAtt(k, written)
  BY DEF WriteStatus
<1> HIDE DEF updated, written
<1>9. \A d \in Controllers : queue'[d] = queue[d] /\
         \A m \in Keys \ {k} : proc'[d][m] = proc[d][m]
  BY <1>1, PassOnly DEF Done
<1>10. ASSUME atts'[k].ip = p.st.ip, atts'[k].err = p.st.err, NEW d \in Controllers
       PROVE  Written(d, k)' /\ Owed(d, k)'
  <2>1. atts'[k].ip # NoIP /\ ~atts'[k].err
    BY <1>4, <1>10
  <2> HIDE DEF p
  <2> QED BY <2>1 DEF Written, Owed
<1>11. CASE PutAtt(k, written)
  <2>1. atts'[k] = written
    BY <1>1, <1>11 DEF PutAtt, TypeOK, ApiTypeOK
  <2> QED BY <1>1, <1>6, <1>7, <1>9, <1>10, <1>11, <2>1, SettlePut
<1>12. CASE updated = atts[k] /\ UNCHANGED <<atts, attEvents>>
  <2>1. atts'[k].ip = p.st.ip /\ atts'[k].err = p.st.err
    BY <1>5, <1>12
  <2>2. ASSUME NEW d \in Controllers, NEW m \in Keys
        PROVE  /\ Synced(attEvents'[d], m, attCache'[d][m], atts'[m])
               /\ Written(d, m)' /\ Owed(d, m)'
    <3>1. Synced(attEvents'[d], m, attCache'[d][m], atts'[m])
      BY <1>12 DEF SettleInv
    <3>2. CASE m = k
      BY <1>10, <2>1, <3>1, <3>2
    <3>3. CASE m # k
      <4>1. Written(d, m) /\ Owed(d, m)
        BY DEF SettleInv
      <4> QED BY <1>9, <1>12, <3>1, <3>3, <4>1 DEF Written, Owed
    <3> QED BY <3>2, <3>3
  <2> QED BY <2>2 DEF SettleInv
<1> QED BY <1>8, <1>11, <1>12

LEMMA UpdateSettle ==
    ASSUME Sound, SettleInv, NEW c \in Controllers, NEW k \in Keys, updateNAStatus(c, k)
    PROVE  SettleInv'
<1> DEFINE p == proc[c][k]
<1>1. TypeOK /\ CalmInv /\ p.pc = "update" /\ attCache' = attCache
  BY DEF updateNAStatus, Sound, TypeInv
<1>2. CASE /\ Exists(atts[k]) /\ atts[k].rv = p.att.rv /\ WriteStatus(k, p.st) /\ Done(c, k)
           /\ nadat' = nadat \/ \E r : nadat' = [nadat EXCEPT ![c][k] = r]
  <2>1. ASSUME NEW r, nadat' = [nadat EXCEPT ![c][k] = r], NEW d \in Controllers,
               NEW m \in Keys \ {k}
        PROVE  nadat'[d][m] = nadat[d][m]
    BY <1>1, <2>1 DEF TypeOK
  <2>2. \A d \in Controllers, m \in Keys \ {k} : nadat'[d][m] = nadat[d][m]
    BY <1>2, <2>1
  <2> QED BY <1>1, <1>2, <2>2, WriteSettle
<1>3. CASE /\ Retry(c, k) \/ (Done(c, k) /\ ~Exists(atts[k]))
           /\ UNCHANGED <<atts, attEvents, nadat>>
  BY <1>1, <1>3, WorkerSettle
<1> QED BY <1>1, <1>2, <1>3, NoFault, Parts DEF updateNAStatus

\* When the analysis has nothing to write and no address to pick.
LEMMA AnalyzeIdle ==
    ASSUME NEW c \in Controllers, NEW k \in Keys, NEW fetched,
           NEW p, p = analyzeAndRelease(c, k, fetched), p.then = "idle"
    PROVE  \/ ~Exists(attCache[c][k]) \/ InStatus(c, k, fetched) # {}
           \/ StillAnticipated(c, k).ip # NoIP
           \/ \E l \in Keep(c, k, fetched) : l.slot[2] = StillAnticipated(c, k).ip
<1> SUFFICES ASSUME Exists(attCache[c][k]), InStatus(c, k, fetched) = {},
                    StillAnticipated(c, k).ip = NoIP,
                    \A l \in Keep(c, k, fetched) : l.slot[2] # StillAnticipated(c, k).ip
             PROVE  p.then # "idle"
  OBVIOUS
<1> DEFINE pass == [pc |-> "release", att |-> attCache[c][k], want |-> DesiredSubnet(c, k),
                    release |-> Considered(c, k, fetched) \ Keep(c, k, fetched),
                    then |-> "idle", st |-> NoStatus]
           chosen == CHOOSE l \in Keep(c, k, fetched) : TRUE
           toUpdate == [pass EXCEPT !.then = "update", !.st = StatusOf(chosen)]
           toPick == [pass EXCEPT !.then = "pick"]
<1>1. Keep(c, k, fetched) # {} => chosen \in Keep(c, k, fetched)
  OBVIOUS
<1>2. /\ Keep(c, k, fetched) # {} /\ chosen.slot[2] # StillAnticipated(c, k).ip => p = toUpdate
      /\ Keep(c, k, fetched) = {} => p = toPick
  BY DEF analyzeAndRelease, Considered, Usable, InStatus, Keep, StatusOf
<1> HIDE DEF chosen
<1>3. p = toUpdate \/ p = toPick
  BY <1>1, <1>2
<1> QED BY <1>3

\* A worker does not give up an attachment that has no address, once it has seen
\* the latest of it.
LEMMA ProcessSettle ==
    ASSUME Calm, Sound, SettleInv, NEW c \in Controllers, NEW k \in Keys,
           processNetworkAttachment(c, k)
    PROVE  SettleInv'
<1> DEFINE att == attCache[c][k]
<1>1. TypeInv /\ TypeOK /\ CalmInv
  BY DEF Sound, TypeInv
<1>2. UNCHANGED <<atts, attEvents, attCache>> /\ queue' = [queue EXCEPT ![c] = @ \ {k}]
  BY DEF processNetworkAttachment, storeVars, watchVars
<1>3. ~SubnetMissing(c, k)
  <2>1. subnetCache[c] = subnets /\ \A s \in Subnets : subnets[s].rv # 0
    BY <1>1, Parts DEF Quiet
  <2>2. Exists(att) => att.subnet \in Subnets
    BY <1>1, Types DEF NetworkAttachment, Exists
  <2> QED BY <2>1, <2>2 DEF SubnetMissing, DesiredSubnet
<1>4. PICK p : p = analyzeAndRelease(c, k, Fetched(c, k))
  OBVIOUS
<1>5. /\ proc' = [proc EXCEPT ![c][k] = Proceed(p)]
      /\ nadat' = [nadat EXCEPT ![c][k] = StillAnticipated(c, k)]
  BY <1>1, <1>3, <1>4, NoFault, Parts DEF processNetworkAttachment
<1>6. p \in Pass
  <2>1. Fetched(c, k) \subseteq IPLock
    BY <1>1 DEF Fetched, LocksAt, TypeOK, ApiTypeOK
  <2> QED BY <1>1, <1>3, <1>4, <2>1, AnalyzeType
<1>7. \A d \in Controllers, m \in Keys :
         nadat'[d][m] = nadat[d][m] \/ nadat'[d][m] = NoAnticipation
  BY <1>1, <1>5, RecordStaysOrGoes DEF TypeOK
<1>8. ASSUME Exists(atts[k]), atts[k].ip = NoIP, ~Tells(attEvents[c], k) PROVE p.then # "idle"
  <2>1. att = atts[k] /\ Exists(att) /\ Written(c, k)
    BY <1>8 DEF SettleInv, Synced
  <2>2. \A l \in Considered(c, k, Fetched(c, k)) : l.slot[2] # NoIP
    <3> SUFFICES ASSUME NEW l \in Considered(c, k, Fetched(c, k)) PROVE l.slot[2] # NoIP
      OBVIOUS
    <3>1. l.slot \in Slots
      BY <1>1, ConsideredCalm, Types
    <3> QED BY <3>1, SlotParts, AddressesNat
  <2>3. InStatus(c, k, Fetched(c, k)) = {}
    BY <1>8, <2>1, <2>2 DEF InStatus, Usable
  <2>4. \A l \in Keep(c, k, Fetched(c, k)) : l.slot[2] # NoIP
    BY <2>2, <2>3, BestType DEF Keep, Usable
  <2>5. StillAnticipated(c, k).ip = NoIP
    <3> SUFFICES ASSUME StillAnticipated(c, k).ip # NoIP PROVE FALSE
      OBVIOUS
    <3>1. NoAnticipation.ip = NoIP
      BY DEF NoAnticipation
    <3>2. nadat[c][k].ip # NoIP /\ att.rv \in {nadat[c][k].anticipating, nadat[c][k].anticipated}
      BY <3>1 DEF StillAnticipated
    <3>3. /\ atts[k].rv \in Nat /\ atts[k].uid \in Nat
          /\ nadat[c][k].anticipating \in Nat /\ nadat[c][k].anticipated \in Nat
      BY <1>1, Types
    <3>4. atts[k].rv >= atts[k].uid
      <4>1. atts[k] = Blank(atts[k]) \/ atts[k].rv > atts[k].uid
        BY <1>1, <1>8, Parts DEF StatusBackedOf
      <4>2. Blank(atts[k]).rv = atts[k].uid
        BY BlankParts
      <4> QED BY <3>3, <4>1, <4>2
    <3>5. PICK l \in Mine(k) : Anticipates(c, k, l)
      <4>1. RecordTrueOf(c, k)
        BY <1>1, Parts
      <4> QED BY <1>8, <2>1, <3>2, <3>3, <3>4, <4>1 DEF RecordTrueOf
    <3>6. nadat[c][k].anticipated = atts[k].rv
      BY <3>5 DEF Anticipates
    <3> QED BY <1>8, <2>1, <3>2, <3>6 DEF Written
  <2> HIDE DEF att
  <2> QED BY <1>4, <2>1, <2>3, <2>4, <2>5, AnalyzeIdle DEF att
<1>9. ASSUME p.then # "idle" PROVE Goal(Proceed(p)) # "idle"
  <2>1. Proceed(p) = IF p.release # {} THEN [p EXCEPT !.pc = "release"]
                                       ELSE [p EXCEPT !.pc = p.then]
    BY <1>9 DEF Proceed
  <2> QED BY <1>6, <1>9, <2>1 DEF Goal, Pass
<1>10. ASSUME NEW d \in Controllers, NEW m \in Keys, Exists(atts[m]), atts[m].ip = NoIP,
              ~Tells(attEvents[d], m), m \in queue[d] \/ Goal(proc[d][m]) # "idle"
       PROVE  m \in queue'[d] \/ Goal(proc'[d][m]) # "idle"
  <2>1. CASE d # c \/ m # k
    <3>1. proc'[d][m] = proc[d][m] /\ (m \in queue[d] => m \in queue'[d])
      BY <1>1, <1>2, <1>5, <2>1 DEF TypeOK
    <3> QED BY <1>10, <3>1
  <2>2. CASE d = c /\ m = k
    <3>1. proc'[c][k] = Proceed(p)
      BY <1>1, <1>5 DEF TypeOK
    <3> QED BY <1>8, <1>9, <1>10, <2>2, <3>1
  <2> QED BY <2>1, <2>2
<1> QED BY <1>2, <1>7, <1>10, SettleKept

LEMMA InitSettle == ASSUME Init PROVE SettleInv
<1>1. \A c \in Controllers, k \in Keys :
         /\ attEvents[c] = <<>> /\ attCache[c][k] = atts[k] /\ ~Exists(atts[k])
  BY DEF Init, ApiInit, NoAtt, Exists
<1> SUFFICES ASSUME NEW c \in Controllers, NEW k \in Keys
             PROVE  /\ Synced(attEvents[c], k, attCache[c][k], atts[k])
                    /\ Written(c, k) /\ Owed(c, k)
  BY DEF SettleInv
<1> QED BY <1>1 DEF Synced, Written, Owed

LEMMA NextSettle == ASSUME Calm, Sound, SettleInv, [Next]_vars PROVE SettleInv'
<1>0. TypeOK
  BY DEF Sound, TypeInv
<1>1. ASSUME UNCHANGED <<atts, attEvents, attCache, nadat, proc>>,
             \A c \in Controllers : queue[c] \subseteq queue'[c]
      PROVE  SettleInv'
  BY <1>1, SettleKept
<1>2. CASE UNCHANGED vars
  BY <1>1, <1>2 DEF vars, apiVars, storeVars, watchVars, localVars
<1>3. CASE ClientNext /\ UNCHANGED localVars
  BY <1>3, ClientSettle
<1>4. ASSUME NEW l \in locks, CollectGarbage(l), UNCHANGED localVars PROVE SettleInv'
  BY <1>1, <1>4 DEF CollectGarbage, localVars
<1>5. ASSUME NEW c \in Controllers, InformerStep(c) PROVE SettleInv'
  <2>1. CASE OnAttachmentNotify(c)
    BY <1>0, <2>1, NotifySettle
  <2>2. CASE OnSubnetNotify(c) \/ IndexLock(c) \/ OnLockNotify(c)
    <3>1. UNCHANGED <<atts, attEvents, attCache, nadat, proc>>
      BY <2>2 DEF OnSubnetNotify, IndexLock, OnLockNotify, apiVars, storeVars, watchVars
    <3>2. \E S : queue' = queue \/ queue' = [queue EXCEPT ![c] = @ \cup S]
      BY <2>2 DEF OnSubnetNotify, IndexLock, OnLockNotify
    <3>3. \A d \in Controllers : queue[d] \subseteq queue'[d]
      BY <1>0, <3>2 DEF TypeOK
    <3> QED BY <1>1, <3>1, <3>3
  <2> QED BY <1>5, <2>1, <2>2 DEF InformerStep
<1>6. ASSUME NEW c \in Controllers, NEW k \in Keys, WorkerStep(c, k) PROVE SettleInv'
  BY <1>6, ProcessSettle, ReleaseSettle, AddressSettle, UpdateSettle DEF WorkerStep
<1>7. ASSUME NEW c \in Controllers, Restart(c) PROVE SettleInv'
  BY <1>0, <1>7, RestartSettle
<1> QED BY <1>2, <1>3, <1>4, <1>5, <1>6, <1>7 DEF Next

\* What the invariants say when there is nothing left to do.
LEMMA SoundSettled == ASSUME Controllers # {}, Sound, SettleInv PROVE QuiescentSettled
<1>1. TypeOK /\ CalmInv /\ OneLock
  BY DEF Sound, TypeInv, CalmInv
<1> SUFFICES ASSUME Quiescent
             PROVE  /\ \A k \in Keys : Exists(atts[k]) => Settled(k)
                    /\ \A l \in locks : subnets[atts[l.owner].subnet].rv # 0
                                          => atts[l.owner].lock = l.uid
  BY DEF QuiescentSettled
<1>2. PICK c \in Controllers : TRUE
  OBVIOUS
<1>3. ASSUME NEW k \in Keys, Exists(atts[k])
      PROVE  /\ Settled(k)
             /\ \E l \in Mine(k) : l.uid = atts[k].lock
  <2>1. attEvents[c] = <<>> /\ queue[c] = {} /\ proc[c][k].pc = "idle"
    BY DEF Quiescent, Busy
  <2>2. ~Tells(attEvents[c], k) /\ k \notin queue[c] /\ Goal(proc[c][k]) = "idle"
    BY <2>1 DEF Tells, Goal
  <2>3. atts[k].ip # NoIP /\ ~atts[k].err
    BY <1>3, <2>2 DEF SettleInv, Owed, Written
  <2>4. PICK l \in Mine(k) : l.uid = atts[k].lock /\ l.slot = <<atts[k].vni, atts[k].ip>>
    <3>1. Blank(atts[k]).ip = NoIP
      BY BlankParts
    <3> QED BY <1>1, <1>3, <2>3, <3>1, Parts DEF StatusBackedOf
  <2>5. InSubnet(l.slot, subnets[atts[k].subnet])
    BY <1>1, Parts DEF LockKnownOf
  <2>6. subnets[atts[k].subnet].rv # 0
    BY <1>1, <1>3, Types, Parts DEF Quiet, NetworkAttachment, Exists
  <2>7. Backed(k)
    BY <1>1, <2>4, MineFacts DEF Backed, OwnedBy
  <2> QED BY <2>3, <2>4, <2>5, <2>6, <2>7 DEF Settled
<1>4. ASSUME NEW l \in locks PROVE atts[l.owner].lock = l.uid
  <2>1. l \in LocksSeen /\ l.owner \in Keys
    BY <1>1, Types
  <2>2. l.ouid # 0 /\ OwnedBy(l, l.owner, atts[l.owner])
    BY <1>1, <2>1 DEF OneLock, Quiescent, Garbage
  <2>3. l \in Mine(l.owner) /\ Exists(atts[l.owner])
    BY <2>2 DEF Mine, OwnedBy, Exists
  <2>4. PICK m \in Mine(l.owner) : m.uid = atts[l.owner].lock
    BY <1>3, <2>1, <2>3
  <2>5. m = l
    BY <1>1, <2>1, <2>3, <2>4 DEF OneLock
  <2> QED BY <2>4, <2>5
<1> QED BY <1>3, <1>4

\* While the environment is calm no attachment is forgotten: when no notification
\* is on its way, no key is queued, no worker is busy and no garbage is left, every
\* attachment shows an address of its Subnet that a lock of its own backs, and there
\* is no other lock, however often attachments came and went and the controller
\* crashed, at whatever step.
THEOREM CalmSettled ==
    ASSUME Calm, Controllers # {}
    PROVE  Spec => []QuiescentSettled
<1>1. Init => Sound /\ SettleInv
  BY InitSound, InitSettle
<1>2. Sound /\ SettleInv /\ [Next]_vars => (Sound /\ SettleInv)'
  BY NextSound, NextSettle
<1>3. Sound /\ SettleInv => QuiescentSettled
  BY SoundSettled
<1> QED BY <1>1, <1>2, <1>3, PTL DEF Spec

=============================================================================
