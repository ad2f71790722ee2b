------------------------ MODULE SubnetRegistry_proofs ------------------------
(***************************************************************************)
(* Conflicts between Subnets come only from what the validating server's    *)
(* cache did not hold, for any number of servers, Subnets and requests.     *)
(*                                                                          *)
(* A stored Subnet passed the checks against the cache it was validated     *)
(* with (Compatible).  The check of ranges leaves out what has the Subnet's *)
(* own UID, so UIDs have to be unique (UIDsUnique), and for that an update  *)
(* that is written must be an update of the Subnet it was validated as      *)
(* (RequestsCurrent).                                                       *)
(***************************************************************************)
EXTENDS SubnetRegistry, TLAPS

\* The checks that a Subnet (name, UID, spec) passes against a cache.
Compatible(s, uid, spec, cache) ==
    \A t \in Subnets :
       cache[t].uid # 0 /\ cache[t].spec.vni = spec.vni =>
          /\ NamespaceOf[t] = NamespaceOf[s]
          /\ cache[t].uid = uid \/ ~Overlaps(spec, cache[t].spec)

StoreCompatible ==
    \A s \in Subnets :
       store[s].uid # 0 => Compatible(s, store[s].uid, store[s].spec, seen[s])

VersionsBounded ==
    \A s \in Subnets : /\ store[s].uid <= lastRV /\ store[s].rv <= lastRV
                       /\ store[s].rv = 0 <=> store[s].uid = 0

UIDsUnique ==
    \A s, t \in Subnets : s # t /\ store[s].uid # 0 => store[s].uid # store[t].uid

RequestsValid == \A r \in requests : Validate(r)

RequestsCurrent ==
    \A r \in requests : /\ r.rv <= lastRV
                        /\ r.rv = 0 => r.uid = 0
                        /\ store[r.name].rv = r.rv => store[r.name].uid = r.uid

IInv ==
    /\ TypeOK
    /\ StoreCompatible
    /\ VersionsBounded
    /\ UIDsUnique
    /\ RequestsValid
    /\ RequestsCurrent

-----------------------------------------------------------------------------

LEMMA NothingType == NoSubnet \in Subnet /\ Nothing \in [Subnets -> Subnet]
  BY DEF NoSubnet, Nothing, Subnet

LEMMA InitIInv == Init => IInv
<1> SUFFICES ASSUME Init PROVE IInv
  OBVIOUS
<1>1. TypeOK
  <2>1. \A s \in Subnets : store[s].uid = 0
    BY DEF Init, Nothing, NoSubnet
  <2> QED
    BY <2>1, NothingType, RegistryAssumption DEF Init, TypeOK
<1>2. StoreCompatible /\ VersionsBounded /\ UIDsUnique
  BY DEF Init, Nothing, NoSubnet, StoreCompatible, VersionsBounded, UIDsUnique
<1>3. RequestsValid /\ RequestsCurrent
  BY DEF Init, RequestsValid, RequestsCurrent
<1> QED
  BY <1>1, <1>2, <1>3 DEF IInv

\* A server admits what passes its checks.
LEMMA AdmitIInv ==
    ASSUME IInv, NEW v \in Servers, NEW s \in Subnets, Admit(v, s)
    PROVE  IInv'
<1> DEFINE r == [server |-> v, name |-> s, uid |-> store[s].uid,
                 rv |-> store[s].rv, spec |-> goal[s], seen |-> lister[v]]
<1>1. /\ Validate(r)
      /\ requests' = requests \cup {r}
      /\ goal[s] # NoSpec
      /\ UNCHANGED <<store, seen, lastRV, lister, watch, synced, goals, upsets>>
  BY DEF Admit
<1>2. goal[s] \in Specs
  <2>1. goal \in Goals
    BY DEF IInv, TypeOK, goal
  <2> QED
    BY <2>1, <1>1 DEF Goals
<1>3. store[s] \in Subnet /\ lister[v] \in [Subnets -> Subnet]
  BY DEF IInv, TypeOK
<1>4. r \in Request
  BY <1>2, <1>3 DEF Request, Subnet
<1>5. TypeOK'
  BY <1>1, <1>4 DEF IInv, TypeOK
<1>6. (StoreCompatible /\ VersionsBounded /\ UIDsUnique)'
  BY <1>1 DEF IInv, StoreCompatible, Compatible, VersionsBounded, UIDsUnique
<1>7. RequestsValid'
  <2> HIDE DEF r
  <2> QED
    BY <1>1 DEF IInv, RequestsValid
<1>8. RequestsCurrent'
  <2>1. r.rv <= lastRV /\ (r.rv = 0 => r.uid = 0) /\ r.name = s /\ r.uid = store[s].uid
    BY DEF IInv, VersionsBounded
  <2> HIDE DEF r
  <2> QED
    BY <1>1, <2>1 DEF IInv, RequestsCurrent
<1> QED
  BY <1>5, <1>6, <1>7, <1>8 DEF IInv

LEMMA BroadcastType ==
    ASSUME TypeOK, NEW s \in Subnets, NEW subnet \in Subnet, Broadcast(s, subnet)
    PROVE  watch' \in [Servers -> Seq(Event)]
<1>1. [key |-> s, obj |-> subnet] \in Event
  BY DEF Event
<1>2. \A v \in Servers : watch[v] \in Seq(Event)
  BY DEF TypeOK
<1>3. \A v \in Servers : Append(watch[v], [key |-> s, obj |-> subnet]) \in Seq(Event)
  BY <1>1, <1>2
<1> QED
  BY <1>2, <1>3 DEF Broadcast

\* A request that passed the checks as it was validated is compatible, as a
\* Subnet, with the cache it was validated against.
LEMMA ValidCompatible ==
    ASSUME NEW r \in Request, Validate(r), NEW uid \in Nat,
           r.uid # 0 => uid = r.uid
    PROVE  Compatible(r.name, uid, r.spec, r.seen)
  BY DEF Validate, Request, Compatible, allSubnetsWithVNI, checkSameVNISameNs,
         checkCIDRDoesNotOverlap

LEMMA WriteIInv ==
    ASSUME IInv, NEW r \in requests, Write(r)
    PROVE  IInv'
<1> DEFINE s   == r.name
           new == [uid |-> IF r.uid = 0 THEN lastRV + 1 ELSE r.uid,
                   rv |-> lastRV + 1, spec |-> r.spec]
<1>1. r \in Request /\ Validate(r) /\ lastRV \in Nat
  BY DEF IInv, TypeOK, RequestsValid
<1>2. requests' = requests \ {r} /\ UNCHANGED <<lister, synced, goals, upsets>>
  BY DEF Write
<1>3. CASE store[s].rv # r.rv
  <2>1. UNCHANGED <<store, seen, lastRV, watch>>
    BY <1>3 DEF Write
  <2>2. TypeOK'
    BY <1>2, <2>1 DEF IInv, TypeOK
  <2>3. (StoreCompatible /\ VersionsBounded /\ UIDsUnique)'
    BY <2>1 DEF IInv, StoreCompatible, Compatible, VersionsBounded, UIDsUnique
  <2>4. (RequestsValid /\ RequestsCurrent)'
    BY <1>2, <2>1 DEF IInv, RequestsValid, RequestsCurrent
  <2> QED
    BY <2>2, <2>3, <2>4 DEF IInv
<1>4. CASE store[s].rv = r.rv
  <2>1. /\ store' = [store EXCEPT ![s] = new]
        /\ seen' = [seen EXCEPT ![s] = r.seen]
        /\ lastRV' = lastRV + 1
        /\ Broadcast(s, new)
    BY <1>4 DEF Write
  <2>2. s \in Subnets /\ r.seen \in [Subnets -> Subnet] /\ r.spec \in Specs
        /\ r.uid \in Nat /\ r.rv \in Nat
    BY <1>1 DEF Request
  <2>3. new \in Subnet /\ new.uid \in Nat \ {0} /\ new.uid <= lastRV + 1
        /\ new.rv = lastRV + 1 /\ new.spec = r.spec
        /\ (r.uid # 0 => new.uid = r.uid) /\ (r.uid = 0 => new.uid = lastRV + 1)
    <3>1. store[s].uid = r.uid /\ store[s].uid <= lastRV
      BY <1>4, <2>2 DEF IInv, RequestsCurrent, VersionsBounded
    <3> QED
      BY <1>1, <2>2, <3>1 DEF Subnet
  <2> HIDE DEF new
  <2>4. store \in [Subnets -> Subnet] /\ seen \in [Subnets -> [Subnets -> Subnet]]
    BY DEF IInv, TypeOK
  <2>5. /\ store'[s] = new /\ seen'[s] = r.seen
        /\ \A t \in Subnets : t # s => store'[t] = store[t] /\ seen'[t] = seen[t]
    BY <2>1, <2>2, <2>4
  <2>6. TypeOK'
    <3>1. r.spec.vni \in MinVNI .. MaxVNI /\ r.spec.cidr
      BY <1>1 DEF Validate, checkVNIRange, checkCIDRFormat
    <3>2. watch' \in [Servers -> Seq(Event)]
      BY <2>1, <2>2, <2>3, BroadcastType DEF IInv
    <3>3. \A t \in Subnets : store'[t].uid # 0 => /\ store'[t].spec.vni \in MinVNI .. MaxVNI
                                                  /\ store'[t].spec.cidr
      BY <2>3, <2>5, <3>1 DEF IInv, TypeOK
    <3>4. store' \in [Subnets -> Subnet] /\ seen' \in [Subnets -> [Subnets -> Subnet]]
      BY <2>1, <2>2, <2>3, <2>4
    <3>5. requests' \subseteq Request /\ lastRV' \in Nat
      BY <1>1, <1>2, <2>1 DEF IInv, TypeOK
    <3> QED
      BY <1>2, <3>2, <3>3, <3>4, <3>5 DEF IInv, TypeOK
  <2>7. StoreCompatible'
    <3>1. Compatible(s, new.uid, new.spec, r.seen)
      BY <1>1, <2>3, ValidCompatible
    <3>2. ASSUME NEW t \in Subnets, store'[t].uid # 0
          PROVE  Compatible(t, store'[t].uid, store'[t].spec, seen'[t])
      BY <2>5, <3>1, <3>2 DEF IInv, StoreCompatible
    <3> QED
      BY <3>2 DEF StoreCompatible, Compatible
  <2>8. VersionsBounded'
    <3>1. \A t \in Subnets : store[t].uid \in Nat /\ store[t].rv \in Nat
      BY <2>4 DEF Subnet
    <3> QED
      BY <1>1, <2>1, <2>3, <2>5, <3>1 DEF IInv, VersionsBounded
  <2>9. UIDsUnique'
    <3>1. \A t \in Subnets : t # s => store[t].uid # new.uid
      <4>1. \A t \in Subnets : store[t].uid <= lastRV /\ store[t].uid \in Nat
        BY <2>4 DEF IInv, VersionsBounded, Subnet
      <4>2. CASE r.uid = 0
        BY <1>1, <2>3, <4>1, <4>2
      <4>3. CASE r.uid # 0
        <5>1. store[s].uid = r.uid
          BY <1>4 DEF IInv, RequestsCurrent
        <5> QED
          BY <2>2, <2>3, <4>3, <5>1 DEF IInv, UIDsUnique
      <4> QED
        BY <4>2, <4>3
    <3> QED
      BY <2>5, <3>1 DEF IInv, UIDsUnique
  <2>10. RequestsValid'
    BY <1>2 DEF IInv, RequestsValid
  <2>11. RequestsCurrent'
    <3> SUFFICES ASSUME NEW q \in requests'
                 PROVE  /\ q.rv <= lastRV'
                        /\ q.rv = 0 => q.uid = 0
                        /\ store'[q.name].rv = q.rv => store'[q.name].uid = q.uid
      BY DEF RequestsCurrent
    <3>1. q \in requests /\ q.name \in Subnets /\ q.rv \in Nat /\ q.uid \in Nat
      BY <1>2 DEF IInv, TypeOK, Request
    <3>2. q.rv <= lastRV /\ (q.rv = 0 => q.uid = 0)
          /\ (store[q.name].rv = q.rv => store[q.name].uid = q.uid)
      BY <3>1 DEF IInv, RequestsCurrent
    <3> QED
      BY <1>1, <2>1, <2>3, <2>5, <3>1, <3>2
  <2> QED
    BY <2>6, <2>7, <2>8, <2>9, <2>10, <2>11 DEF IInv
<1> QED
  BY <1>3, <1>4

LEMMA DeleteIInv ==
    ASSUME IInv, NEW s \in Subnets, Delete(s)
    PROVE  IInv'
<1>1. /\ store' = [store EXCEPT ![s] = NoSubnet]
      /\ seen' = [seen EXCEPT ![s] = Nothing]
      /\ Broadcast(s, NoSubnet)
      /\ UNCHANGED <<lastRV, lister, synced, requests, goals>>
      /\ upsets' \in Nat
  BY DEF Delete, IInv, TypeOK
<1>2. store \in [Subnets -> Subnet] /\ seen \in [Subnets -> [Subnets -> Subnet]]
  BY DEF IInv, TypeOK
<1>3. /\ store'[s] = NoSubnet /\ seen'[s] = Nothing
      /\ \A t \in Subnets : t # s => store'[t] = store[t] /\ seen'[t] = seen[t]
  BY <1>1, <1>2
<1>4. NoSubnet.uid = 0 /\ NoSubnet.rv = 0
  BY DEF NoSubnet
<1>5. TypeOK'
  <2>1. watch' \in [Servers -> Seq(Event)]
    BY <1>1, NothingType, BroadcastType DEF IInv
  <2>2. \A t \in Subnets : store'[t].uid # 0 => /\ store'[t].spec.vni \in MinVNI .. MaxVNI
                                                /\ store'[t].spec.cidr
    BY <1>3, <1>4 DEF IInv, TypeOK
  <2>3. store' \in [Subnets -> Subnet] /\ seen' \in [Subnets -> [Subnets -> Subnet]]
    BY <1>1, <1>2, NothingType
  <2> QED
    BY <1>1, <2>1, <2>2, <2>3 DEF IInv, TypeOK
<1>6. StoreCompatible'
  <2>1. ASSUME NEW t \in Subnets, store'[t].uid # 0
        PROVE  Compatible(t, store'[t].uid, store'[t].spec, seen'[t])
    BY <1>3, <1>4, <2>1 DEF IInv, StoreCompatible
  <2> QED
    BY <2>1 DEF StoreCompatible, Compatible
<1>7. VersionsBounded' /\ UIDsUnique'
  <2>1. lastRV \in Nat
    BY DEF IInv, TypeOK
  <2> QED
    BY <1>1, <1>3, <1>4, <2>1 DEF IInv, VersionsBounded, UIDsUnique
<1>8. RequestsValid'
  BY <1>1 DEF IInv, RequestsValid
<1>9. RequestsCurrent'
  <2>1. \A r \in requests : r.name \in Subnets
    BY DEF IInv, TypeOK, Request
  <2> QED
    BY <1>1, <1>3, <1>4, <2>1 DEF IInv, RequestsCurrent
<1> QED
  BY <1>5, <1>6, <1>7, <1>8, <1>9 DEF IInv

\* The other steps leave the store alone and add no request.
LEMMA QuietIInv ==
    ASSUME IInv, TypeOK', UNCHANGED <<store, seen, lastRV>>, requests' \subseteq requests
    PROVE  IInv'
<1>1. (StoreCompatible /\ VersionsBounded /\ UIDsUnique)'
  BY DEF IInv, StoreCompatible, Compatible, VersionsBounded, UIDsUnique
<1>2. (RequestsValid /\ RequestsCurrent)'
  BY DEF IInv, RequestsValid, RequestsCurrent
<1> QED
  BY <1>1, <1>2 DEF IInv

LEMMA InformerIInv ==
    ASSUME IInv, NEW v \in Servers, Notify(v) \/ Restart(v) \/ Sync(v)
    PROVE  IInv'
<1>1. CASE Notify(v)
  <2>1. Head(watch[v]) \in Event /\ Tail(watch[v]) \in Seq(Event)
    <3>1. watch[v] \in Seq(Event) /\ watch[v] # <<>>
      BY <1>1 DEF Notify, IInv, TypeOK
    <3> QED
      BY <3>1
  <2>2. Head(watch[v]).key \in Subnets /\ Head(watch[v]).obj \in Subnet
    BY <2>1 DEF Event
  <2>3. TypeOK'
    BY <1>1, <2>1, <2>2 DEF Notify, IInv, TypeOK
  <2> QED
    BY <1>1, <2>3, QuietIInv DEF Notify
<1>2. CASE Restart(v)
  <2>1. requests' \subseteq requests /\ upsets' \in Nat /\ synced' \subseteq Servers
    BY <1>2 DEF Restart, IInv, TypeOK
  <2>2. /\ lister' \in [Servers -> [Subnets -> Subnet]]
        /\ watch' \in [Servers -> Seq(Event)]
    BY <1>2, NothingType DEF Restart, IInv, TypeOK
  <2>3. UNCHANGED <<store, seen, lastRV, goals>>
    BY <1>2 DEF Restart
  <2>4. TypeOK'
    BY <2>1, <2>2, <2>3 DEF IInv, TypeOK
  <2> QED
    BY <2>1, <2>3, <2>4, QuietIInv
<1>3. CASE Sync(v)
  <2>1. TypeOK'
    BY <1>3 DEF Sync, IInv, TypeOK
  <2> QED
    BY <1>3, <2>1, QuietIInv DEF Sync
<1> QED
  BY <1>1, <1>2, <1>3

LEMMA ChangeGoalsIInv ==
    ASSUME IInv, ChangeGoals
    PROVE  IInv'
<1>1. goals \in Seq(Goals) /\ Len(goals) > 1
  BY DEF ChangeGoals, IInv, TypeOK
<1>2. Tail(goals) \in Seq(Goals) /\ Tail(goals) # <<>>
  <2>1. Tail(goals) \in Seq(Goals) /\ Len(Tail(goals)) = Len(goals) - 1
    BY <1>1
  <2>2. Len(Tail(goals)) # Len(<<>>)
    <3>1. Len(goals) \in Nat /\ Len(<<>>) = 0
      BY <1>1
    <3> QED
      BY <1>1, <2>1, <3>1
  <2> QED
    BY <2>1, <2>2, Zenon
<1>3. TypeOK'
  BY <1>2 DEF ChangeGoals, IInv, TypeOK
<1> QED
  BY <1>3, QuietIInv DEF ChangeGoals

LEMMA NextIInv == IInv /\ [Next]_vars => IInv'
<1> SUFFICES ASSUME IInv, [Next]_vars PROVE IInv'
  OBVIOUS
<1>1. CASE UNCHANGED vars
  <2>1. TypeOK'
    BY <1>1 DEF vars, IInv, TypeOK
  <2> QED
    BY <1>1, <2>1, QuietIInv DEF vars
<1>2. CASE Next
  BY <1>2, AdmitIInv, WriteIInv, DeleteIInv, ChangeGoalsIInv, InformerIInv DEF Next
<1> QED
  BY <1>1, <1>2

LEMMA IInvConflictsUnseen == IInv => ConflictsUnseen
<1> SUFFICES ASSUME IInv, NEW s \in Subnets, NEW t \in Subnets, s # t,
                    store[s].uid # 0, store[t].uid # 0, seen[s][t] = store[t]
             PROVE  ~InConflict(s, t, store[s].spec, store[t].spec)
  BY DEF ConflictsUnseen
<1>1. store[t].uid # store[s].uid
  BY DEF IInv, UIDsUnique
<1>2. Compatible(s, store[s].uid, store[s].spec, seen[s])
  BY DEF IInv, StoreCompatible
<1> QED
  BY <1>1, <1>2 DEF Compatible, InConflict

\* For every set of servers, Subnets and goals, and however many requests are in
\* flight: two stored Subnets that break the rule for Subnets of one VNI were
\* each admitted by a server whose cache (subnetLister) did not hold the other
\* in its present revision.
THEOREM OnlyUnseenConflicts == Spec => []ConflictsUnseen
<1>1. Init => IInv
  BY InitIInv
<1>2. IInv /\ [Next]_vars => IInv'
  BY NextIInv
<1>3. IInv => ConflictsUnseen
  BY IInvConflictsUnseen
<1> QED
  BY <1>1, <1>2, <1>3, PTL DEF Spec

\* What admission lets into the store is of the right type: the VNI is in range
\* and the CIDR block parses.
THEOREM RegistryTypeCorrect == Spec => []TypeOK
<1>1. Init => IInv
  BY InitIInv
<1>2. IInv /\ [Next]_vars => IInv'
  BY NextIInv
<1>3. IInv => TypeOK
  BY DEF IInv
<1> QED
  BY <1>1, <1>2, <1>3, PTL DEF Spec
=============================================================================
