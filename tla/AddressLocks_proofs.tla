------------------------- MODULE AddressLocks_proofs --------------------------
(***************************************************************************)
(* The address cache and the names of IPLocks, for every value of the       *)
(* constants.                                                               *)
(*                                                                          *)
(* The names: for every VNI a Subnet may have and every IPv4 address, the   *)
(* name of a lock identifies what is locked.                                *)
(*                                                                          *)
(* The cache: the run list represents the set, for words of any width.      *)
(* Adding a number replaces the runs next to it by one run (Joined);        *)
(* removing one replaces its run by what is left of it on either side.      *)
(*                                                                          *)
(* The lists of locks: Best and AddListFunc fold a list from the left, and  *)
(* what they make of its first k locks follows from the first k - 1.        *)
(***************************************************************************)
EXTENDS AddressLocks, FiniteSetTheorems, WellFoundedInduction, TLAPS

-----------------------------------------------------------------------------
(* The names of locks.                                                      *)

\* The numbers of 32 bits.
Uint32 == {n \in Nat : n \div 16777216 \in Byte}

\* The last byte of a number and the rest.
LEMMA LastByte ==
    ASSUME NEW x \in Nat
    PROVE  x \div 256 \in Nat /\ x = 256 * (x \div 256) + (x % 256) /\ x % 256 \in Byte
BY SMT DEF Byte

\* A number is made of its four bytes.
LEMMA BytesOfNumber ==
    ASSUME NEW n \in Uint32
    PROVE  /\ n \div 16777216 \in Byte /\ (n \div 16777216) % 256 = n \div 16777216
           /\ (n \div 65536) % 256 \in Byte /\ (n \div 256) % 256 \in Byte
           /\ n % 256 \in Byte
           /\ n = (n \div 16777216) * 16777216 + ((n \div 65536) % 256) * 65536
                    + ((n \div 256) % 256) * 256 + (n % 256)
<1> DEFINE q1 == n \div 256
           q2 == n \div 65536
           q3 == n \div 16777216
<1>1. n \in Nat /\ q3 \in Byte
  BY SMT DEF Uint32
<1>2. q2 = q1 \div 256 /\ q3 = q2 \div 256
  BY <1>1, SMT
<1>3. q1 \in Nat /\ n = 256 * q1 + (n % 256) /\ n % 256 \in Byte
  BY <1>1, LastByte, SMT
<1> HIDE DEF q1, q2, q3
<1>4. q2 \in Nat /\ q1 = 256 * q2 + (q1 % 256) /\ q1 % 256 \in Byte
  BY <1>2, <1>3, LastByte, SMT
<1>5. q3 \in Nat /\ q2 = 256 * q3 + (q2 % 256) /\ q2 % 256 \in Byte
  BY <1>2, <1>4, LastByte, SMT
<1>6. q3 % 256 = q3
  BY <1>1, SMT DEF Byte
<1>7. n = q3 * 16777216 + (q2 % 256) * 65536 + (q1 % 256) * 256 + (n % 256)
  BY <1>3, <1>4, <1>5, SMT DEF Byte
<1> QED
  BY <1>1, <1>3, <1>4, <1>5, <1>6, <1>7, SMT DEF q1, q2, q3

\* In either length of a net.IP the four bytes are those of the number.
LEMMA To4Forms ==
    ASSUME NEW n \in Uint32
    PROVE  /\ To4(Uint32ToIPv4(n)) = MakeIPv4FromUint32(n)
           /\ To4(MakeIPv4FromUint32(n)) = MakeIPv4FromUint32(n)
BY SMT DEF To4, Uint32ToIPv4, MakeIPv4FromUint32, IPv4

\* The VNIs that a Subnet may have are the numbers of 21 bits but 0.
LEMMA VNIWidth == \A vni \in ValidVNI : vni \in Nat /\ vni < 2097152
BY SMT DEF ValidVNI, MinVNI, MaxVNI

\* A name made for one of the VNIs and an address is well formed, and parsing it
\* gives them back.
LEMMA ParseOfName ==
    ASSUME NEW vni \in ValidVNI, NEW n \in Uint32, NEW ip,
           To4(ip) = MakeIPv4FromUint32(n)
    PROVE  parseIPLockName(makeIPLockName2(vni, ip))
             = [ok |-> TRUE, VNI |-> vni, addrU |-> n]
<1> DEFINE b1 == n \div 16777216
           b2 == (n \div 65536) % 256
           b3 == (n \div 256) % 256
           b4 == n % 256
           name == <<"v1", vni, b1, b2, b3, b4>>
<1>1. /\ b1 \in Byte /\ b2 \in Byte /\ b3 \in Byte /\ b4 \in Byte
      /\ b1 % 256 = b1
      /\ n = b1 * 16777216 + b2 * 65536 + b3 * 256 + b4
  BY BytesOfNumber, SMT
<1>2. makeIPLockName2(vni, ip) = name
  BY <1>1, SMT DEF makeIPLockName2, MakeIPv4FromUint32
<1> HIDE DEF b1, b2, b3, b4
<1>3. /\ Len(name) = 6 /\ name[1] = "v1" /\ name[2] = vni
      /\ name[3] = b1 /\ name[4] = b2 /\ name[5] = b3 /\ name[6] = b4
  BY SMT
<1> HIDE DEF name
<1>4. Fits(name[2], 2097152)
  <2>1. vni \in Nat /\ vni < 2097152
    BY VNIWidth, SMT
  <2> QED
    BY <2>1, <1>3, SMT DEF Fits
<1>5. ASSUME NEW i \in 3 .. 6
      PROVE  Fits(name[i], 256)
  <2>1. i = 3 \/ i = 4 \/ i = 5 \/ i = 6
    BY SMT
  <2> QED
    BY <2>1, <1>1, <1>3, SMT DEF Fits, Byte
<1> DEFINE addr == ((name[3] * 256 + name[4]) * 256 + name[5]) * 256 + name[6]
<1>6. addr = n
  BY <1>1, <1>3, SMT DEF Byte
<1>7. parseIPLockName(name)
        = [ok |-> TRUE, VNI |-> name[2], addrU |-> addr]
  BY <1>3, <1>4, <1>5, SMT DEF parseIPLockName
<1> HIDE DEF addr
<1>8. name[2] = vni
  BY <1>3, SMT
<1> QED
  BY <1>2, <1>6, <1>7, <1>8, Zenon

\* For every VNI that a Subnet may have and every IPv4 address, in either length
\* of a net.IP, parseIPLockName inverts makeIPLockName2: the slot <<VNI, address>>
\* that IPAM uses for a lock is what the controller gets from the lock's name.
THEOREM NamesRoundTrip ==
    \A vni \in ValidVNI, n \in Uint32 :
       /\ parseIPLockName(makeIPLockName2(vni, Uint32ToIPv4(n)))
             = [ok |-> TRUE, VNI |-> vni, addrU |-> n]
       /\ parseIPLockName(makeIPLockName2(vni, MakeIPv4FromUint32(n)))
             = [ok |-> TRUE, VNI |-> vni, addrU |-> n]
BY To4Forms, ParseOfName, SMT

\* No two slots share the name of a lock, so that at most one lock exists on an
\* address of a virtual network.
THEOREM NamesDistinct ==
    \A v, w \in ValidVNI, m, n \in Uint32 :
       makeIPLockName2(v, Uint32ToIPv4(m)) = makeIPLockName2(w, Uint32ToIPv4(n))
          => v = w /\ m = n
<1> SUFFICES ASSUME NEW v \in ValidVNI, NEW w \in ValidVNI,
                    NEW m \in Uint32, NEW n \in Uint32,
                    makeIPLockName2(v, Uint32ToIPv4(m)) = makeIPLockName2(w, Uint32ToIPv4(n))
             PROVE  v = w /\ m = n
  BY SMT
<1>1. [ok |-> TRUE, VNI |-> v, addrU |-> m] = [ok |-> TRUE, VNI |-> w, addrU |-> n]
  BY NamesRoundTrip, Zenon
<1> QED
  BY <1>1, SMT

-----------------------------------------------------------------------------
(* The runs of the cache.                                                   *)

IInv == TypeOK /\ Represents

-----------------------------------------------------------------------------

LEMMA InExport ==
    ASSUME NEW rs, NEW x
    PROVE  x \in Export(rs) <=> \E r \in rs : x \in r.first .. r.last
  BY DEF Export

\* Find finds a run iff there is a run with x in it, and that run.
LEMMA FindRun ==
    ASSUME NEW rs \in SUBSET Run, Canonical(rs), NEW x \in Values,
           NEW r \in rs, x \in r.first .. r.last
    PROVE  Find(rs, x) = {r}
<1>1. r.first \in Int /\ r.last \in Int /\ x \in Int
  BY LastAssumption DEF Run, Values
<1>2. \A q \in rs : q.first \in Int /\ q.last \in Int /\ q.first <= q.last
  BY LastAssumption DEF Run, Values, Canonical
<1>3. \A q \in rs : q # r => q.last + 1 < r.first \/ r.last + 1 < q.first
  BY DEF Canonical
<1>4. CASE r.first = x
  <2>1. \A q \in rs : q.first = x => q = r
    BY <1>1, <1>2, <1>3, <1>4
  <2> QED
    BY <1>4, <2>1 DEF Find
<1>5. CASE r.first # x
  <2>1. r.first < x /\ x <= r.last
    BY <1>1, <1>5
  <2>2. \A q \in rs : q.first # x
    BY <1>1, <1>2, <1>3, <2>1
  <2>3. \A q \in rs : q.first < x => q.first <= r.first
    BY <1>1, <1>2, <1>3, <2>1
  <2>4. Before(rs, x) = {r}
    <3>1. r \in Before(rs, x)
      BY <2>1, <2>3 DEF Before
    <3>2. ASSUME NEW q \in Before(rs, x) PROVE q = r
      <4>1. q \in rs /\ q.first < x /\ r.first <= q.first
        BY <2>1 DEF Before
      <4> QED
        BY <1>1, <1>2, <1>3, <2>1, <4>1
    <3> QED
      BY <3>1, <3>2
  <2> QED
    BY <2>1, <2>2, <2>4 DEF Find
<1> QED
  BY <1>4, <1>5

LEMMA FindMember ==
    ASSUME NEW rs \in SUBSET Run, Canonical(rs), NEW x \in Values
    PROVE  Find(rs, x) = {} <=> x \notin Export(rs)
<1>1. CASE x \in Export(rs)
  BY <1>1, FindRun, InExport
<1>2. CASE x \notin Export(rs)
  <2>1. \A r \in rs : /\ r.first \in Int /\ r.last \in Int /\ r.first <= r.last
                      /\ x \in Int /\ ~(r.first <= x /\ x <= r.last)
    BY <1>2, InExport, LastAssumption DEF Run, Values, Canonical
  <2>2. \A r \in rs : r.first # x
    BY <2>1
  <2>3. \A r \in Before(rs, x) : ~(x <= r.last)
    BY <2>1 DEF Before
  <2> QED
    BY <1>2, <2>2, <2>3 DEF Find
<1> QED
  BY <1>1, <1>2

\* Some runs, and x, which is in none, make up the numbers from lo to hi, and
\* there is a gap between these and the other runs.
Joins(rs, x, gone, lo, hi) ==
    /\ gone \subseteq rs /\ lo \in Values /\ hi \in Values /\ lo <= x /\ x <= hi
    /\ \A y \in lo .. hi : y = x \/ \E r \in gone : y \in r.first .. r.last
    /\ \A r \in gone : lo <= r.first /\ r.last <= hi
    /\ \A r \in rs \ gone : r.last + 1 < lo \/ hi + 1 < r.first

\* Then one run in their place has their members and x.
LEMMA Joined ==
    ASSUME NEW rs \in SUBSET Run, Canonical(rs), NEW x \in Values, x \notin Export(rs),
           NEW gone, NEW lo, NEW hi, Joins(rs, x, gone, lo, hi),
           NEW new, new = (rs \ gone) \cup {[first |-> lo, last |-> hi]}
    PROVE  /\ new \subseteq Run
           /\ Canonical(new)
           /\ Export(new) = Export(rs) \cup {x}
<1> USE DEF Joins
<1> DEFINE j == [first |-> lo, last |-> hi]
<1>1. j \in Run /\ j.first = lo /\ j.last = hi
  BY DEF Run
<1>2. new \subseteq Run
  BY <1>1
<1>3. lo \in Int /\ hi \in Int /\ x \in Int /\ lo <= hi
  BY LastAssumption DEF Values
<1>4. \A r \in rs : r.first \in Int /\ r.last \in Int /\ r.first <= r.last
  BY LastAssumption DEF Run, Values, Canonical
<1> HIDE DEF j
<1>5. Canonical(new)
  <2>1. \A r \in new : r.first <= r.last
    BY <1>1, <1>3, <1>4 DEF j
  <2>2. ASSUME NEW q \in new, NEW r \in new, q # r
        PROVE  q.last + 1 < r.first \/ r.last + 1 < q.first
    <3>1. CASE q = j
      BY <1>1, <2>2, <3>1 DEF j
    <3>2. CASE r = j
      BY <1>1, <2>2, <3>2 DEF j
    <3>3. CASE q # j /\ r # j
      BY <2>2, <3>3 DEF j, Canonical
    <3> QED
      BY <3>1, <3>2, <3>3
  <2> QED
    BY <2>1, <2>2 DEF Canonical
<1>6. ASSUME NEW y PROVE y \in Export(new) <=> y \in Export(rs) \cup {x}
  <2>1. ASSUME y \in Export(new) PROVE y \in Export(rs) \cup {x}
    <3>1. PICK r \in new : y \in r.first .. r.last
      BY <2>1, InExport
    <3>2. CASE r = j
      BY <1>1, <3>1, <3>2, InExport
    <3>3. CASE r # j
      BY <3>1, <3>3, InExport DEF j
    <3> QED
      BY <3>2, <3>3
  <2>2. ASSUME y \in Export(rs) \cup {x} PROVE y \in Export(new)
    <3>1. CASE y = x
      <4>1. j \in new /\ x \in j.first .. j.last
        BY <1>1, <1>3 DEF j
      <4> QED
        BY <3>1, <4>1, InExport
    <3>2. CASE y \in Export(rs)
      <4>1. PICK r \in rs : y \in r.first .. r.last
        BY <3>2, InExport
      <4>2. CASE r \in gone
        <5>1. j \in new /\ y \in j.first .. j.last
          BY <1>1, <1>3, <1>4, <4>1, <4>2 DEF j
        <5> QED
          BY <5>1, InExport
      <4>3. CASE r \notin gone
        BY <4>1, <4>3, InExport
      <4> QED
        BY <4>2, <4>3
    <3> QED
      BY <2>2, <3>1, <3>2
  <2> QED
    BY <2>1, <2>2
<1> QED
  BY <1>2, <1>5, <1>6

\* The neighbours that Add merges x with.
LEMMA Neighbours ==
    ASSUME NEW rs \in SUBSET Run, Canonical(rs), NEW x \in Values, x \notin Export(rs)
    PROVE  /\ \A r \in rs : r.last < x \/ x < r.first
           /\ {r \in Before(rs, x) : Inc(r.last) = x} = {r \in rs : r.last + 1 = x}
           /\ {r \in After(rs, x) : Inc(x) = r.first} = {r \in rs : x + 1 = r.first}
<1>1. \A r \in rs : /\ r.first \in Int /\ r.last \in Int /\ r.first <= r.last
                    /\ 0 <= r.first /\ r.last <= Last
  BY LastAssumption DEF Run, Values, Canonical
<1>2. x \in Int /\ 0 <= x /\ x <= Last /\ Last \in Int
  BY LastAssumption DEF Values
<1>3. \A r \in rs : r.last < x \/ x < r.first
  <2>1. \A r \in rs : ~(r.first <= x /\ x <= r.last)
    BY <1>1, <1>2, InExport
  <2> QED
    BY <1>1, <1>2, <2>1
<1>4. \A q, r \in rs : q # r => q.last + 1 < r.first \/ r.last + 1 < q.first
  BY DEF Canonical
<1>5. ASSUME NEW r \in rs
      PROVE  r \in Before(rs, x) /\ Inc(r.last) = x <=> r.last + 1 = x
  <2>1. ASSUME r.last + 1 = x PROVE r \in Before(rs, x) /\ Inc(r.last) = x
    <3>1. r.first < x /\ \A q \in rs : q.first < x => q.first <= r.first
      BY <1>1, <1>2, <1>3, <1>4, <2>1
    <3>2. Inc(r.last) = x
      BY <1>1, <1>2, <2>1 DEF Inc
    <3> QED
      BY <3>1, <3>2 DEF Before
  <2>2. ASSUME r \in Before(rs, x), Inc(r.last) = x PROVE r.last + 1 = x
    BY <1>1, <1>2, <2>2 DEF Before, Inc
  <2> QED
    BY <2>1, <2>2
<1>6. ASSUME NEW r \in rs
      PROVE  r \in After(rs, x) /\ Inc(x) = r.first <=> x + 1 = r.first
  <2>1. ASSUME x + 1 = r.first PROVE r \in After(rs, x) /\ Inc(x) = r.first
    <3>1. r.first > x /\ \A q \in rs : q.first > x => r.first <= q.first
      BY <1>1, <1>2, <1>3, <1>4, <2>1
    <3>2. Inc(x) = r.first
      BY <1>1, <1>2, <2>1 DEF Inc
    <3> QED
      BY <3>1, <3>2 DEF After
  <2>2. ASSUME r \in After(rs, x), Inc(x) = r.first PROVE x + 1 = r.first
    BY <1>1, <1>2, <2>2 DEF After, Inc
  <2> QED
    BY <2>1, <2>2
<1>7. Before(rs, x) \subseteq rs /\ After(rs, x) \subseteq rs
  BY DEF Before, After
<1> QED
  BY <1>3, <1>5, <1>6, <1>7

\* Updating the node of a run replaces the run.
LEMMA UpdateNode ==
    ASSUME NEW rs \in SUBSET Run, Canonical(rs), NEW r \in rs
    PROVE  /\ RemoveNode(rs, r.first) = rs \ {r}
           /\ \A hi : AddOrUpdate(rs, r.first, hi)
                        = (rs \ {r}) \cup {[first |-> r.first, last |-> hi]}
<1>1. \A q \in rs : q.first = r.first => q = r
  <2>1. \A q \in rs : q.first \in Int /\ q.last \in Int /\ q.first <= q.last
    BY LastAssumption DEF Run, Values, Canonical
  <2> QED
    BY <2>1 DEF Canonical
<1>2. RemoveNode(rs, r.first) = rs \ {r}
  BY <1>1 DEF RemoveNode
<1> QED
  BY <1>2 DEF AddOrUpdate

LEMMA SubsetCanonical ==
    ASSUME NEW rs \in SUBSET Run, Canonical(rs), NEW part \in SUBSET rs
    PROVE  part \in SUBSET Run /\ Canonical(part)
  BY DEF Canonical

LEMMA NewNode ==
    ASSUME NEW rs, NEW x, \A r \in rs : r.first # x, NEW hi
    PROVE  AddOrUpdate(rs, x, hi) = rs \cup {[first |-> x, last |-> hi]}
  BY DEF AddOrUpdate, RemoveNode

LEMMA AddedRuns ==
    ASSUME NEW rs \in SUBSET Run, Canonical(rs), NEW x \in Values, x \notin Export(rs)
    PROVE  /\ Added(rs, x) \subseteq Run
           /\ Canonical(Added(rs, x))
           /\ Export(Added(rs, x)) = Export(rs) \cup {x}
<1> DEFINE prev == {r \in rs : r.last + 1 = x}
           next == {r \in rs : x + 1 = r.first}
           new  == Added(rs, x)
<1>1. \A r \in rs : r.last < x \/ x < r.first
  BY Neighbours
<1>2. new = CASE prev # {} /\ next # {} ->
                   LET p == CHOOSE r \in prev : TRUE
                       n == CHOOSE r \in next : TRUE
                   IN AddOrUpdate(RemoveNode(rs, n.first), p.first, n.last)
              [] prev # {} /\ next = {} ->
                   AddOrUpdate(rs, (CHOOSE r \in prev : TRUE).first, x)
              [] prev = {} /\ next # {} ->
                   LET n == CHOOSE r \in next : TRUE
                   IN AddOrUpdate(RemoveNode(rs, n.first), x, n.last)
              [] OTHER -> AddOrUpdate(rs, x, x)
  BY Neighbours, Zenon DEF Added
<1>3. \A r \in rs : /\ r.first \in Values /\ r.last \in Values /\ r.first <= r.last
                    /\ r.first \in Int /\ r.last \in Int
  BY LastAssumption DEF Run, Values, Canonical
<1>4. x \in Int
  BY LastAssumption DEF Values
<1>5. \A q, r \in rs : q # r => q.last + 1 < r.first \/ r.last + 1 < q.first
  BY DEF Canonical
<1>6. CASE prev # {} /\ next # {}
  <2> DEFINE p == CHOOSE r \in prev : TRUE
             n == CHOOSE r \in next : TRUE
  <2>1. p \in rs /\ p.last + 1 = x /\ n \in rs /\ x + 1 = n.first
    <3>1. p \in prev /\ n \in next
      BY <1>6
    <3> HIDE DEF p, n
    <3> QED
      BY <3>1
  <2>2. new = AddOrUpdate(RemoveNode(rs, n.first), p.first, n.last)
    <3> HIDE DEF new, prev, next
    <3> QED
      BY <1>2, <1>6, Zenon
  <2> HIDE DEF p, n, new
  <2>3. p # n
    BY <1>3, <1>4, <2>1
  <2>4. RemoveNode(rs, n.first) = rs \ {n}
    BY <2>1, UpdateNode
  <2>5. AddOrUpdate(rs \ {n}, p.first, n.last)
          = ((rs \ {n}) \ {p}) \cup {[first |-> p.first, last |-> n.last]}
    <3>1. rs \ {n} \in SUBSET Run /\ Canonical(rs \ {n})
      BY SubsetCanonical
    <3> QED
      BY <2>1, <2>3, <3>1, UpdateNode
  <2>6. new = (rs \ {p, n}) \cup {[first |-> p.first, last |-> n.last]}
    BY <2>2, <2>4, <2>5
  <2>7. p.first \in Values /\ n.last \in Values /\ p.first <= x /\ x <= n.last
    BY <1>3, <1>4, <2>1
  <2>8. \A y \in p.first .. n.last : y = x \/ \E r \in {p, n} : y \in r.first .. r.last
    BY <1>3, <1>4, <2>1
  <2>9. \A r \in {p, n} : p.first <= r.first /\ r.last <= n.last
    BY <1>3, <1>4, <2>1
  <2>10. \A r \in rs \ {p, n} : r.last + 1 < p.first \/ n.last + 1 < r.first
    BY <1>1, <1>3, <1>4, <1>5, <2>1
  <2>11. Joins(rs, x, {p, n}, p.first, n.last)
    BY <2>1, <2>7, <2>8, <2>9, <2>10 DEF Joins
  <2>12. new \subseteq Run /\ Canonical(new) /\ Export(new) = Export(rs) \cup {x}
    BY <2>6, <2>11, Joined
  <2> QED
    BY <2>12 DEF new
<1>7. CASE prev # {} /\ next = {}
  <2> DEFINE p == CHOOSE r \in prev : TRUE
  <2>1. p \in rs /\ p.last + 1 = x
    <3>1. p \in prev
      BY <1>7
    <3> HIDE DEF p
    <3> QED
      BY <3>1
  <2>2. new = AddOrUpdate(rs, p.first, x)
    <3> HIDE DEF new, prev, next
    <3> QED
      BY <1>2, <1>7, Zenon
  <2>3. \A r \in rs : x + 1 # r.first
    BY <1>7
  <2> HIDE DEF p, new
  <2>4. new = (rs \ {p}) \cup {[first |-> p.first, last |-> x]}
    BY <2>1, <2>2, UpdateNode
  <2>5. p.first \in Values /\ p.first <= x /\ x <= x
    BY <1>3, <1>4, <2>1
  <2>6. \A y \in p.first .. x : y = x \/ \E r \in {p} : y \in r.first .. r.last
    BY <1>3, <1>4, <2>1
  <2>7. \A r \in {p} : p.first <= r.first /\ r.last <= x
    BY <1>3, <1>4, <2>1
  <2>8. \A r \in rs \ {p} : r.last + 1 < p.first \/ x + 1 < r.first
    BY <1>1, <1>3, <1>4, <1>5, <2>1, <2>3
  <2>9. Joins(rs, x, {p}, p.first, x)
    BY <2>1, <2>5, <2>6, <2>7, <2>8 DEF Joins
  <2>10. new \subseteq Run /\ Canonical(new) /\ Export(new) = Export(rs) \cup {x}
    BY <2>4, <2>9, Joined
  <2> QED
    BY <2>10 DEF new
<1>8. CASE prev = {} /\ next # {}
  <2> DEFINE n == CHOOSE r \in next : TRUE
  <2>1. n \in rs /\ x + 1 = n.first
    <3>1. n \in next
      BY <1>8
    <3> HIDE DEF n
    <3> QED
      BY <3>1
  <2>2. new = AddOrUpdate(RemoveNode(rs, n.first), x, n.last)
    <3> HIDE DEF new, prev, next
    <3> QED
      BY <1>2, <1>8, Zenon
  <2>3. \A r \in rs : r.last + 1 # x
    BY <1>8
  <2> HIDE DEF n, new
  <2>4. RemoveNode(rs, n.first) = rs \ {n}
    BY <2>1, UpdateNode
  <2>5. \A r \in rs \ {n} : r.first # x
    BY <1>1, <1>3, <1>4
  <2>6. new = (rs \ {n}) \cup {[first |-> x, last |-> n.last]}
    BY <2>2, <2>4, <2>5, NewNode
  <2>7. n.last \in Values /\ x <= x /\ x <= n.last
    BY <1>3, <1>4, <2>1
  <2>8. \A y \in x .. n.last : y = x \/ \E r \in {n} : y \in r.first .. r.last
    BY <1>3, <1>4, <2>1
  <2>9. \A r \in {n} : x <= r.first /\ r.last <= n.last
    BY <1>3, <1>4, <2>1
  <2>10. \A r \in rs \ {n} : r.last + 1 < x \/ n.last + 1 < r.first
    BY <1>1, <1>3, <1>4, <1>5, <2>1, <2>3
  <2>11. Joins(rs, x, {n}, x, n.last)
    BY <2>1, <2>7, <2>8, <2>9, <2>10 DEF Joins
  <2>12. new \subseteq Run /\ Canonical(new) /\ Export(new) = Export(rs) \cup {x}
    BY <2>6, <2>11, Joined
  <2> QED
    BY <2>12 DEF new
<1>9. CASE prev = {} /\ next = {}
  <2>1. new = AddOrUpdate(rs, x, x)
    <3> HIDE DEF new, prev, next
    <3> QED
      BY <1>2, <1>9, Zenon
  <2>2. \A r \in rs : r.last + 1 # x /\ x + 1 # r.first
    BY <1>9
  <2> HIDE DEF new
  <2>3. \A r \in rs : r.first # x
    BY <1>1, <1>3, <1>4
  <2>4. new = (rs \ {}) \cup {[first |-> x, last |-> x]}
    BY <2>1, <2>3, NewNode
  <2>5. x <= x /\ (\A y \in x .. x : y = x)
    BY <1>4
  <2>6. \A r \in rs \ {} : r.last + 1 < x \/ x + 1 < r.first
    BY <1>1, <1>3, <1>4, <2>2
  <2>7. Joins(rs, x, {}, x, x)
    BY <2>5, <2>6 DEF Joins
  <2>8. new \subseteq Run /\ Canonical(new) /\ Export(new) = Export(rs) \cup {x}
    BY <2>4, <2>7, Joined
  <2> QED
    BY <2>8 DEF new
<1> QED
  BY <1>6, <1>7, <1>8, <1>9

LEMMA RemovedRuns ==
    ASSUME NEW rs \in SUBSET Run, Canonical(rs), NEW x \in Values, x \in Export(rs)
    PROVE  /\ Removed(rs, x) \subseteq Run
           /\ Canonical(Removed(rs, x))
           /\ Export(Removed(rs, x)) = Export(rs) \ {x}
<1>1. PICK r \in rs : x \in r.first .. r.last
  BY InExport
<1>2. Find(rs, x) = {r}
  BY <1>1, FindRun
<1> DEFINE left  == IF r.first = x THEN {} ELSE {[first |-> r.first, last |-> x - 1]}
           right == IF x = r.last THEN {} ELSE {[first |-> x + 1, last |-> r.last]}
           new   == Removed(rs, x)
<1>3. \A q \in rs : /\ q.first \in Values /\ q.last \in Values /\ q.first <= q.last
                    /\ q.first \in Int /\ q.last \in Int
                    /\ 0 <= q.first /\ q.last <= Last
  BY LastAssumption DEF Run, Values, Canonical
<1>4. x \in Int /\ 0 <= x /\ x <= Last /\ Last \in Int /\ r.first <= x /\ x <= r.last
  BY <1>1, <1>3, LastAssumption DEF Values
<1>5. \A q, s \in rs : q # s => q.last + 1 < s.first \/ s.last + 1 < q.first
  BY DEF Canonical
<1>6. new = ((rs \ {r}) \cup left) \cup right
  <2> DEFINE head == IF r.first = x THEN RemoveNode(rs, x)
                                    ELSE AddOrUpdate(rs, r.first, Dec(x))
  <2>1. new = IF x = r.last THEN head ELSE AddOrUpdate(head, Inc(x), r.last)
    <3>1. (CHOOSE q \in {r} : TRUE) = r
      OBVIOUS
    <3> QED
      BY <1>2, <3>1 DEF Removed
  <2>2. head = (rs \ {r}) \cup left
    <3>1. r.first # x => Dec(x) = x - 1
      BY <1>3, <1>4 DEF Dec
    <3> QED
      BY <3>1, UpdateNode
  <2>3. ASSUME x # r.last
        PROVE  AddOrUpdate(head, Inc(x), r.last) = head \cup right
    <3>1. Inc(x) = x + 1
      BY <1>3, <1>4, <2>3 DEF Inc
    <3>2. \A q \in head : q.first # x + 1
      <4>1. \A q \in rs \ {r} : q.first # x + 1
        BY <1>3, <1>4, <1>5
      <4>2. \A q \in left : q.first = r.first
        OBVIOUS
      <4>3. r.first # x + 1
        BY <1>3, <1>4
      <4> QED
        BY <2>2, <4>1, <4>2, <4>3
    <3> HIDE DEF head
    <3>3. AddOrUpdate(head, x + 1, r.last) = head \cup {[first |-> x + 1, last |-> r.last]}
      BY <3>2, NewNode
    <3> QED
      BY <2>3, <3>1, <3>3
  <2> HIDE DEF head, new
  <2> QED
    BY <2>1, <2>2, <2>3
<1> HIDE DEF new
<1>7. \A q \in left \cup right :
         /\ q \in Run /\ q.first \in Int /\ q.last \in Int
         /\ r.first <= q.first /\ q.first <= q.last /\ q.last <= r.last
         /\ q.last < x \/ x < q.first
  BY <1>3, <1>4, LastAssumption DEF Run, Values
<1>8. \A q \in left, s \in right : q.last + 1 < s.first
  BY <1>3, <1>4
<1>9. \A q, s \in left : q = s
  OBVIOUS
<1>10. \A q, s \in right : q = s
  OBVIOUS
<1>11. \A y \in r.first .. r.last : y # x => \E q \in left \cup right : y \in q.first .. q.last
  <2> SUFFICES ASSUME NEW y \in r.first .. r.last, y # x
               PROVE  \E q \in left \cup right : y \in q.first .. q.last
    OBVIOUS
  <2>1. y \in Int /\ r.first <= y /\ y <= r.last
    BY <1>3
  <2>2. CASE y < x
    <3>1. r.first # x /\ y \in r.first .. x - 1
      BY <1>3, <1>4, <2>1, <2>2
    <3> DEFINE q == [first |-> r.first, last |-> x - 1]
    <3>2. q \in left \cup right /\ q.first = r.first /\ q.last = x - 1
      BY <3>1
    <3> HIDE DEF q, left, right
    <3> QED
      BY <3>1, <3>2
  <2>3. CASE y > x
    <3>1. r.last # x /\ y \in x + 1 .. r.last
      BY <1>3, <1>4, <2>1, <2>3
    <3> DEFINE q == [first |-> x + 1, last |-> r.last]
    <3>2. q \in left \cup right /\ q.first = x + 1 /\ q.last = r.last
      BY <3>1
    <3> HIDE DEF q, left, right
    <3> QED
      BY <3>1, <3>2
  <2> QED
    BY <1>4, <2>1, <2>2, <2>3
<1> HIDE DEF left, right
<1>12. new \subseteq Run
  BY <1>6, <1>7
<1>13. Canonical(new)
  <2>1. \A q \in new : q.first <= q.last
    BY <1>3, <1>6, <1>7
  <2>2. ASSUME NEW q \in rs \ {r}, NEW s \in left \cup right
        PROVE  q.last + 1 < s.first \/ s.last + 1 < q.first
    <3>1. q.last + 1 < r.first \/ r.last + 1 < q.first
      BY <1>5
    <3>2. r.first <= s.first /\ s.last <= r.last /\ s.first \in Int /\ s.last \in Int
      BY <1>7
    <3> QED
      BY <1>3, <3>1, <3>2
  <2>3. ASSUME NEW q \in left \cup right, NEW s \in left \cup right, q # s
        PROVE  q.last + 1 < s.first \/ s.last + 1 < q.first
    BY <1>8, <1>9, <1>10, <2>3
  <2>4. \A q, s \in new : q # s => q.last + 1 < s.first \/ s.last + 1 < q.first
    BY <1>5, <1>6, <2>2, <2>3
  <2> QED
    BY <2>1, <2>4 DEF Canonical
<1>14. ASSUME NEW y PROVE y \in Export(new) <=> y \in Export(rs) \ {x}
  <2>1. ASSUME y \in Export(new) PROVE y \in Export(rs) \ {x}
    <3>1. PICK q \in new : y \in q.first .. q.last
      BY <2>1, InExport
    <3>2. CASE q \in rs \ {r}
      <4>1. x \notin q.first .. q.last
        BY <1>3, <1>4, <1>5, <3>2
      <4> QED
        BY <3>1, <3>2, <4>1, InExport
    <3>3. CASE q \in left \cup right
      <4>1. y # x /\ y \in r.first .. r.last
        BY <1>3, <1>4, <1>7, <3>1, <3>3
      <4> QED
        BY <4>1, InExport
    <3> QED
      BY <1>6, <3>2, <3>3
  <2>2. ASSUME y \in Export(rs) \ {x} PROVE y \in Export(new)
    <3>1. PICK q \in rs : y \in q.first .. q.last
      BY <2>2, InExport
    <3>2. CASE q = r
      BY <1>6, <1>11, <2>2, <3>1, <3>2, InExport
    <3>3. CASE q # r
      BY <1>6, <3>1, <3>3, InExport
    <3> QED
      BY <3>2, <3>3
  <2> QED
    BY <2>1, <2>2
<1> QED
  BY <1>12, <1>13, <1>14 DEF new

-----------------------------------------------------------------------------

\* The wrap-around in Check's comparison of neighbours does no harm: only the
\* last run can end at the greatest value.
LEMMA CanonicalChecked ==
    ASSUME NEW rs \in SUBSET Run, Canonical(rs)
    PROVE  Check(rs)
<1>1. \A r \in rs : /\ r.first \in Int /\ r.last \in Int /\ r.first <= r.last
                    /\ r.last <= Last /\ Last \in Int
  BY LastAssumption DEF Run, Values, Canonical
<1>2. ASSUME NEW r \in rs, NEW q \in After(rs, r.first)
      PROVE  q.first > Inc(r.last)
  <2>1. q \in rs /\ q.first > r.first
    BY DEF After
  <2>2. q.last + 1 < r.first \/ r.last + 1 < q.first
    BY <1>1, <2>1 DEF Canonical
  <2> QED
    BY <1>1, <2>1, <2>2 DEF Inc
<1> QED
  BY <1>1, <1>2 DEF Check

LEMMA InitIInv == Init => IInv
<1> SUFFICES ASSUME Init PROVE IInv
  OBVIOUS
<1>1. TypeOK
  BY LastAssumption DEF Init, TypeOK, Values
<1>2. Canonical(runs) /\ Check(runs) /\ Export(runs) = {} /\ HashExport = {}
  BY DEF Init, Canonical, Check, Export, HashExport
<1> QED
  BY <1>1, <1>2 DEF IInv, Represents, Init

LEMMA AddIInv ==
    ASSUME IInv, NEW x \in Values, Add(x)
    PROVE  IInv'
<1>1. runs \in SUBSET Run /\ Canonical(runs) /\ Export(runs) = members /\ x \notin members
  BY FindMember DEF IInv, TypeOK, Represents, Add
<1>2. runs' \subseteq Run /\ Canonical(runs') /\ Export(runs') = members'
  BY <1>1, AddedRuns DEF Add, HashAdd
<1>3. members' \subseteq Values /\ low' \in Values /\ high' \in Values
  BY DEF IInv, TypeOK, Add, HashAdd
<1>4. HashExport' = members'
  <2>1. \A y \in members : low <= y /\ y <= high
    BY DEF IInv, Represents, HashExport
  <2>2. low \in Int /\ high \in Int /\ x \in Int /\ \A y \in members : y \in Int
    BY LastAssumption DEF IInv, TypeOK, Values
  <2>3. \A y \in members' : low' <= y /\ y <= high'
    BY <2>1, <2>2 DEF Add, HashAdd
  <2> QED
    BY <2>3 DEF HashExport
<1>5. Check(runs')
  BY <1>2, CanonicalChecked
<1> QED
  BY <1>2, <1>3, <1>4, <1>5 DEF IInv, TypeOK, Represents, Canonical, Check, After, Inc

LEMMA RemoveIInv ==
    ASSUME IInv, NEW x \in Values, Remove(x)
    PROVE  IInv'
<1>1. runs \in SUBSET Run /\ Canonical(runs) /\ Export(runs) = members /\ x \in members
  BY FindMember DEF IInv, TypeOK, Represents, Remove
<1>2. runs' \subseteq Run /\ Canonical(runs') /\ Export(runs') = members'
  BY <1>1, RemovedRuns DEF Remove, HashRemove
<1>3. members' \subseteq Values /\ low' \in Values /\ high' \in Values
  BY LastAssumption DEF IInv, TypeOK, Remove, HashRemove, Values
<1>4. HashExport' = members'
  <2>1. \A y \in members : low <= y /\ y <= high
    BY DEF IInv, Represents, HashExport
  <2>2. \A y \in members' : low' <= y /\ y <= high'
    BY <2>1 DEF Remove, HashRemove
  <2> QED
    BY <2>2 DEF HashExport
<1>5. Check(runs')
  BY <1>2, CanonicalChecked
<1> QED
  BY <1>2, <1>3, <1>4, <1>5 DEF IInv, TypeOK, Represents, Canonical, Check, After, Inc

\* Whatever gap is chosen, its bounds are values.
LEMMA PicksAreValues ==
    ASSUME TypeOK, NEW min \in Values, NEW max \in Values
    PROVE  Picks(min, max) \subseteq Values
<1> SUFFICES ASSUME NEW g PROVE GapMembers(min, max, g) \subseteq Values
  BY Zenon DEF Picks
<1>1. ASSUME NEW a \in Values, NEW b \in Values PROVE Span(a, b) \subseteq Values
  BY LastAssumption DEF Values, Span
<1>2. ASSUME NEW a \in Values PROVE Inc(a) \in Values /\ Dec(a) \in Values
  BY LastAssumption DEF Values, Inc, Dec
<1>3. ASSUME NEW n, GetByRank(runs, n) # {}
      PROVE  LET r == CHOOSE r \in GetByRank(runs, n) : TRUE
             IN r.first \in Values /\ r.last \in Values
  <2> DEFINE r == CHOOSE r \in GetByRank(runs, n) : TRUE
  <2>1. r \in GetByRank(runs, n)
    BY <1>3
  <2>2. GetByRank(runs, n) \subseteq Run
    BY DEF GetByRank, TypeOK
  <2>3. r \in Run
    BY <2>1, <2>2
  <2> HIDE DEF r
  <2>4. r.first \in Values /\ r.last \in Values
    BY <2>3 DEF Run
  <2> QED
    BY <2>4 DEF r
<1> DEFINE prev == GetByRank(runs, FindRank(runs, min) + g - 1)
           next == GetByRank(runs, FindRank(runs, min) + g)
           from == IF g > 0 THEN Inc((CHOOSE r \in prev : TRUE).last) ELSE min
           upto == IF g < Gaps(min, max).count - 1
                   THEN Dec((CHOOSE r \in next : TRUE).first) ELSE max
           none == (g > 0 /\ prev = {}) \/ (g < Gaps(min, max).count - 1 /\ next = {})
<1>4. GapMembers(min, max, g) = IF none THEN {} ELSE Span(from, upto)
  BY Zenon DEF GapMembers
<1>5. ~none => from \in Values /\ upto \in Values
  BY <1>2, <1>3, Zenon
<1> HIDE DEF none, from, upto
<1> QED
  BY <1>1, <1>4, <1>5

LEMMA NextIInv == IInv /\ [Next]_vars => IInv'
<1> SUFFICES ASSUME IInv, [Next]_vars PROVE IInv'
  OBVIOUS
<1>1. CASE UNCHANGED vars
  BY <1>1 DEF vars, IInv, TypeOK, Represents, Canonical, Check, After, Inc, Export,
              HashExport
<1>2. ASSUME NEW x \in Values, Add(x) PROVE IInv'
  BY <1>2, AddIInv
<1>3. ASSUME NEW x \in Values, Remove(x) PROVE IInv'
  BY <1>3, RemoveIInv
<1>4. ASSUME NEW min \in Values, NEW max \in Values, AddOneInRange(min, max)
      PROVE  IInv'
  <2>1. PICK x \in Picks(min, max) : Add(x)
    BY <1>4 DEF AddOneInRange
  <2> QED
    BY <2>1, AddIInv, PicksAreValues DEF IInv
<1> QED
  BY <1>1, <1>2, <1>3, <1>4 DEF Next

\* For words of any width: after any sequence of Add, Remove and AddOneInRange
\* the runs of the SortedUInt32Set are in canonical form and have the members
\* of the simple set, as both Exports list them.
THEOREM RunsRepresentSet == Spec => []Represents
<1>1. Init => IInv
  BY InitIInv
<1>2. IInv /\ [Next]_vars => IInv'
  BY NextIInv
<1>3. IInv => Represents
  BY DEF IInv
<1> QED
  BY <1>1, <1>2, <1>3, PTL DEF Spec

-----------------------------------------------------------------------------
(* The readers of the two sets.                                             *)

LEMMA ExportOf ==
    ASSUME Represents, NEW x
    PROVE  x \in members <=> \E r \in runs : x \in r.first .. r.last
<1>1. members = Export(runs)
  BY DEF Represents
<1> QED
  BY <1>1 DEF Export

\* What the runs and the marks are when the set is represented.
LEMMA RunBounds ==
    ASSUME IInv
    PROVE  /\ Last \in Nat
           /\ \A x \in members : x \in Nat /\ x <= Last /\ low <= x /\ x <= high
           /\ low \in Nat /\ high \in Nat
           /\ \A r \in runs : /\ r = [first |-> r.first, last |-> r.last]
                              /\ r.first \in Nat /\ r.last \in Nat
                              /\ r.first <= r.last /\ r.last <= Last
                              /\ r.first \in members /\ r.last \in members
           /\ \A q, r \in runs : q # r => q.last + 1 < r.first \/ r.last + 1 < q.first
<1>1. Last \in Nat /\ low \in Nat /\ high \in Nat
  BY LastAssumption DEF IInv, TypeOK, Values
<1>2. \A r \in runs : /\ r = [first |-> r.first, last |-> r.last]
                      /\ r.first \in Nat /\ r.last \in Nat
                      /\ r.first <= r.last /\ r.last <= Last
  BY <1>1 DEF IInv, TypeOK, Run, Values, Represents, Canonical
<1>3. \A r \in runs : r.first \in members /\ r.last \in members
  BY <1>2, ExportOf DEF IInv
<1>4. \A x \in members : x \in Nat /\ x <= Last /\ low <= x /\ x <= high
  BY <1>1 DEF IInv, TypeOK, Values, Represents, HashExport
<1> QED
  BY <1>1, <1>2, <1>3, <1>4 DEF IInv, Represents, Canonical

\* The numbers next to a run are no members.
LEMMA RunEnds ==
    ASSUME IInv, NEW r \in runs
    PROVE  r.last + 1 \notin members /\ r.first - 1 \notin members
<1>1. ASSUME NEW x \in members, x = r.last + 1 \/ x = r.first - 1
      PROVE  FALSE
  <2>1. PICK q \in runs : x \in q.first .. q.last
    BY ExportOf DEF IInv
  <2> QED
    BY <1>1, <2>1, RunBounds
<1> QED
  BY <1>1

\* A walk from a member whose predecessor is none to a member whose successor
\* is none, through members only, is a run.
LEMMA WalkIsRun ==
    ASSUME IInv, NEW a \in members, NEW b \in members, a <= b,
           a .. b \subseteq members,
           b = high \/ b + 1 \notin members,
           a = low \/ a - 1 \notin members
    PROVE  \E r \in runs : r.first = a /\ r.last = b
<1>1. PICK r \in runs : a \in r.first .. r.last
  BY ExportOf DEF IInv
<1>2. /\ r.first \in Nat /\ r.last \in Nat /\ a \in Nat /\ b \in Nat
      /\ r.first <= a /\ a <= r.last
      /\ low \in Nat /\ high \in Nat /\ low <= r.first /\ r.last <= high
  BY <1>1, RunBounds
<1>3. r.first = a
  <2> SUFFICES ASSUME r.first < a PROVE FALSE
    BY <1>2
  <2>1. a # low
    BY <1>2
  <2>2. a - 1 \in r.first .. r.last
    BY <1>2
  <2>3. a - 1 \in members
    BY <2>2, ExportOf DEF IInv
  <2> QED
    BY <2>1, <2>3
<1>4. b <= r.last
  <2> SUFFICES ASSUME r.last < b PROVE FALSE
    BY <1>2
  <2>1. r.last + 1 \in a .. b
    BY <1>2
  <2> QED
    BY <2>1, RunEnds
<1>5. r.last <= b
  <2> SUFFICES ASSUME b < r.last PROVE FALSE
    BY <1>2
  <2>1. b # high
    BY <1>2
  <2>2. b + 1 \in r.first .. r.last
    BY <1>2, <1>3
  <2>3. b + 1 \in members
    BY <2>2, ExportOf DEF IInv
  <2> QED
    BY <2>1, <2>3
<1> QED
  BY <1>2, <1>3, <1>4, <1>5

\* Both RExports list the same runs.
LEMMA RunsListed ==
    ASSUME IInv
    PROVE  RExport(runs) = HashRExport
<1>0. HashExport = members
  BY DEF IInv, Represents
<1>1. ASSUME NEW r \in runs
      PROVE  <<r.first, r.last>> \in HashRExport
  <2>1. /\ r.first \in members /\ r.last \in members /\ r.first <= r.last
        /\ r.last + 1 \notin members /\ r.first - 1 \notin members
    BY RunBounds, RunEnds
  <2>2. r.first .. r.last \subseteq members
    BY ExportOf DEF IInv
  <2> QED
    BY <1>0, <2>1, <2>2 DEF HashRExport
<1>2. ASSUME NEW run \in HashRExport
      PROVE  run \in RExport(runs)
  <2>1. PICK a \in members, b \in members : run = <<a, b>>
    BY <1>0 DEF HashRExport
  <2>2. /\ a <= b /\ a .. b \subseteq members
        /\ b = high \/ b + 1 \notin members
        /\ a = low \/ a - 1 \notin members
    BY <2>1 DEF HashRExport
  <2>3. PICK r \in runs : r.first = a /\ r.last = b
    BY <2>2, WalkIsRun
  <2> QED
    BY <2>1, <2>3 DEF RExport
<1> QED
  BY <1>1, <1>2 DEF RExport

LEMMA ReadersAgreed == IInv => ReadersAgree
<1> SUFFICES ASSUME IInv PROVE ReadersAgree
  OBVIOUS
<1>1. IsEmpty(runs) = HashIsEmpty
  <2>1. ASSUME members = {} PROVE runs = {}
    BY <2>1, RunBounds
  <2>2. ASSUME runs = {} PROVE members = {}
    BY <2>2, ExportOf DEF IInv
  <2> QED
    BY <2>1, <2>2 DEF IsEmpty, HashIsEmpty
<1>2. ASSUME NEW x \in Values PROVE Has(runs, x) = HashHas(x)
  <2>1. runs \in SUBSET Run /\ Canonical(runs) /\ Export(runs) = members
    BY DEF IInv, TypeOK, Represents
  <2> QED
    BY <2>1, FindMember DEF Has, HashHas
<1> QED
  BY <1>1, <1>2, RunsListed DEF ReadersAgree

\* For words of any width and any sequence of operations, the readers of the
\* SortedUInt32Set and of the HashUInt32Set agree (IsEmpty, Has, RExport),
\* although the marks of the latter are not moved back by Remove.
THEOREM SetsReadAlike == Spec => []ReadersAgree
<1>1. Init => IInv
  BY InitIInv
<1>2. IInv /\ [Next]_vars => IInv'
  BY NextIInv
<1>3. IInv => ReadersAgree
  BY ReadersAgreed
<1> QED
  BY <1>1, <1>2, <1>3, PTL DEF Spec

-----------------------------------------------------------------------------
(* The locks on the members of the cache.                                   *)

\* Both forms of an address give the number back, read either way.
LEMMA AddressForms ==
    ASSUME NEW n \in Uint32
    PROVE  /\ IPv4ToUint32(Uint32ToIPv4(n)) = n
           /\ MakeUint32FromIPv4(Uint32ToIPv4(n)) = n
           /\ MakeUint32FromIPv4(MakeIPv4FromUint32(n)) = n
<1> DEFINE b1 == (n \div 16777216) % 256
           b2 == (n \div 65536) % 256
           b3 == (n \div 256) % 256
           b4 == n % 256
           long == IPv4(b1, b2, b3, b4)
           short == <<b1, b2, b3, b4>>
<1>1. /\ n = b1 * 16777216 + b2 * 65536 + b3 * 256 + b4
      /\ b1 \in Int /\ b2 \in Int /\ b3 \in Int /\ b4 \in Int
  BY BytesOfNumber, SMT DEF Byte
<1>2. Uint32ToIPv4(n) = long /\ MakeIPv4FromUint32(n) = short
  BY SMT DEF MakeIPv4FromUint32, Uint32ToIPv4
<1> HIDE DEF b1, b2, b3, b4
<1>3. To4(long) = short
  BY <1>2, To4Forms, SMT
<1>4. /\ Len(short) = 4 /\ short[1] = b1 /\ short[2] = b2
      /\ short[3] = b3 /\ short[4] = b4
  BY SMT
<1>5. /\ Len(long) = 16 /\ long[13] = b1 /\ long[14] = b2
      /\ long[15] = b3 /\ long[16] = b4
  BY SMT DEF IPv4
<1> HIDE DEF short, long
<1>6. IPv4ToUint32(long) = n
  BY <1>1, <1>3, <1>4, SMT DEF IPv4ToUint32
<1>7. MakeUint32FromIPv4(short) = n
  BY <1>1, <1>4, SMT DEF MakeUint32FromIPv4
<1>8. MakeUint32FromIPv4(long) = n
  BY <1>1, <1>5, SMT DEF MakeUint32FromIPv4
<1> QED
  BY <1>2, <1>6, <1>7, <1>8, Zenon

\* A member of the cache stands for an IPv4 address.
LEMMA MembersAreAddresses ==
    ASSUME IInv, NEW x \in members
    PROVE  Base + x \in Uint32
<1>1. x \in Nat /\ x <= Last /\ Last \in Nat
  BY RunBounds
<1>2. Base \in Nat /\ (Base + Last) \div 16777216 < 256
  BY AddressLocksAssumption, SMT
<1>3. Base + x \in Nat /\ Base + x <= Base + Last
  BY <1>1, <1>2, SMT
<1>4. (Base + x) \div 16777216 \in Nat /\ (Base + x) \div 16777216 <= (Base + Last) \div 16777216
  BY <1>1, <1>2, <1>3, SMT
<1> QED
  <2>1. (Base + Last) \div 16777216 \in Int
    BY <1>1, <1>2, SMT
  <2>2. (Base + x) \div 16777216 \in Byte
    BY <1>2, <1>4, <2>1, SMT DEF Byte
  <2> QED
    BY <1>3, <2>2, SMT DEF Uint32

LEMMA MembersNamed == IInv => NamesFaithful
<1> SUFFICES ASSUME IInv, NEW v \in VNIs, NEW x \in members
             PROVE  LET ip == Uint32ToIPv4(Base + x)
                        ip4 == MakeIPv4FromUint32(Base + x)
                        slot == [ok |-> TRUE, VNI |-> v, addrU |-> Base + x]
                    IN /\ parseIPLockName(makeIPLockName2(v, ip)) = slot
                       /\ parseIPLockName(makeIPLockName2(v, ip4)) = slot
                       /\ IPv4ToUint32(GetIP(ParsedLock(LockName(v, x), 1, 1))) = Base + x
                       /\ MakeUint32FromIPv4(ip) = Base + x
                       /\ MakeUint32FromIPv4(ip4) = Base + x
  BY Zenon DEF NamesFaithful
<1> DEFINE n == Base + x
<1>1. n \in Uint32 /\ v \in ValidVNI
  BY MembersAreAddresses, AddressLocksAssumption
<1> HIDE DEF n
<1>2. /\ parseIPLockName(makeIPLockName2(v, Uint32ToIPv4(n)))
           = [ok |-> TRUE, VNI |-> v, addrU |-> n]
      /\ parseIPLockName(makeIPLockName2(v, MakeIPv4FromUint32(n)))
           = [ok |-> TRUE, VNI |-> v, addrU |-> n]
  BY <1>1, NamesRoundTrip, Zenon
<1>3. /\ IPv4ToUint32(Uint32ToIPv4(n)) = n
      /\ MakeUint32FromIPv4(Uint32ToIPv4(n)) = n
      /\ MakeUint32FromIPv4(MakeIPv4FromUint32(n)) = n
  BY <1>1, AddressForms, Zenon
<1>4. GetIP(ParsedLock(LockName(v, x), 1, 1)) = Uint32ToIPv4(n)
  <2>1. parseIPLockName(LockName(v, x)).addrU = n
    BY <1>2 DEF LockName, n
  <2>2. ParsedLock(LockName(v, x), 1, 1).addrU = parseIPLockName(LockName(v, x)).addrU
    BY DEF ParsedLock
  <2> QED
    BY <2>1, <2>2, Zenon DEF GetIP
<1> QED
  BY <1>2, <1>3, <1>4, Zenon DEF n

\* For every address range, width and set of VNIs: in every state of the cache
\* the name of the lock on a member parses back to its VNI and its address,
\* through both forms of a net.IP.
THEOREM MembersNamedFaithfully == Spec => []NamesFaithful
<1>1. Init => IInv
  BY InitIInv
<1>2. IInv /\ [Next]_vars => IInv'
  BY NextIInv
<1>3. IInv => NamesFaithful
  BY MembersNamed
<1> QED
  BY <1>1, <1>2, <1>3, PTL DEF Spec

-----------------------------------------------------------------------------
(* The ranks of runs.                                                       *)

\* How many runs begin below x; the rank of a run is one more than that of its
\* first number.
Under(x) == Cardinality({q \in runs : q.first < x})

Rank(r) == Under(r.first) + 1

LEMMA FiniteRuns ==
    ASSUME IInv
    PROVE  IsFiniteSet(runs)
<1> DEFINE f == [r \in runs |-> r.first]
<1>1. IsFiniteSet(0 .. Last)
  BY LastAssumption, FS_Interval
<1>2. f \in [runs -> 0 .. Last]
  BY RunBounds
<1>3. \A q, r \in runs : f[q] = f[r] => q = r
  BY RunBounds
<1>4. f \in Injection(runs, 0 .. Last)
  BY <1>2, <1>3 DEF Injection, IsInjective
<1> QED
  BY <1>1, <1>4, FS_Injection

LEMMA UnderFacts ==
    ASSUME IInv
    PROVE  /\ Cardinality(runs) \in Nat
           /\ \A x \in Int : Under(x) \in Nat /\ Under(x) <= Cardinality(runs)
           /\ \A x, y \in Int : x <= y => Under(x) <= Under(y)
           /\ \A r \in runs, y \in Int : r.first < y => Under(r.first) + 1 <= Under(y)
           /\ \A r \in runs : Rank(r) \in 1 .. Cardinality(runs)
<1> DEFINE L(x) == {q \in runs : q.first < x}
<1>1. IsFiniteSet(runs) /\ Cardinality(runs) \in Nat
  BY FiniteRuns, FS_CardinalityType
<1>2. ASSUME NEW x \in Int
      PROVE  IsFiniteSet(L(x)) /\ Under(x) \in Nat /\ Under(x) <= Cardinality(runs)
  <2>1. L(x) \in SUBSET runs
    OBVIOUS
  <2>2. IsFiniteSet(L(x)) /\ Cardinality(L(x)) <= Cardinality(runs)
    BY <1>1, <2>1, FS_Subset
  <2>3. Cardinality(L(x)) \in Nat
    BY <2>2, FS_CardinalityType
  <2> QED
    BY <2>2, <2>3 DEF Under
<1>3. ASSUME NEW x \in Int, NEW y \in Int, x <= y
      PROVE  Under(x) <= Under(y)
  <2>1. L(x) \in SUBSET L(y)
    BY <1>3, RunBounds
  <2> HIDE DEF L
  <2>2. Cardinality(L(x)) <= Cardinality(L(y))
    BY <1>2, <2>1, FS_Subset
  <2> QED
    BY <2>2 DEF Under, L
<1>4. ASSUME NEW r \in runs, NEW y \in Int, r.first < y
      PROVE  Under(r.first) + 1 <= Under(y)
  <2>1. r.first \in Int
    BY RunBounds
  <2>2. L(r.first) \cup {r} \in SUBSET L(y)
    BY <1>4, <2>1, RunBounds
  <2>3. r \notin L(r.first)
    BY <2>1
  <2> HIDE DEF L
  <2>4. Cardinality(L(r.first) \cup {r}) = Cardinality(L(r.first)) + 1
    BY <1>2, <2>1, <2>3, FS_AddElement
  <2>5. Cardinality(L(r.first) \cup {r}) <= Cardinality(L(y))
    BY <1>2, <2>2, FS_Subset
  <2> QED
    BY <2>4, <2>5 DEF Under, L
<1>5. ASSUME NEW r \in runs PROVE Rank(r) \in 1 .. Cardinality(runs)
  <2>1. r.first \in Int /\ r.first + 1 \in Int /\ r.first < r.first + 1
    BY RunBounds
  <2>2. Under(r.first) + 1 <= Under(r.first + 1)
    BY <1>4, <2>1
  <2>3. Under(r.first) \in Nat /\ Under(r.first + 1) \in Nat
    BY <1>2, <2>1
  <2>4. Under(r.first + 1) <= Cardinality(runs)
    BY <1>2, <2>1
  <2> QED
    BY <1>1, <2>2, <2>3, <2>4 DEF Rank
<1> QED
  BY <1>1, <1>2, <1>3, <1>4, <1>5

\* Ranks go up with the runs.
LEMMA RankOrder ==
    ASSUME IInv, NEW p \in runs, NEW q \in runs
    PROVE  /\ p.first < q.first <=> Rank(p) < Rank(q)
           /\ p = q <=> Rank(p) = Rank(q)
<1>1. p.first \in Int /\ q.first \in Int /\ Under(p.first) \in Int /\ Under(q.first) \in Int
  BY RunBounds, UnderFacts
<1>2. p.first < q.first => Under(p.first) + 1 <= Under(q.first)
  BY <1>1, UnderFacts
<1>3. q.first < p.first => Under(q.first) + 1 <= Under(p.first)
  BY <1>1, UnderFacts
<1>4. p.first = q.first => p = q
  BY RunBounds
<1> QED
  BY <1>1, <1>2, <1>3, <1>4 DEF Rank

\* Every rank up to the number of runs is the rank of a run: there are as many
\* ranks as runs, and no two runs have the same.
LEMMA RankTaken ==
    ASSUME IInv, NEW n \in 1 .. Cardinality(runs)
    PROVE  \E r \in runs : Rank(r) = n
<1> DEFINE c == Cardinality(runs)
           f == [r \in runs |-> Rank(r)]
<1>1. c \in Nat /\ f \in [runs -> 1 .. c]
  BY UnderFacts
<1>2. \A p, q \in runs : f[p] = f[q] => p = q
  BY RankOrder
<1>3. f \in Injection(runs, 1 .. c)
  BY <1>1, <1>2 DEF Injection, IsInjective
<1>4. IsFiniteSet(1 .. c) /\ Cardinality(1 .. c) = c
  BY <1>1, FS_Interval
<1> HIDE DEF f
<1>5. f \in Surjection(runs, 1 .. c)
  BY <1>3, <1>4, FS_Injection
<1>6. PICK r \in runs : f[r] = n
  BY <1>5 DEF Surjection
<1> QED
  BY <1>6 DEF f

LEMMA GetRank ==
    ASSUME IInv, NEW r \in runs, NEW n, n = Rank(r)
    PROVE  GetByRank(runs, n) = {r}
<1>1. \A q \in runs : q \in GetByRank(runs, n) <=> Under(q.first) = n - 1
  BY DEF GetByRank, Under
<1>2. \A q \in runs : q.first \in Int /\ Under(q.first) \in Int
  BY RunBounds, UnderFacts
<1>3. \A q \in runs : q \in GetByRank(runs, n) <=> Rank(q) = Rank(r)
  BY <1>1, <1>2 DEF Rank
<1>4. \A q \in runs : q \in GetByRank(runs, n) <=> q = r
  BY <1>3, RankOrder
<1> QED
  BY <1>4 DEF GetByRank

\* What Find and FindRank say of a number outside and inside the runs.
LEMMA FoundOutside ==
    ASSUME IInv, NEW x \in Values, x \notin members
    PROVE  Find(runs, x) = {} /\ FindRank(runs, x) = 1 + Under(x)
<1>1. runs \in SUBSET Run /\ Canonical(runs) /\ Export(runs) = members
  BY DEF IInv, TypeOK, Represents
<1>2. Find(runs, x) = {}
  BY <1>1, FindMember
<1> QED
  BY <1>2 DEF FindRank, Under

LEMMA FoundInside ==
    ASSUME IInv, NEW x \in Values, NEW r \in runs, x \in r.first .. r.last
    PROVE  Find(runs, x) = {r} /\ FindRank(runs, x) = Rank(r)
<1>1. runs \in SUBSET Run /\ Canonical(runs)
  BY DEF IInv, TypeOK, Represents
<1>2. Find(runs, x) = {r}
  BY <1>1, FindRun
<1>3. (CHOOSE q \in Find(runs, x) : TRUE) = r
  BY <1>2
<1>4. FindRank(runs, x) = 1 + Under(r.first)
  BY <1>2, <1>3 DEF FindRank, Under
<1>5. Under(r.first) \in Int
  BY RunBounds, UnderFacts
<1> QED
  BY <1>2, <1>4, <1>5 DEF Rank

-----------------------------------------------------------------------------
(* AddOneInRange.                                                           *)

\* It gives up iff the whole range is in the set.
LEMMA FullRange ==
    ASSUME IInv, NEW min \in Values, NEW max \in Values
    PROVE  Full(min, max) <=> min .. max \subseteq members
<1>0. min \in Nat /\ max \in Nat
  BY LastAssumption DEF Values
<1>1. CASE max < min
  BY <1>0, <1>1 DEF Full
<1>2. CASE min <= max
  <2>1. ASSUME Full(min, max) PROVE min .. max \subseteq members
    <3>1. Find(runs, min) = Find(runs, max) /\ Find(runs, min) # {}
      BY <1>0, <1>2, <2>1 DEF Full
    <3>2. min \in members /\ max \in members
      BY <3>1, FoundOutside
    <3>3. PICK r \in runs : min \in r.first .. r.last
      BY <3>2, ExportOf DEF IInv
    <3>4. PICK q \in runs : max \in q.first .. q.last
      BY <3>2, ExportOf DEF IInv
    <3>5. Find(runs, min) = {r} /\ Find(runs, max) = {q}
      BY <3>3, <3>4, FoundInside
    <3>6. r = q
      BY <3>1, <3>5
    <3>7. min .. max \subseteq r.first .. r.last
      BY <1>0, <3>3, <3>4, <3>6, RunBounds
    <3> QED
      BY <3>7, ExportOf DEF IInv
  <2>2. ASSUME min .. max \subseteq members PROVE Full(min, max)
    <3>1. min \in members
      BY <1>0, <1>2, <2>2
    <3>2. PICK r \in runs : min \in r.first .. r.last
      BY <3>1, ExportOf DEF IInv
    <3>3. max <= r.last
      <4> SUFFICES ASSUME r.last < max PROVE FALSE
        BY <1>0, RunBounds
      <4>1. r.last + 1 \in min .. max
        BY <1>0, <3>2, RunBounds
      <4> QED
        BY <2>2, <4>1, RunEnds
    <3>4. max \in r.first .. r.last
      BY <1>0, <1>2, <3>2, <3>3, RunBounds
    <3> QED
      BY <3>2, <3>4, FoundInside DEF Full
  <2> QED
    BY <2>1, <2>2
<1> QED
  BY <1>0, <1>1, <1>2

\* What the rank at the lower end of the range means: a run has at least that
\* rank iff it reaches the range, and a number outside the runs has as many runs
\* under it as the gaps before its own say.
LEMMA LowerEnd ==
    ASSUME IInv, NEW min \in Values, NEW m, m = FindRank(runs, min),
           NEW bias, bias = IF Find(runs, min) # {} THEN 1 ELSE 0
    PROVE  /\ m \in Nat /\ 1 <= m /\ bias \in {0, 1}
           /\ \A r \in runs : m <= Rank(r) <=> min <= r.last
           /\ \A y \in Values \ members : min <= y => m + bias <= Under(y) + 1
           /\ bias = 0 => min \notin members
<1>0. min \in Nat /\ Values \subseteq Int
  BY LastAssumption DEF Values
<1>1. CASE min \notin members
  <2>1. m = 1 + Under(min) /\ bias = 0 /\ Under(min) \in Nat
    BY <1>0, <1>1, FoundOutside, UnderFacts
  <2>2. ASSUME NEW r \in runs PROVE m <= Rank(r) <=> min <= r.last
    <3>1. r.first \in Int /\ r.last \in Int /\ r.first <= r.last /\ Under(r.first) \in Int
      BY RunBounds, UnderFacts
    <3>2. r.first < min => Under(r.first) + 1 <= Under(min)
      BY <1>0, UnderFacts
    <3>3. min <= r.first => Under(min) <= Under(r.first)
      BY <1>0, <3>1, UnderFacts
    <3>4. ~(r.first <= min /\ min <= r.last)
      BY <1>0, <1>1, <3>1, ExportOf DEF IInv
    <3> QED
      BY <1>0, <2>1, <3>1, <3>2, <3>3, <3>4 DEF Rank
  <2>3. ASSUME NEW y \in Values \ members, min <= y PROVE m + bias <= Under(y) + 1
    <3>1. y \in Int /\ Under(y) \in Int /\ Under(min) <= Under(y)
      BY <1>0, <2>3, UnderFacts
    <3> QED
      BY <2>1, <3>1
  <2> QED
    BY <1>1, <2>1, <2>2, <2>3
<1>2. CASE min \in members
  <2>1. PICK a \in runs : min \in a.first .. a.last
    BY <1>2, ExportOf DEF IInv
  <2>2. m = Rank(a) /\ bias = 1
    BY <2>1, FoundInside
  <2>3. a.first \in Int /\ a.last \in Int /\ a.first <= min /\ min <= a.last
    BY <1>0, <2>1, RunBounds
  <2>4. m \in Nat /\ 1 <= m
    BY <2>2, UnderFacts
  <2>5. ASSUME NEW r \in runs PROVE m <= Rank(r) <=> min <= r.last
    <3>1. r.first \in Int /\ r.last \in Int /\ r.first <= r.last /\ Rank(r) \in Int
      BY RunBounds, UnderFacts
    <3>2. m <= Rank(r) <=> a.first <= r.first
      BY <2>2, <2>3, <2>4, <3>1, RankOrder
    <3>3. r = a \/ a.last + 1 < r.first \/ r.last + 1 < a.first
      BY RunBounds
    <3> QED
      BY <1>0, <2>3, <3>1, <3>2, <3>3
  <2>6. ASSUME NEW y \in Values \ members, min <= y PROVE m + bias <= Under(y) + 1
    <3>1. y \in Int /\ a.first < y
      BY <1>0, <2>3, <2>6, RunBounds
    <3>2. Under(a.first) + 1 <= Under(y) /\ Under(y) \in Int /\ Under(a.first) \in Int
      BY <2>3, <3>1, UnderFacts
    <3> QED
      BY <2>2, <3>2 DEF Rank
  <2> QED
    BY <2>2, <2>4, <2>5, <2>6
<1> QED
  BY <1>1, <1>2

\* The same for the upper end: hi is the greatest rank of a run that begins in
\* the range or before it.
LEMMA UpperEnd ==
    ASSUME IInv, NEW max \in Values, NEW k, k = FindRank(runs, max),
           NEW saib, saib = IF Find(runs, max) # {} THEN 1 ELSE 0,
           NEW hi, hi = k - 1 + saib
    PROVE  /\ k \in Nat /\ saib \in {0, 1} /\ hi \in Nat /\ hi <= Cardinality(runs)
           /\ \A r \in runs : Rank(r) <= hi <=> r.first <= max
           /\ \A y \in Values \ members : y <= max => Under(y) + 1 <= k
           /\ saib = 0 => max \notin members
<1>0. max \in Nat /\ Values \subseteq Int
  BY LastAssumption DEF Values
<1>1. CASE max \notin members
  <2>1. k = 1 + Under(max) /\ saib = 0 /\ Under(max) \in Nat /\ Under(max) <= Cardinality(runs)
    BY <1>0, <1>1, FoundOutside, UnderFacts
  <2>2. k \in Nat /\ hi = Under(max)
    BY <2>1
  <2>3. ASSUME NEW r \in runs PROVE Rank(r) <= hi <=> r.first <= max
    <3>1. r.first \in Int /\ r.first \in members /\ Under(r.first) \in Int
      BY RunBounds, UnderFacts
    <3>2. r.first < max => Under(r.first) + 1 <= Under(max)
      BY <1>0, UnderFacts
    <3>3. max <= r.first => Under(max) <= Under(r.first)
      BY <1>0, <3>1, UnderFacts
    <3> QED
      BY <1>0, <1>1, <2>1, <2>2, <3>1, <3>2, <3>3 DEF Rank
  <2>4. ASSUME NEW y \in Values \ members, y <= max PROVE Under(y) + 1 <= k
    <3>1. y \in Int /\ Under(y) \in Int /\ Under(y) <= Under(max)
      BY <1>0, <2>4, UnderFacts
    <3> QED
      BY <2>1, <3>1
  <2> QED
    BY <1>1, <2>1, <2>2, <2>3, <2>4
<1>2. CASE max \in members
  <2>1. PICK b \in runs : max \in b.first .. b.last
    BY <1>2, ExportOf DEF IInv
  <2>2. k = Rank(b) /\ saib = 1
    BY <2>1, FoundInside
  <2>3. b.first \in Int /\ b.last \in Int /\ b.first <= max /\ max <= b.last
    BY <1>0, <2>1, RunBounds
  <2>4. k \in Nat /\ k <= Cardinality(runs) /\ hi = k
    BY <2>2, UnderFacts
  <2>5. ASSUME NEW r \in runs PROVE Rank(r) <= hi <=> r.first <= max
    <3>1. r.first \in Int /\ r.last \in Int /\ r.first <= r.last /\ Rank(r) \in Int
      BY RunBounds, UnderFacts
    <3>2. Rank(r) <= hi <=> r.first <= b.first
      BY <2>2, <2>3, <2>4, <3>1, RankOrder
    <3>3. r = b \/ b.last + 1 < r.first \/ r.last + 1 < b.first
      BY RunBounds
    <3> QED
      BY <1>0, <2>3, <3>1, <3>2, <3>3
  <2>6. ASSUME NEW y \in Values \ members, y <= max PROVE Under(y) + 1 <= k
    <3>1. y \in Int /\ ~(b.first <= y /\ y <= b.last)
      BY <1>0, <2>3, ExportOf DEF IInv
    <3>2. y <= b.first
      BY <1>0, <2>3, <2>6, <3>1
    <3>3. Under(y) <= Under(b.first) /\ Under(y) \in Int /\ Under(b.first) \in Int
      BY <2>3, <3>1, <3>2, UnderFacts
    <3> QED
      BY <2>2, <3>3 DEF Rank
  <2> QED
    BY <2>2, <2>4, <2>5, <2>6
<1> QED
  BY <1>1, <1>2

\* The gap with n - 1 runs before it, number g of the range, begins with from.
BeginsAt(from, min, n, g) ==
    /\ min <= from
    /\ g = 0 => from = min /\ min \notin members
    /\ g > 0 => \E p \in runs : Rank(p) = n - 1 /\ from = p.last + 1
    /\ \A r \in runs : from <= r.last => n <= Rank(r)
    /\ \A y \in Values \ members : Under(y) + 1 = n => g = 0 \/ from <= y

\* Where gap g begins: after the run with the rank before, or with the range.
LEMMA GapBegin ==
    ASSUME IInv, NEW min \in Values, NEW m, m = FindRank(runs, min),
           NEW bias, bias = IF Find(runs, min) # {} THEN 1 ELSE 0,
           NEW g \in Nat, bias <= g, m + g - 1 <= Cardinality(runs)
    PROVE  \E from \in Int : BeginsAt(from, min, m + g, g)
<1>0. min \in Int /\ Values \subseteq Int
  BY LastAssumption DEF Values
<1>1. /\ m \in Nat /\ 1 <= m /\ bias \in {0, 1}
      /\ \A r \in runs : m <= Rank(r) <=> min <= r.last
      /\ bias = 0 => min \notin members
  BY LowerEnd
<1>2. CASE g = 0
  <2>1. bias = 0
    BY <1>1, <1>2
  <2>2. \A r \in runs : min <= r.last => m + g <= Rank(r)
    BY <1>1, <1>2
  <2>3. BeginsAt(min, min, m + g, g)
    BY <1>0, <1>1, <1>2, <2>1, <2>2 DEF BeginsAt
  <2> QED
    BY <1>0, <2>3
<1>3. CASE g > 0
  <2>1. m + g - 1 \in 1 .. Cardinality(runs)
    BY <1>1, <1>3, UnderFacts
  <2>2. PICK p \in runs : Rank(p) = m + g - 1
    BY <2>1, RankTaken
  <2>3. p.first \in Int /\ p.last \in Int /\ p.first <= p.last
    BY RunBounds
  <2>4. min <= p.last
    BY <1>1, <1>3, <2>2
  <2>5. ASSUME NEW r \in runs, p.last + 1 <= r.last PROVE m + g <= Rank(r)
    <3>1. r.first \in Int /\ r.last \in Int /\ Rank(r) \in Int
      BY RunBounds, UnderFacts
    <3>2. p.first < r.first
      BY <2>3, <2>5, <3>1, RunBounds
    <3>3. Rank(p) < Rank(r)
      BY <3>2, RankOrder
    <3> QED
      BY <1>1, <2>2, <3>1, <3>3
  <2>6. ASSUME NEW y \in Values \ members, Under(y) + 1 = m + g PROVE p.last + 1 <= y
    <3>1. y \in Int /\ Under(y) \in Int /\ Under(p.first) \in Int
      BY <1>0, <2>3, UnderFacts
    <3>2. y <= p.first => Under(y) <= Under(p.first)
      BY <2>3, <3>1, UnderFacts
    <3>3. p.first < y
      BY <1>1, <2>2, <2>3, <2>6, <3>1, <3>2 DEF Rank
    <3>4. ~(p.first <= y /\ y <= p.last)
      BY <2>3, <3>1, ExportOf DEF IInv
    <3> QED
      BY <2>3, <3>1, <3>3, <3>4
  <2> DEFINE from == p.last + 1
  <2>7. from \in Int /\ min <= from
    BY <1>0, <2>3, <2>4
  <2>8. Rank(p) = (m + g) - 1 /\ from = p.last + 1
    BY <1>1, <2>2
  <2>9. \A r \in runs : from <= r.last => m + g <= Rank(r)
    BY <2>5
  <2>10. \A y \in Values \ members : Under(y) + 1 = m + g => g = 0 \/ from <= y
    BY <2>6
  <2> HIDE DEF from
  <2>11. BeginsAt(from, min, m + g, g)
    BY <1>3, <2>7, <2>8, <2>9, <2>10 DEF BeginsAt
  <2> QED
    BY <2>7, <2>11
<1> QED
  BY <1>2, <1>3

\* Where it ends: before the run with the next rank, or with the range.
LEMMA GapEnd ==
    ASSUME IInv, NEW max \in Values, NEW k, k = FindRank(runs, max),
           NEW saib, saib = IF Find(runs, max) # {} THEN 1 ELSE 0,
           NEW hi, hi = k - 1 + saib, NEW n \in Nat, 1 <= n, n <= k
    PROVE  \E upto \in Int :
              /\ upto <= max
              /\ n <= hi => \E q \in runs : Rank(q) = n /\ upto = q.first - 1
              /\ n > hi => upto = max /\ max \notin members
              /\ \A r \in runs : r.first <= upto => Rank(r) < n
              /\ \A y \in Values \ members : Under(y) + 1 = n => y <= upto \/ max < y
<1>0. max \in Int /\ Values \subseteq Int
  BY LastAssumption DEF Values
<1>1. /\ k \in Nat /\ saib \in {0, 1} /\ hi \in Nat /\ hi <= Cardinality(runs)
      /\ \A r \in runs : Rank(r) <= hi <=> r.first <= max
      /\ saib = 0 => max \notin members
  BY UpperEnd
<1>2. CASE n > hi
  <2>1. saib = 0
    BY <1>1, <1>2
  <2>2. \A r \in runs : r.first <= max => Rank(r) < n
    BY <1>1, <1>2, UnderFacts
  <2> QED
    BY <1>0, <1>1, <1>2, <2>1, <2>2
<1>3. CASE n <= hi
  <2>1. n \in 1 .. Cardinality(runs)
    BY <1>1, <1>3, UnderFacts
  <2>2. PICK q \in runs : Rank(q) = n
    BY <2>1, RankTaken
  <2>3. q.first \in Int /\ q.first \in members /\ q.first <= max
    BY <1>1, <1>3, <2>2, RunBounds
  <2>4. ASSUME NEW r \in runs, r.first <= q.first - 1 PROVE Rank(r) < n
    <3>1. r.first \in Int /\ r.first < q.first
      BY <2>3, <2>4, RunBounds
    <3> QED
      BY <2>2, <3>1, RankOrder
  <2>5. ASSUME NEW y \in Values \ members, Under(y) + 1 = n PROVE y <= q.first - 1
    <3>1. y \in Int /\ Under(y) \in Int /\ Under(q.first) \in Int
      BY <1>0, <2>3, UnderFacts
    <3>2. q.first < y => Under(q.first) + 1 <= Under(y)
      BY <3>1, UnderFacts
    <3>3. y # q.first
      BY <2>3
    <3> QED
      BY <2>2, <2>3, <2>5, <3>1, <3>2, <3>3 DEF Rank
  <2> DEFINE upto == q.first - 1
  <2>6. upto \in Int /\ upto <= max
    BY <1>0, <2>3
  <2>7. Rank(q) = n /\ upto = q.first - 1
    BY <2>2
  <2>8. \A r \in runs : r.first <= upto => Rank(r) < n
    BY <2>4
  <2>9. \A y \in Values \ members : Under(y) + 1 = n => y <= upto \/ max < y
    BY <2>5
  <2> HIDE DEF upto
  <2> QED
    BY <1>1, <1>3, <2>6, <2>7, <2>8, <2>9
<1> QED
  BY <1>1, <1>2, <1>3

\* The numbers of gap g are numbers of the range outside the set; there is one;
\* and a number outside the set is in the gap that its rank says.
LEMMA Gap ==
    ASSUME IInv, NEW min \in Values, NEW max \in Values, min <= max,
           NEW g \in Gaps(min, max).choice
    PROVE  /\ GapMembers(min, max, g) # {}
           /\ \A y \in GapMembers(min, max, g) : y \in min .. max /\ y \notin members
           /\ \A y \in (min .. max) \ members :
                 Under(y) + 1 = FindRank(runs, min) + g => y \in GapMembers(min, max, g)
<1> DEFINE m == FindRank(runs, min)
           k == FindRank(runs, max)
           bias == IF Find(runs, min) # {} THEN 1 ELSE 0
           saib == IF Find(runs, max) # {} THEN 1 ELSE 0
           hi == k - 1 + saib
           count == Gaps(min, max).count
<1>0. min \in Nat /\ max \in Nat /\ Last \in Nat /\ max <= Last /\ min .. max \subseteq Values
  BY LastAssumption DEF Values
<1>1. count = 1 + k - m + saib /\ Gaps(min, max).choice = bias .. count - saib - 1
  BY DEF Gaps
<1>2. m \in Nat /\ 1 <= m /\ bias \in {0, 1}
  <2> HIDE DEF m, bias
  <2> QED
    BY LowerEnd DEF m, bias
<1>3. k \in Nat /\ saib \in {0, 1} /\ hi \in Nat /\ hi <= Cardinality(runs)
      /\ \A r \in runs : Rank(r) <= hi <=> r.first <= max
  <2> HIDE DEF k, saib, hi
  <2> QED
    BY UpperEnd DEF k, saib, hi
<1> HIDE DEF m, k, bias, saib, count
<1>4. g \in Nat /\ bias <= g /\ m + g <= k /\ (g < count - 1 <=> m + g <= hi)
  BY <1>1, <1>2, <1>3
<1>5. m + g - 1 <= Cardinality(runs) /\ m + g \in Nat /\ 1 <= m + g
  BY <1>2, <1>3, <1>4, UnderFacts
<1>6a. PICK from \in Int : BeginsAt(from, min, m + g, g)
  <2>1. m = FindRank(runs, min) /\ bias = IF Find(runs, min) # {} THEN 1 ELSE 0
    BY DEF m, bias
  <2>2. g \in Nat /\ bias <= g /\ m + g - 1 <= Cardinality(runs)
    BY <1>4, <1>5
  <2> HIDE DEF hi
  <2> QED
    BY <2>1, <2>2, GapBegin
<1>6. /\ min <= from
      /\ g = 0 => from = min /\ min \notin members
      /\ g > 0 => \E p \in runs : Rank(p) = m + g - 1 /\ from = p.last + 1
      /\ \A r \in runs : from <= r.last => m + g <= Rank(r)
      /\ \A y \in Values \ members : Under(y) + 1 = m + g => g = 0 \/ from <= y
  <2>1. (m + g) - 1 = m + g - 1
    BY <1>2, <1>4
  <2> QED
    BY <1>6a, <2>1, Zenon DEF BeginsAt
<1> HIDE DEF hi
<1>7. PICK upto \in Int :
              /\ upto <= max
              /\ m + g <= hi => \E q \in runs : Rank(q) = m + g /\ upto = q.first - 1
              /\ m + g > hi => upto = max /\ max \notin members
              /\ \A r \in runs : r.first <= upto => Rank(r) < m + g
              /\ \A y \in Values \ members : Under(y) + 1 = m + g => y <= upto \/ max < y
  BY <1>4, <1>5, GapEnd DEF k, saib, hi
<1>8. from <= upto
  <2>1. CASE g = 0 /\ m + g > hi
    BY <1>6, <1>7, <2>1
  <2>2. CASE g = 0 /\ m + g <= hi
    <3>1. PICK q \in runs : Rank(q) = m + g /\ upto = q.first - 1
      BY <1>7, <2>2
    <3>2. q.first \in Int /\ q.last \in Int /\ ~(q.last < min)
      <4>1. \A r \in runs : m <= Rank(r) <=> min <= r.last
        BY LowerEnd DEF m, bias
      <4> QED
        BY <1>0, <1>2, <2>2, <3>1, <4>1, RunBounds
    <3>3. ~(q.first <= min /\ min <= q.last)
      BY <1>0, <1>6, <2>2, <3>2, ExportOf DEF IInv
    <3> QED
      BY <1>0, <1>6, <2>2, <3>1, <3>2, <3>3
  <2>3. CASE g > 0
    <3>1. PICK p \in runs : Rank(p) = m + g - 1 /\ from = p.last + 1
      BY <1>6, <2>3
    <3>2. p.first \in Int /\ p.last \in Int /\ p.first <= p.last
      BY RunBounds
    <3>3. CASE m + g > hi
      <4>1. m + g - 1 <= hi
        BY <1>2, <1>3, <1>4 DEF hi
      <4>2. p.first <= max
        BY <1>3, <3>1, <4>1
      <4>3. ~(p.first <= max /\ max <= p.last)
        BY <1>0, <1>7, <3>2, <3>3, ExportOf DEF IInv
      <4> QED
        BY <1>0, <1>7, <3>1, <3>2, <3>3, <4>2, <4>3
    <3>4. CASE m + g <= hi
      <4>1. PICK q \in runs : Rank(q) = m + g /\ upto = q.first - 1
        BY <1>7, <3>4
      <4>2. p.first < q.first /\ p # q
        BY <1>2, <1>4, <3>1, <4>1, RankOrder
      <4>3. q.first \in Int /\ q.last \in Int /\ q.first <= q.last
        BY RunBounds
      <4>4. p.last + 1 < q.first \/ q.last + 1 < p.first
        BY <4>2, RunBounds
      <4> QED
        BY <3>1, <3>2, <4>1, <4>2, <4>3, <4>4
    <3> QED
      BY <1>3, <1>4, <1>5, <3>3, <3>4
  <2> QED
    BY <1>3, <1>4, <1>5, <2>1, <2>2, <2>3
<1> DEFINE prev == GetByRank(runs, m + g - 1)
           next == GetByRank(runs, m + g)
           left == IF g > 0 THEN Inc((CHOOSE r \in prev : TRUE).last) ELSE min
           right == IF g < count - 1 THEN Dec((CHOOSE r \in next : TRUE).first) ELSE max
<1>9. left = from /\ (g > 0 => prev # {})
  <2>1. CASE g = 0
    BY <1>6, <2>1
  <2>2. CASE g > 0
    <3>1. PICK p \in runs : Rank(p) = m + g - 1 /\ from = p.last + 1
      BY <1>6, <2>2
    <3>2. prev = {p}
      BY <3>1, GetRank
    <3> HIDE DEF prev
    <3>3. (CHOOSE r \in prev : TRUE) = p
      BY <3>2
    <3>4. Inc(p.last) = p.last + 1
      BY <1>0, <1>7, <1>8, <3>1, RunBounds DEF Inc
    <3> QED
      BY <2>2, <3>1, <3>2, <3>3, <3>4
  <2> QED
    BY <1>4, <2>1, <2>2
<1>10. right = upto /\ (g < count - 1 => next # {})
  <2>1. CASE m + g > hi
    BY <1>3, <1>4, <1>5, <1>7, <2>1
  <2>2. CASE m + g <= hi
    <3>1. PICK q \in runs : Rank(q) = m + g /\ upto = q.first - 1
      BY <1>7, <2>2
    <3>2. next = {q}
      BY <3>1, GetRank
    <3> HIDE DEF next
    <3>3. (CHOOSE r \in next : TRUE) = q
      BY <3>2
    <3>4. Dec(q.first) = q.first - 1
      BY <1>0, <1>6, <1>8, <3>1, RunBounds DEF Dec
    <3> QED
      BY <1>4, <2>2, <3>1, <3>2, <3>3, <3>4
  <2> QED
    BY <1>3, <1>5, <2>1, <2>2
<1>11. GapMembers(min, max, g)
         = IF (g > 0 /\ prev = {}) \/ (g < count - 1 /\ next = {}) THEN {} ELSE Span(left, right)
  BY Zenon DEF GapMembers, m, count
<1> HIDE DEF prev, next, left, right
<1>12. GapMembers(min, max, g) = Span(from, upto)
  BY <1>9, <1>10, <1>11
<1>13. GapMembers(min, max, g) = from .. upto
  BY <1>8, <1>12 DEF Span
<1>14. GapMembers(min, max, g) # {}
  BY <1>8, <1>13
<1>15. ASSUME NEW y \in from .. upto PROVE y \in min .. max /\ y \notin members
  <2>1. y \in min .. max
    BY <1>0, <1>6, <1>7
  <2>2. ASSUME NEW r \in runs, y \in r.first .. r.last PROVE FALSE
    <3>1. r.first \in Int /\ r.last \in Int /\ Rank(r) \in Int
      BY RunBounds, UnderFacts
    <3>2. from <= r.last /\ r.first <= upto
      BY <2>2, <3>1
    <3> QED
      BY <1>5, <1>6, <1>7, <3>1, <3>2
  <2> QED
    BY <2>1, <2>2, ExportOf DEF IInv
<1>16. ASSUME NEW y \in (min .. max) \ members, Under(y) + 1 = m + g
       PROVE  y \in from .. upto
  <2>1. y \in Values \ members /\ y \in Int /\ min <= y /\ ~(max < y)
    BY <1>0
  <2>2. g = 0 \/ from <= y
    BY <1>6, <1>16, <2>1
  <2>3. y <= upto
    BY <1>7, <1>16, <2>1
  <2> QED
    BY <1>6, <2>1, <2>2, <2>3
<1> QED
  BY <1>13, <1>14, <1>15, <1>16 DEF m

LEMMA RightPicks == IInv => PicksRight
<1> SUFFICES ASSUME IInv, NEW min \in Values, NEW max \in Values
             PROVE  /\ Full(min, max) <=> min .. max \subseteq members
                    /\ ~Full(min, max) =>
                          /\ Gaps(min, max).choice # {}
                          /\ \A g \in Gaps(min, max).choice : GapMembers(min, max, g) # {}
                          /\ Picks(min, max) = (min .. max) \ members
                    /\ \A x \in Picks(min, max) :
                          ~Full(min, max) => CouldAddInRange(min, max, x, TRUE)
                    /\ Full(min, max) => CouldAddInRange(min, max, 0, FALSE)
  BY Zenon DEF PicksRight
<1>0. min \in Nat /\ max \in Nat /\ min .. max \subseteq Values
  BY LastAssumption DEF Values
<1>1. Full(min, max) <=> min .. max \subseteq members
  BY FullRange
<1>2. CASE Full(min, max)
  BY <1>1, <1>2 DEF CouldAddInRange
<1>3. CASE ~Full(min, max)
  <2>1. min <= max
    BY <1>0, <1>3 DEF Full
  <2>2. ASSUME NEW y \in (min .. max) \ members
        PROVE  Under(y) + 1 - FindRank(runs, min) \in Gaps(min, max).choice
    <3> DEFINE m == FindRank(runs, min)
               k == FindRank(runs, max)
               bias == IF Find(runs, min) # {} THEN 1 ELSE 0
               saib == IF Find(runs, max) # {} THEN 1 ELSE 0
    <3>1. Gaps(min, max).choice = bias .. (1 + k - m + saib) - saib - 1
      BY DEF Gaps
    <3>2. y \in Values \ members /\ y \in Int /\ min <= y /\ y <= max
      BY <1>0
    <3> HIDE DEF m, k, bias, saib
    <3>3. m \in Nat /\ bias \in {0, 1} /\ m + bias <= Under(y) + 1
      BY <3>2, LowerEnd DEF m, bias
    <3>4. k \in Nat /\ saib \in {0, 1} /\ Under(y) + 1 <= k
      BY <3>2, UpperEnd DEF k, saib
    <3>5. Under(y) \in Int
      BY <3>2, UnderFacts
    <3> QED
      BY <3>1, <3>3, <3>4, <3>5 DEF m
  <2>3. Gaps(min, max).choice # {}
    BY <1>1, <1>3, <2>2
  <2>4. \A g \in Gaps(min, max).choice : GapMembers(min, max, g) # {}
    BY <2>1, Gap
  <2>5. Picks(min, max) \subseteq (min .. max) \ members
    BY <2>1, Gap DEF Picks
  <2>6. ASSUME NEW y \in (min .. max) \ members PROVE y \in Picks(min, max)
    <3> DEFINE g == Under(y) + 1 - FindRank(runs, min)
    <3>1. g \in Gaps(min, max).choice
      BY <2>2
    <3>2. Under(y) \in Int /\ FindRank(runs, min) \in Int
      <4>1. y \in Int
        BY <1>0
      <4> DEFINE m == FindRank(runs, min)
                 bias == IF Find(runs, min) # {} THEN 1 ELSE 0
      <4> HIDE DEF m, bias
      <4>2. m \in Nat
        BY LowerEnd DEF m, bias
      <4> QED
        BY <4>1, <4>2, UnderFacts DEF m
    <3>3. Under(y) + 1 = FindRank(runs, min) + g
      BY <3>2
    <3> HIDE DEF g
    <3>4. y \in GapMembers(min, max, g)
      BY <2>1, <3>1, <3>3, Gap
    <3> QED
      BY <3>1, <3>4 DEF Picks
  <2>7. Picks(min, max) = (min .. max) \ members
    BY <2>5, <2>6
  <2> QED
    BY <1>1, <1>3, <2>3, <2>4, <2>7 DEF CouldAddInRange
<1> QED
  BY <1>2, <1>3

\* For words of any width and any range: AddOneInRange gives up iff the range is
\* full, never runs into its panics (it finds a gap and the runs around it), and
\* may pick exactly the numbers of the range that are not in the set.
THEOREM RangePicksRight == Spec => []PicksRight
<1>1. Init => IInv
  BY InitIInv
<1>2. IInv /\ [Next]_vars => IInv'
  BY NextIInv
<1>3. IInv => PicksRight
  BY RightPicks
<1> QED
  BY <1>1, <1>2, <1>3, PTL DEF Spec

-----------------------------------------------------------------------------
(* Lists of locks.                                                          *)

\* The least number principle: the least index at which a claim fails is not the
\* first, and the claim holds at the one before it.
LEMMA Least ==
    ASSUME NEW T \in SUBSET Nat, T # {}
    PROVE  \E x \in T : \A y \in T : x <= y
<1> DEFINE R == OpToRel(<, Nat)
<1>1. IsWellFoundedOn(R, Nat)
  BY NatLessThanWellFounded
<1>2. R = {ss \in Nat \X Nat : ss[1] < ss[2]}
  BY DEF OpToRel
<1> HIDE DEF R
<1>3. PICK x \in T : \A y \in T : ~(<<y, x>> \in R)
  BY <1>1, WFMin
<1>4. ASSUME NEW y \in T PROVE x <= y
  <2>1. ~(<<y, x>> \in {ss \in Nat \X Nat : ss[1] < ss[2]})
    BY <1>2, <1>3
  <2>2. ~(y < x)
    BY <2>1
  <2> QED
    BY <2>2
<1> QED
  BY <1>4

\* The greatest element of a set, where a fold from the left begins.
Top(s) == CHOOSE x \in s : \A y \in s : x >= y

LEMMA TopOf ==
    ASSUME NEW k \in Nat, NEW s \in SUBSET (1 .. k), k \in s
    PROVE  Top(s) = k
<1>1. \A y \in s : k >= y
  OBVIOUS
<1>2. \E x \in s : \A y \in s : x >= y
  BY <1>1
<1>3. Top(s) \in s /\ \A y \in s : Top(s) >= y
  BY <1>2, Zenon DEF Top
<1>4. Top(s) \in 1 .. k /\ Top(s) >= k
  BY <1>3
<1> QED
  BY <1>4

\* One step of the two loops over a list: of Best, and of AddListFunc.
FoldStep(loop, ans, elt) ==
    IF loop = "best" THEN IF IsBetterThan(elt, ans) THEN elt ELSE ans
                     ELSE AddFunc(ans, elt)

\* The fold of such a loop, as a function on sets of indices.
FoldOf(loop, iter, base, list, S) ==
    iter = [s \in SUBSET S |->
              IF s = {} THEN base
              ELSE FoldStep(loop, iter[s \ {Top(s)}], list[Top(s)])]

\* The fold exists for every list: it is well founded.
LEMMA FoldExists ==
    ASSUME NEW loop, NEW base, NEW list, NEW n \in Nat
    PROVE  \E iter : FoldOf(loop, iter, base, list, 1 .. n)
<1> DEFINE F(a, e) == FoldStep(loop, a, e)
           Obeys(f, k) == f = [s \in SUBSET (1 .. k) |->
                                 IF s = {} THEN base ELSE F(f[s \ {Top(s)}], list[Top(s)])]
           T == {k \in 0 .. n : ~ \E f : Obeys(f, k)}
<1>1. ASSUME T # {} PROVE FALSE
  <2> HIDE DEF F
  <2>1. T \in SUBSET Nat
    OBVIOUS
  <2>2. PICK k \in T : \A y \in T : k <= y
    BY <1>1, <2>1, Least
  <2>3. k \in 0 .. n
    BY <2>2
  <2>4. k # 0
    <3> DEFINE e == [s \in SUBSET (1 .. 0) |-> base]
    <3>1. ASSUME NEW s \in SUBSET (1 .. 0) PROVE s = {}
      OBVIOUS
    <3>2. e = [s \in SUBSET (1 .. 0) |->
                 IF s = {} THEN base ELSE F(e[s \ {Top(s)}], list[Top(s)])]
      BY <3>1
    <3>3. Obeys(e, 0)
      BY <3>2
    <3> QED
      BY <2>2, <3>3
  <2>5. k \in Nat \ {0} /\ k - 1 \in 0 .. n /\ ~(k <= k - 1)
    BY <2>3, <2>4
  <2>6. k - 1 \notin T
    <3> HIDE DEF T
    <3> QED
      BY <2>2, <2>5, Zenon
  <2>7. PICK g : Obeys(g, k - 1)
    BY <2>5, <2>6
  <2> DEFINE h == [s \in SUBSET (1 .. k) |->
                     IF k \in s THEN F(g[s \ {k}], list[k]) ELSE g[s]]
             H == [s \in SUBSET (1 .. k) |->
                     IF s = {} THEN base ELSE F(h[s \ {Top(s)}], list[Top(s)])]
  <2>8. ASSUME NEW s \in SUBSET (1 .. k), k \notin s PROVE s \in SUBSET (1 .. k - 1)
    BY <2>5, <2>8
  <2>9. ASSUME NEW s \in SUBSET (1 .. k), k \notin s PROVE h[s] = g[s]
    BY <2>9
  <2>10. ASSUME NEW s \in SUBSET (1 .. k - 1)
         PROVE  g[s] = IF s = {} THEN base ELSE F(g[s \ {Top(s)}], list[Top(s)])
    BY <2>7, Zenon
  <2>11. ASSUME NEW s \in SUBSET (1 .. k), k \in s PROVE h[s] = F(g[s \ {k}], list[k])
    BY <2>11
  <2>12. ASSUME NEW s \in SUBSET (1 .. k)
         PROVE  H[s] = IF s = {} THEN base ELSE F(h[s \ {Top(s)}], list[Top(s)])
    BY Zenon
  <2>13. DOMAIN h = SUBSET (1 .. k) /\ DOMAIN H = SUBSET (1 .. k)
    OBVIOUS
  <2>14. h = [s \in DOMAIN h |-> h[s]] /\ H = [s \in DOMAIN H |-> H[s]]
    OBVIOUS
  <2> HIDE DEF h, H
  <2>15. ASSUME NEW s \in SUBSET (1 .. k) PROVE h[s] = H[s]
    <3>1. CASE k \in s
      <4>1. Top(s) = k /\ s # {} /\ s \ {k} \in SUBSET (1 .. k) /\ k \notin s \ {k}
        BY <2>5, <3>1, TopOf
      <4>2. h[s \ {k}] = g[s \ {k}]
        BY <2>9, <4>1
      <4> QED
        BY <2>11, <2>12, <3>1, <4>1, <4>2, Zenon
    <3>2. CASE k \notin s
      <4>1. s \in SUBSET (1 .. k - 1) /\ h[s] = g[s]
        BY <2>8, <2>9, <3>2
      <4>2. s \ {Top(s)} \in SUBSET (1 .. k) /\ k \notin s \ {Top(s)}
        BY <3>2
      <4>3. h[s \ {Top(s)}] = g[s \ {Top(s)}]
        BY <2>9, <4>2
      <4> QED
        BY <2>10, <2>12, <4>1, <4>3, Zenon
    <3> QED
      BY <3>1, <3>2
  <2>16. h = H
    BY <2>13, <2>14, <2>15
  <2>17. Obeys(h, k)
    BY <2>16 DEF H
  <2> QED
    BY <2>2, <2>17
<1>2. n \in 0 .. n /\ n \notin T
  <2> HIDE DEF T
  <2> QED
    BY <1>1
<1>3. \E f : Obeys(f, n)
  BY <1>2
<1> QED
  BY <1>3, Zenon DEF FoldOf

\* The fold goes through the list from the left.
LEMMA FoldBegins ==
    ASSUME NEW loop, NEW base, NEW list, NEW n \in Nat, NEW iter,
           FoldOf(loop, iter, base, list, 1 .. n)
    PROVE  iter[1 .. 0] = base
<1>1. {} \in SUBSET (1 .. n) /\ 1 .. 0 = {}
  OBVIOUS
<1>2. iter[{}] = base
  BY <1>1, Zenon DEF FoldOf
<1> QED
  BY <1>1, <1>2, Zenon

LEMMA FoldSteps ==
    ASSUME NEW loop, NEW base, NEW list, NEW n \in Nat, NEW iter,
           FoldOf(loop, iter, base, list, 1 .. n)
    PROVE  \A k \in 1 .. n :
              iter[1 .. k] = FoldStep(loop, iter[1 .. (k - 1)], list[k])
<1>1. ASSUME NEW k \in 1 .. n
      PROVE  iter[1 .. k] = FoldStep(loop, iter[1 .. (k - 1)], list[k])
  <2>1. k \in Nat /\ 1 .. k \in SUBSET (1 .. n) /\ k \in 1 .. k /\ 1 .. k # {}
    OBVIOUS
  <2>2. Top(1 .. k) = k
    BY <2>1, TopOf
  <2>3. (1 .. k) \ {k} = 1 .. (k - 1)
    BY <2>1
  <2>4. iter[1 .. k] = FoldStep(loop, iter[(1 .. k) \ {Top(1 .. k)}], list[Top(1 .. k)])
    BY <2>1, Zenon DEF FoldOf
  <2> QED
    BY <2>2, <2>3, <2>4, Zenon
<1> QED
  BY <1>1

LEMMA AddListFuncFolds ==
    ASSUME NEW base, NEW list, NEW n \in Nat, DOMAIN list = 1 .. n
    PROVE  \E iter : /\ FoldOf("add", iter, base, list, 1 .. n)
                     /\ AddListFunc(base, list) = iter[1 .. n]
<1> DEFINE P(iter) == iter = [s \in SUBSET DOMAIN list |->
                 IF s = {} THEN base ELSE AddFunc(iter[s \ {Top(s)}], list[Top(s)])]
           c == CHOOSE iter : P(iter)
<1>1. AddListFunc(base, list) = c[DOMAIN list]
  BY Zenon DEF AddListFunc, Seqs!FoldLeft, Seqs!MapThenFoldSet, Seqs!Max, Top
<1>2. ASSUME NEW iter PROVE P(iter) <=> FoldOf("add", iter, base, list, 1 .. n)
  <2> DEFINE G == [s \in SUBSET (1 .. n) |->
                 IF s = {} THEN base ELSE AddFunc(iter[s \ {Top(s)}], list[Top(s)])]
             G2 == [s \in SUBSET (1 .. n) |->
                 IF s = {} THEN base ELSE FoldStep("add", iter[s \ {Top(s)}], list[Top(s)])]
  <2>1. \A a, e : FoldStep("add", a, e) = AddFunc(a, e)
    BY DEF FoldStep
  <2>2. G = G2
    BY <2>1
  <2>3. P(iter) <=> iter = G
    OBVIOUS
  <2>4. FoldOf("add", iter, base, list, 1 .. n) <=> iter = G2
    BY DEF FoldOf
  <2> HIDE DEF G, G2, P
  <2> QED
    BY <2>2, <2>3, <2>4
<1> HIDE DEF P
<1>3. \E iter : P(iter)
  BY <1>2, FoldExists
<1>4. P(c)
  BY <1>3, Zenon
<1> HIDE DEF c
<1> QED
  BY <1>1, <1>2, <1>4

LEMMA BestFolds ==
    ASSUME NEW list, list # <<>>, NEW n \in Nat, DOMAIN Tail(list) = 1 .. n
    PROVE  \E iter : /\ FoldOf("best", iter, Head(list), Tail(list), 1 .. n)
                     /\ Best(list) = iter[1 .. n]
<1> DEFINE base == Head(list)
           tail == Tail(list)
           Better(ans, elt) == IF IsBetterThan(elt, ans) THEN elt ELSE ans
           P(iter) == iter = [s \in SUBSET DOMAIN tail |->
                 IF s = {} THEN base ELSE Better(iter[s \ {Top(s)}], tail[Top(s)])]
           c == CHOOSE iter : P(iter)
<1>1. Best(list) = c[DOMAIN tail]
  BY Zenon DEF Best, Seqs!FoldLeft, Seqs!MapThenFoldSet, Seqs!Max, Top
<1>2. ASSUME NEW iter PROVE P(iter) <=> FoldOf("best", iter, base, tail, 1 .. n)
  <2> DEFINE G == [s \in SUBSET (1 .. n) |->
                 IF s = {} THEN base ELSE Better(iter[s \ {Top(s)}], tail[Top(s)])]
             G2 == [s \in SUBSET (1 .. n) |->
                 IF s = {} THEN base ELSE FoldStep("best", iter[s \ {Top(s)}], tail[Top(s)])]
  <2>1. \A a, e : FoldStep("best", a, e) = Better(a, e)
    BY DEF FoldStep
  <2>2. G = G2
    <3> HIDE DEF Better
    <3> QED
      BY <2>1
  <2>3. P(iter) <=> iter = G
    OBVIOUS
  <2>4. FoldOf("best", iter, base, tail, 1 .. n) <=> iter = G2
    BY DEF FoldOf
  <2> HIDE DEF G, G2, P
  <2> QED
    BY <2>2, <2>3, <2>4
<1> HIDE DEF P
<1>3. \E iter : P(iter)
  BY <1>2, FoldExists
<1>4. P(c)
  BY <1>3, Zenon
<1> HIDE DEF c
<1> QED
  BY <1>1, <1>2, <1>4

\* Locks that are told apart by their UIDs.
ToldApart(locks) ==
    \A x, y \in locks : /\ x.UID \in Int /\ x.CreationTime \in Int
                        /\ x.UID = y.UID => x = y

LEMMA EqualLocks ==
    ASSUME NEW locks, ToldApart(locks), NEW x \in locks, NEW y \in locks
    PROVE  Equal(x, y) <=> x = y
BY DEF ToldApart, Equal

LEMMA BetterLocks ==
    ASSUME NEW locks, ToldApart(locks), NEW x \in locks, NEW y \in locks, NEW z \in locks
    PROVE  /\ x = y \/ IsBetterThan(x, y) \/ IsBetterThan(y, x)
           /\ IsBetterThan(x, y) /\ IsBetterThan(y, z) => IsBetterThan(x, z)
<1>1. /\ x.UID \in Int /\ y.UID \in Int /\ z.UID \in Int
      /\ x.CreationTime \in Int /\ y.CreationTime \in Int /\ z.CreationTime \in Int
      /\ x.UID = y.UID => x = y
  BY DEF ToldApart
<1> QED
  BY <1>1 DEF IsBetterThan

\* Best finds the best lock of a list, wherever it is.
LEMMA BestOfList ==
    ASSUME NEW locks, ToldApart(locks), NEW n \in Nat \ {0}, NEW list \in [1 .. n -> locks]
    PROVE  /\ \E j \in 1 .. n : Best(list) = list[j]
           /\ \A i \in 1 .. n : list[i] = Best(list) \/ IsBetterThan(Best(list), list[i])
<1>1. list \in Seq(locks) /\ Len(list) = n /\ list # <<>>
  OBVIOUS
<1> DEFINE m == n - 1
<1>2. /\ m \in Nat /\ DOMAIN Tail(list) = 1 .. m /\ Head(list) = list[1]
      /\ \A k \in 1 .. m : Tail(list)[k] = list[k + 1]
  BY <1>1
<1>3. PICK iter : FoldOf("best", iter, Head(list), Tail(list), 1 .. m) /\ Best(list) = iter[1 .. m]
  BY <1>1, <1>2, BestFolds
<1> DEFINE b(k) == iter[1 .. k]
           Right(k) == /\ \E j \in 1 .. k + 1 : b(k) = list[j]
                       /\ \A i \in 1 .. k + 1 : list[i] = b(k) \/ IsBetterThan(b(k), list[i])
           T == {k \in 0 .. m : ~Right(k)}
<1>4. b(0) = Head(list) /\ \A k \in 1 .. m : b(k) = FoldStep("best", b(k - 1), Tail(list)[k])
  <2> DEFINE hd == Head(list)
             tl == Tail(list)
  <2>1. m \in Nat /\ FoldOf("best", iter, hd, tl, 1 .. m)
    BY <1>2, <1>3
  <2> HIDE DEF m, hd, tl
  <2>2. iter[1 .. 0] = hd
    BY <2>1, FoldBegins, Zenon
  <2>3. \A k \in 1 .. m : iter[1 .. k] = FoldStep("best", iter[1 .. (k - 1)], tl[k])
    BY <2>1, FoldSteps
  <2> QED
    BY <2>2, <2>3 DEF hd, tl
<1>5. b(0) = list[1]
      /\ \A k \in 1 .. m : \/ b(k) = b(k - 1) /\ ~IsBetterThan(list[k + 1], b(k - 1))
                           \/ b(k) = list[k + 1] /\ IsBetterThan(list[k + 1], b(k - 1))
  <2> HIDE DEF b
  <2> QED
    BY <1>2, <1>4 DEF FoldStep
<1>6. Best(list) = b(m)
  BY <1>3
<1> HIDE DEF b, m
<1>7. m = n - 1
  BY DEF m
<1>8. Right(0)
  <2>1. 1 \in 1 .. 0 + 1 /\ \A i \in 1 .. 0 + 1 : i = 1
    OBVIOUS
  <2> QED
    BY <1>5, <2>1
<1>9. ASSUME NEW k \in 1 .. m, Right(k - 1) PROVE Right(k)
  <2>1. /\ k + 1 \in 1 .. n /\ (k - 1) + 1 = k /\ k \in 1 .. k + 1
        /\ k + 1 \in 1 .. k + 1 /\ 1 .. k \subseteq 1 .. k + 1 /\ 1 .. k + 1 \subseteq 1 .. n
        /\ \A i \in 1 .. k + 1 : i = k + 1 \/ i \in 1 .. k
    BY <1>7
  <2> DEFINE old == b(k - 1)
             elt == list[k + 1]
  <2>2. /\ \E j \in 1 .. k : old = list[j]
        /\ \A i \in 1 .. k : list[i] = old \/ IsBetterThan(old, list[i])
    BY <1>9, <2>1, Zenon
  <2>3. old \in locks /\ elt \in locks /\ \A i \in 1 .. k + 1 : list[i] \in locks
    BY <2>1, <2>2
  <2>4. \/ b(k) = old /\ ~IsBetterThan(elt, old)
        \/ b(k) = elt /\ IsBetterThan(elt, old)
    BY <1>5, Zenon
  <2> HIDE DEF old, elt
  <2>5. elt = list[k + 1]
    BY DEF elt
  <2>6. CASE b(k) = old /\ ~IsBetterThan(elt, old)
    <3>1. elt = old \/ IsBetterThan(old, elt)
      BY <2>3, <2>6, BetterLocks, Zenon
    <3>2. \E j \in 1 .. k + 1 : b(k) = list[j]
      BY <2>1, <2>2, <2>6
    <3>3. ASSUME NEW i \in 1 .. k + 1 PROVE list[i] = b(k) \/ IsBetterThan(b(k), list[i])
      BY <2>1, <2>2, <2>5, <2>6, <3>1, Zenon
    <3> QED
      BY <3>2, <3>3, Zenon
  <2>7. CASE b(k) = elt /\ IsBetterThan(elt, old)
    <3>1. \E j \in 1 .. k + 1 : b(k) = list[j]
      BY <2>1, <2>5, <2>7, Zenon
    <3>2. ASSUME NEW i \in 1 .. k + 1 PROVE list[i] = b(k) \/ IsBetterThan(b(k), list[i])
      <4>1. CASE i = k + 1
        BY <2>5, <2>7, <4>1, Zenon
      <4>2. CASE i \in 1 .. k
        <5>1. list[i] = old \/ IsBetterThan(old, list[i])
          BY <2>2, <4>2, Zenon
        <5>2. list[i] \in locks
          BY <2>3
        <5>3. IsBetterThan(elt, list[i])
          BY <2>3, <2>7, <5>1, <5>2, BetterLocks, Zenon
        <5> QED
          BY <2>7, <5>3, Zenon
      <4> QED
        BY <2>1, <4>1, <4>2
    <3> QED
      BY <3>1, <3>2, Zenon
  <2> QED
    BY <2>4, <2>6, <2>7
<1> HIDE DEF Right
<1>10. ASSUME T # {} PROVE FALSE
  <2>1. T \in SUBSET Nat
    BY <1>2
  <2>2. PICK k \in T : \A y \in T : k <= y
    BY <1>10, <2>1, Least
  <2>3. k \in 0 .. m /\ ~Right(k) /\ k # 0
    BY <1>8, <2>2
  <2>4. k \in 1 .. m /\ k - 1 \in 0 .. m /\ ~(k <= k - 1)
    BY <1>2, <2>3
  <2>5. Right(k - 1)
    BY <2>2, <2>4
  <2> QED
    BY <1>9, <2>3, <2>4, <2>5
<1>11. Right(m)
  BY <1>2, <1>10
<1>12. m + 1 = n
  BY <1>7
<1> QED
  BY <1>6, <1>11, <1>12, Zenon DEF Right

\* A sequence is the function of its elements.
LEMMA SeqIsFunction ==
    ASSUME NEW S, NEW w \in Seq(S)
    PROVE  DOMAIN w = 1 .. Len(w) /\ w = [i \in 1 .. Len(w) |-> w[i]]
<1>1. Len(w) \in Nat /\ DOMAIN w = 1 .. Len(w)
  OBVIOUS
<1>2. w \in [1 .. Len(w) -> S]
  OBVIOUS
<1> QED
  BY <1>1, <1>2

LEMMA Concatenated ==
    ASSUME NEW S, NEW a \in Seq(S), NEW z \in Seq(S)
    PROVE  a \o z \in Seq(S) /\ Len(a \o z) = Len(a) + Len(z)
OBVIOUS

\* A list that has no lock twice.
Once(list) == \A i, j \in DOMAIN list : list[i] = list[j] => i = j

\* The list of n locks without the j-th; and m locks after x, if d = 1.
LeftOut(list, n, j) == [i \in 1 .. n - 1 |-> IF i < j THEN list[i] ELSE list[i + 1]]

Start(d, x) == IF d = 0 THEN <<>> ELSE <<x>>

Following(d, x, rest, m) == [i \in 1 .. d + m |-> IF i <= d THEN x ELSE rest[i - d]]

\* RemFunc leaves out one lock and keeps the order of the others.
LEMMA RestOfList ==
    ASSUME NEW locks, ToldApart(locks), NEW n \in Nat, NEW list \in [1 .. n -> locks],
           Once(list), NEW j \in 1 .. n
    PROVE  RemFunc(list, list[j]) = LeftOut(list, n, j)
<1> DEFINE keep == list[j]
           I == {i \in 1 .. Len(list) : Equal(list[i], keep)}
<1>1. list \in Seq(locks) /\ Len(list) = n /\ DOMAIN list = 1 .. n
  OBVIOUS
<1>2. I = {j}
  <2>1. \A i \in 1 .. n : list[i] \in locks /\ (Equal(list[i], keep) <=> list[i] = keep)
    BY EqualLocks
  <2>2. \A i \in 1 .. n : list[i] = keep <=> i = j
    BY <1>1 DEF Once
  <2> QED
    BY <1>1, <2>1, <2>2
<1>3. HasLock(list, keep)
  BY <1>1, <1>2 DEF HasLock
<1>4. Seqs!SelectInSeq(list, LAMBDA x : Equal(x, keep)) = CHOOSE x \in I : \A y \in I : x =< y
  <2>1. I # {}
    BY <1>2
  <2> QED
    BY <2>1, Zenon DEF Seqs!SelectInSeq, Seqs!Min
<1>5. (CHOOSE x \in I : \A y \in I : x =< y) = j
  <2> HIDE DEF I
  <2>1. \E x \in I : \A y \in I : x =< y
    BY <1>2
  <2> DEFINE c == CHOOSE x \in I : \A y \in I : x =< y
  <2>2. c \in I
    BY <2>1, Zenon
  <2> HIDE DEF c
  <2>3. c = j
    BY <1>2, <2>2
  <2> QED
    BY <2>3 DEF c
<1>6. RemFunc(list, keep) = SubSeq(list, 1, j - 1) \o SubSeq(list, j + 1, n)
  <2>1. RemFunc(list, keep)
           = Seqs!RemoveAt(list, Seqs!SelectInSeq(list, LAMBDA x : Equal(x, keep)))
    BY <1>3, Zenon DEF RemFunc
  <2>2. RemFunc(list, keep) = Seqs!RemoveAt(list, j)
    BY <1>4, <1>5, <2>1, Zenon
  <2> QED
    BY <1>1, <2>2 DEF Seqs!RemoveAt
<1>7. SubSeq(list, 1, j - 1) \o SubSeq(list, j + 1, n)
         = [i \in 1 .. n - 1 |-> IF i < j THEN list[i] ELSE list[i + 1]]
  <2> DEFINE a == SubSeq(list, 1, j - 1)
             z == SubSeq(list, j + 1, n)
  <2>1. /\ a \in Seq(locks) /\ Len(a) = j - 1 /\ \A i \in 1 .. j - 1 : a[i] = list[i]
    BY <1>1
  <2>2. /\ z \in Seq(locks) /\ Len(z) = n - j /\ \A i \in 1 .. n - j : z[i] = list[j + i]
    BY <1>1
  <2> HIDE DEF a, z
  <2>3. /\ a \o z \in Seq(locks) /\ Len(a \o z) = n - 1
        /\ \A i \in 1 .. n - 1 : (a \o z)[i] = IF i < j THEN list[i] ELSE list[i + 1]
    <3>1. a \o z \in Seq(locks) /\ Len(a \o z) = n - 1
      <4>1. a \o z \in Seq(locks) /\ Len(a \o z) = Len(a) + Len(z)
        BY <2>1, <2>2, Concatenated
      <4> QED
        BY <2>1, <2>2, <4>1
    <3>2. ASSUME NEW i \in 1 .. n - 1
          PROVE  (a \o z)[i] = IF i < j THEN list[i] ELSE list[i + 1]
      <4>1. CASE i < j
        <5>1. (a \o z)[i] = a[i] /\ i \in 1 .. j - 1
          BY <2>1, <2>2, <4>1
        <5> QED
          BY <2>1, <4>1, <5>1
      <4>2. CASE ~(i < j)
        <5>1. (a \o z)[i] = z[i - (j - 1)] /\ i - (j - 1) \in 1 .. n - j
          BY <2>1, <2>2, <4>2
        <5>2. j + (i - (j - 1)) = i + 1
          OBVIOUS
        <5> QED
          BY <2>2, <4>2, <5>1, <5>2
      <4> QED
        BY <4>1, <4>2
    <3> QED
      BY <3>1, <3>2
  <2> DEFINE w == a \o z
  <2> HIDE DEF w
  <2>4. w = [i \in 1 .. n - 1 |-> w[i]]
    <3>1. w \in Seq(locks) /\ Len(w) = n - 1
      BY <2>3 DEF w
    <3> QED
      BY <3>1, SeqIsFunction
  <2>5. w = [i \in 1 .. n - 1 |-> IF i < j THEN list[i] ELSE list[i + 1]]
    <3>1. \A i \in 1 .. n - 1 : w[i] = IF i < j THEN list[i] ELSE list[i + 1]
      BY <2>3 DEF w
    <3> QED
      BY <2>4, <3>1
  <2> QED
    BY <2>5 DEF w, a, z
<1> QED
  BY <1>6, <1>7 DEF LeftOut

\* AddListFunc appends a list that has none of its locks.
LEMMA AddedList ==
    ASSUME NEW locks, ToldApart(locks), NEW m \in Nat, NEW rest \in [1 .. m -> locks],
           Once(rest), NEW d \in {0, 1}, NEW x \in locks,
           \A i \in 1 .. m : d = 1 => rest[i] # x
    PROVE  AddListFunc(Start(d, x), rest) = Following(d, x, rest, m)
<1> DEFINE base == Start(d, x)
<1> HIDE DEF base
<1>1. DOMAIN rest = 1 .. m
  OBVIOUS
<1>2. PICK iter : FoldOf("add", iter, base, rest, 1 .. m) /\ AddListFunc(base, rest) = iter[1 .. m]
  BY <1>1, AddListFuncFolds
<1> DEFINE h(k) == iter[1 .. k]
           l(k) == [i \in 1 .. d + k |-> IF i <= d THEN x ELSE rest[i - d]]
           T == {k \in 0 .. m : h(k) # l(k)}
<1>3. h(0) = base
  BY <1>2, FoldBegins, Zenon
<1>4. ASSUME NEW k \in 1 .. m PROVE h(k) = AddFunc(h(k - 1), rest[k])
  <2>1. h(k) = FoldStep("add", h(k - 1), rest[k])
    BY <1>2, FoldSteps
  <2> QED
    BY <2>1 DEF FoldStep
<1>5. AddListFunc(base, rest) = h(m)
  BY <1>2
<1> HIDE DEF h
<1>6. base = l(0)
  <2>1. CASE d = 0
    BY <2>1 DEF base, Start
  <2>2. CASE d = 1
    BY <2>2 DEF base, Start
  <2> QED
    BY <2>1, <2>2
<1>7. ASSUME NEW k \in 1 .. m PROVE AddFunc(l(k - 1), rest[k]) = l(k)
  <2> DEFINE g == l(k - 1)
             q == d + (k - 1)
             e == rest[k]
  <2>1. /\ q \in Nat /\ q + 1 = d + k /\ e \in locks
        /\ \A i \in 1 .. q : i <= d \/ (i - d \in 1 .. m /\ i - d # k)
    OBVIOUS
  <2>2. g = [i \in 1 .. q |-> IF i <= d THEN x ELSE rest[i - d]]
    BY Zenon
  <2> HIDE DEF g
  <2>3. DOMAIN g = 1 .. q
    BY <2>2
  <2>4. ASSUME NEW i \in 1 .. q PROVE g[i] \in locks /\ g[i] # e
    <3>1. g[i] = IF i <= d THEN x ELSE rest[i - d]
      BY <2>2, Zenon
    <3>2. CASE i <= d
      BY <3>1, <3>2
    <3>3. CASE ~(i <= d)
      <4>1. i - d \in 1 .. m /\ i - d # k
        BY <2>1, <3>3
      <4> QED
        BY <1>1, <3>1, <3>3, <4>1 DEF Once
    <3> QED
      BY <3>2, <3>3
  <2>5. ~HasLock(g, e)
    <3>1. \A i \in 1 .. q : ~Equal(g[i], e)
      BY <2>1, <2>4, EqualLocks
    <3> QED
      BY <2>3, <3>1, Zenon DEF HasLock
  <2>6. AddFunc(g, e) = Append(g, e)
    BY <2>5, Zenon DEF AddFunc
  <2>7. g \in [1 .. q -> locks]
    <3>1. g = [i \in DOMAIN g |-> g[i]]
      BY <2>2
    <3> QED
      BY <2>3, <2>4, <3>1
  <2>8. Append(g, e) = [i \in 1 .. q + 1 |-> IF i = q + 1 THEN e ELSE g[i]]
    <3> HIDE DEF q, e
    <3>1. g \in Seq(locks) /\ Len(g) = q
      BY <2>1, <2>7
    <3> DEFINE w == Append(g, e)
    <3>2. w \in Seq(locks) /\ Len(w) = q + 1
      BY <2>1, <3>1
    <3>3. \A i \in 1 .. q + 1 : w[i] = IF i = q + 1 THEN e ELSE g[i]
      BY <2>1, <3>1
    <3> HIDE DEF w
    <3>4. w = [i \in 1 .. q + 1 |-> w[i]]
      BY <3>2, SeqIsFunction
    <3>5. w = [i \in 1 .. q + 1 |-> IF i = q + 1 THEN e ELSE g[i]]
      BY <3>3, <3>4
    <3> QED
      BY <3>5 DEF w
  <2>9. \A i \in 1 .. q + 1 : (IF i = q + 1 THEN e ELSE g[i])
                                 = IF i <= d THEN x ELSE rest[i - d]
    <3> SUFFICES ASSUME NEW i \in 1 .. q + 1
                 PROVE  (IF i = q + 1 THEN e ELSE g[i]) = IF i <= d THEN x ELSE rest[i - d]
      OBVIOUS
    <3>1. CASE i = q + 1
      <4>1. ~(i <= d) /\ i - d = k
        BY <3>1
      <4> QED
        BY <3>1, <4>1
    <3>2. CASE i # q + 1
      <4>1. i \in 1 .. q
        BY <2>1, <3>2
      <4>2. g[i] = IF i <= d THEN x ELSE rest[i - d]
        BY <2>2, <4>1, Zenon
      <4> QED
        BY <3>2, <4>2, Zenon
    <3> QED
      BY <3>1, <3>2
  <2>10. Append(g, e) = [i \in 1 .. d + k |-> IF i <= d THEN x ELSE rest[i - d]]
    <3> HIDE DEF q, e
    <3> QED
      BY <2>1, <2>8, <2>9
  <2> QED
    BY <2>6, <2>10, Zenon DEF g
<1> HIDE DEF l
<1>8. ASSUME T # {} PROVE FALSE
  <2>1. T \in SUBSET Nat
    OBVIOUS
  <2>2. PICK k \in T : \A y \in T : k <= y
    BY <1>8, <2>1, Least
  <2>3. k \in 0 .. m /\ h(k) # l(k) /\ k # 0
    BY <1>3, <1>6, <2>2
  <2>4. k \in 1 .. m /\ k - 1 \in 0 .. m /\ ~(k <= k - 1)
    BY <2>3
  <2>5. h(k - 1) = l(k - 1)
    BY <2>2, <2>4
  <2> QED
    BY <1>4, <1>7, <2>3, <2>4, <2>5
<1>9. h(m) = l(m)
  BY <1>8
<1> QED
  BY <1>5, <1>9 DEF l, Following, base

\* Of a list of usable locks of any length, in any order, that are told apart by
\* their UIDs, analyzeAndRelease (ipam.go) keeps the best one, and its list of
\* locks to release has every other one once, with an undesired lock before them.
THEOREM KeepsBestReleasesRest ==
    ASSUME NEW locks, ToldApart(locks), NEW n \in Nat \ {0}, NEW usable \in [1 .. n -> locks],
           Once(usable)
    PROVE  LET keep == Best(usable)
               rest == RemFunc(usable, keep)
           IN /\ HasLock(usable, keep)
              /\ \A i \in DOMAIN usable : usable[i] = keep \/ IsBetterThan(keep, usable[i])
              /\ \A x \in locks :
                    LET release == AddListFunc(IF HasLock(usable, x) THEN <<>> ELSE <<x>>, rest)
                    IN /\ Len(release) = Len(usable) - (IF HasLock(usable, x) THEN 1 ELSE 0)
                       /\ Seqs!ToSet(release) = (Seqs!ToSet(usable) \cup {x}) \ {keep}
<1> DEFINE keep == Best(usable)
           rest == RemFunc(usable, keep)
<1>1. DOMAIN usable = 1 .. n /\ Len(usable) = n
  OBVIOUS
<1>2. PICK j \in 1 .. n : keep = usable[j]
  BY BestOfList
<1>3. \A i \in DOMAIN usable : usable[i] = keep \/ IsBetterThan(keep, usable[i])
  BY <1>1, BestOfList, Zenon
<1>4. \A y \in locks : HasLock(usable, y) <=> \E i \in 1 .. n : usable[i] = y
  <2> SUFFICES ASSUME NEW y \in locks
               PROVE  HasLock(usable, y) <=> \E i \in 1 .. n : usable[i] = y
    OBVIOUS
  <2>1. \A i \in 1 .. n : Equal(usable[i], y) <=> usable[i] = y
    BY EqualLocks
  <2> QED
    BY <1>1, <2>1, Zenon DEF HasLock
<1>5. keep \in locks /\ HasLock(usable, keep)
  BY <1>2, <1>4
<1> DEFINE m == n - 1
           Rest(i) == IF i < j THEN usable[i] ELSE usable[i + 1]
<1>6. m \in Nat /\ rest = [i \in 1 .. m |-> Rest(i)]
  <2>1. n \in Nat
    OBVIOUS
  <2>2. RemFunc(usable, usable[j]) = LeftOut(usable, n, j)
    BY <2>1, RestOfList, Zenon
  <2> QED
    BY <1>2, <2>2 DEF LeftOut
<1> HIDE DEF keep, rest
<1>7. /\ rest \in [1 .. m -> locks] /\ DOMAIN rest = 1 .. m
      /\ \A i \in 1 .. m : rest[i] = Rest(i) /\ rest[i] # keep
  <2>1. \A i \in 1 .. m : Rest(i) \in locks /\ Rest(i) # keep
    BY <1>1, <1>2 DEF Once
  <2> HIDE DEF Rest, m
  <2> QED
    BY <1>6, <2>1
<1>8. Once(rest)
  <2>1. ASSUME NEW a \in 1 .. m, NEW b \in 1 .. m, Rest(a) = Rest(b) PROVE a = b
    BY <1>1, <2>1 DEF Once
  <2> HIDE DEF Rest, m
  <2> QED
    BY <1>7, <2>1 DEF Once
<1>9. ASSUME NEW i \in 1 .. n, i # j PROVE \E a \in 1 .. m : rest[a] = usable[i]
  <2>1. CASE i < j
    <3>1. i \in 1 .. m /\ Rest(i) = usable[i]
      BY <2>1
    <3> QED
      BY <1>7, <3>1
  <2>2. CASE ~(i < j)
    <3>1. i - 1 \in 1 .. m /\ Rest(i - 1) = usable[i]
      <4>1. i - 1 \in 1 .. m /\ ~(i - 1 < j) /\ (i - 1) + 1 = i
        BY <1>9, <2>2
      <4> QED
        BY <4>1
    <3> QED
      BY <1>7, <3>1
  <2> QED
    BY <2>1, <2>2
<1>10. ASSUME NEW a \in 1 .. m PROVE \E i \in 1 .. n : rest[a] = usable[i]
  BY <1>7
<1>11. m + 1 = n
  OBVIOUS
<1> HIDE DEF m, Rest
<1>12. ASSUME NEW x \in locks
       PROVE  LET release == AddListFunc(IF HasLock(usable, x) THEN <<>> ELSE <<x>>, rest)
              IN /\ Len(release) = Len(usable) - (IF HasLock(usable, x) THEN 1 ELSE 0)
                 /\ Seqs!ToSet(release) = (Seqs!ToSet(usable) \cup {x}) \ {keep}
  <2> DEFINE d == IF HasLock(usable, x) THEN 0 ELSE 1
             base == IF HasLock(usable, x) THEN <<>> ELSE <<x>>
             release == AddListFunc(base, rest)
             At(i) == IF i <= d THEN x ELSE rest[i - d]
  <2>1. d \in {0, 1} /\ base = Start(d, x)
    BY DEF Start
  <2>2. d = 1 => \A i \in 1 .. n : usable[i] # x
    BY <1>4
  <2>3. \A a \in 1 .. m : d = 1 => rest[a] # x
    BY <1>10, <2>2
  <2>4. d = 0 => \E i \in 1 .. n : usable[i] = x
    BY <1>4
  <2>5. (IF HasLock(usable, x) THEN 1 ELSE 0) = 1 - d
    OBVIOUS
  <2> HIDE DEF d, base
  <2>6. release = [i \in 1 .. d + m |-> At(i)]
    <3>1. m \in Nat /\ rest \in [1 .. m -> locks]
      BY <1>6, <1>7
    <3>2. AddListFunc(base, rest) = Following(d, x, rest, m)
      <4>1. d \in {0, 1}
        BY <2>1
      <4>2. AddListFunc(Start(d, x), rest) = Following(d, x, rest, m)
        BY <1>8, <2>3, <3>1, <4>1, AddedList
      <4> QED
        BY <2>1, <4>2, Zenon
    <3> QED
      BY <3>2 DEF Following
  <2>7. d \in Nat /\ m \in Nat /\ d + m \in Nat
    BY <1>6, <2>1
  <2>8. ASSUME NEW i \in 1 .. d + m PROVE At(i) \in locks
    <3>1. CASE i <= d
      BY <3>1
    <3>2. CASE ~(i <= d)
      <4>1. i - d \in 1 .. m
        BY <2>7, <3>2
      <4> QED
        BY <1>7, <3>2, <4>1
    <3> QED
      BY <3>1, <3>2
  <2>9. \A i \in 1 .. m : d + i \in 1 .. d + m /\ At(d + i) = rest[i]
    <3> SUFFICES ASSUME NEW i \in 1 .. m PROVE d + i \in 1 .. d + m /\ At(d + i) = rest[i]
      OBVIOUS
    <3>1. d + i \in 1 .. d + m /\ ~(d + i <= d) /\ (d + i) - d = i
      BY <2>7
    <3> QED
      BY <3>1
  <2>10. \A i \in 1 .. d + m : (At(i) = x /\ d = 1) \/ \E a \in 1 .. m : At(i) = rest[a]
    <3> SUFFICES ASSUME NEW i \in 1 .. d + m
                 PROVE  (At(i) = x /\ d = 1) \/ \E a \in 1 .. m : At(i) = rest[a]
      OBVIOUS
    <3>1. CASE i <= d
      BY <2>1, <3>1
    <3>2. CASE ~(i <= d)
      <4>1. i - d \in 1 .. m /\ At(i) = rest[i - d]
        BY <2>7, <3>2
      <4> QED
        BY <4>1
    <3> QED
      BY <3>1, <3>2
  <2>11. d = 1 => 1 \in 1 .. d + m /\ At(1) = x
    BY <2>7
  <2> HIDE DEF At, release
  <2>12. Len(release) = d + m /\ DOMAIN release = 1 .. d + m
         /\ \A i \in 1 .. d + m : release[i] = At(i)
    <3>1. release \in [1 .. d + m -> locks]
      BY <2>6, <2>8
    <3>2. DOMAIN release = 1 .. d + m /\ \A i \in 1 .. d + m : release[i] = At(i)
      BY <2>6
    <3>3. Len(release) = d + m
      BY <2>7, <3>1
    <3> QED
      BY <3>2, <3>3
  <2>13. Len(release) = Len(usable) - (1 - d)
    BY <1>1, <1>11, <2>7, <2>12
  <2>14. Seqs!ToSet(usable) = {usable[i] : i \in 1 .. n}
         /\ Seqs!ToSet(release) = {At(i) : i \in 1 .. d + m}
    BY <1>1, <2>12 DEF Seqs!ToSet
  <2>15. ASSUME NEW y \in Seqs!ToSet(release)
         PROVE  y \in (Seqs!ToSet(usable) \cup {x}) \ {keep}
    <3>1. PICK i \in 1 .. d + m : y = At(i)
      BY <2>14
    <3>2. CASE At(i) = x /\ d = 1
      <4>1. x # keep
        BY <1>2, <2>2, <3>2
      <4> QED
        BY <3>1, <3>2, <4>1
    <3>3. CASE \E a \in 1 .. m : At(i) = rest[a]
      <4>1. PICK a \in 1 .. m : y = rest[a]
        BY <3>1, <3>3
      <4>2. y # keep /\ \E k \in 1 .. n : y = usable[k]
        BY <1>7, <1>10, <4>1
      <4> QED
        BY <2>14, <4>2
    <3> QED
      BY <2>10, <3>2, <3>3
  <2>16. ASSUME NEW y \in (Seqs!ToSet(usable) \cup {x}) \ {keep}
         PROVE  y \in Seqs!ToSet(release)
    <3>1. CASE \E i \in 1 .. n : y = usable[i]
      <4>1. PICK i \in 1 .. n : y = usable[i]
        BY <3>1
      <4>2. i # j
        BY <1>2, <2>16, <4>1
      <4>3. PICK a \in 1 .. m : rest[a] = y
        BY <1>9, <4>1, <4>2
      <4> QED
        BY <2>9, <2>14, <4>3
    <3>2. CASE y = x /\ d = 1
      BY <2>11, <2>14, <3>2
    <3>3. y = x \/ \E i \in 1 .. n : y = usable[i]
      BY <2>14, <2>16
    <3> QED
      BY <2>1, <2>4, <3>1, <3>2, <3>3
  <2>17. Seqs!ToSet(release) = (Seqs!ToSet(usable) \cup {x}) \ {keep}
    BY <2>15, <2>16
  <2>18. Len(release) = Len(usable) - (IF HasLock(usable, x) THEN 1 ELSE 0)
    BY <2>5, <2>13, Zenon
  <2> QED
    BY <2>17, <2>18, Zenon DEF release, base
<1> QED
  BY <1>3, <1>5, <1>12, Zenon DEF keep, rest

\* The locks on the members of the cache have different UIDs.
LEMMA LocksToldApart ==
    ASSUME IInv, NEW v
    PROVE  ToldApart(Locks(v))
<1> SUFFICES ASSUME NEW p \in Locks(v), NEW q \in Locks(v)
             PROVE  /\ p.UID \in Int /\ p.CreationTime \in Int
                    /\ p.UID = q.UID => p = q
  BY Zenon DEF ToldApart
<1>1. PICK x \in members : p = ParsedLock(LockName(v, x), x + 1, x \div 3)
  BY DEF Locks
<1>2. PICK y \in members : q = ParsedLock(LockName(v, y), y + 1, y \div 3)
  BY DEF Locks
<1>3. x \in Nat /\ y \in Nat
  BY RunBounds
<1>4. p.UID = x + 1 /\ p.CreationTime = x \div 3 /\ q.UID = y + 1
  BY <1>1, <1>2 DEF ParsedLock
<1>5. x \div 3 \in Int
  BY <1>3
<1>6. p.UID = q.UID => x = y
  BY <1>3, <1>4
<1> QED
  BY <1>1, <1>2, <1>3, <1>4, <1>5, <1>6

LEMMA ListsKept == IInv => ListsKeepOne
<1> SUFFICES ASSUME IInv, NEW v \in VNIs, NEW usable \in Lists(v), usable # <<>>
             PROVE  LET keep == Best(usable)
                        rest == RemFunc(usable, keep)
                    IN /\ HasLock(usable, keep)
                       /\ \A i \in DOMAIN usable :
                             usable[i] = keep \/ IsBetterThan(keep, usable[i])
                       /\ \A x \in Locks(v) :
                             LET release == AddListFunc(IF HasLock(usable, x) THEN <<>>
                                                        ELSE <<x>>, rest)
                             IN /\ Len(release)
                                     = Len(usable) - (IF HasLock(usable, x) THEN 1 ELSE 0)
                                /\ Seqs!ToSet(release)
                                     = (Seqs!ToSet(usable) \cup {x}) \ {keep}
  BY Zenon DEF ListsKeepOne
<1>1. PICK n \in 0 .. 3 : /\ usable \in [1 .. n -> Locks(v)]
                          /\ \A i, j \in 1 .. n : usable[i] = usable[j] => i = j
  BY DEF Lists
<1>2. n # 0
  <2>1. ASSUME n = 0 PROVE FALSE
    <3>1. usable \in Seq(Locks(v)) /\ Len(usable) = 0
      BY <1>1, <2>1
    <3> QED
      BY <3>1
  <2> QED
    BY <2>1
<1>3. n \in Nat \ {0} /\ ToldApart(Locks(v)) /\ Once(usable)
  BY <1>1, <1>2, LocksToldApart DEF Once
<1> QED
  BY <1>1, <1>3, KeepsBestReleasesRest, Zenon

\* In every state of the cache, whichever of its locks are usable and in whatever
\* order the indexer returned them: the best one is kept, also among locks of one
\* second, and each other lock is released exactly once.
THEOREM OneLockKept == Spec => []ListsKeepOne
<1>1. Init => IInv
  BY InitIInv
<1>2. IInv /\ [Next]_vars => IInv'
  BY NextIInv
<1>3. IInv => ListsKeepOne
  BY ListsKept
<1> QED
  BY <1>1, <1>2, <1>3, PTL DEF Spec
=============================================================================
