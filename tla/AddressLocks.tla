---------------------------- MODULE AddressLocks -----------------------------
(***************************************************************************)
(* The address cache of a virtual network together with the locks on the    *)
(* addresses that are taken: each member x of the cache stands for the      *)
(* address Base + x, and its lock has the name made from that address.      *)
(***************************************************************************)
EXTENDS UInt32Set, IPLockNames

CONSTANTS
    Base,  \* the address that the value 0 stands for
    VNIs   \* VNIs of Subnets

ASSUME AddressLocksAssumption ==
    /\ Base \in Nat /\ (Base + Last) \div 16777216 < 256  \* an IPv4 address
    /\ VNIs \subseteq ValidVNI

LockName(vni, x) == makeIPLockName2(vni, Uint32ToIPv4(Base + x))

\* The locks on the addresses that are taken; some are of one second.
Locks(vni) == {ParsedLock(LockName(vni, x), x + 1, x \div 3) : x \in members}

\* The lists of up to three of these locks, in any order.
Lists(vni) ==
    UNION {{list \in [1 .. n -> Locks(vni)] :
               \A i, j \in 1 .. n : list[i] = list[j] => i = j} : n \in 0 .. 3}

\* What the controller reads from the name of a lock is what it picked: for
\* every VNI that a Subnet may have and every address that is taken, across the
\* boundaries of bytes, the name parses to that VNI and that address, in either
\* length of a net.IP; the status and the fabric's table of locked pairs see
\* the same number.
NamesFaithful ==
    \A v \in VNIs, x \in members :
       LET ip == Uint32ToIPv4(Base + x)
           ip4 == MakeIPv4FromUint32(Base + x)
           slot == [ok |-> TRUE, VNI |-> v, addrU |-> Base + x]
       IN /\ parseIPLockName(makeIPLockName2(v, ip)) = slot
          /\ parseIPLockName(makeIPLockName2(v, ip4)) = slot
          /\ IPv4ToUint32(GetIP(ParsedLock(LockName(v, x), 1, 1))) = Base + x
          /\ MakeUint32FromIPv4(ip) = Base + x /\ MakeUint32FromIPv4(ip4) = Base + x

\* What analyzeAndRelease does with its lists does not depend on the order in
\* which the indexer returned the locks: whichever locks are usable and whichever
\* undesired, the one that is kept is the best of the usable ones also among
\* locks of one second, and every other is released exactly once.
ListsKeepOne ==
    \A v \in VNIs : \A usable \in Lists(v) : usable # <<>> =>
       LET keep == Best(usable)
           rest == RemFunc(usable, keep)
       IN /\ HasLock(usable, keep)
          /\ \A i \in DOMAIN usable : usable[i] = keep \/ IsBetterThan(keep, usable[i])
          /\ \A x \in Locks(v) :
                LET release == AddListFunc(IF HasLock(usable, x) THEN <<>> ELSE <<x>>, rest)
                IN /\ Len(release) = Len(usable) - (IF HasLock(usable, x) THEN 1 ELSE 0)
                   /\ Seqs!ToSet(release) = (Seqs!ToSet(usable) \cup {x}) \ {keep}
=============================================================================
