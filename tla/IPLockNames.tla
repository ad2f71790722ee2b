----------------------------- MODULE IPLockNames ------------------------------
(***************************************************************************)
(* Addresses, names of IPLocks and lists of parsed IPLocks                  *)
(* (pkg/controllers/ipam/ipam.go, pkg/util/data.go).                        *)
(*                                                                          *)
(* An address is a uint32 in the address cache, a net.IP in the calls, and  *)
(* four decimal parts in the name of its lock; the controller learns which  *)
(* addresses are taken only from these names.  A net.IP is a sequence of    *)
(* bytes, of length 4 or 16.  A name is the sequence of its parts between   *)
(* dashes; a decimal number in a name is that number.                       *)
(***************************************************************************)
EXTENDS Integers, Sequences

Seqs == INSTANCE SequencesExt

Byte == 0 .. 255

MinVNI == 1
MaxVNI == 2097151  \* 2^21 - 1

ValidVNI == {vni \in Nat : MinVNI <= vni /\ vni <= MaxVNI}

-----------------------------------------------------------------------------
(* Addresses.                                                               *)

\* net.IPv4: the 16-byte form.
IPv4(a, b, c, d) == <<0, 0, 0, 0, 0, 0, 0, 0, 0, 0, 255, 255, a, b, c, d>>

\* net.IP.To4, of an IPv4 address.
To4(ip) == IF Len(ip) = 4 THEN ip ELSE <<ip[13], ip[14], ip[15], ip[16]>>

IPv4ToUint32(ip) ==
    LET v4 == To4(ip)
    IN v4[1] * 16777216 + v4[2] * 65536 + v4[3] * 256 + v4[4]

Uint32ToIPv4(i) ==
    IPv4((i \div 16777216) % 256, (i \div 65536) % 256, (i \div 256) % 256, i % 256)

\* The last four bytes, most significant first.
MakeUint32FromIPv4(ip) ==
    LET n == Len(ip)
    IN ip[n - 3] * 16777216 + ip[n - 2] * 65536 + ip[n - 1] * 256 + ip[n]

MakeIPv4FromUint32(n) ==
    <<(n \div 16777216) % 256, (n \div 65536) % 256, (n \div 256) % 256, n % 256>>

-----------------------------------------------------------------------------
(* Names of locks.                                                          *)

makeIPLockName2(vni, ip) ==
    LET v4 == To4(ip) IN <<"v1", vni, v4[1], v4[2], v4[3], v4[4]>>

Malformed == [ok |-> FALSE, VNI |-> 0, addrU |-> 0]

\* strconv.ParseUint into so many values.
Fits(n, values) == n \in Nat /\ n < values

\* Mutant: one bit less for the VNI.
MutParseIPLockName(name) ==
    IF /\ Len(name) = 6 /\ name[1] = "v1"
       /\ Fits(name[2], 1048576)
       /\ \A i \in 3 .. 6 : Fits(name[i], 256)
    THEN [ok |-> TRUE, VNI |-> name[2],
          addrU |-> ((name[3] * 256 + name[4]) * 256 + name[5]) * 256 + name[6]]
    ELSE Malformed

parseIPLockName(name) ==
    IF /\ Len(name) = 6 /\ name[1] = "v1"
       /\ Fits(name[2], 2097152)
       /\ \A i \in 3 .. 6 : Fits(name[i], 256)
    THEN [ok |-> TRUE, VNI |-> name[2],
          addrU |-> ((name[3] * 256 + name[4]) * 256 + name[5]) * 256 + name[6]]
    ELSE Malformed

-----------------------------------------------------------------------------
(* Parsed locks, and lists of them.                                         *)

ParsedLock(name, uid, ctime) ==
    [name |-> name, VNI |-> parseIPLockName(name).VNI,
     addrU |-> parseIPLockName(name).addrU, UID |-> uid, CreationTime |-> ctime]

zeroParsedLock == [name |-> <<>>, VNI |-> 0, addrU |-> 0, UID |-> 0, CreationTime |-> 0]

GetIP(x) == Uint32ToIPv4(x.addrU)

Equal(x, y) ==
    /\ x.VNI = y.VNI /\ x.UID = y.UID
    /\ x.CreationTime = y.CreationTime /\ x.addrU = y.addrU

\* Mutant: of two locks of one second neither is better.
MutIsBetterThan(x, y) == x.CreationTime < y.CreationTime

\* UIDs are compared as strings; here they are numbers.
IsBetterThan(x, y) ==
    \/ x.CreationTime < y.CreationTime
    \/ x.CreationTime = y.CreationTime /\ x.UID > y.UID

Best(list) ==
    IF list = <<>> THEN zeroParsedLock
    ELSE Seqs!FoldLeft(LAMBDA ans, elt : IF IsBetterThan(elt, ans) THEN elt ELSE ans,
                       Head(list), Tail(list))

HasLock(list, elt) == \E i \in DOMAIN list : Equal(list[i], elt)

AddFunc(list, elt) == IF HasLock(list, elt) THEN list ELSE Append(list, elt)

AddListFunc(list, list2) == Seqs!FoldLeft(AddFunc, list, list2)

\* The first lock equal to elt is left out.
RemFunc(list, elt) ==
    IF HasLock(list, elt)
    THEN Seqs!RemoveAt(list, Seqs!SelectInSeq(list, LAMBDA x : Equal(x, elt)))
    ELSE list
=============================================================================
