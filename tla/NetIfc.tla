------------------------------- MODULE NetIfc --------------------------------
(***************************************************************************)
(* Network Interfaces (pkg/networkfabric/interfaces.go) and the addresses   *)
(* the connection agent derives for them.  An interface is known by its     *)
(* VNI/IP pair <<vni, ip>>; ip is the tuple of the four bytes of the        *)
(* guest's address.  Its MAC address and the name of its Linux device are   *)
(* functions of the pair.                                                   *)
(***************************************************************************)
EXTENDS Integers, Sequences, FiniteSets

CONSTANTS
    Pairs,  \* the VNI/IP pairs of guests
    Hosts   \* the IP addresses of the nodes

Byte == 0 .. 255

ASSUME PairsAssumption ==
    \A p \in Pairs : p \in Nat \X (Byte \X Byte \X Byte \X Byte)

RemoteNetIfc == [pair : Pairs, host : Hosts]

Bit1(b) == (b \div 2) % 2

\* The first byte holds the bits 16 to 20 of the VNI, bit 1 of the first byte
\* of the IP, and the bit of locally administered addresses.
generateMACAddr(pair) ==
    LET vni == pair[1]
        ip == pair[2]
    IN << ((vni \div 65536) % 32) * 8 + Bit1(ip[1]) * 4 + 2,
          ip[2], ip[3], ip[4], (vni \div 256) % 256, vni % 256 >>

\* generateIfcName is one to one: the name of a device stands for its MAC.
generateIfcName(pair) == generateMACAddr(pair)
=============================================================================
