-------------------------- MODULE MCSubnetRegistry --------------------------
(* Instances of Subnet admission for TLC.                                   *)
EXTENDS SubnetRegistry

CONSTANTS v1, v2, a1, a2, b1  \* a1 and a2 are in one namespace, b1 in another

Namespaces == [s \in Subnets |-> IF s = b1 THEN "b" ELSE "a"]

Range(vni, base, last) == [vni |-> vni, cidr |-> TRUE, base |-> base, last |-> last]
Malformed == [vni |-> 1, cidr |-> FALSE, base |-> 0, last |-> 0]

Wide == Range(1, 0, 3)
Low == Range(1, 0, 1)
High == Range(1, 2, 3)
Elsewhere == Range(2, 0, 1)
WrongVNI == Range(0, 0, 1)

MCSpecs == {Wide, Low, High, Elsewhere, WrongVNI, Malformed}

Want(a1Goal, a2Goal, b1Goal) ==
    [s \in Subnets |-> CASE s = a1 -> a1Goal [] s = a2 -> a2Goal [] OTHER -> b1Goal]

\* A Subnet grows over the range that another leaves; a VNI changes hands
\* between namespaces; goals that cannot be had together, or at all, are given
\* up for goals that can.
Moves == {<<Want(Low, High, NoSpec), Want(Wide, NoSpec, NoSpec)>>,
          <<Want(Low, NoSpec, NoSpec), Want(NoSpec, NoSpec, High)>>,
          <<Want(Low, NoSpec, High), Want(Low, NoSpec, Elsewhere)>>,
          <<Want(WrongVNI, Malformed, NoSpec), Want(Low, NoSpec, NoSpec)>>}
=============================================================================
