----------------------------- MODULE MCOVSFabric -----------------------------
(***************************************************************************)
(* Instances of the fabric on Open vSwitch for TLC.                         *)
(***************************************************************************)
EXTENDS OVSFabric

\* Two pairs of one virtual network whose MACs begin with different bytes, so
\* that the cookies of their flows differ.
DistinctCookies == {<<1, <<10, 0, 0, 1>>>>, <<1, <<8, 0, 0, 2>>>>}

\* Two pairs of one virtual network whose MACs begin with the same byte.
SameCookie == {<<1, <<10, 0, 0, 1>>>>, <<1, <<10, 0, 0, 2>>>>}
=============================================================================
