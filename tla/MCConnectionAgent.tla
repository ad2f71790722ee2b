-------------------------- MODULE MCConnectionAgent --------------------------
(***************************************************************************)
(* Instances of the connection agent for TLC.                               *)
(***************************************************************************)
EXTENDS ConnectionAgent

CONSTANTS k1, k2

Events3(write, crash, fault) ==
    "write" :> write @@ "crash" :> crash @@ "fault" :> fault

\* A virtual network with two addresses, and one with a single address.
TwoNetworks == {<<1, <<10, 0, 0, 1>>>>, <<1, <<10, 0, 0, 2>>>>, <<2, <<10, 0, 0, 1>>>>}
OneAddress == {<<1, <<10, 0, 0, 1>>>>}

Nodes == {"here", "there"}

Execs == [k \in Keys |-> IF k = k1 THEN "allowed" ELSE "none"]

\* Three changes of attachments; or two, with a restart and a failing call.
Busy == {Events3(3, 0, 0), Events3(2, 1, 1)}

\* Nothing fails; an attachment comes, moves away and comes back.
Wandering == {Events3(3, 0, 0)}
=============================================================================
