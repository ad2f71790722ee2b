------------------------------- MODULE MCIPAM -------------------------------
(***************************************************************************)
(* Instances of the IPAM controller for TLC.  Budget values bound what the  *)
(* environment does: attachment creations and deletions, updates by others, *)
(* Subnet writes, controller restarts, failed calls and calls refused as    *)
(* invalid.                                                                 *)
(***************************************************************************)
EXTENDS IPAM, TLC

CONSTANTS k1, k2, s1, c1

\* A Subnet of two addresses, and one of one address.
Pair == {[vni |-> 1, base |-> 0, last |-> 1]}
Single == {[vni |-> 1, base |-> 0, last |-> 0]}

\* Attachments of one namespace.
Names == [k \in Keys |-> IF k = k1 THEN "one" ELSE "two"]
SameNamespace == [k \in Keys |-> Subnets]

Events7(create, delete, touch, subnet, crash, fault, invalid) ==
    "create" :> create @@ "delete" :> delete @@ "touch" :> touch
    @@ "subnet" :> subnet @@ "crash" :> crash @@ "fault" :> fault
    @@ "invalid" :> invalid

\* Attachments come and go, the controller restarts, every call succeeds.
Calm == {Events7(3, 1, 0, 0, 0, 0, 0), Events7(2, 1, 0, 0, 1, 0, 0)}

\* Calls fail, before or after they take effect, the controller restarts; or the
\* Subnet changes, a client updates the attachment and a call is refused.
Rough == {Events7(2, 1, 0, 0, 0, 1, 0), Events7(2, 0, 1, 0, 0, 1, 0),
          Events7(2, 0, 0, 0, 1, 1, 1), Events7(1, 0, 1, 2, 0, 0, 0),
          Events7(1, 0, 0, 2, 0, 0, 1)}

\* One attachment waits for the address that another gives up.
Handover == {Events7(2, 1, 0, 0, 1, 0, 0)}

\* A client or a connection agent updates an attachment once.
OneUpdate == {Events7(2, 0, 1, 0, 0, 0, 0)}

\* Definitions a Subnet can move between: other addresses, another VNI.
Moving == {[vni |-> 1, base |-> 0, last |-> 1], [vni |-> 2, base |-> 1, last |-> 1]}

SymKeys == Permutations(Keys)
=============================================================================
