------------------------------ MODULE NetFabric ------------------------------
(***************************************************************************)
(* What a connection agent may expect of a network fabric                   *)
(* (pkg/networkfabric/interfaces.go): a set of local and a set of remote    *)
(* Network Interfaces, created and deleted one at a time, that outlive the  *)
(* agent.  A VNI/IP pair has at most one interface.                         *)
(***************************************************************************)
EXTENDS NetIfc

VARIABLES
    localIfcs,  \* the pairs that have a local interface
    remoteIfcs  \* the remote interfaces

fabricVars == <<localIfcs, remoteIfcs>>

-----------------------------------------------------------------------------
(* The operations.                                                          *)

InUse(pair) == pair \in localIfcs \/ \E r \in remoteIfcs : r.pair = pair

CreateLocalIfc(pair) ==
    /\ ~InUse(pair)
    /\ localIfcs' = localIfcs \cup {pair}
    /\ UNCHANGED remoteIfcs

\* Deleting an interface that does not exist is no error.
DeleteLocalIfc(pair) ==
    /\ localIfcs' = localIfcs \ {pair}
    /\ UNCHANGED remoteIfcs

CreateRemoteIfc(ifc) ==
    /\ ~InUse(ifc.pair)
    /\ remoteIfcs' = remoteIfcs \cup {ifc}
    /\ UNCHANGED localIfcs

DeleteRemoteIfc(ifc) ==
    /\ remoteIfcs' = remoteIfcs \ {ifc}
    /\ UNCHANGED localIfcs

-----------------------------------------------------------------------------

FabricInit ==
    /\ localIfcs = {}
    /\ remoteIfcs = {}

FabricNext ==
    \/ \E p \in Pairs : CreateLocalIfc(p) \/ DeleteLocalIfc(p)
    \/ \E r \in RemoteNetIfc : CreateRemoteIfc(r) \/ DeleteRemoteIfc(r)

FabricSpec == FabricInit /\ [][FabricNext]_fabricVars
=============================================================================
