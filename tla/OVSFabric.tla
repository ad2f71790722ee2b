------------------------------ MODULE OVSFabric ------------------------------
(***************************************************************************)
(* The network fabric on Open vSwitch (pkg/networkfabric/ovs/ovs.go).       *)
(*                                                                          *)
(* A local interface is a device on the bridge and three OpenFlow flows; a  *)
(* remote interface is two flows.  Each operation is a sequence of commands *)
(* (ovs-vsctl, ovs-ofctl), each of which is a step and can fail without     *)
(* effect; a bundle of flows is added or deleted as a whole.  The pair of   *)
(* an interface is locked, in memory, while the interface exists.  The      *)
(* process can die at any step; the bridge keeps its devices and flows, and *)
(* the next process lists them before it does anything else.                *)
(*                                                                          *)
(* The client is the connection agent: some goroutines, each with one call  *)
(* in progress.  It deletes local interfaces it has and ones that do not    *)
(* exist, and remote ones it has; it asks for any others.                   *)
(***************************************************************************)
EXTENDS NetIfc, FiniteSetsExt, Functions

CONSTANTS
    Threads,  \* goroutines of the client
    Ports     \* the OpenFlow ports that the bridge gives to devices

\* The host of flows and calls that have none.
NoHost == ""

ASSUME OVSAssumption ==
    /\ Ports \subseteq Nat \ {0}
    /\ NoHost \notin Hosts

VARIABLES
    devices,           \* the bridge: <<name, ofport>> of its interfaces
    flows,             \* the bridge: its flows
    lockedVNIIPPairs,  \* the pairs that are locked
    call,              \* goroutine -> the call in progress
    localHad,          \* local interfaces the client knows it has
    remoteHad,         \* remote interfaces the client knows it has
    phase,             \* of the process
    incompleteIfcs,    \* devices without flows, to be deleted at start-up
    leaked,            \* devices whose clean-up failed (history)
    mixed              \* two remote interfaces were listed as one (history)

bridgeVars == <<devices, flows>>
clientVars == <<localHad, remoteHad>>
startVars == <<phase, incompleteIfcs>>
vars == <<bridgeVars, lockedVNIIPPairs, call, clientVars, startVars, leaked, mixed>>

-----------------------------------------------------------------------------
(* Flows.                                                                   *)

\* The names of the bridge's own interface and of the tunnel's.
bridge == <<"bridge">>
vtep == <<"vtep">>

vtepOFport == 0     \* the port of the tunnel
bridgeOFport == -2  \* the port of the bridge
NoPort == -1

\* binary.Uvarint: seven bits of each byte up to the first one below 128; 0 if
\* there is none.
Uvarint(buf) ==
    LET ends == {i \in DOMAIN buf : buf[i] < 128}
    IN IF ends = {} THEN 0
       ELSE MapThenSumSet(LAMBDA i : (buf[i] % 128) * 128^(i - 1), 1 .. Min(ends))

\* A flow: what it matches (addr is a port, a MAC or an IP; the flow of a port
\* matches no VNI, the default flow of a table matches everything) and what it
\* does: output to port out, through the tunnel to host; for the flow of a
\* port, set vni and resubmit.
Flow(kind, vni, addr, act, out, host, cookie) ==
    [kind |-> kind, vni |-> vni, addr |-> addr, act |-> act, out |-> out,
     host |-> host, cookie |-> cookie]

Match(f) ==
    CASE f.kind = "default" -> <<f.kind, f.act>>
      [] f.kind = "in_port" -> <<f.kind, f.addr>>
      [] OTHER -> <<f.kind, f.vni, f.addr>>

\* A flow replaces the one with the same match.
AddFlows(new) ==
    flows' = {f \in flows : \A g \in new : Match(f) # Match(g)} \cup new

DelFlows(matches) == flows' = {f \in flows : Match(f) \notin matches}

\* Of table 0 and of table 1.
DefaultFlows ==
    {Flow("default", 0, <<>>, act, NoPort, NoHost, 0) : act \in {"resubmit", "drop"}}

LocalIfcFlows(port, pair) ==
    { Flow("in_port", pair[1], port, "resubmit", NoPort, NoHost, 0),
      Flow("dl", pair[1], generateMACAddr(pair), "output", port, NoHost, 0),
      Flow("arp", pair[1], pair[2], "output", port, NoHost, 0) }

RemoteIfcFlows(ifc) ==
    LET cookie == Uvarint(ifc.mac)
    IN { Flow("dl", ifc.pair[1], ifc.mac, "tunnel", vtepOFport, ifc.host, cookie),
         Flow("arp", ifc.pair[1], ifc.pair[2], "tunnel", vtepOFport, ifc.host, cookie) }

\* The matches of the two flows that every interface has.
IfcMatches(pair, mac) == {<<"dl", pair[1], mac>>, <<"arp", pair[1], pair[2]>>}

isTunneling(f) == f.kind = "in_port"
isARP(f) == f.kind = "arp"
isLocal(f) == f.kind = "in_port" \/ f.act = "output"
isRemote(f) == f.act = "tunnel"

-----------------------------------------------------------------------------
(* Devices, locks and calls.                                                *)

HasDevice(name) == \E port \in Ports : <<name, port>> \in devices

PortOf(name) == CHOOSE port \in Ports : <<name, port>> \in devices

\* ovs-vsctl add-port: the bridge chooses a free port; a name that exists is an
\* error.
AddPort(name) ==
    /\ ~HasDevice(name)
    /\ \E port \in Ports : /\ \A d \in devices : d[2] # port
                           /\ devices' = devices \cup {<<name, port>>}

DelPort(name) == devices' = {d \in devices : d[1] # name}

\* Mutant: it is not checked whether the pair is locked.
MutLockVNIIPPair(pair) == lockedVNIIPPairs' = lockedVNIIPPairs \cup {pair}

lockVNIIPPair(pair) ==
    /\ pair \notin lockedVNIIPPairs
    /\ lockedVNIIPPairs' = lockedVNIIPPairs \cup {pair}

unlockVNIIPPair(pair) == lockedVNIIPPairs' = lockedVNIIPPairs \ {pair}

\* A call: the operation, its interface, the next command and the port found.
NoCall == [op |-> "none", pair |-> <<>>, host |-> NoHost, mac |-> <<>>, pc |-> "none",
           port |-> NoPort]

Call(op, pair, host, mac, pc) ==
    [op |-> op, pair |-> pair, host |-> host, mac |-> mac, pc |-> pc, port |-> NoPort]

At(t, op, pc) == phase = "run" /\ call[t].op = op /\ call[t].pc = pc

Goto(t, pc) == call' = [call EXCEPT ![t].pc = pc]

Return(t) == call' = [call EXCEPT ![t] = NoCall]

Name(t) == generateIfcName(call[t].pair)

\* While a goroutine of the client deletes an interface no other deletes it, or
\* makes one with its pair: the pair of an interface that exists is locked, and
\* of one that does not exist this is supposed of the client.
Deleting(op, pair) == \E t \in Threads : call[t].op = op /\ call[t].pair = pair

-----------------------------------------------------------------------------
(* CreateLocalIfc.  A call that finds the pair locked returns at once and   *)
(* changes nothing: it is no step.                                          *)

CreateLocalIfc(t, pair) ==
    /\ phase = "run" /\ call[t] = NoCall
    /\ ~Deleting("deleteLocal", pair)
    /\ lockVNIIPPair(pair)
    /\ call' = [call EXCEPT ![t] =
          Call("createLocal", pair, NoHost, generateMACAddr(pair), "device")]
    /\ UNCHANGED <<bridgeVars, clientVars, startVars, leaked, mixed>>

createIfc(t) ==
    /\ At(t, "createLocal", "device")
    /\ \/ AddPort(Name(t)) /\ Goto(t, "ofport")
       \/ Goto(t, "unlock") /\ UNCHANGED devices
    /\ UNCHANGED <<flows, lockedVNIIPPairs, clientVars, startVars, leaked, mixed>>

\* The bridge is supposed to print the number of the port: parseOFport takes
\* anything else for port 0.
getNewIfcOFport(t) ==
    /\ At(t, "createLocal", "ofport")
    /\ \/ /\ HasDevice(Name(t))
          /\ call' = [call EXCEPT ![t].pc = "flows", ![t].port = PortOf(Name(t))]
       \/ Goto(t, "cleanUp")
    /\ UNCHANGED <<bridgeVars, lockedVNIIPPairs, clientVars, startVars, leaked, mixed>>

addLocalIfcFlows(t) ==
    /\ At(t, "createLocal", "flows")
    /\ \/ /\ AddFlows(LocalIfcFlows(call[t].port, call[t].pair))
          /\ localHad' = localHad \cup {call[t].pair}
          /\ Return(t)
       \/ Goto(t, "cleanUp") /\ UNCHANGED <<flows, localHad>>
    /\ UNCHANGED <<devices, lockedVNIIPPairs, remoteHad, startVars, leaked, mixed>>

\* The first deferred function; when it fails too the device stays.
cleanUp(t) ==
    /\ At(t, "createLocal", "cleanUp")
    /\ \/ HasDevice(Name(t)) /\ DelPort(Name(t)) /\ UNCHANGED leaked
       \/ leaked' = leaked \cup {Name(t)} /\ UNCHANGED devices
    /\ Goto(t, "unlock")
    /\ UNCHANGED <<flows, lockedVNIIPPairs, clientVars, startVars, mixed>>

\* The deferred function that unlocks the pair of an interface that could not
\* be created.
unlockAfterError(t) ==
    /\ phase = "run" /\ call[t].pc = "unlock"
    /\ unlockVNIIPPair(call[t].pair)
    /\ Return(t)
    /\ UNCHANGED <<bridgeVars, clientVars, startVars, leaked, mixed>>

-----------------------------------------------------------------------------
(* DeleteLocalIfc, of an interface that the client has or of one that does  *)
(* not exist.                                                               *)

\* Nobody has an interface with the pair, or is making one.
Absent(pair) == pair \notin lockedVNIIPPairs

DeleteLocalIfc(t, pair) ==
    /\ phase = "run" /\ call[t] = NoCall
    /\ pair \in localHad \/ Absent(pair)
    /\ ~Deleting("deleteLocal", pair)
    /\ call' = [call EXCEPT ![t] =
          Call("deleteLocal", pair, NoHost, generateMACAddr(pair), "ofport")]
    /\ UNCHANGED <<bridgeVars, lockedVNIIPPairs, clientVars, startVars, leaked, mixed>>

\* A device that does not exist is an error, as is a command that fails: the
\* deletion of an interface that does not exist fails, where interfaces.go asks
\* the implementer of a fabric to return nil.
getOldIfcOFport(t) ==
    /\ At(t, "deleteLocal", "ofport")
    /\ \/ /\ HasDevice(Name(t))
          /\ call' = [call EXCEPT ![t].pc = "flows", ![t].port = PortOf(Name(t))]
       \/ Return(t)
    /\ UNCHANGED <<bridgeVars, lockedVNIIPPairs, clientVars, startVars, leaked, mixed>>

\* Mutant: the flow of the device's port stays.
MutDeleteLocalIfcFlows(t) ==
    /\ At(t, "deleteLocal", "flows")
    /\ \/ DelFlows(IfcMatches(call[t].pair, call[t].mac)) /\ Goto(t, "device")
       \/ Return(t) /\ UNCHANGED flows
    /\ UNCHANGED <<devices, lockedVNIIPPairs, clientVars, startVars, leaked, mixed>>

deleteLocalIfcFlows(t) ==
    /\ At(t, "deleteLocal", "flows")
    /\ \/ /\ DelFlows({<<"in_port", call[t].port>>} \cup IfcMatches(call[t].pair, call[t].mac))
          /\ Goto(t, "device")
       \/ Return(t) /\ UNCHANGED flows
    /\ UNCHANGED <<devices, lockedVNIIPPairs, clientVars, startVars, leaked, mixed>>

deleteIfc(t) ==
    /\ At(t, "deleteLocal", "device")
    /\ \/ HasDevice(Name(t)) /\ DelPort(Name(t)) /\ Goto(t, "unlockDeleted")
       \/ Return(t) /\ UNCHANGED devices
    /\ UNCHANGED <<flows, lockedVNIIPPairs, clientVars, startVars, leaked, mixed>>

\* The end of DeleteLocalIfc and of DeleteRemoteIfc.
unlockDeleted(t) ==
    /\ phase = "run" /\ call[t].pc = "unlockDeleted"
    /\ unlockVNIIPPair(call[t].pair)
    /\ localHad' = IF call[t].op = "deleteLocal" THEN localHad \ {call[t].pair} ELSE localHad
    /\ remoteHad' = IF call[t].op = "deleteRemote"
                    THEN {r \in remoteHad : r.pair # call[t].pair} ELSE remoteHad
    /\ Return(t)
    /\ UNCHANGED <<bridgeVars, startVars, leaked, mixed>>

-----------------------------------------------------------------------------
(* Remote interfaces.                                                       *)

CreateRemoteIfc(t, pair, host) ==
    /\ phase = "run" /\ call[t] = NoCall
    /\ ~Deleting("deleteLocal", pair)
    /\ lockVNIIPPair(pair)
    /\ call' = [call EXCEPT ![t] =
          Call("createRemote", pair, host, generateMACAddr(pair), "flows")]
    /\ UNCHANGED <<bridgeVars, clientVars, startVars, leaked, mixed>>

CalledIfc(t) == [pair |-> call[t].pair, host |-> call[t].host, mac |-> call[t].mac]

addRemoteIfcFlows(t) ==
    /\ At(t, "createRemote", "flows")
    /\ \/ /\ AddFlows(RemoteIfcFlows(CalledIfc(t)))
          /\ remoteHad' = remoteHad \cup {CalledIfc(t)}
          /\ Return(t)
       \/ Goto(t, "unlock") /\ UNCHANGED <<flows, remoteHad>>
    /\ UNCHANGED <<devices, lockedVNIIPPairs, localHad, startVars, leaked, mixed>>

\* The deletion of a remote interface that does not exist finds no flows and
\* succeeds: it is no step.
DeleteRemoteIfc(t, ifc) ==
    /\ phase = "run" /\ call[t] = NoCall
    /\ ~Deleting("deleteRemote", ifc.pair)
    /\ call' = [call EXCEPT ![t] = Call("deleteRemote", ifc.pair, ifc.host, ifc.mac, "flows")]
    /\ UNCHANGED <<bridgeVars, lockedVNIIPPairs, clientVars, startVars, leaked, mixed>>

deleteRemoteIfcFlows(t) ==
    /\ At(t, "deleteRemote", "flows")
    /\ \/ /\ DelFlows(IfcMatches(call[t].pair, call[t].mac))
          /\ Goto(t, "unlockDeleted")
       \/ Return(t) /\ UNCHANGED flows
    /\ UNCHANGED <<devices, lockedVNIIPPairs, clientVars, startVars, leaked, mixed>>

-----------------------------------------------------------------------------
(* Start-up: the bridge, then ListLocalIfcs and ListRemoteIfcs.             *)

\* The bridge and its tunnel may exist; their default flows replace themselves.
\* A command that fails ends the process.
createBridge ==
    /\ phase = "start"
    /\ devices' = devices \cup {<<bridge, bridgeOFport>>}
    /\ phase' = "addVTEP"
    /\ UNCHANGED <<flows, lockedVNIIPPairs, call, clientVars, incompleteIfcs, leaked, mixed>>

addVTEP ==
    /\ phase = "addVTEP"
    /\ devices' = devices \cup {<<vtep, vtepOFport>>}
    /\ phase' = "addDefaultFlows"
    /\ UNCHANGED <<flows, lockedVNIIPPairs, call, clientVars, incompleteIfcs, leaked, mixed>>

addDefaultFlows ==
    /\ phase = "addDefaultFlows"
    /\ <<vtep, vtepOFport>> \in devices   \* getIfcOFport(f.vtep)
    /\ AddFlows(DefaultFlows)
    /\ phase' = "listLocal"
    /\ UNCHANGED <<devices, lockedVNIIPPairs, call, clientVars, incompleteIfcs, leaked, mixed>>

initBridge == createBridge \/ addVTEP \/ addDefaultFlows

\* The devices on the bridge that are neither the bridge itself nor its tunnel.
parseOFportsAndIfcNames(list) == {d \in list : d[1] # vtep /\ d[1] # bridge}

\* The node has one bridge: the list of all Open vSwitch interfaces is its.
getOFportsToLocalIfcNames == parseOFportsAndIfcNames(devices)

onlyUsefulLocalFlows(dump) == {f \in dump : isLocal(f) /\ ~isTunneling(f)}

\* The bridge's flows as a dump has them.
getFlows == flows

getUsefulLocalFlows == onlyUsefulLocalFlows(getFlows)

usefulLocalFlowOFport(f) == f.out

ofPortToLocalFlowsPairs(port) ==
    {f \in getUsefulLocalFlows : usefulLocalFlowOFport(f) = port}

\* Mutant: devices without flows are skipped.
MutNameIfcs ==
    /\ phase = "listLocal"
    /\ phase' = "cleanLocal"
    /\ UNCHANGED <<bridgeVars, lockedVNIIPPairs, call, clientVars, incompleteIfcs, leaked, mixed>>

\* ListLocalIfcs up to nameIfcs: the devices for which there are no flows.
nameIfcs ==
    /\ phase = "listLocal"
    /\ incompleteIfcs' = {d[1] : d \in {e \in getOFportsToLocalIfcNames :
                                          ofPortToLocalFlowsPairs(e[2]) = {}}}
    /\ phase' = "cleanLocal"
    /\ UNCHANGED <<bridgeVars, lockedVNIIPPairs, call, clientVars, leaked, mixed>>

\* Best effort: a device that cannot be deleted stays.
deleteIncompleteIfcs ==
    /\ phase = "cleanLocal"
    /\ \E name \in incompleteIfcs :
         /\ \/ DelPort(name) /\ UNCHANGED leaked
            \/ leaked' = leaked \cup {name} /\ UNCHANGED devices
         /\ incompleteIfcs' = incompleteIfcs \ {name}
    /\ UNCHANGED <<flows, lockedVNIIPPairs, call, clientVars, phase, mixed>>

\* Mutant: any flow is read as the ARP flow.
MutParseFlows(group) ==
    {[pair |-> <<f.vni, a.addr>>, host |-> f.host, mac |-> d.addr] :
        f \in group, a \in group, d \in {g \in group : ~isARP(g)}}

\* The interfaces that a group of flows can be parsed into: the VNI and the host
\* are those of one of the flows, the IP that of an ARP flow, the MAC that of
\* another flow.  For a pair of flows there is one.
parseFlows(group) ==
    {[pair |-> <<f.vni, a.addr>>, host |-> f.host, mac |-> d.addr] :
        f \in group, a \in {g \in group : isARP(g)}, d \in {g \in group : ~isARP(g)}}

completeIfcs ==
    UNION {parseFlows(ofPortToLocalFlowsPairs(d[2])) : d \in getOFportsToLocalIfcNames}

\* The rest of ListLocalIfcs.
ListLocalIfcs ==
    /\ phase = "cleanLocal" /\ incompleteIfcs = {}
    /\ localHad' = {i.pair : i \in completeIfcs}
    /\ lockedVNIIPPairs' = lockedVNIIPPairs \cup {i.pair : i \in completeIfcs}
    /\ phase' = "listRemote"
    /\ UNCHANGED <<bridgeVars, call, remoteHad, incompleteIfcs, leaked, mixed>>

onlyRemoteFlows(dump) == {f \in dump : isRemote(f)}

getRemoteFlows == onlyRemoteFlows(getFlows)

\* The remote flows, grouped by cookie.
pairRemoteFlowsPerIfc ==
    {{f \in getRemoteFlows : f.cookie = c} : c \in {f.cookie : f \in getRemoteFlows}}

\* The lists that groups of flows can be parsed into: an interface for each
\* group, whatever the order of the flows.
parseRemoteFlowsPairs(groups) ==
    {Range(parsed) : parsed \in
        {choice \in [groups -> UNION {parseFlows(g) : g \in groups}] :
            \A g \in groups : choice[g] \in parseFlows(g)}}

\* A group holds the flows of more than one interface.
Ambiguous == \E g \in pairRemoteFlowsPerIfc : \E f, h \in g : isARP(f) /\ isARP(h) /\ f # h

ListRemoteIfcs ==
    /\ phase = "listRemote"
    /\ remoteHad' \in parseRemoteFlowsPairs(pairRemoteFlowsPerIfc)
    /\ lockedVNIIPPairs' = lockedVNIIPPairs \cup {r.pair : r \in remoteHad'}
    /\ mixed' = (mixed \/ Ambiguous)
    /\ phase' = "run"
    /\ UNCHANGED <<bridgeVars, call, localHad, incompleteIfcs, leaked>>

\* The process ends, also because a command of its start-up failed, and is
\* started again.
Crash ==
    /\ lockedVNIIPPairs' = {}
    /\ call' = [t \in Threads |-> NoCall]
    /\ localHad' = {} /\ remoteHad' = {}
    /\ phase' = "start"
    /\ incompleteIfcs' = {}
    /\ UNCHANGED <<bridgeVars, leaked, mixed>>

-----------------------------------------------------------------------------

Init ==
    /\ devices = {} /\ flows = {}
    /\ lockedVNIIPPairs = {}
    /\ call = [t \in Threads |-> NoCall]
    /\ localHad = {} /\ remoteHad = {}
    /\ phase = "start"
    /\ incompleteIfcs = {}
    /\ leaked = {} /\ mixed = FALSE

LocalNext(t) ==
    \/ \E p \in Pairs : CreateLocalIfc(t, p)
    \/ createIfc(t)
    \/ getNewIfcOFport(t)
    \/ addLocalIfcFlows(t)
    \/ cleanUp(t)
    \/ unlockAfterError(t)
    \/ \E p \in Pairs : DeleteLocalIfc(t, p)
    \/ getOldIfcOFport(t)
    \/ deleteLocalIfcFlows(t)
    \/ deleteIfc(t)
    \/ unlockDeleted(t)

RemoteNext(t) ==
    \/ \E p \in Pairs, h \in Hosts : CreateRemoteIfc(t, p, h)
    \/ addRemoteIfcFlows(t)
    \/ \E r \in remoteHad : DeleteRemoteIfc(t, r)
    \/ deleteRemoteIfcFlows(t)

StartNext ==
    \/ initBridge
    \/ nameIfcs
    \/ deleteIncompleteIfcs
    \/ ListLocalIfcs
    \/ ListRemoteIfcs

Next ==
    \/ \E t \in Threads : LocalNext(t) \/ RemoteNext(t)
    \/ StartNext
    \/ Crash

Spec == Init /\ [][Next]_vars

-----------------------------------------------------------------------------
(* Properties.                                                              *)

\* The bridge has the devices of interfaces and no others, and everything that is
\* recorded, or was parsed from the bridge's flows, is an address or a host.
TypeOK ==
    /\ getOFportsToLocalIfcNames \subseteq {generateIfcName(p) : p \in Pairs} \X Ports
    /\ lockedVNIIPPairs \subseteq Pairs /\ localHad \subseteq Pairs
    /\ \A r \in remoteHad : r.pair \in Pairs /\ r.host \in Hosts
    /\ \A t \in Threads : call[t] = NoCall \/ call[t].pair \in Pairs
    /\ phase \in {"start", "addVTEP", "addDefaultFlows", "listLocal", "cleanLocal",
                  "listRemote", "run"}

\* The interfaces that are complete: the device and all the flows are there.
LocalUp ==
    {p \in Pairs : \E port \in Ports : /\ <<generateIfcName(p), port>> \in devices
                                       /\ LocalIfcFlows(port, p) \subseteq flows}

WithMAC(ifc) == [pair |-> ifc.pair, host |-> ifc.host, mac |-> generateMACAddr(ifc.pair)]

RemoteUp == {r \in RemoteNetIfc : RemoteIfcFlows(WithMAC(r)) \subseteq flows}

\* The bridge's interfaces change like those of the fabric that the connection
\* agent relies on: with goroutines at work on several interfaces, commands that
\* fail, deletions of interfaces that do not exist and restarts, an interface
\* appears as a whole and only when its pair has no other, and disappears only
\* when it is deleted.  Results are not compared: DeleteLocalIfc of an interface
\* that does not exist changes none, but returns an error (getOldIfcOFport).
Fabric == INSTANCE NetFabric WITH localIfcs <- LocalUp, remoteIfcs <- RemoteUp

ImplementsFabric == Fabric!FabricSpec

\* Every flow of the bridge belongs to an interface: the port of a local flow is
\* the port of the device with its address, so that a device that later gets a
\* port again receives no traffic of the one that had it before.
FlowsLeadHome ==
    \A f \in flows : isLocal(f) =>
       \E p \in Pairs, port \in Ports :
          /\ <<generateIfcName(p), port>> \in devices
          /\ f \in LocalIfcFlows(port, p)

\* While no call is in progress the client and the bridge agree, where remote
\* interfaces have different cookies (RemoteIfcsListed is about others), also after
\* calls that failed half-way and a restart that interrupted others: the client
\* has every interface that is complete, the device of every local interface it
\* has is there, so that a deletion that failed can be repeated, the pairs it
\* has and no others are locked, and every other device is one whose clean-up
\* failed.
ClientKnows ==
    phase = "run" /\ (\A t \in Threads : call[t] = NoCall) =>
       /\ LocalUp \subseteq localHad
       /\ \A p \in localHad : HasDevice(generateIfcName(p))
       /\ remoteHad = {WithMAC(r) : r \in RemoteUp}
       /\ lockedVNIIPPairs = localHad \cup {r.pair : r \in remoteHad}
       /\ {d[1] : d \in getOFportsToLocalIfcNames} \subseteq
             {generateIfcName(p) : p \in localHad} \cup leaked

\* addRemoteIfcFlows (ovs.go:503-511) makes it "impossible for two flows created
\* out of different remote interfaces to have the same" cookie, because "we need
\* this coupling at remote interfaces list time": what ListRemoteIfcs returns
\* after a restart is what the bridge has.
RemoteIfcsListed ==
    phase = "run" /\ (\A t \in Threads : call[t] = NoCall) =>
        remoteHad = {WithMAC(r) : r \in RemoteUp}
=============================================================================
