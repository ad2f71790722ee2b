-------------------------- MODULE OVSFabric_proofs ----------------------------
(***************************************************************************)
(* What holds of the fabric on Open vSwitch for any number of interfaces,   *)
(* goroutines, hosts and ports, supposed that guests have different MAC     *)
(* addresses (DistinctMACs: the MAC leaves out seven bits of the first byte *)
(* of the IP, so it holds of the guests of a network 10.0.0.0/8), and up to *)
(* the first start-up that lists two remote interfaces with one cookie as   *)
(* one (mixed).  addRemoteIfcFlows means that never to be so; the run       *)
(* ovs_cookie shows that two interfaces of a network may come to it.  What *)
(* was parsed then is no interface of the bridge, and nothing is claimed.   *)
(***************************************************************************)
EXTENDS OVSFabric, TLAPS

DistinctMACs ==
    \A p, q \in Pairs : generateMACAddr(p) = generateMACAddr(q) => p = q

\* Remote interfaces have cookies of their own.
Listable ==
    \A r, s \in RemoteUp :
       Uvarint(generateMACAddr(r.pair)) = Uvarint(generateMACAddr(s.pair)) => r = s

-----------------------------------------------------------------------------
(* Flows and their matches.                                                 *)

LEMMA NamesDiffer ==
    ASSUME DistinctMACs, NEW p \in Pairs, NEW q \in Pairs,
           generateMACAddr(p) = generateMACAddr(q)
    PROVE  p = q
BY DEF DistinctMACs

LEMMA PairsEqual ==
    ASSUME NEW p \in Pairs, NEW q \in Pairs, p[1] = q[1], p[2] = q[2]
    PROVE  p = q
<1>1. p \in Nat \X (Byte \X Byte \X Byte \X Byte) /\ q \in Nat \X (Byte \X Byte \X Byte \X Byte)
  BY PairsAssumption
<1> QED
  BY <1>1

LEMMA MatchOf ==
    ASSUME NEW vni, NEW addr, NEW act, NEW out, NEW host, NEW cookie
    PROVE  /\ Match(Flow("in_port", vni, addr, act, out, host, cookie)) = <<"in_port", addr>>
           /\ Match(Flow("dl", vni, addr, act, out, host, cookie)) = <<"dl", vni, addr>>
           /\ Match(Flow("arp", vni, addr, act, out, host, cookie)) = <<"arp", vni, addr>>
           /\ Match(Flow("default", vni, addr, act, out, host, cookie)) = <<"default", act>>
BY DEF Match, Flow

\* The matches of the flows of a local interface.
LocalMatches(port, p) == {<<"in_port", port>>} \cup IfcMatches(p, generateMACAddr(p))

LEMMA LocalMatchesOf ==
    ASSUME NEW p, NEW port
    PROVE  /\ \A f \in LocalIfcFlows(port, p) : Match(f) \in LocalMatches(port, p)
           /\ \A f, g \in LocalIfcFlows(port, p) : Match(f) = Match(g) => f = g
<1> DEFINE mac == generateMACAddr(p)
           in  == Flow("in_port", p[1], port, "resubmit", NoPort, NoHost, 0)
           dl  == Flow("dl", p[1], mac, "output", port, NoHost, 0)
           arp == Flow("arp", p[1], p[2], "output", port, NoHost, 0)
<1>1. LocalIfcFlows(port, p) = {in, dl, arp}
  BY DEF LocalIfcFlows
<1>2. Match(in) = <<"in_port", port>> /\ Match(dl) = <<"dl", p[1], mac>>
      /\ Match(arp) = <<"arp", p[1], p[2]>>
  BY MatchOf
<1> HIDE DEF in, dl, arp, mac
<1>3. Match(in) # Match(dl) /\ Match(in) # Match(arp) /\ Match(dl) # Match(arp)
  BY <1>2
<1>4. LocalMatches(port, p) = {Match(in), Match(dl), Match(arp)}
  BY <1>2 DEF LocalMatches, IfcMatches, mac
<1> QED
  BY <1>1, <1>3, <1>4

LEMMA RemoteMatchesOf ==
    ASSUME NEW r
    PROVE  /\ \A f \in RemoteIfcFlows(WithMAC(r)) :
                 Match(f) \in IfcMatches(r.pair, generateMACAddr(r.pair))
           /\ \A f, g \in RemoteIfcFlows(WithMAC(r)) : Match(f) = Match(g) => f = g
BY MatchOf DEF RemoteIfcFlows, IfcMatches, WithMAC

LEMMA DefaultMatchesOf ==
    /\ \A f \in DefaultFlows : Match(f) \in {<<"default", act>> : act \in {"resubmit", "drop"}}
    /\ \A f, g \in DefaultFlows : Match(f) = Match(g) => f = g
<1> DEFINE flow(act) == Flow("default", 0, <<>>, act, NoPort, NoHost, 0)
<1>1. \A act : Match(flow(act)) = <<"default", act>>
  BY MatchOf
<1>2. DefaultFlows = {flow("resubmit"), flow("drop")}
  BY DEF DefaultFlows
<1> HIDE DEF flow
<1> QED
  BY <1>1, <1>2

\* Flows of different interfaces do not have the same match.
LEMMA MatchesDiffer ==
    ASSUME DistinctMACs, NEW p \in Pairs, NEW q \in Pairs, NEW port, NEW port2
    PROVE  /\ \A m \in IfcMatches(p, generateMACAddr(p)) :
                 m \in IfcMatches(q, generateMACAddr(q)) => p = q
           /\ \A m \in LocalMatches(port, p) :
                 /\ m \in LocalMatches(port2, q) => p = q \/ port = port2
                 /\ m \in IfcMatches(q, generateMACAddr(q)) => p = q
                 /\ \A act : m # <<"default", act>>
           /\ \A m \in IfcMatches(p, generateMACAddr(p)) : \A act : m # <<"default", act>>
<1>1. generateMACAddr(p) = generateMACAddr(q) => p = q
  BY NamesDiffer
<1>2. p[1] = q[1] /\ p[2] = q[2] => p = q
  BY PairsEqual
<1> QED
  BY <1>1, <1>2 DEF LocalMatches, IfcMatches

LEMMA FlowKinds ==
    /\ \A p, port : \A f \in LocalIfcFlows(port, p) : isLocal(f) /\ ~isRemote(f)
    /\ \A r : \A f \in RemoteIfcFlows(WithMAC(r)) : ~isLocal(f) /\ isRemote(f)
    /\ \A f \in DefaultFlows : ~isLocal(f) /\ ~isRemote(f)
<1>1. ASSUME NEW p, NEW port, NEW f \in LocalIfcFlows(port, p) PROVE isLocal(f) /\ ~isRemote(f)
  <2>1. f.kind \in {"in_port", "dl", "arp"} /\ f.act \in {"resubmit", "output"}
        /\ (f.kind = "in_port" \/ f.act = "output")
    BY DEF LocalIfcFlows, Flow
  <2> QED
    BY <2>1 DEF isLocal, isRemote
<1>2. ASSUME NEW r, NEW f \in RemoteIfcFlows(WithMAC(r)) PROVE ~isLocal(f) /\ isRemote(f)
  BY DEF RemoteIfcFlows, Flow, isLocal, isRemote
<1>3. ASSUME NEW f \in DefaultFlows PROVE ~isLocal(f) /\ ~isRemote(f)
  <2>1. f.kind = "default" /\ f.act \in {"resubmit", "drop"}
    BY DEF DefaultFlows, Flow
  <2> QED
    BY <2>1 DEF isLocal, isRemote
<1> QED
  BY <1>1, <1>2, <1>3

-----------------------------------------------------------------------------
(* The bridge: its devices have names and ports of their own, a match has   *)
(* one flow, and every flow but the default ones is one of an interface     *)
(* that is complete.                                                        *)

Device(p, port) == <<generateIfcName(p), port>> \in devices

DevicesOK ==
    /\ \A d \in devices : \/ d = <<bridge, bridgeOFport>>
                          \/ d = <<vtep, vtepOFport>>
                          \/ \E p \in Pairs, port \in Ports : d = <<generateIfcName(p), port>>
    /\ \A d, e \in devices : d[1] = e[1] \/ d[2] = e[2] => d = e

FlowTable == \A f, g \in flows : Match(f) = Match(g) => f = g

Whole ==
    \A f \in flows :
       \/ f \in DefaultFlows
       \/ \E p \in Pairs, port \in Ports : /\ f \in LocalIfcFlows(port, p)
                                           /\ LocalIfcFlows(port, p) \subseteq flows
                                           /\ Device(p, port)
       \/ \E r \in RemoteNetIfc : /\ f \in RemoteIfcFlows(WithMAC(r))
                                  /\ RemoteIfcFlows(WithMAC(r)) \subseteq flows

BridgeOK == DevicesOK /\ FlowTable /\ Whole

LEMMA SpecialNames ==
    /\ \A p : generateIfcName(p) # bridge /\ generateIfcName(p) # vtep
    /\ bridge # vtep
    /\ \A port \in Ports : port # bridgeOFport /\ port # vtepOFport /\ port # NoPort
    /\ bridgeOFport # vtepOFport
<1>1. \A p : Len(generateIfcName(p)) = 6
  BY DEF generateIfcName, generateMACAddr
<1>2. Len(bridge) = 1 /\ Len(vtep) = 1 /\ bridge # vtep
  BY DEF bridge, vtep
<1>3. \A port \in Ports : port # bridgeOFport /\ port # vtepOFport /\ port # NoPort
  BY OVSAssumption DEF bridgeOFport, vtepOFport, NoPort
<1> QED
  BY <1>1, <1>2, <1>3 DEF bridgeOFport, vtepOFport

LEMMA PortsDiffer ==
    ASSUME DistinctMACs, DevicesOK, NEW p \in Pairs, NEW q \in Pairs, NEW port, NEW port2,
           Device(p, port), Device(q, port2)
    PROVE  p = q <=> port = port2
BY NamesDiffer DEF DevicesOK, Device, generateIfcName

\* A flow of the bridge that has a match of a local interface's is one of that
\* interface, or of a remote one with its pair.
LEMMA MatchedLocal ==
    ASSUME DistinctMACs, BridgeOK, NEW p \in Pairs, NEW port \in Ports, Device(p, port),
           \A r \in RemoteUp : r.pair # p,
           NEW f \in flows, Match(f) \in LocalMatches(port, p)
    PROVE  f \in LocalIfcFlows(port, p) /\ p \in LocalUp
<1>1. f \notin DefaultFlows
  BY DefaultMatchesOf, MatchesDiffer
<1>2. ASSUME NEW r \in RemoteNetIfc, f \in RemoteIfcFlows(WithMAC(r)),
             RemoteIfcFlows(WithMAC(r)) \subseteq flows
      PROVE  FALSE
  <2>1. r \in RemoteUp /\ r.pair \in Pairs
    BY <1>2 DEF RemoteUp, RemoteNetIfc
  <2>2. r.pair = p
    BY <1>2, <2>1, RemoteMatchesOf, MatchesDiffer
  <2> QED
    BY <2>1, <2>2
<1>3. PICK q \in Pairs, port2 \in Ports : /\ f \in LocalIfcFlows(port2, q)
                                          /\ LocalIfcFlows(port2, q) \subseteq flows
                                          /\ Device(q, port2)
  BY <1>1, <1>2 DEF BridgeOK, Whole
<1>4. p = q \/ port = port2
  BY <1>3, LocalMatchesOf, MatchesDiffer
<1>5. p = q /\ port = port2
  BY <1>3, <1>4, PortsDiffer DEF BridgeOK
<1> QED
  BY <1>3, <1>5 DEF LocalUp, Device

\* The same for the flows of a remote interface.
LEMMA MatchedRemote ==
    ASSUME DistinctMACs, BridgeOK, NEW p \in Pairs, p \notin LocalUp,
           NEW f \in flows, Match(f) \in IfcMatches(p, generateMACAddr(p))
    PROVE  \E r \in RemoteUp : r.pair = p /\ f \in RemoteIfcFlows(WithMAC(r))
<1>1. f \notin DefaultFlows
  BY DefaultMatchesOf, MatchesDiffer
<1>2. ASSUME NEW q \in Pairs, NEW port \in Ports, f \in LocalIfcFlows(port, q),
             LocalIfcFlows(port, q) \subseteq flows, Device(q, port)
      PROVE  FALSE
  <2>1. q = p
    BY <1>2, LocalMatchesOf, MatchesDiffer
  <2> QED
    BY <1>2, <2>1 DEF LocalUp, Device
<1>3. PICK r \in RemoteNetIfc : /\ f \in RemoteIfcFlows(WithMAC(r))
                                /\ RemoteIfcFlows(WithMAC(r)) \subseteq flows
  BY <1>1, <1>2 DEF BridgeOK, Whole
<1>4. r \in RemoteUp /\ r.pair \in Pairs
  BY <1>3 DEF RemoteUp, RemoteNetIfc
<1>5. r.pair = p
  BY <1>3, <1>4, RemoteMatchesOf, MatchesDiffer
<1> QED
  BY <1>3, <1>4, <1>5

\* The flows of different interfaces have nothing in common.
LEMMA FlowsDiffer ==
    ASSUME DistinctMACs, NEW p \in Pairs, NEW q \in Pairs, NEW port, NEW port2, NEW r, NEW s
    PROVE  /\ p # q /\ port # port2 => LocalIfcFlows(port, p) \cap LocalIfcFlows(port2, q) = {}
           /\ LocalIfcFlows(port, p) \cap RemoteIfcFlows(WithMAC(r)) = {}
           /\ r \in RemoteNetIfc /\ s \in RemoteNetIfc /\ r # s =>
                 RemoteIfcFlows(WithMAC(r)) \cap RemoteIfcFlows(WithMAC(s)) = {}
           /\ LocalIfcFlows(port, p) # {}
           /\ RemoteIfcFlows(WithMAC(r)) # {}
<1>1. p # q /\ port # port2 => LocalIfcFlows(port, p) \cap LocalIfcFlows(port2, q) = {}
  BY LocalMatchesOf, MatchesDiffer
<1>2. LocalIfcFlows(port, p) \cap RemoteIfcFlows(WithMAC(r)) = {}
  BY FlowKinds
<1>3. ASSUME r \in RemoteNetIfc, s \in RemoteNetIfc,
             NEW f \in RemoteIfcFlows(WithMAC(r)) \cap RemoteIfcFlows(WithMAC(s))
      PROVE  r = s
  <2>1. f.host = r.host /\ f.host = s.host
    BY DEF RemoteIfcFlows, WithMAC, Flow
  <2>2. r.pair \in Pairs /\ s.pair \in Pairs
    BY <1>3 DEF RemoteNetIfc
  <2>3. r.pair = s.pair
    BY <2>2, RemoteMatchesOf, MatchesDiffer
  <2>4. r = [pair |-> r.pair, host |-> r.host] /\ s = [pair |-> s.pair, host |-> s.host]
    BY <1>3 DEF RemoteNetIfc
  <2> QED
    BY <2>1, <2>3, <2>4
<1>4. LocalIfcFlows(port, p) # {} /\ RemoteIfcFlows(WithMAC(r)) # {}
  BY DEF LocalIfcFlows, RemoteIfcFlows
<1> QED
  BY <1>1, <1>2, <1>3, <1>4

-----------------------------------------------------------------------------
(* What the commands do to the bridge.                                      *)

LEMMA AddLocalFlows ==
    ASSUME DistinctMACs, BridgeOK, NEW p \in Pairs, NEW port \in Ports, Device(p, port),
           p \notin LocalUp, \A r \in RemoteUp : r.pair # p,
           AddFlows(LocalIfcFlows(port, p)), UNCHANGED devices
    PROVE  BridgeOK' /\ LocalUp' = LocalUp \cup {p} /\ RemoteUp' = RemoteUp
<1>1. \A f \in flows, g \in LocalIfcFlows(port, p) : Match(f) # Match(g)
  BY MatchedLocal, LocalMatchesOf
<1>2. flows' = flows \cup LocalIfcFlows(port, p)
  BY <1>1 DEF AddFlows
<1>3. FlowTable'
  BY <1>1, <1>2, LocalMatchesOf DEF BridgeOK, FlowTable
<1>4. Whole'
  BY <1>2 DEF BridgeOK, Whole, Device
<1>5. DevicesOK'
  BY DEF BridgeOK, DevicesOK
<1>6. LocalUp' \subseteq LocalUp \cup {p}
  <2> SUFFICES ASSUME NEW q \in Pairs, q # p, NEW port2 \in Ports, Device(q, port2),
                      LocalIfcFlows(port2, q) \subseteq flows'
               PROVE  q \in LocalUp
    BY DEF LocalUp, Device
  <2>1. port2 # port
    BY PortsDiffer DEF BridgeOK
  <2>2. LocalIfcFlows(port2, q) \subseteq flows
    BY <1>2, <2>1, FlowsDiffer
  <2> QED
    BY <2>2 DEF LocalUp, Device
<1>7. LocalUp \cup {p} \subseteq LocalUp'
  BY <1>2 DEF LocalUp, Device
<1>8. RemoteUp' = RemoteUp
  BY <1>2, FlowsDiffer DEF RemoteUp
<1> QED
  BY <1>3, <1>4, <1>5, <1>6, <1>7, <1>8 DEF BridgeOK

LEMMA DelLocalFlows ==
    ASSUME DistinctMACs, BridgeOK, NEW p \in Pairs, NEW port \in Ports, Device(p, port),
           \A r \in RemoteUp : r.pair # p,
           DelFlows(LocalMatches(port, p)), UNCHANGED devices
    PROVE  BridgeOK' /\ LocalUp' = LocalUp \ {p} /\ RemoteUp' = RemoteUp
<1>1. flows' = flows \ LocalIfcFlows(port, p)
  BY MatchedLocal, LocalMatchesOf DEF DelFlows
<1>2. FlowTable' /\ DevicesOK'
  BY <1>1 DEF BridgeOK, FlowTable, DevicesOK
<1>3. ASSUME NEW q \in Pairs, NEW port2 \in Ports, Device(q, port2), q # p
      PROVE  LocalIfcFlows(port2, q) \subseteq flows <=> LocalIfcFlows(port2, q) \subseteq flows'
  <2>1. port2 # port
    BY <1>3, PortsDiffer DEF BridgeOK
  <2> QED
    BY <1>1, <1>3, <2>1, FlowsDiffer
<1>4. \A r \in RemoteNetIfc : RemoteIfcFlows(WithMAC(r)) \subseteq flows
                              <=> RemoteIfcFlows(WithMAC(r)) \subseteq flows'
  BY <1>1, FlowsDiffer
<1>5. \A port2 \in Ports : Device(p, port2) => port2 = port
  BY PortsDiffer DEF BridgeOK
<1>6. Whole'
  <2> SUFFICES ASSUME NEW f \in flows', f \notin DefaultFlows,
                      \A r \in RemoteNetIfc : ~(/\ f \in RemoteIfcFlows(WithMAC(r))
                                                /\ RemoteIfcFlows(WithMAC(r)) \subseteq flows')
               PROVE  \E q \in Pairs, port2 \in Ports :
                         /\ f \in LocalIfcFlows(port2, q)
                         /\ LocalIfcFlows(port2, q) \subseteq flows'
                         /\ Device(q, port2)
    BY DEF Whole, Device
  <2>1. PICK q \in Pairs, port2 \in Ports : /\ f \in LocalIfcFlows(port2, q)
                                            /\ LocalIfcFlows(port2, q) \subseteq flows
                                            /\ Device(q, port2)
    BY <1>1, <1>4 DEF BridgeOK, Whole
  <2>2. q # p
    BY <1>1, <1>5, <2>1
  <2> QED
    BY <1>3, <2>1, <2>2
<1>7. LocalUp' = LocalUp \ {p}
  <2>1. \A q \in Pairs \ {p} : q \in LocalUp' <=> q \in LocalUp
    BY <1>3 DEF LocalUp, Device
  <2>2. p \notin LocalUp'
    <3>1. ~(LocalIfcFlows(port, p) \subseteq flows')
      BY <1>1, FlowsDiffer
    <3> QED
      BY <1>5, <3>1 DEF LocalUp, Device
  <2>3. LocalUp \subseteq Pairs /\ LocalUp' \subseteq Pairs
    BY DEF LocalUp
  <2> QED
    BY <2>1, <2>2, <2>3
<1>8. RemoteUp' = RemoteUp
  BY <1>4 DEF RemoteUp
<1> QED
  BY <1>2, <1>6, <1>7, <1>8 DEF BridgeOK

LEMMA AddRemoteFlows ==
    ASSUME DistinctMACs, BridgeOK, NEW r \in RemoteNetIfc,
           r.pair \notin LocalUp, \A s \in RemoteUp : s.pair # r.pair,
           AddFlows(RemoteIfcFlows(WithMAC(r))), UNCHANGED devices
    PROVE  BridgeOK' /\ LocalUp' = LocalUp /\ RemoteUp' = RemoteUp \cup {r}
<1>1. \A f \in flows, g \in RemoteIfcFlows(WithMAC(r)) : Match(f) # Match(g)
  BY MatchedRemote, RemoteMatchesOf DEF RemoteNetIfc
<1>2. flows' = flows \cup RemoteIfcFlows(WithMAC(r))
  BY <1>1 DEF AddFlows
<1>3. FlowTable'
  BY <1>1, <1>2, RemoteMatchesOf DEF BridgeOK, FlowTable
<1>4. Whole'
  BY <1>2 DEF BridgeOK, Whole, Device
<1>5. DevicesOK'
  BY DEF BridgeOK, DevicesOK
<1>6. LocalUp' = LocalUp
  <2>1. \A q \in Pairs, port \in Ports : LocalIfcFlows(port, q) \subseteq flows
                                         <=> LocalIfcFlows(port, q) \subseteq flows'
    BY <1>2, FlowsDiffer
  <2> QED
    BY <2>1 DEF LocalUp
<1>7. RemoteUp' = RemoteUp \cup {r}
  <2>1. \A s \in RemoteNetIfc \ {r} : RemoteIfcFlows(WithMAC(s)) \subseteq flows
                                      <=> RemoteIfcFlows(WithMAC(s)) \subseteq flows'
    BY <1>2, FlowsDiffer DEF RemoteNetIfc
  <2> QED
    BY <1>2, <2>1 DEF RemoteUp
<1> QED
  BY <1>3, <1>4, <1>5, <1>6, <1>7 DEF BridgeOK

LEMMA DelRemoteFlows ==
    ASSUME DistinctMACs, BridgeOK, NEW r \in RemoteNetIfc,
           r.pair \notin LocalUp, \A s \in RemoteUp : s.pair = r.pair => s = r,
           DelFlows(IfcMatches(r.pair, generateMACAddr(r.pair))), UNCHANGED devices
    PROVE  BridgeOK' /\ LocalUp' = LocalUp /\ RemoteUp' = RemoteUp \ {r}
<1>1. flows' = flows \ RemoteIfcFlows(WithMAC(r))
  BY MatchedRemote, RemoteMatchesOf DEF DelFlows, RemoteNetIfc
<1>2. FlowTable' /\ DevicesOK'
  BY <1>1 DEF BridgeOK, FlowTable, DevicesOK
<1>3. \A q \in Pairs, port \in Ports : LocalIfcFlows(port, q) \subseteq flows
                                       <=> LocalIfcFlows(port, q) \subseteq flows'
  BY <1>1, FlowsDiffer
<1>4. \A s \in RemoteNetIfc \ {r} : RemoteIfcFlows(WithMAC(s)) \subseteq flows
                                    <=> RemoteIfcFlows(WithMAC(s)) \subseteq flows'
  BY <1>1, FlowsDiffer DEF RemoteNetIfc
<1>5. Whole'
  <2> SUFFICES ASSUME NEW f \in flows'
               PROVE  \/ f \in DefaultFlows
                      \/ \E p \in Pairs, port \in Ports :
                            /\ f \in LocalIfcFlows(port, p)
                            /\ LocalIfcFlows(port, p) \subseteq flows'
                            /\ Device(p, port)
                      \/ \E s \in RemoteNetIfc :
                            /\ f \in RemoteIfcFlows(WithMAC(s))
                            /\ RemoteIfcFlows(WithMAC(s)) \subseteq flows'
    BY DEF Whole, Device
  <2>1. f \in flows /\ f \notin RemoteIfcFlows(WithMAC(r))
    BY <1>1
  <2> QED
    BY <1>3, <1>4, <2>1 DEF BridgeOK, Whole
<1>6. LocalUp' = LocalUp
  BY <1>3 DEF LocalUp
<1>7. RemoteUp' = RemoteUp \ {r}
  BY <1>1, <1>4, FlowsDiffer DEF RemoteUp, RemoteNetIfc
<1> QED
  BY <1>2, <1>5, <1>6, <1>7 DEF BridgeOK

LEMMA AddDefaults ==
    ASSUME DistinctMACs, BridgeOK, AddFlows(DefaultFlows), UNCHANGED devices
    PROVE  BridgeOK' /\ LocalUp' = LocalUp /\ RemoteUp' = RemoteUp
<1>1. ASSUME NEW f \in flows, NEW g \in DefaultFlows, Match(f) = Match(g)
      PROVE  f \in DefaultFlows
  BY <1>1, DefaultMatchesOf, LocalMatchesOf, RemoteMatchesOf, MatchesDiffer
     DEF BridgeOK, Whole, RemoteNetIfc
<1>2. \A f \in flows' : f \in flows \/ f \in DefaultFlows
  BY DEF AddFlows
<1>3. \A f \in flows : f \in flows'
  BY <1>1, DefaultMatchesOf DEF AddFlows
<1>4. FlowTable'
  BY <1>1, <1>2, DefaultMatchesOf DEF BridgeOK, FlowTable
<1>5. Whole'
  BY <1>2, <1>3 DEF BridgeOK, Whole, Device
<1>6. DevicesOK'
  BY DEF BridgeOK, DevicesOK
<1>7. \A port : \A p \in Pairs : LocalIfcFlows(port, p) \subseteq flows'
                                  <=> LocalIfcFlows(port, p) \subseteq flows
  BY <1>2, <1>3, FlowKinds
<1>8. \A r : RemoteIfcFlows(WithMAC(r)) \subseteq flows'
             <=> RemoteIfcFlows(WithMAC(r)) \subseteq flows
  BY <1>2, <1>3, FlowKinds
<1> QED
  BY <1>4, <1>5, <1>6, <1>7, <1>8 DEF BridgeOK, LocalUp, RemoteUp

LEMMA AddDevice ==
    ASSUME DistinctMACs, BridgeOK, NEW p \in Pairs, AddPort(generateIfcName(p)),
           UNCHANGED flows
    PROVE  /\ BridgeOK' /\ LocalUp' = LocalUp /\ RemoteUp' = RemoteUp
           /\ \A q \in Pairs : HasDevice(generateIfcName(q))'
                               <=> HasDevice(generateIfcName(q)) \/ q = p
           /\ \A q, port : Device(q, port) => Device(q, port)'
<1> PICK port \in Ports : /\ \A d \in devices : d[2] # port
                          /\ devices' = devices \cup {<<generateIfcName(p), port>>}
  BY DEF AddPort
<1>1. \A port2 \in Ports : ~Device(p, port2)
  BY DEF AddPort, HasDevice, Device
<1>2. \A q, port2 : Device(q, port2) => Device(q, port2)'
  BY DEF Device
<1>3. DevicesOK'
  <2>1. \A d \in devices : d[1] # generateIfcName(p)
    BY <1>1, SpecialNames DEF BridgeOK, DevicesOK, Device
  <2> QED
    BY <2>1 DEF BridgeOK, DevicesOK
<1>4. Whole'
  BY <1>2 DEF BridgeOK, Whole
<1>5. \A q \in Pairs, port2 \in Ports : Device(q, port2)' <=> Device(q, port2) \/ (q = p /\ port2 = port)
  BY NamesDiffer DEF Device, generateIfcName
<1>6. ~(LocalIfcFlows(port, p) \subseteq flows)
  <2> SUFFICES ASSUME NEW f \in LocalIfcFlows(port, p), f \in flows PROVE FALSE
    BY FlowsDiffer
  <2>1. f \notin DefaultFlows /\ \A r : f \notin RemoteIfcFlows(WithMAC(r))
    BY FlowKinds
  <2>2. PICK q \in Pairs, port2 \in Ports : f \in LocalIfcFlows(port2, q) /\ Device(q, port2)
    BY <2>1 DEF BridgeOK, Whole
  <2>3. q = p \/ port2 = port
    BY <2>2, LocalMatchesOf, MatchesDiffer
  <2> QED
    BY <1>1, <2>2, <2>3 DEF Device
<1>7. LocalUp' = LocalUp
  <2>1. \A q \in Pairs : q \in LocalUp' <=> \E port2 \in Ports : /\ Device(q, port2)'
                                                               /\ LocalIfcFlows(port2, q) \subseteq flows
    BY DEF LocalUp, Device
  <2>2. \A q \in Pairs : q \in LocalUp <=> \E port2 \in Ports : /\ Device(q, port2)
                                                              /\ LocalIfcFlows(port2, q) \subseteq flows
    BY DEF LocalUp, Device
  <2>3. LocalUp \subseteq Pairs /\ LocalUp' \subseteq Pairs
    BY DEF LocalUp
  <2> QED
    BY <1>5, <1>6, <2>1, <2>2, <2>3
<1>8. RemoteUp' = RemoteUp
  BY DEF RemoteUp
<1>9. \A q \in Pairs : HasDevice(generateIfcName(q))' <=> HasDevice(generateIfcName(q)) \/ q = p
  BY <1>5 DEF HasDevice, Device
<1> QED
  BY <1>2, <1>3, <1>4, <1>7, <1>8, <1>9 DEF BridgeOK, FlowTable

LEMMA DelDevice ==
    ASSUME DistinctMACs, BridgeOK, NEW p \in Pairs, p \notin LocalUp,
           DelPort(generateIfcName(p)), UNCHANGED flows
    PROVE  /\ BridgeOK' /\ LocalUp' = LocalUp /\ RemoteUp' = RemoteUp
           /\ \A q \in Pairs : HasDevice(generateIfcName(q))'
                               <=> HasDevice(generateIfcName(q)) /\ q # p
           /\ \A q \in Pairs \ {p} : \A port : Device(q, port) => Device(q, port)'
<1>1. \A port : \A q \in Pairs : Device(q, port)' <=> Device(q, port) /\ q # p
  BY NamesDiffer DEF DelPort, Device, generateIfcName
<1>2. DevicesOK'
  BY DEF DelPort, BridgeOK, DevicesOK
<1>3. \A q \in Pairs, port \in Ports :
         Device(q, port) /\ LocalIfcFlows(port, q) \subseteq flows => q # p
  BY DEF LocalUp, Device
<1>4. Whole'
  BY <1>1, <1>3 DEF BridgeOK, Whole
<1>5. LocalUp' = LocalUp
  <2>1. \A q \in Pairs : q \in LocalUp' <=> \E port2 \in Ports : /\ Device(q, port2)'
                                                               /\ LocalIfcFlows(port2, q) \subseteq flows
    BY DEF LocalUp, Device
  <2>2. \A q \in Pairs : q \in LocalUp <=> \E port2 \in Ports : /\ Device(q, port2)
                                                              /\ LocalIfcFlows(port2, q) \subseteq flows
    BY DEF LocalUp, Device
  <2>3. LocalUp \subseteq Pairs /\ LocalUp' \subseteq Pairs
    BY DEF LocalUp
  <2> QED
    BY <1>1, <1>3, <2>1, <2>2, <2>3
<1>6. RemoteUp' = RemoteUp
  BY DEF RemoteUp
<1>7. \A q \in Pairs : HasDevice(generateIfcName(q))' <=> HasDevice(generateIfcName(q)) /\ q # p
  BY <1>1 DEF HasDevice, Device
<1> QED
  BY <1>1, <1>2, <1>4, <1>5, <1>6, <1>7 DEF BridgeOK, FlowTable

\* The bridge's own interface and the tunnel's.
LEMMA AddSpecialDevice ==
    ASSUME DistinctMACs, BridgeOK, NEW d,
           d = <<bridge, bridgeOFport>> \/ d = <<vtep, vtepOFport>>,
           devices' = devices \cup {d}, UNCHANGED flows
    PROVE  /\ BridgeOK' /\ LocalUp' = LocalUp /\ RemoteUp' = RemoteUp
           /\ \A q \in Pairs : HasDevice(generateIfcName(q))' <=> HasDevice(generateIfcName(q))
<1>1. \A q, port : Device(q, port)' <=> Device(q, port)
  BY SpecialNames DEF Device
<1>2. DevicesOK'
  BY SpecialNames DEF BridgeOK, DevicesOK
<1>3. Whole' /\ FlowTable'
  BY <1>1 DEF BridgeOK, Whole, FlowTable
<1>4. LocalUp' = LocalUp
  BY <1>1 DEF LocalUp, Device
<1>5. RemoteUp' = RemoteUp
  BY DEF RemoteUp
<1>6. \A q \in Pairs : HasDevice(generateIfcName(q))' <=> HasDevice(generateIfcName(q))
  BY <1>1 DEF HasDevice, Device
<1> QED
  BY <1>2, <1>3, <1>4, <1>5, <1>6 DEF BridgeOK

LEMMA BridgeStays ==
    ASSUME UNCHANGED <<devices, flows>>
    PROVE  /\ BridgeOK' <=> BridgeOK
           /\ LocalUp' = LocalUp /\ RemoteUp' = RemoteUp
           /\ \A n : HasDevice(n)' <=> HasDevice(n)
           /\ \A q, port : Device(q, port)' <=> Device(q, port)
BY DEF BridgeOK, DevicesOK, FlowTable, Whole, LocalUp, RemoteUp, HasDevice, Device

\* The port that the bridge is asked for is the device's.
LEMMA PortFound ==
    ASSUME NEW p, HasDevice(generateIfcName(p))
    PROVE  PortOf(generateIfcName(p)) \in Ports /\ Device(p, PortOf(generateIfcName(p)))
BY DEF PortOf, HasDevice, Device

-----------------------------------------------------------------------------
(* The client.  A pair has one goroutine at work on it, or the client has   *)
(* its interface, or neither; and it is locked in the first two cases.      *)

MACs == {generateMACAddr(p) : p \in Pairs}

Ops == {"none", "createLocal", "deleteLocal", "createRemote", "deleteRemote"}

Pcs == {"none", "device", "ofport", "flows", "cleanUp", "unlock", "unlockDeleted"}

Calls == [op : Ops, pair : Pairs \cup {<<>>}, host : Hosts \cup {NoHost},
          mac : MACs \cup {<<>>}, pc : Pcs, port : Ports \cup {NoPort}]

CallTyped(c) ==
    /\ c \in Calls
    /\ c.op = "none" => c = NoCall
    /\ c.op # "none" => c.pair \in Pairs /\ c.mac = generateMACAddr(c.pair)
    /\ c.op = "createRemote" => c.host \in Hosts
    /\ c.pc = "unlock" => c.op \in {"createLocal", "createRemote"}
    /\ c.pc = "unlockDeleted" => c.op \in {"deleteLocal", "deleteRemote"}

Typed ==
    /\ call \in [Threads -> Calls]
    /\ \A t \in Threads : CallTyped(call[t])
    /\ localHad \subseteq Pairs
    /\ lockedVNIIPPairs \subseteq Pairs
    /\ remoteHad \subseteq {WithMAC(s) : s \in RemoteNetIfc}

Making(t) == call[t].op \in {"createLocal", "createRemote"}

\* The goroutine made the device of its interface.
Attaching(t) == call[t].op = "createLocal" /\ call[t].pc \in {"ofport", "flows", "cleanUp"}

Dismantled(t, op, p) ==
    call[t].op = op /\ call[t].pair = p /\ call[t].pc = "unlockDeleted"

Exclusive ==
    /\ \A r, s \in remoteHad : r.pair = s.pair => r = s
    /\ \A r \in remoteHad : r.pair \notin localHad
    /\ \A t \in Threads :
         /\ Making(t) => /\ call[t].pair \notin localHad
                         /\ \A r \in remoteHad : r.pair # call[t].pair
         /\ call[t].op = "deleteLocal" => \A r \in remoteHad : r.pair # call[t].pair
         /\ call[t].op = "deleteRemote" => CalledIfc(t) \in remoteHad
    /\ \A t, u \in Threads :
         t # u /\ call[t].op # "none" /\ call[u].op # "none" => call[t].pair # call[u].pair

Locks ==
    \A p \in Pairs : p \in lockedVNIIPPairs <=>
       \/ p \in localHad
       \/ \E r \in remoteHad : r.pair = p
       \/ \E t \in Threads : Making(t) /\ call[t].pair = p

\* What of the client's interfaces is up.
UpToClient ==
    phase = "run" =>
       /\ LocalUp \subseteq localHad
       /\ \A t \in Threads :
             call[t].op = "deleteLocal" /\ call[t].pc \in {"device", "unlockDeleted"} =>
                call[t].pair \notin LocalUp
       /\ \A r \in RemoteNetIfc : r \in RemoteUp <=>
             /\ WithMAC(r) \in remoteHad
             /\ \A t \in Threads : ~Dismantled(t, "deleteRemote", r.pair)

\* Which devices there are.
DeviceOwners ==
    phase = "run" =>
       /\ \A p \in localHad : \/ HasDevice(generateIfcName(p))
                              \/ \E t \in Threads : Dismantled(t, "deleteLocal", p)
       /\ \A t \in Threads :
             /\ Attaching(t) => HasDevice(Name(t))
             /\ call[t].op \in {"createLocal", "deleteLocal"} /\ call[t].pc = "flows" =>
                   call[t].port \in Ports /\ Device(call[t].pair, call[t].port)
       /\ \A p \in Pairs : HasDevice(generateIfcName(p)) =>
             \/ p \in localHad /\ \A t \in Threads : ~Dismantled(t, "deleteLocal", p)
             \/ generateIfcName(p) \in leaked
             \/ \E t \in Threads : Attaching(t) /\ call[t].pair = p

\* The start of the process.
Phases ==
    /\ phase \in {"start", "addVTEP", "addDefaultFlows", "listLocal", "cleanLocal",
                  "listRemote", "run"}
    /\ phase # "run" => remoteHad = {} /\ \A t \in Threads : call[t] = NoCall
    /\ phase \notin {"listRemote", "run"} => localHad = {}
    /\ phase = "listRemote" =>
         /\ localHad = LocalUp
         /\ \A p \in Pairs : HasDevice(generateIfcName(p)) =>
               p \in LocalUp \/ generateIfcName(p) \in leaked
    /\ phase # "cleanLocal" => incompleteIfcs = {}
    /\ phase = "cleanLocal" =>
         /\ \A n \in incompleteIfcs : \E p \in Pairs : p \notin LocalUp /\ n = generateIfcName(p)
         /\ \A p \in Pairs : HasDevice(generateIfcName(p)) =>
               p \in LocalUp \/ generateIfcName(p) \in leaked \cup incompleteIfcs

ClientOK == Exclusive /\ Locks /\ UpToClient /\ DeviceOwners /\ Phases

IInv == BridgeOK /\ Typed /\ ClientOK

-----------------------------------------------------------------------------
(* Calls.                                                                   *)

LEMMA CallsTypedStep ==
    ASSUME Typed, NEW t \in Threads, NEW c, CallTyped(c), call' = [call EXCEPT ![t] = c],
           localHad' \subseteq Pairs, lockedVNIIPPairs' \subseteq Pairs,
           remoteHad' \subseteq {WithMAC(s) : s \in RemoteNetIfc}
    PROVE  /\ Typed'
           /\ call'[t] = c
           /\ \A u \in Threads \ {t} : call'[u] = call[u]
<1>1. call' \in [Threads -> Calls]
  BY DEF Typed, CallTyped
<1>2. call'[t] = c /\ \A u \in Threads \ {t} : call'[u] = call[u]
  BY DEF Typed
<1>3. \A u \in Threads : CallTyped(call'[u])
  BY <1>2 DEF Typed
<1> QED
  BY <1>1, <1>2, <1>3 DEF Typed

LEMMA NoCallTyped == CallTyped(NoCall) /\ NoCall.op = "none" /\ NoCall.pc = "none"
<1>1. NoCall.op = "none" /\ NoCall.pc = "none"
  BY DEF NoCall
<1>2. NoCall \in Calls
  BY DEF NoCall, Calls, Ops, Pcs
<1> QED
  BY <1>1, <1>2 DEF CallTyped

\* A call that begins.
LEMMA CallIsTyped ==
    ASSUME NEW op \in Ops \ {"none"}, NEW p \in Pairs, NEW host \in Hosts \cup {NoHost},
           op = "createRemote" => host \in Hosts,
           NEW pc \in {"device", "ofport", "flows"}
    PROVE  LET c == Call(op, p, host, generateMACAddr(p), pc)
           IN /\ CallTyped(c)
              /\ c.op = op /\ c.pair = p /\ c.host = host /\ c.mac = generateMACAddr(p)
              /\ c.pc = pc
<1> DEFINE c == Call(op, p, host, generateMACAddr(p), pc)
<1>1. /\ c.op = op /\ c.pair = p /\ c.host = host /\ c.mac = generateMACAddr(p)
      /\ c.pc = pc
  BY DEF Call
<1>2. c \in Calls
  <2>1. generateMACAddr(p) \in MACs
    BY DEF MACs
  <2> QED
    BY <2>1 DEF Call, Calls, Ops, Pcs
<1> HIDE DEF c
<1>3. CallTyped(c)
  BY <1>1, <1>2 DEF CallTyped
<1> QED
  BY <1>1, <1>3 DEF c

\* The call of a goroutine goes on, and the others' calls stay.
Moves(t, pc, port) ==
    /\ call'[t].op = call[t].op /\ call'[t].pair = call[t].pair
    /\ call'[t].host = call[t].host /\ call'[t].mac = call[t].mac
    /\ call'[t].pc = pc /\ call'[t].port = port
    /\ \A u \in Threads \ {t} : call'[u] = call[u]

MayMove(t, pc) ==
    /\ Typed /\ t \in Threads /\ call[t].op # "none" /\ pc \in Pcs
    /\ pc = "unlock" => call[t].op \in {"createLocal", "createRemote"}
    /\ pc = "unlockDeleted" => call[t].op \in {"deleteLocal", "deleteRemote"}

LEMMA CallMoves ==
    ASSUME NEW t, NEW pc, MayMove(t, pc), NEW port \in Ports \cup {NoPort},
           \/ Goto(t, pc) /\ port = call[t].port
           \/ call' = [call EXCEPT ![t].pc = pc, ![t].port = port],
           localHad' \subseteq Pairs, lockedVNIIPPairs' \subseteq Pairs,
           remoteHad' \subseteq {WithMAC(s) : s \in RemoteNetIfc}
    PROVE  Typed' /\ Moves(t, pc, port)
<1>1. call \in [Threads -> Calls] /\ t \in Threads
  BY DEF MayMove, Typed
<1>2. Moves(t, pc, port) /\ call' \in [Threads -> Calls]
  BY <1>1 DEF MayMove, Moves, Goto, Calls
<1>3. CallTyped(call'[t])
  BY <1>1, <1>2 DEF MayMove, Typed, CallTyped, Moves
<1>4. \A u \in Threads : CallTyped(call'[u])
  BY <1>2, <1>3 DEF MayMove, Typed, Moves
<1> QED
  BY <1>2, <1>4 DEF Typed

\* A call returns.
LEMMA CallReturns ==
    ASSUME Typed, NEW t \in Threads, Return(t),
           localHad' \subseteq Pairs, lockedVNIIPPairs' \subseteq Pairs,
           remoteHad' \subseteq {WithMAC(s) : s \in RemoteNetIfc}
    PROVE  /\ Typed' /\ call'[t] = NoCall
           /\ \A u \in Threads \ {t} : call'[u] = call[u]
BY CallsTypedStep, NoCallTyped DEF Return

\* A call goes on: who has what stays.
LEMMA MovesKeep ==
    ASSUME Exclusive, Locks, NEW t \in Threads, NEW pc, NEW port, Moves(t, pc, port),
           UNCHANGED <<localHad, remoteHad, lockedVNIIPPairs>>
    PROVE  Exclusive' /\ Locks'
<1>1. \A u \in Threads : /\ call'[u].op = call[u].op /\ call'[u].pair = call[u].pair
                         /\ call'[u].host = call[u].host /\ call'[u].mac = call[u].mac
  BY DEF Moves
<1>2. Exclusive'
  BY <1>1 DEF Exclusive, Making, CalledIfc
<1>3. Locks'
  BY <1>1 DEF Locks, Making
<1> QED
  BY <1>2, <1>3

\* A call to delete an interface fails.
LEMMA FailedDeletionKeeps ==
    ASSUME Exclusive, Locks, NEW t \in Threads, call[t].op \in {"deleteLocal", "deleteRemote"},
           call'[t] = NoCall, \A u \in Threads \ {t} : call'[u] = call[u],
           UNCHANGED <<localHad, remoteHad, lockedVNIIPPairs>>
    PROVE  Exclusive' /\ Locks'
<1>1. Exclusive'
  BY NoCallTyped DEF Exclusive, Making, CalledIfc
<1>2. Locks'
  <2>1. \A u \in Threads : Making(u)' <=> Making(u)
    BY NoCallTyped DEF Making
  <2>2. \A u \in Threads : Making(u) => call'[u] = call[u]
    BY DEF Making
  <2> QED
    BY <2>1, <2>2 DEF Locks
<1> QED
  BY <1>1, <1>2

LEMMA RunStays ==
    ASSUME Phases, phase = "run", UNCHANGED startVars
    PROVE  Phases' /\ phase' = "run"
BY DEF Phases, startVars

-----------------------------------------------------------------------------
(* Every step of a goroutine keeps the invariant, and the interfaces that   *)
(* are up are the same but for the steps that add or delete flows.          *)

Same == LocalUp' = LocalUp /\ RemoteUp' = RemoteUp

\* A call to create an interface begins.
LEMMA MakingBegins ==
    ASSUME IInv, phase = "run", NEW t \in Threads, call[t] = NoCall, NEW p \in Pairs,
           lockVNIIPPair(p), ~Deleting("deleteLocal", p),
           NEW c, CallTyped(c), c.op \in {"createLocal", "createRemote"},
           c.pair = p, c.op = "createLocal" => c.pc = "device",
           call' = [call EXCEPT ![t] = c],
           UNCHANGED <<bridgeVars, clientVars, startVars, leaked>>
    PROVE  IInv' /\ Same
<1>1. UNCHANGED <<devices, flows, localHad, remoteHad, phase, incompleteIfcs, leaked>>
  BY DEF bridgeVars, clientVars, startVars
<1>2. BridgeOK' /\ Same /\ \A n : HasDevice(n)' <=> HasDevice(n)
  BY <1>1, BridgeStays DEF IInv, Same
<1>3. p \notin lockedVNIIPPairs /\ lockedVNIIPPairs' = lockedVNIIPPairs \cup {p}
  BY DEF lockVNIIPPair
<1>4. /\ Typed' /\ call'[t] = c
      /\ \A u \in Threads \ {t} : call'[u] = call[u]
  BY <1>1, <1>3, CallsTypedStep DEF IInv, Typed
<1>5. /\ p \notin localHad /\ \A r \in remoteHad : r.pair # p
      /\ \A u \in Threads : Making(u) => call[u].pair # p
  BY <1>3 DEF IInv, ClientOK, Locks
<1>6. \A u \in Threads : call[u].op # "none" => call[u].pair # p
  <2>1. \A u \in Threads : call[u].op \in {"deleteLocal", "deleteRemote"} => call[u].pair # p
    BY <1>5 DEF IInv, ClientOK, Exclusive, CalledIfc, Deleting
  <2> QED
    BY <1>5, <2>1 DEF IInv, Typed, Calls, Ops, Making
<1>7. call[t].op = "none" /\ call[t].pc = "none"
  BY NoCallTyped
<1>8. Exclusive'
  BY <1>1, <1>4, <1>5, <1>6, <1>7 DEF IInv, ClientOK, Exclusive, Making, CalledIfc
<1>9. Locks'
  BY <1>1, <1>3, <1>4, <1>7 DEF IInv, ClientOK, Locks, Making
<1>10. UpToClient'
  <2>1. \A r \in RemoteNetIfc : (\A u \in Threads : ~Dismantled(u, "deleteRemote", r.pair))
                                <=> (\A u \in Threads : ~Dismantled(u, "deleteRemote", r.pair)')
    BY <1>4, <1>7 DEF Dismantled
  <2> QED
    BY <1>1, <1>2, <1>4, <2>1 DEF IInv, ClientOK, UpToClient, Same
<1>11. DeviceOwners'
  <2>1. \A u \in Threads : Attaching(u)' <=> Attaching(u)
    BY <1>4, <1>7 DEF Attaching
  <2>2. \A u \in Threads : Attaching(u) => call'[u] = call[u]
    BY <1>4, <1>7 DEF Attaching
  <2>3. \A q \in Pairs, u \in Threads : Dismantled(u, "deleteLocal", q)
                                        <=> Dismantled(u, "deleteLocal", q)'
    BY <1>4, <1>7 DEF Dismantled
  <2>4. \A u \in Threads : Attaching(u)' => HasDevice(Name(u))'
    BY <1>2, <2>1, <2>2 DEF IInv, ClientOK, DeviceOwners, Name
  <2>5. \A u \in Threads :
          call'[u].op \in {"createLocal", "deleteLocal"} /\ call'[u].pc = "flows" =>
                   call'[u].port \in Ports /\ Device(call[u].pair, call[u].port)'
    BY <1>1, <1>4 DEF IInv, ClientOK, DeviceOwners, Device
  <2>6. \A u \in Threads :
          call'[u].op \in {"createLocal", "deleteLocal"} /\ call'[u].pc = "flows" => u # t
    BY <1>4
  <2> QED
    BY <1>1, <1>2, <1>4, <2>1, <2>2, <2>3, <2>4, <2>5, <2>6
    DEF IInv, ClientOK, DeviceOwners, Typed
<1>12. Phases'
  BY RunStays DEF IInv, ClientOK
<1> QED
  BY <1>2, <1>4, <1>8, <1>9, <1>10, <1>11, <1>12 DEF IInv, ClientOK

\* A call to delete an interface begins.
LEMMA DeletingBegins ==
    ASSUME IInv, phase = "run", NEW t \in Threads, call[t] = NoCall, NEW p \in Pairs,
           NEW c, CallTyped(c), c.pair = p,
           \/ c.op = "deleteLocal" /\ c.pc = "ofport" /\ (p \in localHad \/ Absent(p))
           \/ /\ c.op = "deleteRemote" /\ c.pc = "flows"
              /\ [pair |-> c.pair, host |-> c.host, mac |-> c.mac] \in remoteHad,
           ~Deleting(c.op, p), call' = [call EXCEPT ![t] = c],
           UNCHANGED <<bridgeVars, lockedVNIIPPairs, clientVars, startVars, leaked>>
    PROVE  IInv' /\ Same
<1>1. UNCHANGED <<devices, flows, localHad, remoteHad, lockedVNIIPPairs, phase, incompleteIfcs,
                  leaked>>
  BY DEF bridgeVars, clientVars, startVars
<1>2. BridgeOK' /\ Same /\ \A n : HasDevice(n)' <=> HasDevice(n)
  BY <1>1, BridgeStays DEF IInv, Same
<1>3. /\ Typed' /\ call'[t] = c
      /\ \A u \in Threads \ {t} : call'[u] = call[u]
  BY <1>1, CallsTypedStep DEF IInv, Typed
<1>4. call[t].op = "none" /\ call[t].pc = "none"
  BY NoCallTyped
<1>5. c.op = "deleteLocal" => \A r \in remoteHad : r.pair # p
  BY DEF IInv, ClientOK, Exclusive, Locks, Absent
<1>6. \A u \in Threads : call[u].op # "none" => call[u].pair # p
  <2> SUFFICES ASSUME NEW u \in Threads, call[u].op # "none", call[u].pair = p PROVE FALSE
    OBVIOUS
  <2>1. \/ p \in localHad
        \/ \E r \in remoteHad : r.pair = p
        \/ p \notin lockedVNIIPPairs
    BY DEF Absent
  <2>2. ~Making(u)
    BY <2>1 DEF IInv, ClientOK, Exclusive, Locks
  <2>3. call[u].op \in {"deleteLocal", "deleteRemote"}
    BY <2>2 DEF IInv, Typed, Calls, Ops, Making
  <2>4. call[u].op # c.op
    BY DEF Deleting
  <2>5. CASE c.op = "deleteLocal"
    <3>1. \E r \in remoteHad : r.pair = p
      BY <2>3, <2>4, <2>5 DEF IInv, ClientOK, Exclusive, CalledIfc
    <3> QED
      BY <1>5, <2>5, <3>1
  <2>6. CASE c.op = "deleteRemote"
    <3>1. \A r \in remoteHad : r.pair # p
      BY <2>3, <2>4, <2>6 DEF IInv, ClientOK, Exclusive
    <3> QED
      BY <2>6, <3>1
  <2> QED
    BY <2>5, <2>6
<1>7. Exclusive'
  BY <1>1, <1>3, <1>4, <1>6, <1>5 DEF IInv, ClientOK, Exclusive, Making, CalledIfc
<1>8. Locks'
  BY <1>1, <1>3, <1>4 DEF IInv, ClientOK, Locks, Making
<1>9. UpToClient'
  <2>1. \A r \in RemoteNetIfc : (\A u \in Threads : ~Dismantled(u, "deleteRemote", r.pair))
                                <=> (\A u \in Threads : ~Dismantled(u, "deleteRemote", r.pair)')
    BY <1>3, <1>4 DEF Dismantled
  <2> QED
    BY <1>1, <1>2, <1>3, <2>1 DEF IInv, ClientOK, UpToClient, Same
<1>10. DeviceOwners'
  <2>1. \A u \in Threads : (Attaching(u)' <=> Attaching(u)) /\ (Attaching(u) => call'[u] = call[u])
    BY <1>3, <1>4 DEF Attaching
  <2>2. \A q \in Pairs, u \in Threads : Dismantled(u, "deleteLocal", q)
                                        <=> Dismantled(u, "deleteLocal", q)'
    BY <1>3, <1>4 DEF Dismantled
  <2>3. \A u \in Threads : Attaching(u)' => HasDevice(Name(u))'
    BY <1>1, <1>2, <2>1 DEF IInv, ClientOK, DeviceOwners, Name
  <2>4. \A u \in Threads :
          call'[u].op \in {"createLocal", "deleteLocal"} /\ call'[u].pc = "flows" =>
                   call'[u].port \in Ports /\ Device(call[u].pair, call[u].port)'
    BY <1>1, <1>3 DEF IInv, ClientOK, DeviceOwners, Device
  <2> QED
    BY <1>1, <1>2, <2>1, <2>2, <2>3, <2>4 DEF IInv, ClientOK, DeviceOwners, Typed
<1>11. Phases'
  BY RunStays DEF IInv, ClientOK
<1> QED
  BY <1>2, <1>3, <1>7, <1>8, <1>9, <1>10, <1>11 DEF IInv, ClientOK

\* A call goes on and leaves the bridge alone.
LEMMA MovesOnly ==
    ASSUME IInv, phase = "run", NEW t \in Threads, NEW pc, NEW port,
           Typed', Moves(t, pc, port),
           UNCHANGED <<bridgeVars, lockedVNIIPPairs, clientVars, startVars>>,
           call[t].op # "none", call[t].pc # "unlockDeleted",
           pc \in {"flows", "cleanUp", "unlock"},
           call[t].op \in {"createLocal", "deleteLocal"} /\ pc = "flows" =>
              port \in Ports /\ Device(call[t].pair, port),
           leaked \subseteq leaked',
           Attaching(t)' => Attaching(t),
           Attaching(t) => Attaching(t)' \/ Name(t) \in leaked'
    PROVE  IInv' /\ Same
<1>1. UNCHANGED <<devices, flows, localHad, remoteHad, lockedVNIIPPairs, phase, incompleteIfcs>>
  BY DEF bridgeVars, clientVars, startVars
<1>2. BridgeOK' /\ Same /\ \A n : HasDevice(n)' <=> HasDevice(n)
  BY <1>1, BridgeStays DEF IInv, Same
<1>3. /\ call'[t].pc = pc /\ call'[t].port = port
      /\ \A u \in Threads : call'[u].op = call[u].op /\ call'[u].pair = call[u].pair
      /\ \A u \in Threads \ {t} : call'[u] = call[u]
  BY DEF Moves
<1>4. Exclusive' /\ Locks'
  BY <1>1, MovesKeep DEF IInv, ClientOK
<1>5. \A q, op : \A u \in Threads : Dismantled(u, op, q) <=> Dismantled(u, op, q)'
  BY <1>3 DEF Dismantled
<1>6. UpToClient'
  BY <1>1, <1>2, <1>3, <1>5 DEF IInv, ClientOK, UpToClient, Same
<1>7. DeviceOwners'
  <2>1. \A u \in Threads \ {t} : Attaching(u)' <=> Attaching(u)
    BY <1>3 DEF Attaching
  <2>2. \A u \in Threads : Attaching(u)' => HasDevice(Name(u))'
    BY <1>1, <1>2, <1>3, <2>1 DEF IInv, ClientOK, DeviceOwners, Name
  <2>3. \A u \in Threads :
          call'[u].op \in {"createLocal", "deleteLocal"} /\ call'[u].pc = "flows" =>
                   call'[u].port \in Ports /\ Device(call[u].pair, call[u].port)'
    BY <1>1, <1>3 DEF IInv, ClientOK, DeviceOwners, Device
  <2>4. \A p \in localHad : \/ HasDevice(generateIfcName(p))'
                            \/ \E u \in Threads : Dismantled(u, "deleteLocal", p)'
    BY <1>1, <1>2, <1>5 DEF IInv, ClientOK, DeviceOwners
  <2>5. ASSUME NEW p \in Pairs, HasDevice(generateIfcName(p))'
        PROVE  \/ p \in localHad /\ \A u \in Threads : ~Dismantled(u, "deleteLocal", p)'
               \/ generateIfcName(p) \in leaked'
               \/ \E u \in Threads : Attaching(u)' /\ call'[u].pair = p
    <3>1. CASE \E u \in Threads : Attaching(u) /\ call[u].pair = p
      BY <1>3, <2>1, <3>1 DEF Name
    <3> QED
      BY <1>1, <1>2, <1>5, <2>5, <3>1 DEF IInv, ClientOK, DeviceOwners
  <2> QED
    BY <1>1, <2>2, <2>3, <2>4, <2>5 DEF DeviceOwners
<1>8. Phases'
  BY RunStays DEF IInv, ClientOK
<1> QED
  BY <1>2, <1>4, <1>6, <1>7, <1>8 DEF IInv, ClientOK

\* A deletion fails and leaves the bridge alone.
LEMMA DeletionFails ==
    ASSUME IInv, phase = "run", NEW t \in Threads, Return(t),
           call[t].op \in {"deleteLocal", "deleteRemote"}, call[t].pc # "unlockDeleted",
           UNCHANGED <<bridgeVars, lockedVNIIPPairs, clientVars, startVars, leaked>>
    PROVE  IInv' /\ Same
<1>1. UNCHANGED <<devices, flows, localHad, remoteHad, lockedVNIIPPairs, phase, incompleteIfcs,
                  leaked>>
  BY DEF bridgeVars, clientVars, startVars
<1>2. BridgeOK' /\ Same /\ \A n : HasDevice(n)' <=> HasDevice(n)
  BY <1>1, BridgeStays DEF IInv, Same
<1>3. /\ Typed' /\ call'[t] = NoCall
      /\ \A u \in Threads \ {t} : call'[u] = call[u]
  BY <1>1, CallReturns DEF IInv, Typed
<1>4. Exclusive' /\ Locks'
  BY <1>1, <1>3, FailedDeletionKeeps DEF IInv, ClientOK
<1>5. \A q, op : \A u \in Threads : Dismantled(u, op, q) <=> Dismantled(u, op, q)'
  BY <1>3, NoCallTyped DEF Dismantled
<1>6. UpToClient'
  BY <1>1, <1>2, <1>3, <1>5, NoCallTyped DEF IInv, ClientOK, UpToClient, Same
<1>7. DeviceOwners'
  <2>1. \A u \in Threads : (Attaching(u)' <=> Attaching(u)) /\ (Attaching(u) => call'[u] = call[u])
    BY <1>3, NoCallTyped DEF Attaching
  <2>2. \A u \in Threads : Attaching(u)' => HasDevice(Name(u))'
    BY <1>1, <1>2, <2>1 DEF IInv, ClientOK, DeviceOwners, Name
  <2>3. \A u \in Threads :
          call'[u].op \in {"createLocal", "deleteLocal"} /\ call'[u].pc = "flows" =>
                   call'[u].port \in Ports /\ Device(call[u].pair, call[u].port)'
    BY <1>1, <1>3, NoCallTyped DEF IInv, ClientOK, DeviceOwners, Device
  <2> QED
    BY <1>1, <1>2, <1>5, <2>1, <2>2, <2>3 DEF IInv, ClientOK, DeviceOwners, Typed
<1>8. Phases'
  BY RunStays DEF IInv, ClientOK
<1> QED
  BY <1>2, <1>3, <1>4, <1>6, <1>7, <1>8 DEF IInv, ClientOK

LEMMA CreateLocalIfcStep ==
    ASSUME IInv, NEW t \in Threads, NEW p \in Pairs, CreateLocalIfc(t, p)
    PROVE  IInv' /\ Same
<1> DEFINE c == Call("createLocal", p, NoHost, generateMACAddr(p), "device")
<1>1. CallTyped(c) /\ c.op = "createLocal" /\ c.pair = p /\ c.pc = "device"
  BY CallIsTyped DEF Ops
<1> HIDE DEF c
<1>2. call' = [call EXCEPT ![t] = c]
  BY DEF CreateLocalIfc, c
<1> QED
  BY <1>1, <1>2, MakingBegins DEF CreateLocalIfc

LEMMA CreateRemoteIfcStep ==
    ASSUME IInv, NEW t \in Threads, NEW p \in Pairs, NEW h \in Hosts, CreateRemoteIfc(t, p, h)
    PROVE  IInv' /\ Same
<1> DEFINE c == Call("createRemote", p, h, generateMACAddr(p), "flows")
<1>1. CallTyped(c) /\ c.op = "createRemote" /\ c.pair = p
  BY CallIsTyped DEF Ops
<1> HIDE DEF c
<1>2. call' = [call EXCEPT ![t] = c]
  BY DEF CreateRemoteIfc, c
<1> QED
  BY <1>1, <1>2, MakingBegins DEF CreateRemoteIfc

LEMMA DeleteLocalIfcStep ==
    ASSUME IInv, NEW t \in Threads, NEW p \in Pairs, DeleteLocalIfc(t, p)
    PROVE  IInv' /\ Same
<1> DEFINE c == Call("deleteLocal", p, NoHost, generateMACAddr(p), "ofport")
<1>1. CallTyped(c) /\ c.op = "deleteLocal" /\ c.pair = p /\ c.pc = "ofport"
  BY CallIsTyped DEF Ops
<1> HIDE DEF c
<1>2. call' = [call EXCEPT ![t] = c]
  BY DEF DeleteLocalIfc, c
<1> QED
  BY <1>1, <1>2, DeletingBegins DEF DeleteLocalIfc

\* What the client keeps of a remote interface.
LEMMA RemoteKept ==
    ASSUME Typed, NEW r \in remoteHad
    PROVE  /\ r.pair \in Pairs /\ r.host \in Hosts /\ r.mac = generateMACAddr(r.pair)
           /\ r = [pair |-> r.pair, host |-> r.host, mac |-> r.mac]
           /\ [pair |-> r.pair, host |-> r.host] \in RemoteNetIfc
           /\ WithMAC([pair |-> r.pair, host |-> r.host]) = r
<1>1. PICK s \in RemoteNetIfc : r = WithMAC(s)
  BY DEF Typed
<1>2. s.pair \in Pairs /\ s.host \in Hosts
  BY DEF RemoteNetIfc
<1> QED
  BY <1>1, <1>2 DEF WithMAC, RemoteNetIfc

LEMMA DeleteRemoteIfcStep ==
    ASSUME IInv, NEW t \in Threads, NEW r \in remoteHad, DeleteRemoteIfc(t, r)
    PROVE  IInv' /\ Same
<1> DEFINE c == Call("deleteRemote", r.pair, r.host, r.mac, "flows")
<1>1. /\ r.pair \in Pairs /\ r.host \in Hosts /\ r.mac = generateMACAddr(r.pair)
      /\ r = [pair |-> r.pair, host |-> r.host, mac |-> r.mac]
  BY RemoteKept DEF IInv
<1>2. /\ CallTyped(c) /\ c.op = "deleteRemote" /\ c.pair = r.pair /\ c.pc = "flows"
      /\ c.host = r.host /\ c.mac = r.mac
  BY <1>1, CallIsTyped DEF Ops
<1> HIDE DEF c
<1>3. call' = [call EXCEPT ![t] = c]
  BY DEF DeleteRemoteIfc, c
<1> QED
  BY <1>1, <1>2, <1>3, DeletingBegins DEF DeleteRemoteIfc

LEMMA getNewIfcOFportStep ==
    ASSUME IInv, NEW t \in Threads, getNewIfcOFport(t)
    PROVE  IInv' /\ Same
<1>1. /\ phase = "run" /\ call[t].op = "createLocal" /\ call[t].pc = "ofport"
      /\ UNCHANGED <<bridgeVars, lockedVNIIPPairs, clientVars, startVars, leaked>>
  BY DEF getNewIfcOFport, At
<1>2. UNCHANGED <<localHad, remoteHad, lockedVNIIPPairs>> /\ call[t].port \in Ports \cup {NoPort}
  BY <1>1 DEF clientVars, IInv, Typed, Calls
<1>3. Attaching(t)
  BY <1>1 DEF Attaching
<1>4. CASE /\ HasDevice(Name(t))
           /\ call' = [call EXCEPT ![t].pc = "flows", ![t].port = PortOf(Name(t))]
  <2>1. PortOf(Name(t)) \in Ports /\ Device(call[t].pair, PortOf(Name(t)))
    BY <1>4, PortFound DEF Name
  <2>2. Typed' /\ Moves(t, "flows", PortOf(Name(t)))
    BY <1>1, <1>2, <1>4, <2>1, CallMoves DEF MayMove, Pcs, IInv, Typed
  <2>3. Attaching(t)'
    BY <1>1, <2>2 DEF Attaching, Moves
  <2> QED
    BY <1>1, <1>3, <2>1, <2>2, <2>3, MovesOnly
<1>5. CASE Goto(t, "cleanUp")
  <2>1. Typed' /\ Moves(t, "cleanUp", call[t].port)
    BY <1>1, <1>2, <1>5, CallMoves DEF MayMove, Pcs, IInv, Typed
  <2>2. Attaching(t)'
    BY <1>1, <2>1 DEF Attaching, Moves
  <2> QED
    BY <1>1, <1>3, <2>1, <2>2, MovesOnly
<1> QED
  BY <1>4, <1>5 DEF getNewIfcOFport

LEMMA getOldIfcOFportStep ==
    ASSUME IInv, NEW t \in Threads, getOldIfcOFport(t)
    PROVE  IInv' /\ Same
<1>1. /\ phase = "run" /\ call[t].op = "deleteLocal" /\ call[t].pc = "ofport"
      /\ UNCHANGED <<bridgeVars, lockedVNIIPPairs, clientVars, startVars, leaked>>
  BY DEF getOldIfcOFport, At
<1>2. UNCHANGED <<localHad, remoteHad, lockedVNIIPPairs>>
  BY <1>1 DEF clientVars
<1>3. CASE /\ HasDevice(Name(t))
           /\ call' = [call EXCEPT ![t].pc = "flows", ![t].port = PortOf(Name(t))]
  <2>1. PortOf(Name(t)) \in Ports /\ Device(call[t].pair, PortOf(Name(t)))
    BY <1>3, PortFound DEF Name
  <2>2. Typed' /\ Moves(t, "flows", PortOf(Name(t)))
    BY <1>1, <1>2, <1>3, <2>1, CallMoves DEF MayMove, Pcs, IInv, Typed
  <2>3. ~Attaching(t) /\ ~Attaching(t)'
    BY <1>1, <2>2 DEF Attaching, Moves
  <2> QED
    BY <1>1, <2>1, <2>2, <2>3, MovesOnly
<1> QED
  BY <1>1, <1>3, DeletionFails DEF getOldIfcOFport

\* The device of an interface is made.
LEMMA createIfcStep ==
    ASSUME DistinctMACs, IInv, NEW t \in Threads, createIfc(t)
    PROVE  IInv' /\ Same
<1> DEFINE p == call[t].pair
<1>1. /\ phase = "run" /\ call[t].op = "createLocal" /\ call[t].pc = "device"
      /\ UNCHANGED <<flows, lockedVNIIPPairs, clientVars, startVars, leaked>>
  BY DEF createIfc, At
<1>2. /\ UNCHANGED <<localHad, remoteHad, phase, incompleteIfcs>>
      /\ call[t].port \in Ports \cup {NoPort} /\ p \in Pairs
  BY <1>1 DEF clientVars, startVars, IInv, Typed, CallTyped, Calls
<1>3. CASE Goto(t, "unlock") /\ UNCHANGED devices
  <2>1. Typed' /\ Moves(t, "unlock", call[t].port)
    BY <1>1, <1>2, <1>3, CallMoves DEF MayMove, Pcs, IInv, Typed
  <2>2. ~Attaching(t) /\ ~Attaching(t)'
    BY <1>1, <2>1 DEF Attaching, Moves
  <2> QED
    BY <1>1, <1>3, <2>1, <2>2, MovesOnly DEF bridgeVars
<1>4. CASE AddPort(Name(t)) /\ Goto(t, "ofport")
  <2>1. Typed' /\ Moves(t, "ofport", call[t].port)
    BY <1>1, <1>2, <1>4, CallMoves DEF MayMove, Pcs, IInv, Typed
  <2>2. /\ BridgeOK' /\ Same
        /\ \A q \in Pairs : HasDevice(generateIfcName(q))'
                            <=> HasDevice(generateIfcName(q)) \/ q = p
        /\ \A q, port : Device(q, port) => Device(q, port)'
    BY <1>1, <1>2, <1>4, AddDevice DEF IInv, Same, Name
  <2>3. /\ call'[t].pc = "ofport"
        /\ \A u \in Threads : call'[u].op = call[u].op /\ call'[u].pair = call[u].pair
        /\ \A u \in Threads \ {t} : call'[u] = call[u]
    BY <2>1 DEF Moves
  <2>4. Exclusive' /\ Locks'
    BY <1>1, <1>2, <2>1, MovesKeep DEF IInv, ClientOK
  <2>5. \A q, op : \A u \in Threads : Dismantled(u, op, q) <=> Dismantled(u, op, q)'
    BY <1>1, <2>3 DEF Dismantled
  <2>6. UpToClient'
    BY <1>1, <1>2, <2>2, <2>3, <2>5 DEF IInv, ClientOK, UpToClient, Same
  <2>7. DeviceOwners'
    <3>1. \A u \in Threads \ {t} : Attaching(u)' <=> Attaching(u)
      BY <2>3 DEF Attaching
    <3>2. Attaching(t)' /\ ~Attaching(t)
      BY <1>1, <2>3 DEF Attaching
    <3>3. \A u \in Threads : Attaching(u)' => HasDevice(Name(u))'
      <4> SUFFICES ASSUME NEW u \in Threads, Attaching(u)' PROVE HasDevice(Name(u))'
        OBVIOUS
      <4>1. call[u].pair \in Pairs /\ Name(u)' = generateIfcName(call[u].pair)
        BY <2>3 DEF Attaching, IInv, Typed, CallTyped, Name
      <4>2. u = t \/ HasDevice(generateIfcName(call[u].pair))
        BY <1>1, <3>1 DEF IInv, ClientOK, DeviceOwners, Name
      <4>3. HasDevice(generateIfcName(call[u].pair))'
        BY <2>2, <2>3, <4>1, <4>2
      <4> QED
        BY <2>3, <4>3 DEF Name
    <3>4. \A u \in Threads :
            call'[u].op \in {"createLocal", "deleteLocal"} /\ call'[u].pc = "flows" =>
                   call'[u].port \in Ports /\ Device(call[u].pair, call[u].port)'
      <4> SUFFICES ASSUME NEW u \in Threads, call'[u].op \in {"createLocal", "deleteLocal"},
                          call'[u].pc = "flows"
                   PROVE  call'[u].port \in Ports /\ Device(call[u].pair, call[u].port)'
        OBVIOUS
      <4>1. call'[u] = call[u]
        BY <2>3
      <4>2. call[u].port \in Ports /\ Device(call[u].pair, call[u].port)
        BY <1>1, <4>1 DEF IInv, ClientOK, DeviceOwners
      <4> QED
        BY <2>2, <4>1, <4>2 DEF Device
    <3>5. \A q \in localHad : \/ HasDevice(generateIfcName(q))'
                              \/ \E u \in Threads : Dismantled(u, "deleteLocal", q)'
      BY <1>1, <2>2, <2>5 DEF IInv, ClientOK, DeviceOwners, Typed
    <3>6. ASSUME NEW q \in Pairs, HasDevice(generateIfcName(q))'
          PROVE  \/ q \in localHad /\ \A u \in Threads : ~Dismantled(u, "deleteLocal", q)'
                 \/ generateIfcName(q) \in leaked
                 \/ \E u \in Threads : Attaching(u)' /\ call'[u].pair = q
      <4>1. CASE q = p
        BY <2>3, <3>2, <4>1
      <4>2. CASE HasDevice(generateIfcName(q))
        BY <1>1, <2>3, <2>5, <3>1, <3>2, <4>2 DEF IInv, ClientOK, DeviceOwners
      <4> QED
        BY <2>2, <3>6, <4>1, <4>2
    <3> QED
      BY <1>1, <1>2, <3>3, <3>4, <3>5, <3>6 DEF DeviceOwners
  <2>8. Phases'
    BY <1>1, RunStays DEF IInv, ClientOK
  <2> QED
    BY <2>1, <2>2, <2>4, <2>6, <2>7, <2>8 DEF IInv, ClientOK
<1> QED
  BY <1>3, <1>4 DEF createIfc

\* A step of the fabric that the connection agent relies on, or none.
FabricStep == Same \/ Fabric!FabricNext

\* The pair of a remote interface that is up is one the client has.
LEMMA RemoteUpKnown ==
    ASSUME IInv, phase = "run", NEW r \in RemoteUp
    PROVE  /\ r \in RemoteNetIfc /\ r.pair \in Pairs
           /\ WithMAC(r) \in remoteHad /\ WithMAC(r).pair = r.pair
<1>1. r \in RemoteNetIfc
  BY DEF RemoteUp
<1>2. WithMAC(r) \in remoteHad
  BY <1>1 DEF IInv, ClientOK, UpToClient
<1> QED
  BY <1>1, <1>2 DEF WithMAC, RemoteNetIfc

LEMMA addLocalIfcFlowsStep ==
    ASSUME DistinctMACs, IInv, NEW t \in Threads, addLocalIfcFlows(t)
    PROVE  IInv' /\ FabricStep
<1> DEFINE p == call[t].pair
           port == call[t].port
<1>1. /\ phase = "run" /\ call[t].op = "createLocal" /\ call[t].pc = "flows"
      /\ UNCHANGED <<devices, lockedVNIIPPairs, remoteHad, startVars, leaked>>
  BY DEF addLocalIfcFlows, At
<1>2. /\ UNCHANGED <<phase, incompleteIfcs>>
      /\ call[t].port \in Ports \cup {NoPort} /\ p \in Pairs
  BY <1>1 DEF startVars, IInv, Typed, CallTyped, Calls
<1>3. Attaching(t) /\ Making(t)
  BY <1>1 DEF Attaching, Making
<1>4. CASE Goto(t, "cleanUp") /\ UNCHANGED <<flows, localHad>>
  <2>1. Typed' /\ Moves(t, "cleanUp", call[t].port)
    BY <1>1, <1>2, <1>4, CallMoves DEF MayMove, Pcs, IInv, Typed
  <2>2. Attaching(t)'
    BY <1>1, <2>1 DEF Attaching, Moves
  <2> QED
    BY <1>1, <1>3, <1>4, <2>1, <2>2, MovesOnly DEF bridgeVars, clientVars, FabricStep
<1>5. CASE /\ AddFlows(LocalIfcFlows(port, p))
           /\ localHad' = localHad \cup {p}
           /\ Return(t)
  <2>1. port \in Ports /\ Device(p, port) /\ HasDevice(generateIfcName(p))
    BY <1>1, <1>3 DEF IInv, ClientOK, DeviceOwners, Name
  <2>2. p \notin localHad /\ \A r \in remoteHad : r.pair # p
    BY <1>3 DEF IInv, ClientOK, Exclusive
  <2>3. p \notin LocalUp /\ \A r \in RemoteUp : r.pair # p
    BY <1>1, <2>2, RemoteUpKnown DEF IInv, ClientOK, UpToClient
  <2>4. BridgeOK' /\ LocalUp' = LocalUp \cup {p} /\ RemoteUp' = RemoteUp
    BY <1>1, <1>2, <1>5, <2>1, <2>3, AddLocalFlows DEF IInv
  <2>5. FabricStep
    BY <1>2, <2>3, <2>4 DEF FabricStep, Fabric!FabricNext, Fabric!CreateLocalIfc, Fabric!InUse
  <2>6. /\ Typed' /\ call'[t] = NoCall
        /\ \A u \in Threads \ {t} : call'[u] = call[u]
    BY <1>1, <1>2, <1>5, CallReturns DEF IInv, Typed
  <2>7. \A u \in Threads \ {t} : call[u].op # "none" => call[u].pair # p
    BY <1>1 DEF IInv, ClientOK, Exclusive
  <2>8. Exclusive'
    BY <1>1, <1>5, <2>2, <2>6, <2>7, NoCallTyped
    DEF IInv, ClientOK, Exclusive, Making, CalledIfc
  <2>9. Locks'
    BY <1>1, <1>3, <1>5, <2>6, NoCallTyped DEF IInv, ClientOK, Locks, Making
  <2>10. \A q, op : \A u \in Threads : Dismantled(u, op, q) <=> Dismantled(u, op, q)'
    BY <1>1, <2>6, NoCallTyped DEF Dismantled
  <2>11. UpToClient'
    BY <1>1, <1>2, <1>5, <2>4, <2>6, <2>7, <2>10, NoCallTyped DEF IInv, ClientOK, UpToClient
  <2>12. DeviceOwners'
    <3>0. \A u \in Threads : ~Dismantled(u, "deleteLocal", p)
      BY <1>1, <2>7 DEF Dismantled
    <3>1. \A n : HasDevice(n)' <=> HasDevice(n)
      BY <1>1 DEF HasDevice
    <3>2. \A u \in Threads \ {t} : Attaching(u)' <=> Attaching(u)
      BY <2>6 DEF Attaching
    <3>3. ~Attaching(t)'
      BY <2>6, NoCallTyped DEF Attaching
    <3>4. \A u \in Threads : Attaching(u)' => HasDevice(Name(u))'
      BY <1>1, <2>6, <3>1, <3>2, <3>3 DEF IInv, ClientOK, DeviceOwners, Name
    <3>5. \A u \in Threads :
            call'[u].op \in {"createLocal", "deleteLocal"} /\ call'[u].pc = "flows" =>
                   call'[u].port \in Ports /\ Device(call[u].pair, call[u].port)'
      BY <1>1, <2>6, NoCallTyped DEF IInv, ClientOK, DeviceOwners, Device
    <3>6. \A q \in localHad' : \/ HasDevice(generateIfcName(q))'
                               \/ \E u \in Threads : Dismantled(u, "deleteLocal", q)'
      BY <1>1, <1>5, <2>1, <2>10, <3>1 DEF IInv, ClientOK, DeviceOwners
    <3>7. \A q \in Pairs : HasDevice(generateIfcName(q))' =>
                 \/ q \in localHad' /\ \A u \in Threads : ~Dismantled(u, "deleteLocal", q)'
                 \/ generateIfcName(q) \in leaked
                 \/ \E u \in Threads : Attaching(u)' /\ call'[u].pair = q
      BY <1>1, <1>5, <2>6, <2>10, <3>0, <3>1, <3>2, <3>3 DEF IInv, ClientOK, DeviceOwners
    <3> QED
      BY <1>1, <3>4, <3>5, <3>6, <3>7 DEF DeviceOwners
  <2>13. Phases'
    BY <1>1, RunStays DEF IInv, ClientOK
  <2> QED
    BY <2>4, <2>5, <2>6, <2>8, <2>9, <2>11, <2>12, <2>13 DEF IInv, ClientOK
<1> QED
  BY <1>4, <1>5 DEF addLocalIfcFlows

LEMMA cleanUpStep ==
    ASSUME DistinctMACs, IInv, NEW t \in Threads, cleanUp(t)
    PROVE  IInv' /\ Same
<1> DEFINE p == call[t].pair
<1>1. /\ phase = "run" /\ call[t].op = "createLocal" /\ call[t].pc = "cleanUp"
      /\ Goto(t, "unlock") /\ UNCHANGED <<flows, lockedVNIIPPairs, clientVars, startVars>>
  BY DEF cleanUp, At
<1>2. /\ UNCHANGED <<localHad, remoteHad, phase, incompleteIfcs>>
      /\ call[t].port \in Ports \cup {NoPort} /\ p \in Pairs
  BY <1>1 DEF clientVars, startVars, IInv, Typed, CallTyped, Calls
<1>3. Typed' /\ Moves(t, "unlock", call[t].port)
  BY <1>1, <1>2, CallMoves DEF MayMove, Pcs, IInv, Typed
<1>4. Attaching(t) /\ Making(t) /\ ~Attaching(t)'
  BY <1>1, <1>3 DEF Attaching, Making, Moves
<1>5. CASE leaked' = leaked \cup {Name(t)} /\ UNCHANGED devices
  BY <1>1, <1>3, <1>4, <1>5, MovesOnly DEF bridgeVars
<1>6. CASE HasDevice(Name(t)) /\ DelPort(Name(t)) /\ UNCHANGED leaked
  <2>1. p \notin localHad /\ p \notin LocalUp
    BY <1>1, <1>4 DEF IInv, ClientOK, Exclusive, UpToClient
  <2>2. /\ BridgeOK' /\ Same
        /\ \A q \in Pairs : HasDevice(generateIfcName(q))'
                            <=> HasDevice(generateIfcName(q)) /\ q # p
        /\ \A q \in Pairs \ {p} : \A port : Device(q, port) => Device(q, port)'
    BY <1>1, <1>2, <1>6, <2>1, DelDevice DEF IInv, Same, Name
  <2>3. /\ call'[t].pc = "unlock"
        /\ \A u \in Threads : call'[u].op = call[u].op /\ call'[u].pair = call[u].pair
        /\ \A u \in Threads \ {t} : call'[u] = call[u]
    BY <1>3 DEF Moves
  <2>4. Exclusive' /\ Locks'
    BY <1>1, <1>2, <1>3, MovesKeep DEF IInv, ClientOK
  <2>5. \A q, op : \A u \in Threads : Dismantled(u, op, q) <=> Dismantled(u, op, q)'
    BY <1>1, <2>3 DEF Dismantled
  <2>6. UpToClient'
    BY <1>1, <1>2, <2>2, <2>3, <2>5 DEF IInv, ClientOK, UpToClient, Same
  <2>7. \A u \in Threads \ {t} : call[u].op # "none" => call[u].pair # p
    BY <1>1 DEF IInv, ClientOK, Exclusive
  <2>8. DeviceOwners'
    <3>1. \A u \in Threads \ {t} : Attaching(u)' <=> Attaching(u)
      BY <2>3 DEF Attaching
    <3>2. \A u \in Threads : Attaching(u)' => HasDevice(Name(u))'
      <4> SUFFICES ASSUME NEW u \in Threads, Attaching(u)' PROVE HasDevice(Name(u))'
        OBVIOUS
      <4>1. u # t /\ Attaching(u) /\ call'[u] = call[u]
        BY <1>4, <2>3, <3>1
      <4>2. call[u].pair \in Pairs /\ call[u].pair # p
        BY <2>7, <4>1 DEF Attaching, IInv, Typed, CallTyped
      <4>3. HasDevice(generateIfcName(call[u].pair))
        BY <1>1, <4>1 DEF IInv, ClientOK, DeviceOwners, Name
      <4>4. HasDevice(generateIfcName(call[u].pair))'
        BY <2>2, <2>3, <4>2, <4>3
      <4> QED
        BY <4>4 DEF Name
    <3>3. \A u \in Threads :
            call'[u].op \in {"createLocal", "deleteLocal"} /\ call'[u].pc = "flows" =>
                   call'[u].port \in Ports /\ Device(call[u].pair, call[u].port)'
      <4> SUFFICES ASSUME NEW u \in Threads, call'[u].op \in {"createLocal", "deleteLocal"},
                          call'[u].pc = "flows"
                   PROVE  call'[u].port \in Ports /\ Device(call[u].pair, call[u].port)'
        OBVIOUS
      <4>1. call'[u] = call[u] /\ u # t
        BY <2>3
      <4>2. call[u].pair \in Pairs /\ call[u].pair # p
        BY <2>7, <4>1 DEF IInv, Typed, CallTyped
      <4>3. call[u].port \in Ports /\ Device(call[u].pair, call[u].port)
        BY <1>1, <4>1 DEF IInv, ClientOK, DeviceOwners
      <4> QED
        BY <2>2, <4>1, <4>2, <4>3 DEF Device
    <3>4. \A q \in localHad : \/ HasDevice(generateIfcName(q))'
                              \/ \E u \in Threads : Dismantled(u, "deleteLocal", q)'
      BY <1>1, <2>1, <2>2, <2>5 DEF IInv, ClientOK, DeviceOwners, Typed
    <3>5. \A q \in Pairs : HasDevice(generateIfcName(q))' =>
                 \/ q \in localHad /\ \A u \in Threads : ~Dismantled(u, "deleteLocal", q)'
                 \/ generateIfcName(q) \in leaked
                 \/ \E u \in Threads : Attaching(u)' /\ call'[u].pair = q
      BY <1>1, <2>2, <2>3, <2>5, <3>1 DEF IInv, ClientOK, DeviceOwners
    <3> QED
      BY <1>1, <1>2, <1>6, <3>2, <3>3, <3>4, <3>5 DEF DeviceOwners
  <2>9. Phases'
    BY <1>1, RunStays DEF IInv, ClientOK
  <2> QED
    BY <1>3, <2>2, <2>4, <2>6, <2>8, <2>9 DEF IInv, ClientOK
<1> QED
  BY <1>5, <1>6 DEF cleanUp

LEMMA unlockAfterErrorStep ==
    ASSUME IInv, NEW t \in Threads, unlockAfterError(t)
    PROVE  IInv' /\ Same
<1> DEFINE p == call[t].pair
<1>1. /\ phase = "run" /\ call[t].pc = "unlock" /\ Return(t)
      /\ lockedVNIIPPairs' = lockedVNIIPPairs \ {p}
      /\ UNCHANGED <<devices, flows, localHad, remoteHad, phase, incompleteIfcs, leaked>>
  BY DEF unlockAfterError, unlockVNIIPPair, bridgeVars, clientVars, startVars
<1>2. Making(t) /\ p \in Pairs /\ ~Attaching(t)
  BY <1>1 DEF IInv, Typed, CallTyped, Making, Attaching
<1>3. BridgeOK' /\ Same /\ \A n : HasDevice(n)' <=> HasDevice(n)
  BY <1>1, BridgeStays DEF IInv, Same
<1>4. /\ Typed' /\ call'[t] = NoCall
      /\ \A u \in Threads \ {t} : call'[u] = call[u]
  BY <1>1, CallReturns DEF IInv, Typed
<1>5. p \notin localHad /\ \A r \in remoteHad : r.pair # p
  BY <1>2 DEF IInv, ClientOK, Exclusive
<1>6. \A u \in Threads \ {t} : call[u].op # "none" => call[u].pair # p
  BY <1>2 DEF IInv, ClientOK, Exclusive, Making
<1>7. Exclusive'
  BY <1>1, <1>4, NoCallTyped DEF IInv, ClientOK, Exclusive, Making, CalledIfc
<1>8. Locks'
  BY <1>1, <1>4, <1>5, <1>6, NoCallTyped DEF IInv, ClientOK, Locks, Making
<1>9. \A q, op : \A u \in Threads : Dismantled(u, op, q) <=> Dismantled(u, op, q)'
  BY <1>1, <1>4, NoCallTyped DEF Dismantled
<1>10. UpToClient'
  BY <1>1, <1>3, <1>4, <1>9, NoCallTyped DEF IInv, ClientOK, UpToClient, Same
<1>11. DeviceOwners'
  <2>1. \A u \in Threads : (Attaching(u)' <=> Attaching(u)) /\ (Attaching(u) => call'[u] = call[u])
    BY <1>2, <1>4, NoCallTyped DEF Attaching
  <2>2. \A u \in Threads : Attaching(u)' => HasDevice(Name(u))'
    BY <1>1, <1>3, <2>1 DEF IInv, ClientOK, DeviceOwners, Name
  <2>3. \A u \in Threads :
          call'[u].op \in {"createLocal", "deleteLocal"} /\ call'[u].pc = "flows" =>
                   call'[u].port \in Ports /\ Device(call[u].pair, call[u].port)'
    BY <1>1, <1>4, NoCallTyped DEF IInv, ClientOK, DeviceOwners, Device
  <2> QED
    BY <1>1, <1>3, <1>9, <2>1, <2>2, <2>3 DEF IInv, ClientOK, DeviceOwners, Typed
<1>12. Phases'
  BY <1>1, RunStays DEF IInv, ClientOK, startVars
<1> QED
  BY <1>3, <1>4, <1>7, <1>8, <1>10, <1>11, <1>12 DEF IInv, ClientOK

LEMMA deleteLocalIfcFlowsStep ==
    ASSUME DistinctMACs, IInv, NEW t \in Threads, deleteLocalIfcFlows(t)
    PROVE  IInv' /\ FabricStep
<1> DEFINE p == call[t].pair
           port == call[t].port
<1>1. /\ phase = "run" /\ call[t].op = "deleteLocal" /\ call[t].pc = "flows"
      /\ UNCHANGED <<devices, lockedVNIIPPairs, clientVars, startVars, leaked>>
  BY DEF deleteLocalIfcFlows, At
<1>2. /\ UNCHANGED <<localHad, remoteHad, phase, incompleteIfcs>>
      /\ call[t].port \in Ports \cup {NoPort} /\ p \in Pairs
      /\ call[t].mac = generateMACAddr(p)
  BY <1>1 DEF clientVars, startVars, IInv, Typed, CallTyped, Calls
<1>3. CASE Return(t) /\ UNCHANGED flows
  BY <1>1, <1>3, DeletionFails DEF bridgeVars, FabricStep
<1>4. CASE /\ DelFlows({<<"in_port", port>>} \cup IfcMatches(p, call[t].mac))
           /\ Goto(t, "device")
  <2>1. port \in Ports /\ Device(p, port)
    BY <1>1 DEF IInv, ClientOK, DeviceOwners
  <2>2. \A r \in remoteHad : r.pair # p
    BY <1>1 DEF IInv, ClientOK, Exclusive
  <2>3. \A r \in RemoteUp : r.pair # p
    BY <1>1, <2>2, RemoteUpKnown
  <2>4. DelFlows(LocalMatches(port, p))
    BY <1>2, <1>4 DEF LocalMatches
  <2>5. BridgeOK' /\ LocalUp' = LocalUp \ {p} /\ RemoteUp' = RemoteUp
    BY <1>1, <1>2, <2>1, <2>3, <2>4, DelLocalFlows DEF IInv
  <2>6. FabricStep
    BY <1>2, <2>5 DEF FabricStep, Fabric!FabricNext, Fabric!DeleteLocalIfc
  <2>7. Typed' /\ Moves(t, "device", port)
    BY <1>1, <1>2, <1>4, CallMoves DEF MayMove, Pcs, IInv, Typed
  <2>8. /\ call'[t].pc = "device"
        /\ \A u \in Threads : call'[u].op = call[u].op /\ call'[u].pair = call[u].pair
        /\ \A u \in Threads \ {t} : call'[u] = call[u]
    BY <2>7 DEF Moves
  <2>9. Exclusive' /\ Locks'
    BY <1>1, <1>2, <2>7, MovesKeep DEF IInv, ClientOK
  <2>10. \A q, op : \A u \in Threads : Dismantled(u, op, q) <=> Dismantled(u, op, q)'
    BY <1>1, <2>8 DEF Dismantled
  <2>11. UpToClient'
    BY <1>1, <1>2, <2>5, <2>8, <2>10 DEF IInv, ClientOK, UpToClient
  <2>12. DeviceOwners'
    <3>1. \A n : HasDevice(n)' <=> HasDevice(n)
      BY <1>1 DEF HasDevice
    <3>2. \A u \in Threads : Attaching(u)' <=> Attaching(u)
      BY <1>1, <2>8 DEF Attaching
    <3>3. \A u \in Threads : Attaching(u)' => HasDevice(Name(u))'
      BY <1>1, <2>8, <3>1, <3>2 DEF IInv, ClientOK, DeviceOwners, Name
    <3>4. \A u \in Threads :
            call'[u].op \in {"createLocal", "deleteLocal"} /\ call'[u].pc = "flows" =>
                   call'[u].port \in Ports /\ Device(call[u].pair, call[u].port)'
      BY <1>1, <2>8 DEF IInv, ClientOK, DeviceOwners, Device
    <3> QED
      BY <1>1, <1>2, <2>8, <2>10, <3>1, <3>2, <3>3, <3>4 DEF IInv, ClientOK, DeviceOwners
  <2>13. Phases'
    BY <1>1, RunStays DEF IInv, ClientOK
  <2> QED
    BY <2>5, <2>6, <2>7, <2>9, <2>11, <2>12, <2>13 DEF IInv, ClientOK
<1> QED
  BY <1>3, <1>4 DEF deleteLocalIfcFlows

LEMMA deleteIfcStep ==
    ASSUME DistinctMACs, IInv, NEW t \in Threads, deleteIfc(t)
    PROVE  IInv' /\ Same
<1> DEFINE p == call[t].pair
<1>1. /\ phase = "run" /\ call[t].op = "deleteLocal" /\ call[t].pc = "device"
      /\ UNCHANGED <<flows, lockedVNIIPPairs, clientVars, startVars, leaked>>
  BY DEF deleteIfc, At
<1>2. /\ UNCHANGED <<localHad, remoteHad, phase, incompleteIfcs>>
      /\ call[t].port \in Ports \cup {NoPort} /\ p \in Pairs
  BY <1>1 DEF clientVars, startVars, IInv, Typed, CallTyped, Calls
<1>3. CASE Return(t) /\ UNCHANGED devices
  BY <1>1, <1>3, DeletionFails DEF bridgeVars
<1>4. CASE HasDevice(Name(t)) /\ DelPort(Name(t)) /\ Goto(t, "unlockDeleted")
  <2>1. p \notin LocalUp /\ \A r \in remoteHad : r.pair # p
    BY <1>1 DEF IInv, ClientOK, Exclusive, UpToClient
  <2>2. /\ BridgeOK' /\ Same
        /\ \A q \in Pairs : HasDevice(generateIfcName(q))'
                            <=> HasDevice(generateIfcName(q)) /\ q # p
        /\ \A q \in Pairs \ {p} : \A port : Device(q, port) => Device(q, port)'
    BY <1>1, <1>2, <1>4, <2>1, DelDevice DEF IInv, Same, Name
  <2>3. Typed' /\ Moves(t, "unlockDeleted", call[t].port)
    BY <1>1, <1>2, <1>4, CallMoves DEF MayMove, Pcs, IInv, Typed
  <2>4. /\ call'[t].pc = "unlockDeleted"
        /\ \A u \in Threads : call'[u].op = call[u].op /\ call'[u].pair = call[u].pair
        /\ \A u \in Threads \ {t} : call'[u] = call[u]
    BY <2>3 DEF Moves
  <2>5. Exclusive' /\ Locks'
    BY <1>1, <1>2, <2>3, MovesKeep DEF IInv, ClientOK
  <2>6. \A q : \A u \in Threads :
          /\ Dismantled(u, "deleteRemote", q) <=> Dismantled(u, "deleteRemote", q)'
          /\ Dismantled(u, "deleteLocal", q)' <=>
                Dismantled(u, "deleteLocal", q) \/ (u = t /\ q = p)
    BY <1>1, <2>4 DEF Dismantled
  <2>7. UpToClient'
    BY <1>1, <1>2, <2>1, <2>2, <2>4, <2>6 DEF IInv, ClientOK, UpToClient, Same
  <2>8. \A u \in Threads \ {t} : call[u].op # "none" => call[u].pair # p
    BY <1>1 DEF IInv, ClientOK, Exclusive
  <2>9. DeviceOwners'
    <3>1. \A u \in Threads : Attaching(u)' <=> Attaching(u)
      BY <1>1, <2>4 DEF Attaching
    <3>2. \A u \in Threads : Attaching(u)' => HasDevice(Name(u))'
      <4> SUFFICES ASSUME NEW u \in Threads, Attaching(u)' PROVE HasDevice(Name(u))'
        OBVIOUS
      <4>1. u # t /\ Attaching(u) /\ call'[u] = call[u]
        BY <1>1, <2>4, <3>1 DEF Attaching
      <4>2. call[u].pair \in Pairs /\ call[u].pair # p
        BY <2>8, <4>1 DEF Attaching, IInv, Typed, CallTyped
      <4>3. HasDevice(generateIfcName(call[u].pair))
        BY <1>1, <4>1 DEF IInv, ClientOK, DeviceOwners, Name
      <4>4. HasDevice(generateIfcName(call[u].pair))'
        BY <2>2, <2>4, <4>2, <4>3
      <4> QED
        BY <4>4 DEF Name
    <3>3. \A u \in Threads :
            call'[u].op \in {"createLocal", "deleteLocal"} /\ call'[u].pc = "flows" =>
                   call'[u].port \in Ports /\ Device(call[u].pair, call[u].port)'
      <4> SUFFICES ASSUME NEW u \in Threads, call'[u].op \in {"createLocal", "deleteLocal"},
                          call'[u].pc = "flows"
                   PROVE  call'[u].port \in Ports /\ Device(call[u].pair, call[u].port)'
        OBVIOUS
      <4>1. call'[u] = call[u] /\ u # t
        BY <2>4
      <4>2. call[u].pair \in Pairs /\ call[u].pair # p
        BY <2>8, <4>1 DEF IInv, Typed, CallTyped
      <4>3. call[u].port \in Ports /\ Device(call[u].pair, call[u].port)
        BY <1>1, <4>1 DEF IInv, ClientOK, DeviceOwners
      <4> QED
        BY <2>2, <4>1, <4>2, <4>3 DEF Device
    <3>4. \A q \in localHad : \/ HasDevice(generateIfcName(q))'
                              \/ \E u \in Threads : Dismantled(u, "deleteLocal", q)'
      BY <1>1, <2>2, <2>6 DEF IInv, ClientOK, DeviceOwners, Typed
    <3>5. \A q \in Pairs : HasDevice(generateIfcName(q))' =>
                 \/ q \in localHad /\ \A u \in Threads : ~Dismantled(u, "deleteLocal", q)'
                 \/ generateIfcName(q) \in leaked
                 \/ \E u \in Threads : Attaching(u)' /\ call'[u].pair = q
      BY <1>1, <2>2, <2>4, <2>6, <3>1 DEF IInv, ClientOK, DeviceOwners
    <3> QED
      BY <1>1, <1>2, <3>2, <3>3, <3>4, <3>5 DEF DeviceOwners
  <2>10. Phases'
    BY <1>1, RunStays DEF IInv, ClientOK
  <2> QED
    BY <2>2, <2>3, <2>5, <2>7, <2>9, <2>10 DEF IInv, ClientOK
<1> QED
  BY <1>3, <1>4 DEF deleteIfc

LEMMA addRemoteIfcFlowsStep ==
    ASSUME DistinctMACs, IInv, NEW t \in Threads, addRemoteIfcFlows(t)
    PROVE  IInv' /\ FabricStep
<1> DEFINE p == call[t].pair
           r == [pair |-> p, host |-> call[t].host]
<1>1. /\ phase = "run" /\ call[t].op = "createRemote" /\ call[t].pc = "flows"
      /\ UNCHANGED <<devices, lockedVNIIPPairs, localHad, startVars, leaked>>
  BY DEF addRemoteIfcFlows, At
<1>2. /\ UNCHANGED <<phase, incompleteIfcs>>
      /\ call[t].port \in Ports \cup {NoPort} /\ p \in Pairs /\ call[t].host \in Hosts
      /\ call[t].mac = generateMACAddr(p)
  BY <1>1 DEF startVars, IInv, Typed, CallTyped, Calls
<1>3. r \in RemoteNetIfc /\ CalledIfc(t) = WithMAC(r) /\ r.pair = p /\ CalledIfc(t).pair = p
  BY <1>2 DEF RemoteNetIfc, CalledIfc, WithMAC
<1>4. Making(t) /\ ~Attaching(t)
  BY <1>1 DEF Attaching, Making
<1> HIDE DEF r
<1>5. CASE Goto(t, "unlock") /\ UNCHANGED <<flows, remoteHad>>
  <2>1. Typed' /\ Moves(t, "unlock", call[t].port)
    BY <1>1, <1>2, <1>5, CallMoves DEF MayMove, Pcs, IInv, Typed
  <2>2. ~Attaching(t)'
    BY <1>1, <2>1 DEF Attaching, Moves
  <2> QED
    BY <1>1, <1>4, <1>5, <2>1, <2>2, MovesOnly DEF bridgeVars, clientVars, FabricStep
<1>6. CASE /\ AddFlows(RemoteIfcFlows(CalledIfc(t)))
           /\ remoteHad' = remoteHad \cup {CalledIfc(t)}
           /\ Return(t)
  <2>1. p \notin localHad /\ \A s \in remoteHad : s.pair # p
    BY <1>4 DEF IInv, ClientOK, Exclusive
  <2>2. p \notin LocalUp /\ \A s \in RemoteUp : s.pair # p
    BY <1>1, <2>1, RemoteUpKnown DEF IInv, ClientOK, UpToClient
  <2>3. BridgeOK' /\ LocalUp' = LocalUp /\ RemoteUp' = RemoteUp \cup {r}
    BY <1>1, <1>3, <1>6, <2>2, AddRemoteFlows DEF IInv
  <2>4. FabricStep
    <3>1. Fabric!RemoteNetIfc = RemoteNetIfc
      BY DEF Fabric!RemoteNetIfc, RemoteNetIfc
    <3>2. Fabric!CreateRemoteIfc(r)
      BY <1>3, <2>2, <2>3 DEF Fabric!CreateRemoteIfc, Fabric!InUse
    <3> QED
      BY <1>3, <3>1, <3>2 DEF FabricStep, Fabric!FabricNext
  <2>5. /\ Typed' /\ call'[t] = NoCall
        /\ \A u \in Threads \ {t} : call'[u] = call[u]
    BY <1>1, <1>3, <1>6, CallReturns DEF IInv, Typed
  <2>6. \A u \in Threads \ {t} : call[u].op # "none" => call[u].pair # p
    BY <1>1 DEF IInv, ClientOK, Exclusive
  <2>7. Exclusive'
    BY <1>1, <1>3, <1>6, <2>1, <2>5, <2>6, NoCallTyped
    DEF IInv, ClientOK, Exclusive, Making, CalledIfc
  <2>8. Locks'
    BY <1>1, <1>3, <1>4, <1>6, <2>5, NoCallTyped DEF IInv, ClientOK, Locks, Making
  <2>9. \A q, op : \A u \in Threads : Dismantled(u, op, q) <=> Dismantled(u, op, q)'
    BY <1>1, <2>5, NoCallTyped DEF Dismantled
  <2>10. UpToClient'
    <3>1. ASSUME NEW s \in RemoteNetIfc
          PROVE  s \in RemoteUp' <=> /\ WithMAC(s) \in remoteHad'
                                     /\ \A u \in Threads : ~Dismantled(u, "deleteRemote", s.pair)'
      <4>1. CASE s = r
        <5>1. \A u \in Threads : ~Dismantled(u, "deleteRemote", p)
          BY <1>1, <2>6 DEF Dismantled
        <5> QED
          BY <1>3, <1>6, <2>3, <2>9, <4>1, <5>1
      <4>2. CASE s # r
        <5>1. WithMAC(s) # WithMAC(r)
          BY <1>3, <4>2 DEF WithMAC, RemoteNetIfc
        <5> QED
          BY <1>1, <1>3, <1>6, <2>3, <2>9, <4>2, <5>1 DEF IInv, ClientOK, UpToClient
      <4> QED
        BY <4>1, <4>2
    <3> QED
      BY <1>1, <2>3, <2>5, <3>1, NoCallTyped DEF IInv, ClientOK, UpToClient
  <2>11. DeviceOwners'
    <3>1. \A n : HasDevice(n)' <=> HasDevice(n)
      BY <1>1 DEF HasDevice
    <3>2. \A u \in Threads : (Attaching(u)' <=> Attaching(u)) /\ (Attaching(u) => call'[u] = call[u])
      BY <1>1, <2>5, NoCallTyped DEF Attaching
    <3>3. \A u \in Threads : Attaching(u)' => HasDevice(Name(u))'
      BY <1>1, <3>1, <3>2 DEF IInv, ClientOK, DeviceOwners, Name
    <3>4. \A u \in Threads :
            call'[u].op \in {"createLocal", "deleteLocal"} /\ call'[u].pc = "flows" =>
                   call'[u].port \in Ports /\ Device(call[u].pair, call[u].port)'
      BY <1>1, <2>5, NoCallTyped DEF IInv, ClientOK, DeviceOwners, Device
    <3> QED
      BY <1>1, <1>2, <2>9, <3>1, <3>2, <3>3, <3>4 DEF IInv, ClientOK, DeviceOwners, Typed
  <2>12. Phases'
    BY <1>1, RunStays DEF IInv, ClientOK
  <2> QED
    BY <2>3, <2>4, <2>5, <2>7, <2>8, <2>10, <2>11, <2>12 DEF IInv, ClientOK
<1> QED
  BY <1>5, <1>6 DEF addRemoteIfcFlows

LEMMA deleteRemoteIfcFlowsStep ==
    ASSUME DistinctMACs, IInv, NEW t \in Threads, deleteRemoteIfcFlows(t)
    PROVE  IInv' /\ FabricStep
<1> DEFINE p == call[t].pair
           r == [pair |-> p, host |-> call[t].host]
<1>1. /\ phase = "run" /\ call[t].op = "deleteRemote" /\ call[t].pc = "flows"
      /\ UNCHANGED <<devices, lockedVNIIPPairs, clientVars, startVars, leaked>>
  BY DEF deleteRemoteIfcFlows, At
<1>2. /\ UNCHANGED <<localHad, remoteHad, phase, incompleteIfcs>>
      /\ call[t].port \in Ports \cup {NoPort} /\ p \in Pairs
      /\ call[t].mac = generateMACAddr(p)
  BY <1>1 DEF clientVars, startVars, IInv, Typed, CallTyped, Calls
<1>3. CASE Return(t) /\ UNCHANGED flows
  BY <1>1, <1>3, DeletionFails DEF bridgeVars, FabricStep
<1>4. CASE DelFlows(IfcMatches(p, call[t].mac)) /\ Goto(t, "unlockDeleted")
  <2>1. CalledIfc(t) \in remoteHad
    BY <1>1 DEF IInv, ClientOK, Exclusive
  <2>2. r \in RemoteNetIfc /\ CalledIfc(t) = WithMAC(r) /\ r.pair = p /\ CalledIfc(t).pair = p
    BY <2>1, RemoteKept DEF CalledIfc, IInv
  <2> HIDE DEF r
  <2>3. p \notin localHad /\ p \notin LocalUp
    BY <1>1, <2>1, <2>2 DEF IInv, ClientOK, Exclusive, UpToClient
  <2>4. \A s \in RemoteUp : s.pair = p => s = r
    <3> SUFFICES ASSUME NEW s \in RemoteUp, s.pair = p PROVE s = r
      OBVIOUS
    <3>1. s \in RemoteNetIfc /\ WithMAC(s) \in remoteHad /\ WithMAC(s).pair = p
      BY <1>1, RemoteUpKnown
    <3>2. WithMAC(s) = WithMAC(r)
      BY <2>1, <2>2, <3>1 DEF IInv, ClientOK, Exclusive
    <3>3. s.host = r.host
      BY <3>2 DEF WithMAC
    <3> QED
      BY <2>2, <3>1, <3>3 DEF RemoteNetIfc
  <2>5. BridgeOK' /\ LocalUp' = LocalUp /\ RemoteUp' = RemoteUp \ {r}
    BY <1>1, <1>2, <1>4, <2>2, <2>3, <2>4, DelRemoteFlows DEF IInv
  <2>6. FabricStep
    <3>1. Fabric!RemoteNetIfc = RemoteNetIfc
      BY DEF Fabric!RemoteNetIfc, RemoteNetIfc
    <3>2. Fabric!DeleteRemoteIfc(r)
      BY <2>5 DEF Fabric!DeleteRemoteIfc
    <3> QED
      BY <2>2, <3>1, <3>2 DEF FabricStep, Fabric!FabricNext
  <2>7. Typed' /\ Moves(t, "unlockDeleted", call[t].port)
    BY <1>1, <1>2, <1>4, CallMoves DEF MayMove, Pcs, IInv, Typed
  <2>8. /\ call'[t].pc = "unlockDeleted"
        /\ \A u \in Threads : call'[u].op = call[u].op /\ call'[u].pair = call[u].pair
        /\ \A u \in Threads \ {t} : call'[u] = call[u]
    BY <2>7 DEF Moves
  <2>9. Exclusive' /\ Locks'
    BY <1>1, <1>2, <2>7, MovesKeep DEF IInv, ClientOK
  <2>10. \A q : \A u \in Threads :
          /\ Dismantled(u, "deleteLocal", q) <=> Dismantled(u, "deleteLocal", q)'
          /\ Dismantled(u, "deleteRemote", q)' <=>
                Dismantled(u, "deleteRemote", q) \/ (u = t /\ q = p)
    BY <1>1, <2>8 DEF Dismantled
  <2>11. UpToClient'
    <3>1. ASSUME NEW s \in RemoteNetIfc
          PROVE  s \in RemoteUp' <=> /\ WithMAC(s) \in remoteHad'
                                     /\ \A u \in Threads : ~Dismantled(u, "deleteRemote", s.pair)'
      BY <1>1, <1>2, <2>2, <2>4, <2>5, <2>10 DEF IInv, ClientOK, UpToClient
    <3> QED
      BY <1>1, <1>2, <2>5, <2>8, <3>1 DEF IInv, ClientOK, UpToClient
  <2>12. DeviceOwners'
    <3>1. \A n : HasDevice(n)' <=> HasDevice(n)
      BY <1>1 DEF HasDevice
    <3>2. \A u \in Threads : Attaching(u)' <=> Attaching(u)
      BY <1>1, <2>8 DEF Attaching
    <3>3. \A u \in Threads : Attaching(u)' => HasDevice(Name(u))'
      BY <1>1, <2>8, <3>1, <3>2 DEF IInv, ClientOK, DeviceOwners, Name
    <3>4. \A u \in Threads :
            call'[u].op \in {"createLocal", "deleteLocal"} /\ call'[u].pc = "flows" =>
                   call'[u].port \in Ports /\ Device(call[u].pair, call[u].port)'
      BY <1>1, <2>8 DEF IInv, ClientOK, DeviceOwners, Device
    <3> QED
      BY <1>1, <1>2, <2>8, <2>10, <3>1, <3>2, <3>3, <3>4 DEF IInv, ClientOK, DeviceOwners
  <2>13. Phases'
    BY <1>1, RunStays DEF IInv, ClientOK
  <2> QED
    BY <2>5, <2>6, <2>7, <2>9, <2>11, <2>12, <2>13 DEF IInv, ClientOK
<1> QED
  BY <1>3, <1>4 DEF deleteRemoteIfcFlows

LEMMA unlockDeletedStep ==
    ASSUME IInv, NEW t \in Threads, unlockDeleted(t)
    PROVE  IInv' /\ Same
<1> DEFINE p == call[t].pair
<1>1. /\ phase = "run" /\ call[t].pc = "unlockDeleted" /\ Return(t)
      /\ lockedVNIIPPairs' = lockedVNIIPPairs \ {p}
      /\ UNCHANGED <<devices, flows, phase, incompleteIfcs, leaked>>
  BY DEF unlockDeleted, unlockVNIIPPair, bridgeVars, startVars
<1>2. call[t].op \in {"deleteLocal", "deleteRemote"} /\ p \in Pairs
  BY <1>1 DEF IInv, Typed, CallTyped
<1>3. /\ call[t].op = "deleteLocal" => \A s \in remoteHad : s.pair # p
      /\ call[t].op = "deleteRemote" => p \notin localHad /\ \E s \in remoteHad : s.pair = p
  <2>1. CalledIfc(t).pair = p
    BY DEF CalledIfc
  <2> QED
    BY <2>1 DEF IInv, ClientOK, Exclusive
<1>4. localHad' = localHad \ {p} /\ remoteHad' = {s \in remoteHad : s.pair # p}
  <2>1. localHad' = localHad \ {p}
    BY <1>2, <1>3 DEF unlockDeleted
  <2>2. remoteHad' = {s \in remoteHad : s.pair # p}
    BY <1>2, <1>3 DEF unlockDeleted
  <2> QED
    BY <2>1, <2>2
<1>5. BridgeOK' /\ Same /\ \A n : HasDevice(n)' <=> HasDevice(n)
  BY <1>1, BridgeStays DEF IInv, Same
<1>6. /\ Typed' /\ call'[t] = NoCall
      /\ \A u \in Threads \ {t} : call'[u] = call[u]
  BY <1>1, <1>4, CallReturns DEF IInv, Typed
<1>7. \A u \in Threads \ {t} : call[u].op # "none" => call[u].pair # p
  BY <1>2 DEF IInv, ClientOK, Exclusive
<1>8. Exclusive'
  BY <1>1, <1>4, <1>6, <1>7, NoCallTyped DEF IInv, ClientOK, Exclusive, Making, CalledIfc
<1>9. Locks'
  <2>1. \A u \in Threads : Making(u)' <=> Making(u)
    BY <1>2, <1>6, NoCallTyped DEF Making
  <2>2. \A u \in Threads : Making(u) => call'[u] = call[u] /\ call[u].pair # p
    BY <1>2, <1>6, <1>7 DEF Making
  <2> QED
    BY <1>1, <1>4, <2>1, <2>2 DEF IInv, ClientOK, Locks
<1>10. p \notin LocalUp /\ \A r \in RemoteUp : r.pair # p
  <2>1. CASE call[t].op = "deleteLocal"
    BY <1>1, <1>3, <2>1, RemoteUpKnown DEF IInv, ClientOK, UpToClient
  <2>2. CASE call[t].op = "deleteRemote"
    <3>1. Dismantled(t, "deleteRemote", p)
      BY <1>1, <2>2 DEF Dismantled
    <3>2. \A r \in RemoteUp : r \in RemoteNetIfc
      BY DEF RemoteUp
    <3> QED
      BY <1>1, <1>3, <2>2, <3>1, <3>2 DEF IInv, ClientOK, UpToClient
  <2> QED
    BY <1>2, <2>1, <2>2
<1>11. \A q, op : q # p => \A u \in Threads : Dismantled(u, op, q) <=> Dismantled(u, op, q)'
  BY <1>6, NoCallTyped DEF Dismantled
<1>12. \A q, op : q = p => \A u \in Threads : ~Dismantled(u, op, q)'
  <2> SUFFICES ASSUME NEW u \in Threads, call'[u].pair = p, call'[u].pc = "unlockDeleted"
               PROVE  FALSE
    BY DEF Dismantled
  <2>1. u # t /\ call'[u] = call[u]
    BY <1>6, NoCallTyped
  <2>2. call[u].op = "none"
    BY <1>7, <2>1
  <2>3. call[u] = NoCall
    BY <2>2 DEF IInv, Typed, CallTyped
  <2> QED
    BY <2>1, <2>3, NoCallTyped
<1>13. UpToClient'
  <2>1. ASSUME NEW s \in RemoteNetIfc
        PROVE  s \in RemoteUp' <=> /\ WithMAC(s) \in remoteHad'
                                   /\ \A u \in Threads : ~Dismantled(u, "deleteRemote", s.pair)'
    <3>1. WithMAC(s).pair = s.pair
      BY DEF WithMAC
    <3>2. CASE s.pair = p
      BY <1>4, <1>5, <1>10, <3>1, <3>2 DEF Same
    <3>3. CASE s.pair # p
      BY <1>1, <1>4, <1>5, <1>11, <3>1, <3>3 DEF IInv, ClientOK, UpToClient, Same
    <3> QED
      BY <3>2, <3>3
  <2> QED
    BY <1>1, <1>4, <1>5, <1>6, <1>10, <2>1, NoCallTyped DEF IInv, ClientOK, UpToClient, Same
<1>14. DeviceOwners'
  <2>1. \A u \in Threads : (Attaching(u)' <=> Attaching(u)) /\ (Attaching(u) => call'[u] = call[u])
    BY <1>2, <1>6, NoCallTyped DEF Attaching
  <2>2. \A u \in Threads : Attaching(u)' => HasDevice(Name(u))'
    BY <1>1, <1>5, <2>1 DEF IInv, ClientOK, DeviceOwners, Name
  <2>3. \A u \in Threads :
          call'[u].op \in {"createLocal", "deleteLocal"} /\ call'[u].pc = "flows" =>
                   call'[u].port \in Ports /\ Device(call[u].pair, call[u].port)'
    BY <1>1, <1>6, NoCallTyped DEF IInv, ClientOK, DeviceOwners, Device
  <2>4. \A q \in localHad' : \/ HasDevice(generateIfcName(q))'
                             \/ \E u \in Threads : Dismantled(u, "deleteLocal", q)'
    BY <1>1, <1>4, <1>5, <1>11 DEF IInv, ClientOK, DeviceOwners
  <2>5. \A q \in Pairs : HasDevice(generateIfcName(q))' =>
             \/ q \in localHad' /\ \A u \in Threads : ~Dismantled(u, "deleteLocal", q)'
             \/ generateIfcName(q) \in leaked
             \/ \E u \in Threads : Attaching(u)' /\ call'[u].pair = q
    <3> SUFFICES ASSUME NEW q \in Pairs, HasDevice(generateIfcName(q))
                 PROVE  \/ /\ q \in localHad'
                           /\ \A u \in Threads : ~Dismantled(u, "deleteLocal", q)'
                        \/ generateIfcName(q) \in leaked
                        \/ \E u \in Threads : Attaching(u)' /\ call'[u].pair = q
      BY <1>5
    <3>1. CASE q = p
      <4>1. ~(q \in localHad /\ \A u \in Threads : ~Dismantled(u, "deleteLocal", q))
        BY <1>1, <1>2, <1>3, <3>1 DEF Dismantled
      <4> QED
        BY <1>1, <2>1, <4>1 DEF IInv, ClientOK, DeviceOwners
    <3>2. CASE q # p
      BY <1>1, <1>4, <1>11, <2>1, <3>2 DEF IInv, ClientOK, DeviceOwners
    <3> QED
      BY <3>1, <3>2
  <2> QED
    BY <1>1, <2>2, <2>3, <2>4, <2>5 DEF DeviceOwners
<1>15. Phases'
  BY <1>1, <1>4, RunStays DEF IInv, ClientOK, startVars
<1> QED
  BY <1>5, <1>6, <1>8, <1>9, <1>13, <1>14, <1>15 DEF IInv, ClientOK

-----------------------------------------------------------------------------
(* Start-up and crashes.                                                    *)

\* A pair has one interface.
LEMMA UpExclusive ==
    ASSUME BridgeOK, NEW r \in RemoteUp
    PROVE  /\ r.pair \notin LocalUp
           /\ \A s \in RemoteUp : s.pair = r.pair => s = r
<1> DEFINE arp(s) == Flow("arp", s.pair[1], s.pair[2], "tunnel", vtepOFport, s.host,
                          Uvarint(generateMACAddr(s.pair)))
<1>1. ASSUME NEW s \in RemoteUp PROVE s \in RemoteNetIfc /\ arp(s) \in flows /\ isRemote(arp(s))
  <2>1. s \in RemoteNetIfc /\ RemoteIfcFlows(WithMAC(s)) \subseteq flows
    BY DEF RemoteUp
  <2>2. arp(s) \in RemoteIfcFlows(WithMAC(s))
    BY DEF RemoteIfcFlows, WithMAC
  <2> QED
    BY <2>1, <2>2, FlowKinds
<1>2. \A s : Match(arp(s)) = <<"arp", s.pair[1], s.pair[2]>>
  BY MatchOf
<1>3. \A s : arp(s).host = s.host
  BY DEF Flow
<1> HIDE DEF arp
<1>4. ASSUME r.pair \in LocalUp PROVE FALSE
  <2>1. PICK port \in Ports : LocalIfcFlows(port, r.pair) \subseteq flows
    BY <1>4 DEF LocalUp
  <2> DEFINE f == Flow("arp", r.pair[1], r.pair[2], "output", port, NoHost, 0)
  <2>2. f \in LocalIfcFlows(port, r.pair)
    BY DEF LocalIfcFlows
  <2>3. Match(f) = <<"arp", r.pair[1], r.pair[2]>>
    BY MatchOf
  <2> HIDE DEF f
  <2>4. f = arp(r)
    BY <1>1, <1>2, <2>1, <2>2, <2>3 DEF BridgeOK, FlowTable
  <2> QED
    BY <1>1, <2>2, <2>4, FlowKinds
<1>5. ASSUME NEW s \in RemoteUp, s.pair = r.pair PROVE s = r
  <2>1. arp(s) = arp(r)
    BY <1>1, <1>2, <1>5 DEF BridgeOK, FlowTable
  <2>2. s.host = r.host
    BY <1>3, <2>1
  <2>3. s = [pair |-> s.pair, host |-> s.host] /\ r = [pair |-> r.pair, host |-> r.host]
    BY <1>1 DEF RemoteNetIfc
  <2> QED
    BY <1>5, <2>2, <2>3
<1> QED
  BY <1>4, <1>5

\* The useful flows of a device's port are those of the interface that is up.
LEMMA PortsFlows ==
    ASSUME DistinctMACs, BridgeOK, NEW p \in Pairs, NEW port \in Ports, Device(p, port)
    PROVE  ofPortToLocalFlowsPairs(port) =
              IF p \in LocalUp
              THEN { Flow("dl", p[1], generateMACAddr(p), "output", port, NoHost, 0),
                     Flow("arp", p[1], p[2], "output", port, NoHost, 0) }
              ELSE {}
<1> DEFINE in  == Flow("in_port", p[1], port, "resubmit", NoPort, NoHost, 0)
           dl  == Flow("dl", p[1], generateMACAddr(p), "output", port, NoHost, 0)
           arp == Flow("arp", p[1], p[2], "output", port, NoHost, 0)
<1>1. LocalIfcFlows(port, p) = {in, dl, arp}
  BY DEF LocalIfcFlows
<1>2. /\ isTunneling(in) /\ ~isTunneling(dl) /\ ~isTunneling(arp)
      /\ usefulLocalFlowOFport(dl) = port /\ usefulLocalFlowOFport(arp) = port
  BY DEF Flow, isTunneling, usefulLocalFlowOFport
<1>3. \A q, port2 : \A f \in LocalIfcFlows(port2, q) :
         ~isTunneling(f) => usefulLocalFlowOFport(f) = port2
  BY DEF LocalIfcFlows, Flow, isTunneling, usefulLocalFlowOFport
<1> HIDE DEF in, dl, arp
<1>4. ASSUME NEW f \in ofPortToLocalFlowsPairs(port) PROVE p \in LocalUp /\ f \in {dl, arp}
  <2>1. f \in flows /\ isLocal(f) /\ ~isTunneling(f) /\ usefulLocalFlowOFport(f) = port
    BY DEF ofPortToLocalFlowsPairs, getUsefulLocalFlows, onlyUsefulLocalFlows, getFlows
  <2>2. PICK q \in Pairs, port2 \in Ports : /\ f \in LocalIfcFlows(port2, q)
                                            /\ LocalIfcFlows(port2, q) \subseteq flows
                                            /\ Device(q, port2)
    BY <2>1, FlowKinds DEF BridgeOK, Whole
  <2>3. port2 = port
    BY <1>3, <2>1, <2>2
  <2>4. q = p
    BY <2>2, <2>3, PortsDiffer DEF BridgeOK
  <2> QED
    BY <1>1, <1>2, <2>1, <2>2, <2>3, <2>4 DEF LocalUp, Device
<1>5. ASSUME p \in LocalUp, NEW f \in {dl, arp} PROVE f \in ofPortToLocalFlowsPairs(port)
  <2>1. PICK port2 \in Ports : Device(p, port2) /\ LocalIfcFlows(port2, p) \subseteq flows
    BY <1>5 DEF LocalUp, Device
  <2>2. port2 = port
    BY <2>1, PortsDiffer DEF BridgeOK
  <2>3. f \in flows /\ isLocal(f)
    BY <1>1, <1>5, <2>1, <2>2, FlowKinds
  <2> QED
    BY <1>2, <1>5, <2>3
    DEF ofPortToLocalFlowsPairs, getUsefulLocalFlows, onlyUsefulLocalFlows, getFlows
<1> QED
  BY <1>4, <1>5 DEF dl, arp

\* A pair of flows is parsed into the interface that they were made of.
LEMMA PairParsed ==
    ASSUME NEW p \in Pairs, NEW host, NEW mac, NEW dl, NEW arp, ~isARP(dl), isARP(arp),
           dl.vni = p[1], arp.vni = p[1], dl.host = host, arp.host = host,
           arp.addr = p[2], dl.addr = mac
    PROVE  parseFlows({dl, arp}) = {[pair |-> p, host |-> host, mac |-> mac]}
<1>1. <<p[1], p[2]>> = p
  BY PairsAssumption
<1>2. {g \in {dl, arp} : isARP(g)} = {arp} /\ {g \in {dl, arp} : ~isARP(g)} = {dl}
  OBVIOUS
<1>3. parseFlows({dl, arp}) =
         {[pair |-> <<f.vni, a.addr>>, host |-> f.host, mac |-> d.addr] :
             f \in {dl, arp}, a \in {arp}, d \in {dl}}
  BY <1>2 DEF parseFlows
<1> QED
  BY <1>1, <1>3

\* Until the interfaces are listed the client has no interface and no call.
LEMMA StartKeeps ==
    ASSUME IInv, phase # "run", phase' # "run",
           UNCHANGED <<call, localHad, remoteHad, lockedVNIIPPairs>>
    PROVE  Typed' /\ Exclusive' /\ Locks' /\ UpToClient' /\ DeviceOwners'
<1>1. Typed'
  BY DEF IInv, Typed
<1>2. Exclusive'
  BY DEF IInv, ClientOK, Exclusive, Making, CalledIfc
<1>3. Locks'
  BY DEF IInv, ClientOK, Locks, Making
<1>4. UpToClient' /\ DeviceOwners'
  BY DEF UpToClient, DeviceOwners
<1> QED
  BY <1>1, <1>2, <1>3, <1>4

LEMMA initBridgeStep ==
    ASSUME DistinctMACs, IInv, initBridge
    PROVE  IInv' /\ Same
<1>1. /\ phase \in {"start", "addVTEP", "addDefaultFlows"}
      /\ phase' \in {"addVTEP", "addDefaultFlows", "listLocal"}
      /\ UNCHANGED <<call, localHad, remoteHad, lockedVNIIPPairs, incompleteIfcs>>
  BY DEF initBridge, createBridge, addVTEP, addDefaultFlows, clientVars
<1>2. BridgeOK' /\ Same
  <2>1. CASE createBridge
    BY <2>1, AddSpecialDevice DEF createBridge, IInv, Same
  <2>2. CASE addVTEP
    BY <2>2, AddSpecialDevice DEF addVTEP, IInv, Same
  <2>3. CASE addDefaultFlows
    BY <2>3, AddDefaults DEF addDefaultFlows, IInv, Same
  <2> QED
    BY <2>1, <2>2, <2>3 DEF initBridge
<1>3. Phases'
  BY <1>1 DEF IInv, ClientOK, Phases
<1> QED
  BY <1>1, <1>2, <1>3, StartKeeps DEF IInv, ClientOK

\* The devices of interfaces, as the program lists them.
LEMMA DevicesListed ==
    ASSUME BridgeOK
    PROVE  /\ \A d \in getOFportsToLocalIfcNames :
                 \E p \in Pairs, port \in Ports : d = <<generateIfcName(p), port>> /\ Device(p, port)
           /\ \A p, port : Device(p, port) =>
                 <<generateIfcName(p), port>> \in getOFportsToLocalIfcNames
<1>1. ASSUME NEW d \in getOFportsToLocalIfcNames
      PROVE  \E p \in Pairs, port \in Ports : d = <<generateIfcName(p), port>> /\ Device(p, port)
  BY DEF getOFportsToLocalIfcNames, parseOFportsAndIfcNames, BridgeOK, DevicesOK, Device
<1>2. ASSUME NEW p, NEW port, Device(p, port)
      PROVE  <<generateIfcName(p), port>> \in getOFportsToLocalIfcNames
  BY <1>2, SpecialNames DEF getOFportsToLocalIfcNames, parseOFportsAndIfcNames, Device
<1> QED
  BY <1>1, <1>2

\* The device of an interface that is up has flows, and no other device has.
LEMMA Incomplete ==
    ASSUME DistinctMACs, BridgeOK, NEW p \in Pairs, NEW port \in Ports, Device(p, port)
    PROVE  ofPortToLocalFlowsPairs(port) = {} <=> p \notin LocalUp
BY PortsFlows

LEMMA nameIfcsStep ==
    ASSUME DistinctMACs, IInv, nameIfcs
    PROVE  IInv' /\ Same
<1>1. /\ phase = "listLocal" /\ phase' = "cleanLocal"
      /\ UNCHANGED <<call, localHad, remoteHad, lockedVNIIPPairs, devices, flows, leaked>>
      /\ incompleteIfcs' = {d[1] : d \in {e \in getOFportsToLocalIfcNames :
                                             ofPortToLocalFlowsPairs(e[2]) = {}}}
  BY DEF nameIfcs, bridgeVars, clientVars
<1>2. BridgeOK' /\ Same /\ \A n : HasDevice(n)' <=> HasDevice(n)
  BY <1>1, BridgeStays DEF IInv, Same
<1>3. \A n \in incompleteIfcs' : \E p \in Pairs : p \notin LocalUp /\ n = generateIfcName(p)
  <2> SUFFICES ASSUME NEW d \in getOFportsToLocalIfcNames, ofPortToLocalFlowsPairs(d[2]) = {}
               PROVE  \E p \in Pairs : p \notin LocalUp /\ d[1] = generateIfcName(p)
    BY <1>1
  <2>1. PICK p \in Pairs, port \in Ports : d = <<generateIfcName(p), port>> /\ Device(p, port)
    BY DevicesListed DEF IInv
  <2> QED
    BY <2>1, Incomplete DEF IInv
<1>4. \A p \in Pairs : HasDevice(generateIfcName(p)) =>
         p \in LocalUp \/ generateIfcName(p) \in incompleteIfcs'
  <2> SUFFICES ASSUME NEW p \in Pairs, HasDevice(generateIfcName(p)), p \notin LocalUp
               PROVE  generateIfcName(p) \in incompleteIfcs'
    OBVIOUS
  <2>1. PICK port \in Ports : Device(p, port)
    BY DEF HasDevice, Device
  <2>2. ofPortToLocalFlowsPairs(port) = {}
    BY <2>1, Incomplete DEF IInv
  <2>3. <<generateIfcName(p), port>> \in getOFportsToLocalIfcNames
    BY <2>1, DevicesListed DEF IInv
  <2> QED
    BY <1>1, <2>2, <2>3
<1>5. Phases'
  BY <1>1, <1>2, <1>3, <1>4 DEF IInv, ClientOK, Phases, Same
<1> QED
  BY <1>1, <1>2, <1>5, StartKeeps DEF IInv, ClientOK

LEMMA deleteIncompleteIfcsStep ==
    ASSUME DistinctMACs, IInv, deleteIncompleteIfcs
    PROVE  IInv' /\ Same
<1>1. /\ phase = "cleanLocal" /\ phase' = "cleanLocal"
      /\ UNCHANGED <<call, localHad, remoteHad, lockedVNIIPPairs, flows>>
  BY DEF deleteIncompleteIfcs, clientVars
<1>2. PICK name \in incompleteIfcs :
         /\ \/ DelPort(name) /\ UNCHANGED leaked
            \/ leaked' = leaked \cup {name} /\ UNCHANGED devices
         /\ incompleteIfcs' = incompleteIfcs \ {name}
  BY DEF deleteIncompleteIfcs
<1>3. PICK p \in Pairs : p \notin LocalUp /\ name = generateIfcName(p)
  BY <1>1 DEF IInv, ClientOK, Phases
<1>4. /\ BridgeOK' /\ Same
      /\ \A q \in Pairs : HasDevice(generateIfcName(q))' =>
            HasDevice(generateIfcName(q)) /\ (q = p => generateIfcName(p) \in leaked')
      /\ leaked \subseteq leaked'
  <2>1. CASE DelPort(name) /\ UNCHANGED leaked
    BY <1>1, <1>3, <2>1, DelDevice DEF IInv, Same
  <2>2. CASE leaked' = leaked \cup {name} /\ UNCHANGED devices
    BY <1>1, <1>3, <2>2, BridgeStays DEF IInv, Same
  <2> QED
    BY <1>2, <2>1, <2>2
<1>5. \A q \in Pairs : generateIfcName(q) = name => q = p
  BY <1>3, NamesDiffer DEF generateIfcName
<1>6. Phases'
  <2>1. \A n \in incompleteIfcs' : \E q \in Pairs : q \notin LocalUp' /\ n = generateIfcName(q)
    BY <1>1, <1>2, <1>4 DEF IInv, ClientOK, Phases, Same
  <2>2. ASSUME NEW q \in Pairs, HasDevice(generateIfcName(q))'
        PROVE  q \in LocalUp' \/ generateIfcName(q) \in leaked' \cup incompleteIfcs'
    BY <1>1, <1>2, <1>3, <1>4, <1>5, <2>2 DEF IInv, ClientOK, Phases, Same
  <2> QED
    BY <1>1, <2>1, <2>2 DEF IInv, ClientOK, Phases
<1> QED
  BY <1>1, <1>4, <1>6, StartKeeps DEF IInv, ClientOK

\* ListLocalIfcs finds the local interfaces that are up.
LEMMA LocalListed ==
    ASSUME DistinctMACs, BridgeOK
    PROVE  {i.pair : i \in completeIfcs} = LocalUp
<1>1. ASSUME NEW p \in Pairs, NEW port \in Ports, Device(p, port)
      PROVE  parseFlows(ofPortToLocalFlowsPairs(port)) =
                IF p \in LocalUp THEN {[pair |-> p, host |-> NoHost, mac |-> generateMACAddr(p)]}
                                 ELSE {}
  <2>1. CASE p \in LocalUp
    <3> DEFINE dl  == Flow("dl", p[1], generateMACAddr(p), "output", port, NoHost, 0)
               arp == Flow("arp", p[1], p[2], "output", port, NoHost, 0)
    <3>1. ofPortToLocalFlowsPairs(port) = {dl, arp}
      BY <1>1, <2>1, PortsFlows
    <3>2. /\ ~isARP(dl) /\ isARP(arp)
          /\ dl.vni = p[1] /\ arp.vni = p[1] /\ dl.host = NoHost /\ arp.host = NoHost
          /\ arp.addr = p[2] /\ dl.addr = generateMACAddr(p)
      BY DEF Flow, isARP
    <3> HIDE DEF dl, arp
    <3>3. parseFlows({dl, arp}) = {[pair |-> p, host |-> NoHost, mac |-> generateMACAddr(p)]}
      BY <3>2, PairParsed
    <3> QED
      BY <2>1, <3>1, <3>3
  <2>2. CASE p \notin LocalUp
    <3>1. ofPortToLocalFlowsPairs(port) = {}
      BY <1>1, <2>2, PortsFlows
    <3>2. parseFlows({}) = {}
      BY DEF parseFlows
    <3> QED
      BY <2>2, <3>1, <3>2
  <2> QED
    BY <2>1, <2>2
<1>2. ASSUME NEW i \in completeIfcs PROVE i.pair \in LocalUp
  <2>1. PICK d \in getOFportsToLocalIfcNames : i \in parseFlows(ofPortToLocalFlowsPairs(d[2]))
    BY DEF completeIfcs
  <2>2. PICK p \in Pairs, port \in Ports : d = <<generateIfcName(p), port>> /\ Device(p, port)
    BY DevicesListed
  <2>3. d[2] = port
    BY <2>2
  <2>4. p \in LocalUp /\ i = [pair |-> p, host |-> NoHost, mac |-> generateMACAddr(p)]
    BY <1>1, <2>1, <2>2, <2>3
  <2> QED
    BY <2>4
<1>3. ASSUME NEW p \in LocalUp PROVE \E i \in completeIfcs : i.pair = p
  <2>1. p \in Pairs
    BY DEF LocalUp
  <2>2. PICK port \in Ports : Device(p, port)
    BY DEF LocalUp, Device
  <2> DEFINE d == <<generateIfcName(p), port>>
             i == [pair |-> p, host |-> NoHost, mac |-> generateMACAddr(p)]
  <2>3. d \in getOFportsToLocalIfcNames /\ d[2] = port
    BY <2>2, DevicesListed
  <2>4. i \in parseFlows(ofPortToLocalFlowsPairs(d[2]))
    BY <1>1, <2>1, <2>2, <2>3
  <2>5. i.pair = p
    OBVIOUS
  <2> HIDE DEF d, i
  <2>6. i \in completeIfcs
    BY <2>3, <2>4 DEF completeIfcs
  <2> QED
    BY <2>5, <2>6
<1> QED
  BY <1>2, <1>3

LEMMA ListLocalIfcsStep ==
    ASSUME DistinctMACs, IInv, ListLocalIfcs
    PROVE  IInv' /\ Same
<1>1. /\ phase = "cleanLocal" /\ phase' = "listRemote" /\ incompleteIfcs = {}
      /\ UNCHANGED <<call, remoteHad, devices, flows, leaked, incompleteIfcs>>
      /\ localHad' = {i.pair : i \in completeIfcs}
      /\ lockedVNIIPPairs' = lockedVNIIPPairs \cup {i.pair : i \in completeIfcs}
  BY DEF ListLocalIfcs, bridgeVars, clientVars
<1>2. localHad = {} /\ remoteHad = {} /\ \A t \in Threads : call[t] = NoCall
  BY <1>1 DEF IInv, ClientOK, Phases
<1>3. lockedVNIIPPairs = {}
  BY <1>2, NoCallTyped DEF IInv, ClientOK, Typed, Locks, Making
<1>4. localHad' = LocalUp /\ lockedVNIIPPairs' = LocalUp /\ LocalUp \subseteq Pairs
  <2>1. LocalUp \subseteq Pairs
    BY DEF LocalUp
  <2> QED
    BY <1>1, <1>3, <2>1, LocalListed DEF IInv
<1>5. BridgeOK' /\ Same /\ \A n : HasDevice(n)' <=> HasDevice(n)
  BY <1>1, BridgeStays DEF IInv, Same
<1>6. Typed'
  BY <1>1, <1>4 DEF IInv, Typed
<1>7. Exclusive'
  BY <1>1, <1>2, NoCallTyped DEF Exclusive, Making
<1>8. Locks'
  BY <1>1, <1>2, <1>4, NoCallTyped DEF Locks, Making
<1>9. UpToClient' /\ DeviceOwners'
  BY <1>1 DEF UpToClient, DeviceOwners
<1>10. Phases'
  BY <1>1, <1>2, <1>4, <1>5 DEF IInv, ClientOK, Phases, Same
<1> QED
  BY <1>5, <1>6, <1>7, <1>8, <1>9, <1>10 DEF IInv, ClientOK

\* The flows of a remote interface, and what they are parsed into.
LEMMA RemoteFlows ==
    ASSUME NEW r \in RemoteNetIfc
    PROVE  /\ \A f \in RemoteIfcFlows(WithMAC(r)) : f.cookie = Uvarint(generateMACAddr(r.pair))
           /\ parseFlows(RemoteIfcFlows(WithMAC(r))) = {WithMAC(r)}
<1> DEFINE p == r.pair
           cookie == Uvarint(generateMACAddr(p))
           dl  == Flow("dl", p[1], generateMACAddr(p), "tunnel", vtepOFport, r.host, cookie)
           arp == Flow("arp", p[1], p[2], "tunnel", vtepOFport, r.host, cookie)
<1>1. p \in Pairs
  BY DEF RemoteNetIfc
<1>2. RemoteIfcFlows(WithMAC(r)) = {dl, arp}
  BY DEF RemoteIfcFlows, WithMAC
<1>3. /\ dl.cookie = cookie /\ arp.cookie = cookie
      /\ ~isARP(dl) /\ isARP(arp)
      /\ dl.vni = p[1] /\ arp.vni = p[1] /\ dl.host = r.host /\ arp.host = r.host
      /\ arp.addr = p[2] /\ dl.addr = generateMACAddr(p)
  BY DEF Flow, isARP
<1> HIDE DEF dl, arp
<1>4. parseFlows({dl, arp}) = {[pair |-> p, host |-> r.host, mac |-> generateMACAddr(p)]}
  BY <1>1, <1>3, PairParsed
<1>5. WithMAC(r) = [pair |-> p, host |-> r.host, mac |-> generateMACAddr(p)]
  BY DEF WithMAC
<1> QED
  BY <1>2, <1>3, <1>4, <1>5

\* The groups of remote flows are those of the remote interfaces that are up.
LEMMA RemoteGroups ==
    ASSUME BridgeOK, Listable
    PROVE  pairRemoteFlowsPerIfc = {RemoteIfcFlows(WithMAC(r)) : r \in RemoteUp}
<1> DEFINE Group(c) == {f \in getRemoteFlows : f.cookie = c}
           Cookie(r) == Uvarint(generateMACAddr(r.pair))
<1>1. ASSUME NEW f \in getRemoteFlows
      PROVE  \E r \in RemoteUp : f \in RemoteIfcFlows(WithMAC(r)) /\ f.cookie = Cookie(r)
  <2>1. f \in flows /\ isRemote(f)
    BY DEF getRemoteFlows, onlyRemoteFlows, getFlows
  <2>2. PICK r \in RemoteNetIfc : /\ f \in RemoteIfcFlows(WithMAC(r))
                                  /\ RemoteIfcFlows(WithMAC(r)) \subseteq flows
    BY <2>1, FlowKinds DEF BridgeOK, Whole
  <2>3. r \in RemoteUp
    BY <2>2 DEF RemoteUp
  <2> QED
    BY <2>2, <2>3, RemoteFlows
<1>2. ASSUME NEW r \in RemoteUp, NEW f \in RemoteIfcFlows(WithMAC(r))
      PROVE  f \in getRemoteFlows /\ f.cookie = Cookie(r)
  <2>1. r \in RemoteNetIfc /\ f \in flows
    BY DEF RemoteUp
  <2>2. isRemote(f)
    BY FlowKinds
  <2> QED
    BY <2>1, <2>2, RemoteFlows DEF getRemoteFlows, onlyRemoteFlows, getFlows
<1>3. \A r, s \in RemoteUp : Cookie(r) = Cookie(s) => r = s
  BY DEF Listable
<1> HIDE DEF Cookie
<1>4. ASSUME NEW r \in RemoteUp PROVE Group(Cookie(r)) = RemoteIfcFlows(WithMAC(r))
  BY <1>1, <1>2, <1>3
<1>5. pairRemoteFlowsPerIfc = {Group(c) : c \in {f.cookie : f \in getRemoteFlows}}
  BY DEF pairRemoteFlowsPerIfc
<1>6. {f.cookie : f \in getRemoteFlows} = {Cookie(r) : r \in RemoteUp}
  <2>1. ASSUME NEW r \in RemoteUp PROVE \E f \in getRemoteFlows : f.cookie = Cookie(r)
    <3>1. RemoteIfcFlows(WithMAC(r)) # {}
      BY DEF RemoteIfcFlows
    <3> QED
      BY <1>2, <3>1
  <2> QED
    BY <1>1, <2>1
<1> HIDE DEF Group
<1>7. pairRemoteFlowsPerIfc = {Group(c) : c \in {Cookie(r) : r \in RemoteUp}}
  BY <1>5, <1>6
<1>8. {Group(c) : c \in {Cookie(r) : r \in RemoteUp}} = {Group(Cookie(r)) : r \in RemoteUp}
  OBVIOUS
<1>9. {Group(Cookie(r)) : r \in RemoteUp} = {RemoteIfcFlows(WithMAC(r)) : r \in RemoteUp}
  BY <1>4
<1> QED
  BY <1>7, <1>8, <1>9

\* Two interfaces with one cookie are two ARP flows of one group.
LEMMA Unambiguous ==
    ASSUME DistinctMACs, ~Ambiguous
    PROVE  Listable
<1> SUFFICES ASSUME NEW r \in RemoteUp, NEW s \in RemoteUp, r # s,
                    Uvarint(generateMACAddr(r.pair)) = Uvarint(generateMACAddr(s.pair))
             PROVE  FALSE
  BY DEF Listable
<1> DEFINE cookie == Uvarint(generateMACAddr(r.pair))
           arp(i) == Flow("arp", i.pair[1], i.pair[2], "tunnel", vtepOFport, i.host, cookie)
           group == {f \in getRemoteFlows : f.cookie = cookie}
<1>1. /\ r \in RemoteNetIfc /\ s \in RemoteNetIfc /\ r.pair \in Pairs /\ s.pair \in Pairs
      /\ RemoteIfcFlows(WithMAC(r)) \subseteq flows /\ RemoteIfcFlows(WithMAC(s)) \subseteq flows
  BY DEF RemoteUp, RemoteNetIfc
<1>2. arp(r) \in RemoteIfcFlows(WithMAC(r)) /\ arp(s) \in RemoteIfcFlows(WithMAC(s))
  BY DEF RemoteIfcFlows, WithMAC
<1>3. isRemote(arp(r)) /\ isRemote(arp(s)) /\ isARP(arp(r)) /\ isARP(arp(s))
      /\ arp(r).cookie = cookie /\ arp(s).cookie = cookie
  BY DEF Flow, isRemote, isARP
<1>4. arp(r) # arp(s)
  BY <1>1, <1>2, FlowsDiffer
<1> HIDE DEF cookie, arp
<1>5. arp(r) \in group /\ arp(s) \in group
  BY <1>1, <1>2, <1>3 DEF getRemoteFlows, onlyRemoteFlows, getFlows
<1>6. group \in pairRemoteFlowsPerIfc
  BY <1>3, <1>5 DEF pairRemoteFlowsPerIfc
<1> QED
  BY <1>3, <1>4, <1>5, <1>6 DEF Ambiguous

\* ListRemoteIfcs finds the remote interfaces that are up.
LEMMA RemoteListed ==
    ASSUME BridgeOK, Listable,
           NEW list \in parseRemoteFlowsPairs(pairRemoteFlowsPerIfc)
    PROVE  list = {WithMAC(r) : r \in RemoteUp}
<1> DEFINE groups == pairRemoteFlowsPerIfc
<1>1. PICK choice \in [groups -> UNION {parseFlows(g) : g \in groups}] :
         /\ \A g \in groups : choice[g] \in parseFlows(g)
         /\ list = {choice[g] : g \in groups}
  BY DEF parseRemoteFlowsPairs, Range
<1>2. groups = {RemoteIfcFlows(WithMAC(r)) : r \in RemoteUp}
  BY RemoteGroups
<1>3. ASSUME NEW r \in RemoteUp
      PROVE  choice[RemoteIfcFlows(WithMAC(r))] = WithMAC(r)
  <2>1. parseFlows(RemoteIfcFlows(WithMAC(r))) = {WithMAC(r)}
    BY RemoteFlows DEF RemoteUp
  <2> QED
    BY <1>1, <1>2, <2>1
<1> HIDE DEF groups
<1> QED
  BY <1>1, <1>2, <1>3

LEMMA ListRemoteIfcsStep ==
    ASSUME DistinctMACs, IInv, ListRemoteIfcs, ~mixed'
    PROVE  IInv' /\ Same
<1>1. /\ phase = "listRemote" /\ phase' = "run"
      /\ UNCHANGED <<call, localHad, devices, flows, leaked, incompleteIfcs>>
      /\ lockedVNIIPPairs' = lockedVNIIPPairs \cup {r.pair : r \in remoteHad'}
  BY DEF ListRemoteIfcs, bridgeVars, clientVars
<1>2. /\ remoteHad = {} /\ incompleteIfcs = {} /\ \A t \in Threads : call[t] = NoCall
      /\ localHad = LocalUp
      /\ \A p \in Pairs : HasDevice(generateIfcName(p)) =>
            p \in LocalUp \/ generateIfcName(p) \in leaked
  BY <1>1 DEF IInv, ClientOK, Phases
<1>3. \A p \in Pairs : p \in lockedVNIIPPairs <=> p \in localHad
  BY <1>2, NoCallTyped DEF IInv, ClientOK, Locks, Making
<1>4. remoteHad' = {WithMAC(r) : r \in RemoteUp}
  BY Unambiguous, RemoteListed DEF ListRemoteIfcs, IInv
<1>5. BridgeOK' /\ Same /\ \A n : HasDevice(n)' <=> HasDevice(n)
  BY <1>1, BridgeStays DEF IInv, Same
<1>6. \A r \in RemoteNetIfc : WithMAC(r).pair = r.pair /\ WithMAC(r).host = r.host /\ r.pair \in Pairs
  BY DEF WithMAC, RemoteNetIfc
<1>7. RemoteUp \subseteq RemoteNetIfc
  BY DEF RemoteUp
<1>8. \A r, s \in RemoteNetIfc : WithMAC(r) = WithMAC(s) => r = s
  <2> SUFFICES ASSUME NEW r \in RemoteNetIfc, NEW s \in RemoteNetIfc, WithMAC(r) = WithMAC(s)
               PROVE  r = s
    OBVIOUS
  <2>1. r.pair = s.pair /\ r.host = s.host
    BY <1>6
  <2> QED
    BY <2>1 DEF RemoteNetIfc
<1>9. Typed'
  <2>1. remoteHad' \subseteq {WithMAC(s) : s \in RemoteNetIfc}
    BY <1>4, <1>7
  <2>2. lockedVNIIPPairs' \subseteq Pairs
    BY <1>1, <1>4, <1>6, <1>7 DEF IInv, Typed
  <2> QED
    BY <1>1, <2>1, <2>2 DEF IInv, Typed
<1>10. Exclusive'
  <2>1. \A r, s \in remoteHad' : r.pair = s.pair => r = s
    BY <1>4, <1>6, <1>7, UpExclusive DEF IInv
  <2>2. \A r \in remoteHad' : r.pair \notin localHad'
    BY <1>1, <1>2, <1>4, <1>6, <1>7, UpExclusive DEF IInv
  <2> QED
    BY <1>1, <1>2, <2>1, <2>2, NoCallTyped DEF Exclusive, Making
<1>11. Locks'
  <2>1. \A t \in Threads : ~Making(t)'
    BY <1>1, <1>2, NoCallTyped DEF Making
  <2> QED
    BY <1>1, <1>3, <2>1 DEF Locks
<1>12. UpToClient'
  <2>1. \A p : \A t \in Threads : ~Dismantled(t, "deleteRemote", p)'
    BY <1>1, <1>2, NoCallTyped DEF Dismantled
  <2>2. \A r \in RemoteNetIfc : r \in RemoteUp <=> WithMAC(r) \in remoteHad'
    BY <1>4, <1>7, <1>8
  <2>3. \A t \in Threads : call'[t].op = "none"
    BY <1>1, <1>2, NoCallTyped
  <2> QED
    BY <1>1, <1>2, <1>5, <2>1, <2>2, <2>3 DEF UpToClient, Same
<1>13. DeviceOwners'
  <2>1. \A t \in Threads : call'[t].op = "none" /\ call'[t].pc = "none"
    BY <1>1, <1>2, NoCallTyped
  <2>2. \A p : \A t \in Threads : ~Dismantled(t, "deleteLocal", p)' /\ ~Attaching(t)'
    BY <2>1 DEF Dismantled, Attaching
  <2>3. \A p \in LocalUp : HasDevice(generateIfcName(p))
    BY DEF LocalUp, HasDevice
  <2> QED
    BY <1>1, <1>2, <1>5, <2>1, <2>2, <2>3 DEF DeviceOwners
<1>14. Phases'
  BY <1>1, <1>2 DEF Phases
<1> QED
  BY <1>5, <1>9, <1>10, <1>11, <1>12, <1>13, <1>14 DEF IInv, ClientOK

LEMMA CrashStep ==
    ASSUME IInv, Crash
    PROVE  IInv' /\ Same
<1>1. /\ lockedVNIIPPairs' = {} /\ localHad' = {} /\ remoteHad' = {} /\ incompleteIfcs' = {}
      /\ phase' = "start" /\ call' = [t \in Threads |-> NoCall]
      /\ UNCHANGED <<devices, flows>>
  BY DEF Crash, bridgeVars
<1>2. \A t \in Threads : call'[t] = NoCall
  BY <1>1
<1>3. BridgeOK' /\ Same
  BY <1>1, BridgeStays DEF IInv, Same
<1>4. Typed'
  <2>1. NoCall \in Calls /\ CallTyped(NoCall)
    BY NoCallTyped DEF CallTyped
  <2> QED
    BY <1>1, <1>2, <2>1 DEF Typed, CallTyped
<1>5. Exclusive' /\ Locks'
  BY <1>1, <1>2, NoCallTyped DEF Exclusive, Locks, Making
<1>6. UpToClient' /\ DeviceOwners' /\ Phases'
  BY <1>1, <1>2 DEF UpToClient, DeviceOwners, Phases
<1> QED
  BY <1>3, <1>4, <1>5, <1>6 DEF IInv, ClientOK

-----------------------------------------------------------------------------
(* The theorems.                                                            *)

LEMMA InitIInv == Init => IInv /\ LocalUp = {} /\ RemoteUp = {}
<1> SUFFICES ASSUME Init PROVE IInv /\ LocalUp = {} /\ RemoteUp = {}
  OBVIOUS
<1>1. BridgeOK
  BY DEF Init, BridgeOK, DevicesOK, FlowTable, Whole
<1>2. \A t \in Threads : call[t] = NoCall
  BY DEF Init
<1>3. Typed
  <2>1. NoCall \in Calls /\ CallTyped(NoCall)
    BY NoCallTyped DEF CallTyped
  <2> QED
    BY <1>2, <2>1 DEF Init, Typed
<1>4. Exclusive /\ Locks
  BY <1>2, NoCallTyped DEF Init, Exclusive, Locks, Making
<1>5. UpToClient /\ DeviceOwners /\ Phases
  BY <1>2 DEF Init, UpToClient, DeviceOwners, Phases
<1>6. LocalUp = {} /\ RemoteUp = {}
  BY DEF Init, LocalUp, RemoteUp, RemoteIfcFlows
<1> QED
  BY <1>1, <1>3, <1>4, <1>5, <1>6 DEF IInv, ClientOK

LEMMA NextStep ==
    ASSUME DistinctMACs, IInv, Next, ~mixed'
    PROVE  IInv' /\ FabricStep
<1>1. ASSUME NEW t \in Threads, LocalNext(t) PROVE IInv' /\ FabricStep
  <2>1. CASE \E p \in Pairs : CreateLocalIfc(t, p)
    BY <2>1, CreateLocalIfcStep DEF FabricStep
  <2>2. CASE createIfc(t)
    BY <2>2, createIfcStep DEF FabricStep
  <2>3. CASE getNewIfcOFport(t)
    BY <2>3, getNewIfcOFportStep DEF FabricStep
  <2>4. CASE addLocalIfcFlows(t)
    BY <2>4, addLocalIfcFlowsStep
  <2>5. CASE cleanUp(t)
    BY <2>5, cleanUpStep DEF FabricStep
  <2>6. CASE unlockAfterError(t)
    BY <2>6, unlockAfterErrorStep DEF FabricStep
  <2>7. CASE \E p \in Pairs : DeleteLocalIfc(t, p)
    BY <2>7, DeleteLocalIfcStep DEF FabricStep
  <2>8. CASE getOldIfcOFport(t)
    BY <2>8, getOldIfcOFportStep DEF FabricStep
  <2>9. CASE deleteLocalIfcFlows(t)
    BY <2>9, deleteLocalIfcFlowsStep
  <2>10. CASE deleteIfc(t)
    BY <2>10, deleteIfcStep DEF FabricStep
  <2>11. CASE unlockDeleted(t)
    BY <2>11, unlockDeletedStep DEF FabricStep
  <2> QED
    BY <1>1, <2>1, <2>2, <2>3, <2>4, <2>5, <2>6, <2>7, <2>8, <2>9, <2>10, <2>11, Zenon
    DEF LocalNext
<1>2. ASSUME NEW t \in Threads, RemoteNext(t) PROVE IInv' /\ FabricStep
  <2>1. CASE \E p \in Pairs, h \in Hosts : CreateRemoteIfc(t, p, h)
    BY <2>1, CreateRemoteIfcStep DEF FabricStep
  <2>2. CASE addRemoteIfcFlows(t)
    BY <2>2, addRemoteIfcFlowsStep
  <2>3. CASE \E r \in remoteHad : DeleteRemoteIfc(t, r)
    BY <2>3, DeleteRemoteIfcStep DEF FabricStep
  <2>4. CASE deleteRemoteIfcFlows(t)
    BY <2>4, deleteRemoteIfcFlowsStep
  <2> QED
    BY <1>2, <2>1, <2>2, <2>3, <2>4, Zenon DEF RemoteNext
<1>3. CASE StartNext
  BY <1>3, initBridgeStep, nameIfcsStep, deleteIncompleteIfcsStep, ListLocalIfcsStep,
     ListRemoteIfcsStep, Zenon
  DEF StartNext, FabricStep
<1>4. CASE Crash
  BY <1>4, CrashStep DEF FabricStep
<1> QED
  BY <1>1, <1>2, <1>3, <1>4, Zenon DEF Next

LEMMA Stutter ==
    ASSUME IInv, UNCHANGED vars
    PROVE  IInv' /\ Same
<1>1. UNCHANGED <<devices, flows, lockedVNIIPPairs, call, localHad, remoteHad, phase,
                  incompleteIfcs, leaked>>
  BY DEF vars, bridgeVars, clientVars, startVars
<1>2. BridgeOK' /\ Same /\ \A n : HasDevice(n)' <=> HasDevice(n)
  BY <1>1, BridgeStays DEF IInv, Same
<1>3. \A p, port : Device(p, port)' <=> Device(p, port)
  BY <1>1 DEF Device
<1>4. Typed'
  BY <1>1 DEF IInv, Typed
<1>5. Exclusive' /\ Locks'
  BY <1>1 DEF IInv, ClientOK, Exclusive, Locks, Making, CalledIfc
<1>6. UpToClient'
  BY <1>1, <1>2 DEF IInv, ClientOK, UpToClient, Dismantled, Same
<1>7. DeviceOwners'
  BY <1>1, <1>2, <1>3 DEF IInv, ClientOK, DeviceOwners, Dismantled, Attaching, Name
<1>8. Phases'
  BY <1>1, <1>2 DEF IInv, ClientOK, Phases, Same
<1> QED
  BY <1>2, <1>4, <1>5, <1>6, <1>7, <1>8 DEF IInv, ClientOK

\* What was mixed up stays so.
LEMMA MixedStays ==
    ASSUME [Next]_vars, mixed
    PROVE  mixed'
<1>1. CASE UNCHANGED vars
  BY <1>1 DEF vars
<1>2. ASSUME NEW t \in Threads, LocalNext(t) \/ RemoteNext(t) PROVE mixed'
  BY <1>2 DEF LocalNext, RemoteNext, CreateLocalIfc, createIfc, getNewIfcOFport,
              addLocalIfcFlows, cleanUp, unlockAfterError, DeleteLocalIfc, getOldIfcOFport,
              deleteLocalIfcFlows, deleteIfc, unlockDeleted, CreateRemoteIfc,
              addRemoteIfcFlows, DeleteRemoteIfc, deleteRemoteIfcFlows
<1>3. CASE StartNext
  BY <1>3 DEF StartNext, initBridge, createBridge, addVTEP, addDefaultFlows, nameIfcs,
              deleteIncompleteIfcs, ListLocalIfcs, ListRemoteIfcs
<1>4. CASE Crash
  BY <1>4 DEF Crash
<1> QED
  BY <1>1, <1>2, <1>3, <1>4 DEF Next

LEMMA Invariant ==
    ASSUME DistinctMACs
    PROVE  Spec => [](mixed \/ IInv)
<1>1. Init => IInv
  BY InitIInv
<1>2. (mixed \/ IInv) /\ [Next]_vars => (mixed \/ IInv)'
  BY NextStep, Stutter, MixedStays
<1> QED
  BY <1>1, <1>2, PTL DEF Spec

\* Whatever the goroutines do, commands that fail and restarts included, and as
\* long as ListRemoteIfcs has not taken two remote interfaces for one, the
\* bridge has the devices of interfaces and no others, and what the client
\* records, or parses from the flows of the bridge, is an address or a host.
THEOREM OVSTyped ==
    ASSUME DistinctMACs
    PROVE  Spec => [](mixed \/ TypeOK)
<1>1. IInv => TypeOK
  <2> SUFFICES ASSUME IInv PROVE TypeOK
    OBVIOUS
  <2>1. getOFportsToLocalIfcNames \subseteq {generateIfcName(p) : p \in Pairs} \X Ports
    BY DevicesListed DEF IInv
  <2>2. lockedVNIIPPairs \subseteq Pairs /\ localHad \subseteq Pairs
    BY DEF IInv, Typed
  <2>3. \A r \in remoteHad : r.pair \in Pairs /\ r.host \in Hosts
    BY DEF IInv, Typed, WithMAC, RemoteNetIfc
  <2>4. \A t \in Threads : call[t] = NoCall \/ call[t].pair \in Pairs
    BY DEF IInv, Typed, CallTyped
  <2> QED
    BY <2>1, <2>2, <2>3, <2>4 DEF TypeOK, IInv, ClientOK, Phases
<1> QED
  BY <1>1, Invariant, PTL

\* Every local flow of the bridge is a flow of the interface whose device has
\* its port: no device receives the traffic of another (addLocalIfcFlows,
\* deleteLocalIfcFlows and the start-up's deletion of incomplete interfaces), as
\* long as ListRemoteIfcs has not taken two remote interfaces for one.
THEOREM FlowsBelong ==
    ASSUME DistinctMACs
    PROVE  Spec => [](mixed \/ FlowsLeadHome)
<1>1. IInv => FlowsLeadHome
  <2> SUFFICES ASSUME IInv, NEW f \in flows, isLocal(f)
               PROVE  \E p \in Pairs, port \in Ports :
                         /\ <<generateIfcName(p), port>> \in devices
                         /\ f \in LocalIfcFlows(port, p)
    BY DEF FlowsLeadHome
  <2>1. f \notin DefaultFlows /\ \A r : f \notin RemoteIfcFlows(WithMAC(r))
    BY FlowKinds
  <2> QED
    BY <2>1 DEF IInv, BridgeOK, Whole, Device
<1> QED
  BY <1>1, Invariant, PTL

\* Up to the first start-up whose ListRemoteIfcs takes two remote interfaces with
\* one cookie for one: while no call is in progress the client has every
\* interface that is complete, finds the devices of its local interfaces, so
\* that a deletion that failed can be repeated, has locked its pairs and no
\* others, and every other device is one whose clean-up failed.
THEOREM ClientAgrees ==
    ASSUME DistinctMACs
    PROVE  Spec => [](mixed \/ ClientKnows)
<1>1. IInv => ClientKnows
  <2> SUFFICES ASSUME IInv, phase = "run", \A t \in Threads : call[t] = NoCall
               PROVE  /\ LocalUp \subseteq localHad
                      /\ \A p \in localHad : HasDevice(generateIfcName(p))
                      /\ remoteHad = {WithMAC(r) : r \in RemoteUp}
                      /\ lockedVNIIPPairs = localHad \cup {r.pair : r \in remoteHad}
                      /\ {d[1] : d \in getOFportsToLocalIfcNames} \subseteq
                            {generateIfcName(p) : p \in localHad} \cup leaked
    BY DEF ClientKnows
  <2>1. \A t \in Threads : /\ ~Making(t) /\ ~Attaching(t)
                           /\ \A op, p : ~Dismantled(t, op, p)
    BY NoCallTyped DEF Making, Attaching, Dismantled
  <2>2. LocalUp \subseteq localHad
    BY DEF IInv, ClientOK, UpToClient
  <2>3. \A p \in localHad : HasDevice(generateIfcName(p))
    BY <2>1 DEF IInv, ClientOK, DeviceOwners
  <2>4. remoteHad = {WithMAC(r) : r \in RemoteUp}
    <3>1. \A r \in RemoteNetIfc : r \in RemoteUp <=> WithMAC(r) \in remoteHad
      BY <2>1 DEF IInv, ClientOK, UpToClient
    <3>2. RemoteUp \subseteq RemoteNetIfc
      BY DEF RemoteUp
    <3>3. remoteHad \subseteq {WithMAC(s) : s \in RemoteNetIfc}
      BY DEF IInv, Typed
    <3> QED
      BY <3>1, <3>2, <3>3
  <2>5. lockedVNIIPPairs = localHad \cup {r.pair : r \in remoteHad}
    <3>1. lockedVNIIPPairs \subseteq Pairs /\ localHad \subseteq Pairs
      BY DEF IInv, Typed
    <3>2. \A r \in remoteHad : r.pair \in Pairs
      BY DEF IInv, Typed, WithMAC, RemoteNetIfc
    <3>3. \A p \in Pairs : p \in lockedVNIIPPairs <=> p \in localHad \/ \E r \in remoteHad : r.pair = p
      BY <2>1 DEF IInv, ClientOK, Locks
    <3> QED
      BY <3>1, <3>2, <3>3
  <2>6. ASSUME NEW d \in getOFportsToLocalIfcNames
        PROVE  d[1] \in {generateIfcName(p) : p \in localHad} \cup leaked
    <3>1. PICK p \in Pairs, port \in Ports : d = <<generateIfcName(p), port>> /\ Device(p, port)
      BY DevicesListed DEF IInv
    <3>2. HasDevice(generateIfcName(p))
      BY <3>1 DEF HasDevice, Device
    <3>3. p \in localHad \/ generateIfcName(p) \in leaked
      BY <2>1, <3>2 DEF IInv, ClientOK, DeviceOwners
    <3> QED
      BY <3>1, <3>3
  <2> QED
    BY <2>2, <2>3, <2>4, <2>5, <2>6
<1> QED
  BY <1>1, Invariant, PTL

\* The bridge, with its sequences of commands that may fail half-way, its
\* start-up after a crash and the deletions of local interfaces that do not
\* exist, changes like the fabric of interfaces.go that the connection agent
\* relies on, in behaviours in which no ListRemoteIfcs takes two remote
\* interfaces for one: an interface appears as a whole and only when its pair
\* has no other, and disappears only by being deleted.
THEOREM BridgeIsFabric ==
    ASSUME DistinctMACs
    PROVE  Spec /\ []~mixed => ImplementsFabric
<1>1. Init => Fabric!FabricInit
  BY InitIInv DEF Fabric!FabricInit
<1>2. IInv /\ ~mixed' /\ [Next]_vars => [Fabric!FabricNext]_Fabric!fabricVars
  <2> SUFFICES ASSUME IInv, ~mixed', [Next]_vars PROVE Same \/ Fabric!FabricNext
    BY DEF Same, Fabric!fabricVars
  <2> QED
    BY NextStep, Stutter DEF FabricStep
<1> QED
  BY <1>1, <1>2, Invariant, PTL DEF Spec, ImplementsFabric, Fabric!FabricSpec
=============================================================================
