------------------------ MODULE ConnectionAgent_proofs ------------------------
(***************************************************************************)
(* The proof that the connection agent makes interfaces only between        *)
(* addresses and hosts that attachments name, that no interface of the      *)
(* fabric gets out of its tables, that an attachment that stays on its node *)
(* gets its interface and its status, that the interfaces of the others     *)
(* follow what the informers show, and that an attachment elsewhere gets    *)
(* its interface, for any number of attachments, virtual networks and       *)
(* nodes, and any number of writes, failing calls and restarts.             *)
(***************************************************************************)
EXTENDS ConnectionAgent, FiniteSetTheorems, TLAPS

-----------------------------------------------------------------------------
(* The inductive invariant: types.                                          *)

\* What is in the cache of local attachments, and in one of remote ones.
LocalObjs ==
    {a \in NetworkAttachment : a = NoAtt \/ (a.node = Here /\ a.pair \in Pairs)}

RemoteObjs ==
    {a \in NetworkAttachment :
        a = NoAtt \/ (a.node # Here /\ a.host \in Hosts /\ a.pair \in Pairs)}

\* What an interface can be made of.
Usable(a) == a.pair \in Pairs /\ attHostIP(a) \in Hosts

LocalEvents == [key : Keys, obj : LocalObjs]
RemoteEvents == [key : Keys, obj : RemoteObjs]
Notes == [key : Keys, op : {"added", "removed", "updated"}]

LocalInformer == [cache : [Keys -> LocalObjs], events : Seq(LocalEvents)]

VnState ==
    [on : BOOLEAN, localAtts : SUBSET Keys, remoteAtts : SUBSET Keys,
     cache : [Keys -> RemoteObjs], events : Seq(RemoteEvents), notes : Seq(Notes)]

StoreOK == atts \in [Keys -> NetworkAttachment] /\ localAtts \in LocalInformer

VnOK ==
    /\ vniToVnState \in [VNIs -> VnState]
    /\ lateNotes \in [VNIs -> Seq(Notes)]
    /\ nsnToVNStateVNI \in [Keys -> VNIs \cup {NoVNI}]
    /\ nsnToVNIs \in [Keys -> SUBSET VNIs]

IfcsOK ==
    /\ localIfcs \subseteq Pairs /\ remoteIfcs \subseteq RemoteNetIfc
    /\ nsnToLocalMainState \in [Keys -> Pairs \cup {NoPair}]
    /\ nsnToPostCreateExecReport \in [Keys -> Pairs \cup {NoPair}]
    /\ nsnToRemoteIfc \in [Keys -> RemoteNetIfc \cup {NoIfc}]
    /\ commands \subseteq [key : Keys, pair : Pairs]

StartOK ==
    /\ phase \in {"syncLocal", "syncRemote", "run"}
    /\ phase = "syncLocal" => todo \subseteq Pairs
    /\ phase = "syncRemote" => todo \subseteq RemoteNetIfc

\* A pass p over a key that is stored in the vnState of v.  It looks for an
\* interface only for an attachment that names one.
PassOK(p, v) ==
    /\ p.pc = "lookup" => p.att \in RemoteObjs
    /\ p.pc \in {"join", "update", "create", "status"} \/ p.then = "join" => Usable(p.att)
    /\ p.pc = "depart" => v \in VNIs

PassesOK ==
    /\ queue \subseteq Keys
    /\ proc \in [Keys -> Pass]
    /\ \A k \in Keys : PassOK(proc[k], nsnToVNStateVNI[k])

Types == StoreOK /\ VnOK /\ IfcsOK /\ StartOK /\ PassesOK

\* No pass is under way before the workers run.
Resting == phase # "run" => \A k \in Keys : proc[k] = Idle

-----------------------------------------------------------------------------
(* Objects.                                                                 *)

LEMMA ConstantsTyped ==
    /\ NoPair \notin Pairs /\ NoVNI \notin VNIs /\ "" \notin Hosts /\ Here \in Hosts
    /\ \A p \in Pairs : p[1] \in VNIs
    /\ NoAtt \in NetworkAttachment
    /\ NoAtt \in LocalObjs /\ NoAtt \in RemoteObjs
    /\ NoIfc \notin RemoteNetIfc
<1>1. ASSUME NoPair \in Pairs PROVE FALSE
  <2>1. PICK x \in Nat, y \in Byte \X Byte \X Byte \X Byte : NoPair = <<x, y>>
    BY <1>1, PairsAssumption
  <2>2. Len(<<x, y>>) = 2 /\ Len(<<>>) = 0
    OBVIOUS
  <2> QED
    BY <2>1, <2>2 DEF NoPair
<1>2. \A p \in Pairs : p[1] \in VNIs
  BY DEF VNIs
<1>3. NoVNI \notin VNIs
  BY PairsAssumption DEF VNIs, NoVNI
<1>4. NoAtt \in NetworkAttachment
  BY DEF NoAtt, NetworkAttachment
<1>5. NoIfc \notin RemoteNetIfc
  BY <1>1 DEF NoIfc, RemoteNetIfc
<1> QED
  BY <1>1, <1>2, <1>3, <1>4, <1>5, AgentAssumption DEF LocalObjs, RemoteObjs

LEMMA AttParts ==
    ASSUME NEW a \in NetworkAttachment
    PROVE  /\ a.node \in Hosts \cup {""} /\ a.host \in Hosts \cup {""}
           /\ a.pair \in Pairs \cup {NoPair}
           /\ AddressVNI(a) \in VNIs \cup {NoVNI}
           /\ a.pair \in Pairs => AddressVNI(a) \in VNIs
<1>1. /\ a.node \in Hosts \cup {""} /\ a.host \in Hosts \cup {""}
      /\ a.pair \in Pairs \cup {NoPair}
  BY DEF NetworkAttachment
<1> QED
  BY <1>1, ConstantsTyped DEF AddressVNI

\* An attachment without an address has no IP, and conversely.
LEMMA IPOfPair ==
    ASSUME NEW a \in NetworkAttachment, IPv4(a) # <<>>
    PROVE  a.pair \in Pairs
BY AttParts DEF IPv4

LEMMA LocalSelected ==
    ASSUME NEW a \in NetworkAttachment, InLocalWatch(a)
    PROVE  a \in LocalObjs
<1> DEFINE F == SelectableFields(a)
<1>1. F.node = a.node /\ F.ipv4 = IPv4(a)
  BY DEF SelectableFields
<1>2. Holds(Equals("node", Here), F) /\ Holds(Differs("ipv4", <<>>), F)
  BY DEF InLocalWatch, MatchNetworkAttachment, localAttWithAnIPSelector
<1>3. F.node = Here
  BY <1>2 DEF Holds, Equals
<1>4. F.ipv4 # <<>>
  BY <1>2 DEF Holds, Differs
<1> QED
  BY <1>1, <1>3, <1>4, IPOfPair DEF LocalObjs

LEMMA RemoteSelected ==
    ASSUME NEW v, NEW a \in NetworkAttachment, InRemoteWatch(v, a)
    PROVE  a \in RemoteObjs
<1> DEFINE F == SelectableFields(a)
<1>1. F.node = a.node /\ F.ipv4 = IPv4(a) /\ F.hostIP = a.host
  BY DEF SelectableFields
<1>2. /\ Holds(Differs("node", Here), F) /\ Holds(Differs("ipv4", <<>>), F)
      /\ Holds(Differs("hostIP", ""), F)
  BY DEF InRemoteWatch, MatchNetworkAttachment, remoteAttInVNWithVirtualIPHostIPSelector
<1>3. F.node # Here
  BY <1>2 DEF Holds, Differs
<1>4. F.ipv4 # <<>>
  BY <1>2 DEF Holds, Differs
<1>5. F.hostIP # ""
  BY <1>2 DEF Holds, Differs
<1>6. a.host \in Hosts
  BY <1>1, <1>5, AttParts
<1> QED
  BY <1>1, <1>3, <1>4, <1>6, IPOfPair DEF RemoteObjs

\* Objects in a cache have what an interface needs.
LEMMA CachedUsable ==
    /\ \A a \in LocalObjs \cup RemoteObjs : a # NoAtt => Usable(a)
    /\ LocalObjs \subseteq NetworkAttachment /\ RemoteObjs \subseteq NetworkAttachment
BY AgentAssumption DEF LocalObjs, RemoteObjs, Usable, attHostIP

-----------------------------------------------------------------------------
(* Informers.                                                               *)

LEMMA Ends ==
    ASSUME NEW S, NEW s \in Seq(S), s # <<>>
    PROVE  Head(s) \in S /\ Tail(s) \in Seq(S)
OBVIOUS

LEMMA Appends ==
    ASSUME NEW S, NEW s \in Seq(S), NEW e \in S
    PROVE  Append(s, e) \in Seq(S)
OBVIOUS

LEMMA VnParts ==
    ASSUME NEW s \in VnState
    PROVE  /\ s.on \in BOOLEAN /\ s.localAtts \subseteq Keys /\ s.remoteAtts \subseteq Keys
           /\ s.cache \in [Keys -> RemoteObjs]
           /\ s.events \in Seq(RemoteEvents) /\ s.notes \in Seq(Notes)
BY DEF VnState

LEMMA VnMade ==
    ASSUME NEW s \in VnState
    PROVE  /\ \A e \in Seq(RemoteEvents) : [s EXCEPT !.events = e] \in VnState
           /\ \A n \in Seq(Notes) : [s EXCEPT !.notes = n] \in VnState
           /\ \A l, r \in SUBSET Keys :
                 /\ [s EXCEPT !.localAtts = l, !.remoteAtts = r] \in VnState
                 /\ [s EXCEPT !.localAtts = l] \in VnState
           /\ \A c \in [Keys -> RemoteObjs], e \in Seq(RemoteEvents), n \in Seq(Notes) :
                 [s EXCEPT !.cache = c, !.events = e, !.notes = n] \in VnState
BY DEF VnState

\* What a watch sends is what it selects.
LEMMA ChangeTyped ==
    ASSUME NEW S, NoAtt \in S, NEW events \in Seq([key : Keys, obj : S]), NEW k \in Keys,
           NEW old, NEW new, NEW seesOld, NEW seesNew \in BOOLEAN, seesNew => new \in S
    PROVE  Change(events, k, old, new, seesOld, seesNew) \in Seq([key : Keys, obj : S])
<1> DEFINE obj == IF seesNew THEN new ELSE NoAtt
<1>1. obj \in S
  OBVIOUS
<1>2. [key |-> k, obj |-> obj] \in [key : Keys, obj : S]
  BY <1>1
<1>3. Append(events, [key |-> k, obj |-> obj]) \in Seq([key : Keys, obj : S])
  BY <1>2, Appends
<1> QED
  BY <1>3 DEF Change

LEMMA WatchBoolean ==
    ASSUME NEW a
    PROVE  InLocalWatch(a) \in BOOLEAN /\ \A v : InRemoteWatch(v, a) \in BOOLEAN
BY DEF InLocalWatch, InRemoteWatch, MatchNetworkAttachment

\* A write changes the store and the streams.
LEMMA PutTyped ==
    ASSUME StoreOK, vniToVnState \in [VNIs -> VnState], NEW k \in Keys,
           NEW a \in NetworkAttachment, PutAtt(k, a)
    PROVE  StoreOK' /\ (vniToVnState \in [VNIs -> VnState])'
<1>1. atts' \in [Keys -> NetworkAttachment]
  BY DEF PutAtt, StoreOK
<1>2. localAtts' \in LocalInformer
  <2> DEFINE e == Change(localAtts.events, k, atts[k], a, InLocalWatch(atts[k]), InLocalWatch(a))
  <2>1. localAtts.events \in Seq(LocalEvents)
    BY DEF StoreOK, LocalInformer
  <2>2. e \in Seq(LocalEvents)
    BY <2>1, ChangeTyped, ConstantsTyped, LocalSelected, WatchBoolean DEF LocalEvents
  <2>3. localAtts' = [localAtts EXCEPT !.events = e]
    BY DEF PutAtt
  <2> HIDE DEF e
  <2> QED
    BY <2>2, <2>3 DEF StoreOK, LocalInformer
<1>3. vniToVnState' \in [VNIs -> VnState]
  <2>1. ASSUME NEW v \in VNIs
        PROVE  (IF ~vniToVnState[v].on THEN vniToVnState[v]
                ELSE [vniToVnState[v] EXCEPT !.events =
                        Change(@, k, atts[k], a, InRemoteWatch(v, atts[k]),
                                                 InRemoteWatch(v, a))]) \in VnState
    <3> DEFINE s == vniToVnState[v]
               e == Change(s.events, k, atts[k], a, InRemoteWatch(v, atts[k]),
                                                   InRemoteWatch(v, a))
    <3>1. s \in VnState
      OBVIOUS
    <3>2. e \in Seq(RemoteEvents)
      BY <3>1, VnParts, ChangeTyped, ConstantsTyped, RemoteSelected, WatchBoolean
         DEF RemoteEvents
    <3>3. [s EXCEPT !.events = e] \in VnState
      BY <3>1, <3>2, VnMade
    <3> QED
      BY <3>1, <3>3
  <2> QED
    BY <2>1 DEF PutAtt
<1> QED
  BY <1>1, <1>2, <1>3 DEF StoreOK

\* A new vnState.
LEMMA EmptyTyped == NoVnState \in VnState
<1>1. [k \in Keys |-> NoAtt] \in [Keys -> RemoteObjs]
  BY ConstantsTyped
<1>2. <<>> \in Seq(RemoteEvents) /\ <<>> \in Seq(Notes)
  OBVIOUS
<1> QED
  BY <1>1, <1>2 DEF NoVnState, VnState

LEMMA ListTyped ==
    ASSUME NEW seen \in SUBSET Keys
    PROVE  SetToSeq({[key |-> k, op |-> "added"] : k \in seen}) \in Seq(Notes)
<1> DEFINE S == {[key |-> k, op |-> "added"] : k \in seen}
<1>1. IsFiniteSet(S)
  <2>1. IsFiniteSet(seen)
    BY AgentAssumption, FS_Subset
  <2> DEFINE f == [k \in seen |-> [key |-> k, op |-> "added"]]
  <2>2. f \in Surjection(seen, S)
    BY DEF Surjection
  <2> QED
    BY <2>1, <2>2, FS_Surjection
<1>2. S \subseteq Notes
  BY DEF Notes
<1> HIDE DEF S
<1>3. Cardinality(S) \in Nat
  BY <1>1, FS_CardinalityType
<1>4. \E f \in [1 .. Cardinality(S) -> S] : IsInjective(f)
  <2>1. PICK f : f \in Bijection(1 .. Cardinality(S), S)
    BY <1>1, FS_NatBijection, FS_CountingElements, FS_CardinalityType, Zenon DEF ExistsBijection
  <2> QED
    BY <2>1 DEF Bijection, Injection, Surjection, IsInjective
<1>5. SetToSeq(S) \in [1 .. Cardinality(S) -> S]
  BY <1>4 DEF SetToSeq
<1>6. SetToSeq(S) \in [1 .. Cardinality(S) -> Notes]
  BY <1>2, <1>5
<1>7. SetToSeq(S) \in Seq(Notes)
  BY <1>3, <1>6
<1> QED
  BY <1>7 DEF S

LEMMA InitTyped ==
    ASSUME StoreOK, NEW v
    PROVE  initVNState(v) \in VnState
<1> DEFINE seen == {k \in Keys : InRemoteWatch(v, atts[k])}
           cache == [k \in Keys |-> IF k \in seen THEN atts[k] ELSE NoAtt]
           notes == SetToSeq({[key |-> k, op |-> "added"] : k \in seen})
<1>1. cache \in [Keys -> RemoteObjs]
  BY RemoteSelected, ConstantsTyped DEF StoreOK
<1>2. notes \in Seq(Notes)
  BY ListTyped
<1>3. initVNState(v) = [NoVnState EXCEPT !.on = TRUE, !.cache = cache, !.notes = notes]
  BY DEF initVNState
<1> HIDE DEF cache, notes
<1> QED
  BY <1>1, <1>2, <1>3, EmptyTyped DEF VnState

-----------------------------------------------------------------------------
(* Types: the informers.                                                    *)

LEMMA onLocalAttTypes ==
    ASSUME Types, onLocalAtt
    PROVE  Types'
<1> DEFINE e == Head(localAtts.events)
<1>1. localAtts.events \in Seq(LocalEvents) /\ localAtts.cache \in [Keys -> LocalObjs]
  BY DEF Types, StoreOK, LocalInformer
<1>2. e \in LocalEvents /\ Tail(localAtts.events) \in Seq(LocalEvents)
  BY <1>1, Ends DEF onLocalAtt
<1>3. e.key \in Keys /\ e.obj \in LocalObjs
  BY <1>2 DEF LocalEvents
<1>4. [localAtts.cache EXCEPT ![e.key] = e.obj] \in [Keys -> LocalObjs]
  BY <1>1, <1>3
<1>5. localAtts' = [cache |-> [localAtts.cache EXCEPT ![e.key] = e.obj],
                    events |-> Tail(localAtts.events)]
  BY DEF onLocalAtt
<1>6. queue' = queue \cup {e.key}
  BY DEF onLocalAtt
<1> HIDE DEF e
<1>7. StoreOK'
  <2>1. localAtts' \in LocalInformer
    BY <1>2, <1>4, <1>5 DEF LocalInformer
  <2>2. atts' = atts
    BY DEF onLocalAtt, storeVars
  <2> QED
    BY <2>1, <2>2 DEF Types, StoreOK
<1>8. PassesOK'
  BY <1>3, <1>6 DEF Types, PassesOK, onLocalAtt, vnVars
<1> QED
  BY <1>7, <1>8 DEF Types, onLocalAtt, VnOK, IfcsOK, StartOK, vnVars, ifcVars, fabricVars,
                    startVars

LEMMA NoteTyped ==
    ASSUME NEW k \in Keys, NEW old, NEW new
    PROVE  Note(k, old, new) \in Notes
BY DEF Note, Notes

LEMMA IndexRemoteAttTypes ==
    ASSUME Types, NEW v \in VNIs, IndexRemoteAtt(v)
    PROVE  Types'
<1> DEFINE s == vniToVnState[v]
           e == Head(s.events)
           cache == [s.cache EXCEPT ![e.key] = e.obj]
           notes == IF s.cache[e.key] = NoAtt /\ e.obj = NoAtt THEN s.notes
                    ELSE Append(s.notes, Note(e.key, s.cache[e.key], e.obj))
<1>1. s \in VnState /\ s.events # <<>>
  BY DEF Types, VnOK, IndexRemoteAtt
<1>2. e \in RemoteEvents /\ Tail(s.events) \in Seq(RemoteEvents)
  BY <1>1, VnParts, Ends
<1>3. e.key \in Keys /\ e.obj \in RemoteObjs
  BY <1>2 DEF RemoteEvents
<1>4. cache \in [Keys -> RemoteObjs]
  BY <1>1, <1>3, VnParts
<1>5. notes \in Seq(Notes)
  BY <1>1, <1>3, VnParts, Appends, NoteTyped
<1>6. [s EXCEPT !.cache = cache, !.events = Tail(s.events), !.notes = notes] \in VnState
  BY <1>1, <1>2, <1>4, <1>5, VnMade
<1>7. vniToVnState' = [vniToVnState EXCEPT ![v] =
         [s EXCEPT !.cache = cache, !.events = Tail(s.events), !.notes = notes]]
  <2>1. vniToVnState \in [VNIs -> VnState]
    BY DEF Types, VnOK
  <2> QED
    BY <1>1, <2>1 DEF IndexRemoteAtt, VnState
<1> HIDE DEF s, e, cache, notes
<1>8. (vniToVnState \in [VNIs -> VnState])'
  BY <1>6, <1>7 DEF Types, VnOK
<1> QED
  BY <1>8 DEF Types, IndexRemoteAtt, StoreOK, VnOK, IfcsOK, StartOK, PassesOK, storeVars,
              ifcVars, fabricVars, startVars

LEMMA HandleRemoteNoteTypes ==
    ASSUME Types, NEW v \in VNIs, NEW note \in Notes, HandleRemoteNote(v, note)
    PROVE  /\ StoreOK' /\ IfcsOK' /\ StartOK' /\ PassesOK'
           /\ (nsnToVNIs \in [Keys -> SUBSET VNIs])'
           /\ (nsnToVNStateVNI \in [Keys -> VNIs \cup {NoVNI}])'
<1>1. note.key \in Keys /\ note.op \in {"added", "removed", "updated"}
  BY DEF Notes
<1>2. addVNI(note.key, v) \in [Keys -> SUBSET VNIs]
  BY <1>1 DEF Types, VnOK, addVNI
<1>3. removeSeenInVNI({note.key}, v) \in [Keys -> SUBSET VNIs]
  BY <1>1 DEF Types, VnOK, removeSeenInVNI
<1>4. nsnToVNIs' \in [Keys -> SUBSET VNIs]
  BY <1>1, <1>2, <1>3 DEF HandleRemoteNote, Types, VnOK
<1>5. PassesOK'
  BY <1>1 DEF Types, PassesOK, HandleRemoteNote
<1>6. (nsnToVNStateVNI \in [Keys -> VNIs \cup {NoVNI}])'
  BY DEF Types, VnOK, HandleRemoteNote
<1>7. StoreOK' /\ IfcsOK' /\ StartOK'
  BY DEF Types, HandleRemoteNote, StoreOK, IfcsOK, StartOK, storeVars, ifcVars, fabricVars,
         startVars
<1> QED
  BY <1>4, <1>5, <1>6, <1>7

LEMMA onRemoteAttTypes ==
    ASSUME Types, NEW v \in VNIs, onRemoteAtt(v)
    PROVE  Types'
<1> DEFINE s == vniToVnState[v]
<1>1. s \in VnState /\ s.notes # <<>>
  BY DEF Types, VnOK, onRemoteAtt
<1>2. Head(s.notes) \in Notes /\ Tail(s.notes) \in Seq(Notes)
  BY <1>1, VnParts, Ends
<1>3. [s EXCEPT !.notes = Tail(s.notes)] \in VnState
  BY <1>1, <1>2, VnMade
<1>4. vniToVnState' = [vniToVnState EXCEPT ![v] = [s EXCEPT !.notes = Tail(s.notes)]]
  BY DEF onRemoteAtt
<1>5. HandleRemoteNote(v, Head(s.notes)) /\ lateNotes' = lateNotes
  BY DEF onRemoteAtt
<1> HIDE DEF s
<1>6. (vniToVnState \in [VNIs -> VnState])'
  BY <1>3, <1>4 DEF Types, VnOK
<1>7. (lateNotes \in [VNIs -> Seq(Notes)])'
  BY <1>5 DEF Types, VnOK
<1> QED
  BY <1>2, <1>5, <1>6, <1>7, HandleRemoteNoteTypes DEF Types, VnOK

LEMMA onLateRemoteAttTypes ==
    ASSUME Types, NEW v \in VNIs, onLateRemoteAtt(v)
    PROVE  Types'
<1> DEFINE s == lateNotes[v]
<1>1. s \in Seq(Notes) /\ s # <<>>
  BY DEF Types, VnOK, onLateRemoteAtt
<1>2. Head(s) \in Notes /\ Tail(s) \in Seq(Notes)
  BY <1>1, Ends
<1>3. lateNotes' = [lateNotes EXCEPT ![v] = Tail(s)]
  BY DEF onLateRemoteAtt
<1>4. HandleRemoteNote(v, Head(s)) /\ vniToVnState' = vniToVnState
  BY DEF onLateRemoteAtt
<1> HIDE DEF s
<1>5. (lateNotes \in [VNIs -> Seq(Notes)])'
  BY <1>2, <1>3 DEF Types, VnOK
<1>6. (vniToVnState \in [VNIs -> VnState])'
  BY <1>4 DEF Types, VnOK
<1> QED
  BY <1>2, <1>4, <1>5, <1>6, HandleRemoteNoteTypes DEF Types, VnOK

LEMMA EndStoppedInformersTypes ==
    ASSUME Types, NEW v \in VNIs, EndStoppedInformers(v)
    PROVE  Types'
<1>1. (lateNotes \in [VNIs -> Seq(Notes)])'
  <2>1. <<>> \in Seq(Notes)
    OBVIOUS
  <2> QED
    BY <2>1 DEF Types, VnOK, EndStoppedInformers
<1> QED
  BY <1>1 DEF Types, EndStoppedInformers, StoreOK, VnOK, IfcsOK, StartOK, PassesOK,
              storeVars, ifcVars, fabricVars, startVars

-----------------------------------------------------------------------------
(* Types: the passes.                                                       *)

LEMMA IdleOK == Idle \in Pass /\ \A v : PassOK(Idle, v)
BY ConstantsTyped DEF Idle, Pass, PassOK

LEMMA PassParts ==
    ASSUME NEW p \in Pass
    PROVE  /\ p.att \in NetworkAttachment /\ p.then \in {"idle", "join", "remove"}
           /\ p.names \subseteq Keys /\ p.vni \in VNIs \cup {NoVNI}
           /\ p.report \in Pairs \cup {NoPair}
BY DEF Pass

LEMMA GoOnOK ==
    ASSUME NEW p \in Pass, NEW pc \in {"idle", "join", "update", "create", "remove"},
           pc \in {"join", "update", "create"} => Usable(p.att)
    PROVE  GoOn(p, pc) \in Pass /\ \A v : PassOK(GoOn(p, pc), v)
<1>1. CASE pc = "idle"
  BY <1>1, IdleOK DEF GoOn
<1>2. CASE pc # "idle"
  <2> DEFINE q == [p EXCEPT !.pc = pc, !.vni = NoVNI, !.names = {}, !.then = "idle"]
  <2>1. q \in Pass
    BY DEF Pass
  <2>2. q.pc = pc /\ q.att = p.att /\ q.then = "idle"
    BY DEF Pass
  <2>3. GoOn(p, pc) = q
    BY <1>2 DEF GoOn
  <2> HIDE DEF q
  <2> QED
    BY <1>2, <2>1, <2>2, <2>3 DEF PassOK
<1> QED
  BY <1>1, <1>2

LEMMA ClearingOK ==
    ASSUME NEW p \in Pass, NEW w \in VNIs, NEW names \in SUBSET Keys,
           NEW then \in {"idle", "join", "remove"}, then = "join" => Usable(p.att)
    PROVE  Clearing(p, w, names, then) \in Pass
           /\ \A v : PassOK(Clearing(p, w, names, then), v)
<1> DEFINE q == [p EXCEPT !.pc = "clear", !.vni = w, !.names = names, !.then = then]
<1>1. q \in Pass
  BY DEF Pass
<1>2. q.pc = "clear" /\ q.att = p.att /\ q.then = then
  BY DEF Pass
<1>3. Clearing(p, w, names, then) = q
  BY DEF Clearing
<1> HIDE DEF q
<1> QED
  BY <1>1, <1>2, <1>3 DEF PassOK

LEMMA IfcDoneOK ==
    ASSUME NEW k \in Keys, NEW p \in Pass, Usable(p.att), NEW report \in Pairs \cup {NoPair}
    PROVE  IfcDone(k, p, report) \in Pass /\ \A v : PassOK(IfcDone(k, p, report), v)
<1> DEFINE q == [p EXCEPT !.pc = "status", !.report = report]
<1>1. q \in Pass
  BY DEF Pass
<1>2. q.pc = "status" /\ q.att = p.att /\ q.then = p.then
  BY DEF Pass
<1>3. \A v : PassOK(q, v)
  BY <1>2 DEF PassOK
<1>4. IfcDone(k, p, report) = q \/ IfcDone(k, p, report) = Idle
  BY DEF IfcDone
<1> QED
  BY <1>1, <1>3, <1>4, IdleOK

\* A step of the pass over k; the key may change its vnState.
LEMMA PassChanged ==
    ASSUME PassesOK, nsnToVNStateVNI \in [Keys -> VNIs \cup {NoVNI}],
           NEW k \in Keys, NEW q \in Pass, PassOK(q, nsnToVNStateVNI'[k]),
           proc' = [proc EXCEPT ![k] = q], queue' \subseteq Keys,
           \A m \in Keys \ {k} : nsnToVNStateVNI'[m] = nsnToVNStateVNI[m]
    PROVE  PassesOK'
<1>1. proc' \in [Keys -> Pass]
  BY DEF PassesOK
<1>2. ASSUME NEW m \in Keys PROVE PassOK(proc[m], nsnToVNStateVNI[m])'
  <2>1. CASE m = k
    <3>1. proc'[m] = q
      BY <2>1 DEF PassesOK
    <3> QED
      BY <2>1, <3>1 DEF PassOK
  <2>2. CASE m # k
    <3>1. proc'[m] = proc[m] /\ nsnToVNStateVNI'[m] = nsnToVNStateVNI[m]
      BY <2>2 DEF PassesOK
    <3>2. PassOK(proc[m], nsnToVNStateVNI[m])
      BY DEF PassesOK
    <3> QED
      BY <3>1, <3>2 DEF PassOK, Usable, attHostIP
  <2> QED
    BY <2>1, <2>2
<1> QED
  BY <1>1, <1>2 DEF PassesOK

\* The lookup in a remote cache.
LEMMA ListerTyped ==
    ASSUME VnOK, NEW k \in Keys
    PROVE  getRemoteAttListerForVNI(getAttSeenInVNI(k))[k] \in RemoteObjs
<1>1. getAttSeenInVNI(k) \in VNIs \cup {NoVNI}
  <2>1. CASE Cardinality(nsnToVNIs[k]) = 1
    <3>1. nsnToVNIs[k] # {} /\ nsnToVNIs[k] \subseteq VNIs
      <4>1. Cardinality({}) = 0
        BY FS_EmptySet
      <4>2. nsnToVNIs[k] \subseteq VNIs
        BY DEF VnOK
      <4> QED
        BY <2>1, <4>1, <4>2
    <3> QED
      BY <2>1, <3>1 DEF getAttSeenInVNI
  <2>2. CASE Cardinality(nsnToVNIs[k]) # 1
    BY <2>2 DEF getAttSeenInVNI
  <2> QED
    BY <2>1, <2>2
<1>2. ASSUME NEW v \in VNIs \cup {NoVNI} PROVE getRemoteAttListerForVNI(v)[k] \in RemoteObjs
  <2>1. CASE v # NoVNI /\ vniToVnState[v].on
    <3>1. vniToVnState[v] \in VnState
      BY <2>1 DEF VnOK
    <3>2. getRemoteAttListerForVNI(v) = vniToVnState[v].cache
      BY <2>1 DEF getRemoteAttListerForVNI
    <3> QED
      BY <3>1, <3>2, VnParts
  <2>2. CASE ~(v # NoVNI /\ vniToVnState[v].on)
    <3>1. getRemoteAttListerForVNI(v) = [m \in Keys |-> NoAtt]
      BY <2>2 DEF getRemoteAttListerForVNI
    <3> QED
      BY <3>1, ConstantsTyped
  <2> QED
    BY <2>1, <2>2
<1> QED
  BY <1>1, <1>2

LEMMA processNetworkAttachmentTypes ==
    ASSUME Types, NEW k \in Keys, processNetworkAttachment(k)
    PROVE  Types'
<1> DEFINE att == getRemoteAttListerForVNI(getAttSeenInVNI(k))[k]
           q == IF Cardinality(nsnToVNIs[k]) > 1 THEN Idle
                ELSE [Idle EXCEPT !.pc = "lookup", !.att = att]
<1>1. att \in RemoteObjs /\ att \in NetworkAttachment
  BY ListerTyped, CachedUsable DEF Types
<1>2. proc' = [proc EXCEPT ![k] = q] /\ queue' \subseteq Keys
  BY DEF processNetworkAttachment, Types, PassesOK
<1> HIDE DEF att
<1>3. q \in Pass /\ PassOK(q, nsnToVNStateVNI'[k])
  <2>1. [Idle EXCEPT !.pc = "lookup", !.att = att] \in Pass
    BY <1>1, IdleOK DEF Pass
  <2>2. PassOK([Idle EXCEPT !.pc = "lookup", !.att = att], nsnToVNStateVNI'[k])
    BY <1>1 DEF PassOK, Idle
  <2> QED
    BY <2>1, <2>2, IdleOK
<1> HIDE DEF q
<1>4. nsnToVNStateVNI' = nsnToVNStateVNI
  BY DEF processNetworkAttachment, vnVars
<1>5. PassesOK'
  BY <1>2, <1>3, <1>4, PassChanged DEF Types, VnOK
<1>6. StoreOK' /\ VnOK' /\ IfcsOK' /\ StartOK'
  BY DEF Types, processNetworkAttachment, StoreOK, VnOK, IfcsOK, StartOK, storeVars, vnVars,
         ifcVars, fabricVars
<1> QED
  BY <1>5, <1>6 DEF Types

LEMMA getAttachmentTypes ==
    ASSUME Types, NEW k \in Keys, getAttachment(k)
    PROVE  Types'
<1> DEFINE attAsRemote == proc[k].att
           attAsLocal == localAtts.cache[k]
           deleted == (attAsRemote = NoAtt) = (attAsLocal = NoAtt)
           att == CASE deleted -> NoAtt
                    [] ~deleted /\ attAsLocal # NoAtt -> attAsLocal
                    [] OTHER -> attAsRemote
           next == IF deleted THEN "remove" ELSE "join"
           moved == nsnToVNStateVNI[k] \notin {NoVNI, AddressVNI(att)}
           q == IF moved THEN [Idle EXCEPT !.pc = "depart", !.att = att, !.then = next]
                         ELSE [Idle EXCEPT !.pc = next, !.att = att]
<1>1. attAsRemote \in RemoteObjs /\ attAsLocal \in LocalObjs
  <2>1. PassOK(proc[k], nsnToVNStateVNI[k]) /\ proc[k].pc = "lookup"
    BY DEF Types, PassesOK, getAttachment
  <2> QED
    BY <2>1 DEF PassOK, Types, StoreOK, LocalInformer
<1>2. proc' = [proc EXCEPT ![k] = q] /\ queue' = queue
  BY DEF getAttachment, Continue
<1>3. att \in NetworkAttachment /\ (next = "join" => Usable(att)) /\ next \in {"join", "remove"}
  <2>1. CASE deleted
    BY <2>1, ConstantsTyped
  <2>2. CASE ~deleted /\ attAsLocal # NoAtt
    <3>1. att = attAsLocal
      BY <2>2
    <3> QED
      BY <1>1, <2>2, <3>1, CachedUsable
  <2>3. CASE ~deleted /\ attAsLocal = NoAtt
    <3>1. att = attAsRemote /\ attAsRemote # NoAtt
      BY <2>3
    <3> QED
      BY <1>1, <2>3, <3>1, CachedUsable
  <2> QED
    BY <2>1, <2>2, <2>3
<1>4. moved => nsnToVNStateVNI[k] \in VNIs
  BY DEF Types, VnOK
<1> HIDE DEF att, next, moved
<1>5. q \in Pass /\ PassOK(q, nsnToVNStateVNI[k])
  <2> DEFINE d == [Idle EXCEPT !.pc = "depart", !.att = att, !.then = next]
             n == [Idle EXCEPT !.pc = next, !.att = att]
  <2>1. d \in Pass /\ n \in Pass
    BY <1>3, IdleOK DEF Pass
  <2>2. d.pc = "depart" /\ d.att = att /\ d.then = next
    BY DEF Idle
  <2>3. n.pc = next /\ n.att = att /\ n.then = "idle"
    BY DEF Idle
  <2> HIDE DEF d, n
  <2>4. moved => PassOK(d, nsnToVNStateVNI[k])
    BY <1>3, <1>4, <2>2 DEF PassOK
  <2>5. PassOK(n, nsnToVNStateVNI[k])
    BY <1>3, <2>3 DEF PassOK
  <2>6. q = IF moved THEN d ELSE n
    BY DEF d, n
  <2> QED
    BY <2>1, <2>4, <2>5, <2>6
<1> HIDE DEF q
<1>6. nsnToVNStateVNI' = nsnToVNStateVNI
  BY DEF getAttachment, vnVars
<1>7. PassesOK'
  <2>1. queue' \subseteq Keys
    BY <1>2 DEF Types, PassesOK
  <2> QED
    BY <1>2, <1>5, <1>6, <2>1, PassChanged DEF Types, VnOK
<1>8. StoreOK' /\ VnOK' /\ IfcsOK' /\ StartOK'
  BY DEF Types, getAttachment, StoreOK, VnOK, IfcsOK, StartOK, storeVars, vnVars,
         ifcVars, fabricVars, startVars
<1> QED
  BY <1>7, <1>8 DEF Types

\* The pass over k is left by the vnState of v, which is dropped.
LEMMA DropTyped ==
    ASSUME VnOK, NEW v \in VNIs, DropVnState(v)
    PROVE  (vniToVnState \in [VNIs -> VnState] /\ lateNotes \in [VNIs -> Seq(Notes)])'
<1>1. vniToVnState[v].notes \in Seq(Notes)
  BY VnParts DEF VnOK
<1>2. vniToVnState' \in [VNIs -> VnState]
  BY EmptyTyped DEF VnOK, DropVnState
<1>3. lateNotes' \in [VNIs -> Seq(Notes)]
  BY <1>1 DEF VnOK, DropVnState
<1> QED
  BY <1>2, <1>3

\* One vnState is replaced.
LEMMA VnReplaced ==
    ASSUME VnOK, NEW v \in VNIs, NEW s \in VnState, vniToVnState' = [vniToVnState EXCEPT ![v] = s]
    PROVE  (vniToVnState \in [VNIs -> VnState])'
BY DEF VnOK

LEMMA removeAttFromVNStateTypes ==
    ASSUME Types, NEW k \in Keys, removeAttFromVNState(k)
    PROVE  Types'
<1> DEFINE v == nsnToVNStateVNI[k]
           state == vniToVnState[v]
<1>1. /\ proc[k] \in Pass /\ proc[k].pc = "depart" /\ PassOK(proc[k], v)
      /\ v \in VNIs /\ state \in VnState
      /\ (proc[k].then = "join" => Usable(proc[k].att))
  BY DEF Types, PassesOK, VnOK, PassOK, removeAttFromVNState
<1>2. /\ nsnToVNStateVNI' = [nsnToVNStateVNI EXCEPT ![k] = NoVNI]
      /\ nsnToVNIs' = nsnToVNIs
  BY DEF removeAttFromVNState, unsetVNStateVNI
<1>3. (nsnToVNStateVNI \in [Keys -> VNIs \cup {NoVNI}])' /\ (nsnToVNIs \in [Keys -> SUBSET VNIs])'
  BY <1>2 DEF Types, VnOK
<1>4. StoreOK' /\ IfcsOK' /\ StartOK'
  BY DEF Types, removeAttFromVNState, StoreOK, IfcsOK, StartOK, storeVars,
         ifcVars, fabricVars, startVars
<1>5. CASE state.on /\ state.localAtts \subseteq {k}
  <2>1. DropVnState(v) /\ Continue(k, Clearing(proc[k], v, state.remoteAtts, proc[k].then))
    BY <1>5 DEF removeAttFromVNState
  <2>2. VnOK'
    BY <1>1, <1>3, <2>1, DropTyped DEF Types, VnOK
  <2> DEFINE q == Clearing(proc[k], v, state.remoteAtts, proc[k].then)
  <2>3. q \in Pass /\ PassOK(q, nsnToVNStateVNI'[k])
    BY <1>1, ClearingOK, PassParts, VnParts
  <2>4. proc' = [proc EXCEPT ![k] = q] /\ queue' = queue
    BY <2>1 DEF Continue
  <2> HIDE DEF q, v, state
  <2>5. \A m \in Keys \ {k} : nsnToVNStateVNI'[m] = nsnToVNStateVNI[m]
    BY <1>2 DEF Types, VnOK
  <2>6. queue' \subseteq Keys
    BY <2>4 DEF Types, PassesOK
  <2>7. PassesOK'
    BY <2>3, <2>4, <2>5, <2>6, PassChanged DEF Types, VnOK
  <2> QED
    BY <1>4, <2>2, <2>7 DEF Types
<1>6. CASE ~(state.on /\ state.localAtts \subseteq {k})
  <2> DEFINE s == [state EXCEPT !.localAtts = @ \ {k}, !.remoteAtts = @ \ {k}]
             q == GoOn(proc[k], proc[k].then)
  <2>1. /\ vniToVnState' = [vniToVnState EXCEPT ![v].localAtts = @ \ {k},
                                                ![v].remoteAtts = @ \ {k}]
        /\ Continue(k, q) /\ lateNotes' = lateNotes
    BY <1>6 DEF removeAttFromVNState
  <2>2. s \in VnState
    BY <1>1, VnParts, VnMade
  <2>3. vniToVnState' = [vniToVnState EXCEPT ![v] = s]
    BY <1>1, <2>1 DEF Types, VnOK, VnState
  <2>4. q \in Pass /\ PassOK(q, nsnToVNStateVNI'[k])
    BY <1>1, GoOnOK, PassParts
  <2>5. proc' = [proc EXCEPT ![k] = q] /\ queue' = queue
    BY <2>1 DEF Continue
  <2> HIDE DEF s, q, v, state
  <2>6. (vniToVnState \in [VNIs -> VnState])'
    BY <1>1, <2>2, <2>3, VnReplaced DEF Types
  <2>7. VnOK'
    BY <1>3, <2>1, <2>6 DEF Types, VnOK
  <2>8. \A m \in Keys \ {k} : nsnToVNStateVNI'[m] = nsnToVNStateVNI[m]
    BY <1>2 DEF Types, VnOK
  <2>9. queue' \subseteq Keys
    BY <2>5 DEF Types, PassesOK
  <2>10. PassesOK'
    BY <2>4, <2>5, <2>8, <2>9, PassChanged DEF Types, VnOK
  <2> QED
    BY <1>4, <2>7, <2>10 DEF Types
<1> QED
  BY <1>5, <1>6

LEMMA clearVNResourcesTypes ==
    ASSUME Types, NEW k \in Keys, clearVNResources(k)
    PROVE  Types'
<1> DEFINE q == GoOn(proc[k], proc[k].then)
<1>1. proc[k] \in Pass /\ proc[k].pc = "clear" /\ PassOK(proc[k], nsnToVNStateVNI[k])
  BY DEF Types, PassesOK, clearVNResources
<1>2. q \in Pass /\ PassOK(q, nsnToVNStateVNI'[k])
  <2>1. proc[k].then = "join" => Usable(proc[k].att)
    BY <1>1 DEF PassOK
  <2> QED
    BY <1>1, <2>1, GoOnOK, PassParts
<1>3. proc' = [proc EXCEPT ![k] = q] /\ queue' = queue \cup proc[k].names
      /\ nsnToVNIs' = removeSeenInVNI(proc[k].names, proc[k].vni)
      /\ nsnToVNStateVNI' = nsnToVNStateVNI
  BY DEF clearVNResources
<1>4. queue' \subseteq Keys
  BY <1>1, <1>3, PassParts DEF Types, PassesOK
<1> HIDE DEF q
<1>5. PassesOK'
  BY <1>2, <1>3, <1>4, PassChanged DEF Types, VnOK
<1>6. removeSeenInVNI(proc[k].names, proc[k].vni) \in [Keys -> SUBSET VNIs]
  BY DEF removeSeenInVNI, Types, VnOK
<1>7. VnOK'
  BY <1>3, <1>6 DEF Types, VnOK, clearVNResources
<1>8. StoreOK' /\ IfcsOK' /\ StartOK'
  BY DEF Types, clearVNResources, StoreOK, IfcsOK, StartOK, storeVars,
         ifcVars, fabricVars, startVars
<1> QED
  BY <1>5, <1>7, <1>8 DEF Types

LEMMA updateVNStateForExistingAttTypes ==
    ASSUME Types, NEW k \in Keys, updateVNStateForExistingAtt(k)
    PROVE  Types'
<1> DEFINE v == AddressVNI(proc[k].att)
<1>1. /\ proc[k] \in Pass /\ proc[k].pc = "join" /\ Usable(proc[k].att)
      /\ proc[k].att \in NetworkAttachment
  BY PassParts DEF Types, PassesOK, PassOK, updateVNStateForExistingAtt
<1>2. v \in VNIs
  BY <1>1, AttParts DEF Usable
<1>3. vniToVnState[v] \in VnState
  BY <1>2 DEF Types, VnOK
<1>4. StoreOK' /\ IfcsOK' /\ StartOK'
  BY DEF Types, updateVNStateForExistingAtt, StoreOK, IfcsOK, StartOK, storeVars,
         ifcVars, fabricVars, startVars
<1>5. ASSUME NEW w \in VNIs \cup {NoVNI}, nsnToVNStateVNI' = [nsnToVNStateVNI EXCEPT ![k] = w],
             NEW q \in Pass, \A u : PassOK(q, u), Continue(k, q)
      PROVE  PassesOK' /\ (nsnToVNStateVNI \in [Keys -> VNIs \cup {NoVNI}])'
  <2>1. proc' = [proc EXCEPT ![k] = q] /\ queue' = queue
    BY <1>5 DEF Continue
  <2>2. queue' \subseteq Keys
    BY <2>1 DEF Types, PassesOK
  <2>3. \A m \in Keys \ {k} : nsnToVNStateVNI'[m] = nsnToVNStateVNI[m]
    BY <1>5 DEF Types, VnOK
  <2>4. PassesOK'
    BY <1>5, <2>1, <2>2, <2>3, PassChanged DEF Types, VnOK
  <2> QED
    BY <1>5, <2>4 DEF Types, VnOK
<1>6. \A pc \in {"update", "remove"} : /\ GoOn(proc[k], pc) \in Pass
                                       /\ \A u : PassOK(GoOn(proc[k], pc), u)
  BY <1>1, GoOnOK
<1> HIDE DEF v
<1>7. CASE joinLocal(k, v)
  <2> DEFINE state == IF vniToVnState[v].on THEN vniToVnState[v] ELSE initVNState(v)
             s == [state EXCEPT !.localAtts = @ \cup {k}, !.remoteAtts = @ \ {k}]
  <2>1. state \in VnState
    BY <1>3, InitTyped DEF Types
  <2>2. /\ vniToVnState' = [vniToVnState EXCEPT ![v] = s]
        /\ nsnToVNStateVNI' = [nsnToVNStateVNI EXCEPT ![k] = v]
        /\ Continue(k, GoOn(proc[k], "update"))
        /\ lateNotes' = lateNotes /\ nsnToVNIs' = nsnToVNIs
    BY <1>7 DEF joinLocal, setVNStateVNI
  <2> HIDE DEF state
  <2>3. s \in VnState
    BY <2>1, VnParts, VnMade
  <2> HIDE DEF s
  <2>4. (vniToVnState \in [VNIs -> VnState])'
    BY <1>2, <2>2, <2>3, VnReplaced DEF Types
  <2>5. PassesOK' /\ (nsnToVNStateVNI \in [Keys -> VNIs \cup {NoVNI}])'
    BY <1>2, <1>5, <1>6, <2>2
  <2> QED
    BY <1>4, <2>2, <2>4, <2>5 DEF Types, VnOK
<1>8. CASE joinRemote(k, v)
  <2> DEFINE state == vniToVnState[v]
             s == [state EXCEPT !.localAtts = @ \ {k}, !.remoteAtts = @ \cup {k}]
  <2>1. /\ vniToVnState' = [vniToVnState EXCEPT ![v].localAtts = @ \ {k},
                                                ![v].remoteAtts = @ \cup {k}]
        /\ nsnToVNStateVNI' = [nsnToVNStateVNI EXCEPT ![k] = v]
        /\ Continue(k, GoOn(proc[k], "update"))
        /\ lateNotes' = lateNotes /\ nsnToVNIs' = nsnToVNIs
    BY <1>8 DEF joinRemote, setVNStateVNI
  <2>2. s \in VnState
    BY <1>3, VnParts, VnMade
  <2>3. vniToVnState' = [vniToVnState EXCEPT ![v] = s]
    BY <1>2, <1>3, <2>1 DEF Types, VnOK, VnState
  <2> HIDE DEF s, state
  <2>4. (vniToVnState \in [VNIs -> VnState])'
    BY <1>2, <2>2, <2>3, VnReplaced DEF Types
  <2>5. PassesOK' /\ (nsnToVNStateVNI \in [Keys -> VNIs \cup {NoVNI}])'
    BY <1>2, <1>5, <1>6, <2>1
  <2> QED
    BY <1>4, <2>1, <2>4, <2>5 DEF Types, VnOK
<1>9. CASE leaveLast(k, v)
  <2> DEFINE names == vniToVnState[v].remoteAtts \cup {k}
             q == Clearing(proc[k], v, names, "idle")
  <2>1. /\ DropVnState(v) /\ nsnToVNStateVNI' = [nsnToVNStateVNI EXCEPT ![k] = NoVNI]
        /\ Continue(k, q) /\ nsnToVNIs' = nsnToVNIs
    BY <1>9 DEF leaveLast, unsetVNStateVNI
  <2>2. names \in SUBSET Keys
    BY <1>3, VnParts
  <2> HIDE DEF names
  <2>3. q \in Pass /\ \A u : PassOK(q, u)
    BY <1>1, <1>2, <2>2, ClearingOK
  <2> HIDE DEF q
  <2>4. PassesOK' /\ (nsnToVNStateVNI \in [Keys -> VNIs \cup {NoVNI}])'
    BY <1>5, <2>1, <2>3
  <2>5. (vniToVnState \in [VNIs -> VnState] /\ lateNotes \in [VNIs -> Seq(Notes)])'
    BY <1>2, <2>1, DropTyped DEF Types
  <2> QED
    BY <1>4, <2>1, <2>4, <2>5 DEF Types, VnOK
<1>10. CASE joinNothing(k, v)
  <2>1. /\ nsnToVNStateVNI' = [nsnToVNStateVNI EXCEPT ![k] = NoVNI]
        /\ Continue(k, GoOn(proc[k], "remove"))
        /\ nsnToVNIs' = removeSeenInVNI({k}, v)
        /\ vniToVnState' = vniToVnState /\ lateNotes' = lateNotes
    BY <1>10 DEF joinNothing, unsetVNStateVNI
  <2>2. PassesOK' /\ (nsnToVNStateVNI \in [Keys -> VNIs \cup {NoVNI}])'
    BY <1>5, <1>6, <2>1
  <2>3. removeSeenInVNI({k}, v) \in [Keys -> SUBSET VNIs]
    BY DEF removeSeenInVNI, Types, VnOK
  <2> QED
    BY <1>4, <2>1, <2>2, <2>3 DEF Types, VnOK
<1> QED
  BY <1>7, <1>8, <1>9, <1>10 DEF updateVNStateForExistingAtt, v

-----------------------------------------------------------------------------
(* Types: interfaces, commands and status.                                  *)

\* A step of the pass over k that leaves the vnStates alone.
LEMMA PassStep ==
    ASSUME Types, NEW k \in Keys, NEW q \in Pass, \A u : PassOK(q, u),
           proc' = [proc EXCEPT ![k] = q], queue' \subseteq Keys,
           nsnToVNStateVNI' = nsnToVNStateVNI
    PROVE  PassesOK'
BY PassChanged DEF Types, VnOK

LEMMA Continued ==
    ASSUME Types, NEW k \in Keys, NEW q \in Pass, \A u : PassOK(q, u), Continue(k, q),
           nsnToVNStateVNI' = nsnToVNStateVNI
    PROVE  PassesOK'
<1>1. proc' = [proc EXCEPT ![k] = q] /\ queue' \subseteq Keys
  BY DEF Continue, Types, PassesOK
<1> QED
  BY <1>1, PassStep

LEMMA Retried ==
    ASSUME Types, NEW k \in Keys, Retry(k), nsnToVNStateVNI' = nsnToVNStateVNI
    PROVE  PassesOK'
<1>1. proc' = [proc EXCEPT ![k] = Idle] /\ queue' \subseteq Keys
  BY DEF Retry, Types, PassesOK
<1> QED
  BY <1>1, PassStep, IdleOK

LEMMA deleteOldLocalIfcTypes ==
    ASSUME IfcsOK, NEW k \in Keys, deleteOldLocalIfc(k)
    PROVE  IfcsOK'
BY DEF IfcsOK, deleteOldLocalIfc, DeleteLocalIfc, unsetLocalAttState

LEMMA deleteOldRemoteIfcTypes ==
    ASSUME IfcsOK, NEW k \in Keys, deleteOldRemoteIfc(k)
    PROVE  IfcsOK'
BY DEF IfcsOK, deleteOldRemoteIfc, DeleteRemoteIfc, unsetRemoteIfc, assignRemoteIfc

LEMMA IfcsSame ==
    ASSUME IfcsOK, UNCHANGED ifcVars
    PROVE  IfcsOK'
BY DEF IfcsOK, ifcVars, fabricVars

LEMMA updateIfcTypes ==
    ASSUME Types, NEW k \in Keys, updateIfc(k)
    PROVE  Types'
<1>1. proc[k] \in Pass /\ proc[k].pc = "update" /\ Usable(proc[k].att)
  BY DEF Types, PassesOK, PassOK, updateIfc
<1>2. StoreOK' /\ VnOK' /\ StartOK' /\ nsnToVNStateVNI' = nsnToVNStateVNI
  BY DEF Types, updateIfc, StoreOK, VnOK, StartOK, storeVars, vnVars, startVars
<1>3. GoOn(proc[k], "create") \in Pass /\ \A u : PassOK(GoOn(proc[k], "create"), u)
  BY <1>1, GoOnOK
<1>4. nsnToPostCreateExecReport[k] \in Pairs \cup {NoPair}
  BY DEF Types, IfcsOK
<1>5. /\ IfcDone(k, proc[k], nsnToPostCreateExecReport[k]) \in Pass
      /\ \A u : PassOK(IfcDone(k, proc[k], nsnToPostCreateExecReport[k]), u)
  BY <1>1, <1>4, IfcDoneOK
<1>6. \/ Continue(k, GoOn(proc[k], "create"))
      \/ Continue(k, IfcDone(k, proc[k], nsnToPostCreateExecReport[k]))
  BY DEF updateIfc
<1>7. PassesOK'
  BY <1>2, <1>3, <1>5, <1>6, Continued
<1>8. deleteOldLocalIfc(k) \/ deleteOldRemoteIfc(k) \/ UNCHANGED ifcVars
  BY DEF updateIfc
<1>9. IfcsOK'
  BY <1>8, deleteOldLocalIfcTypes, deleteOldRemoteIfcTypes, IfcsSame DEF Types
<1> QED
  BY <1>2, <1>7, <1>9 DEF Types

LEMMA createIfcTypes ==
    ASSUME Types, NEW k \in Keys, createIfc(k)
    PROVE  Types'
<1> DEFINE att == proc[k].att
           ifc == [pair |-> att.pair, host |-> attHostIP(att)]
<1>1. proc[k] \in Pass /\ proc[k].pc = "create" /\ Usable(att)
  BY DEF Types, PassesOK, PassOK, createIfc
<1>2. StoreOK' /\ VnOK' /\ StartOK' /\ nsnToVNStateVNI' = nsnToVNStateVNI
  BY DEF Types, createIfc, StoreOK, VnOK, StartOK, storeVars, vnVars, startVars
<1>3. att.pair \in Pairs /\ ifc \in RemoteNetIfc
  BY <1>1 DEF Usable, RemoteNetIfc
<1>4. /\ IfcDone(k, proc[k], NoPair) \in Pass
      /\ \A u : PassOK(IfcDone(k, proc[k], NoPair), u)
  BY <1>1, IfcDoneOK
<1>5. PassesOK'
  <2>1. Continue(k, IfcDone(k, proc[k], NoPair)) \/ Retry(k)
    BY DEF createIfc
  <2> QED
    BY <1>2, <1>4, <2>1, Continued, Retried
<1>6. \/ /\ CreateLocalIfc(att.pair) /\ setLocalAttMainState(k, att.pair)
         /\ LaunchCommand(k, att.pair)
         /\ UNCHANGED <<nsnToRemoteIfc, nsnToPostCreateExecReport>>
      \/ /\ CreateRemoteIfc(ifc) /\ assignRemoteIfc(k, ifc)
         /\ UNCHANGED <<nsnToLocalMainState, nsnToPostCreateExecReport, commands>>
      \/ UNCHANGED ifcVars
  BY DEF createIfc
<1> HIDE DEF att, ifc
<1>7. IfcsOK'
  <2>1. CASE /\ CreateLocalIfc(att.pair) /\ setLocalAttMainState(k, att.pair)
             /\ LaunchCommand(k, att.pair)
             /\ UNCHANGED <<nsnToRemoteIfc, nsnToPostCreateExecReport>>
    <3>1. commands' \subseteq [key : Keys, pair : Pairs]
      BY <1>3, <2>1 DEF LaunchCommand, Types, IfcsOK
    <3> QED
      BY <1>3, <2>1, <3>1 DEF Types, IfcsOK, CreateLocalIfc, setLocalAttMainState
  <2>2. CASE /\ CreateRemoteIfc(ifc) /\ assignRemoteIfc(k, ifc)
             /\ UNCHANGED <<nsnToLocalMainState, nsnToPostCreateExecReport, commands>>
    BY <1>3, <2>2 DEF Types, IfcsOK, CreateRemoteIfc, assignRemoteIfc
  <2>3. CASE UNCHANGED ifcVars
    BY <2>3, IfcsSame DEF Types
  <2> QED
    BY <1>6, <2>1, <2>2, <2>3
<1> QED
  BY <1>2, <1>5, <1>7 DEF Types

LEMMA setAttStatusTypes ==
    ASSUME Types, NEW k \in Keys, setAttStatus(k)
    PROVE  Types'
<1> DEFINE p == proc[k]
           new == WithStatus(k, p.att, p.report)
<1>1. p \in Pass /\ p.pc = "status" /\ Usable(p.att)
  BY DEF Types, PassesOK, PassOK, setAttStatus
<1>2. /\ IfcsOK' /\ StartOK' /\ nsnToVNStateVNI' = nsnToVNStateVNI
      /\ nsnToVNIs' = nsnToVNIs /\ lateNotes' = lateNotes
  BY IfcsSame DEF Types, setAttStatus, StartOK, startVars
<1>3. new \in NetworkAttachment
  <2>1. p.att \in NetworkAttachment /\ p.report \in Pairs \cup {NoPair} /\ p.att.pair \in Pairs
    BY <1>1, PassParts DEF Usable
  <2>2. generateMACAddr(p.att.pair) \in {generateMACAddr(x) : x \in Pairs} \cup {<<>>}
    BY <2>1
  <2> DEFINE mac == generateMACAddr(p.att.pair)
             errs == PostCreateExec[k] = "forbidden"
  <2>3. errs \in BOOLEAN /\ Here \in Hosts
    BY ConstantsTyped
  <2>4. new = [p.att EXCEPT !.host = Here, !.mac = mac, !.report = p.report, !.errs = errs]
    BY DEF WithStatus
  <2> HIDE DEF mac, errs, new, p
  <2> QED
    BY <2>1, <2>2, <2>3, <2>4 DEF NetworkAttachment, mac
<1>4. \/ PutAtt(k, new) /\ Continue(k, Idle)
      \/ Retry(k) /\ UNCHANGED <<atts, localAtts, vniToVnState>>
  BY DEF setAttStatus
<1> HIDE DEF new, p
<1>5. PassesOK'
  BY <1>2, <1>4, IdleOK, Continued, Retried
<1>6. StoreOK' /\ (vniToVnState \in [VNIs -> VnState])'
  BY <1>3, <1>4, PutTyped DEF Types, StoreOK, VnOK
<1> QED
  BY <1>2, <1>5, <1>6 DEF Types, VnOK

LEMMA processDeletedAttTypes ==
    ASSUME Types, NEW k \in Keys, processDeletedAtt(k)
    PROVE  Types'
<1>1. deleteOldLocalIfc(k) \/ deleteOldRemoteIfc(k) \/ UNCHANGED ifcVars
  BY DEF processDeletedAtt
<1>2. IfcsOK'
  BY <1>1, deleteOldLocalIfcTypes, deleteOldRemoteIfcTypes, IfcsSame DEF Types
<1>3. StoreOK' /\ VnOK' /\ StartOK' /\ nsnToVNStateVNI' = nsnToVNStateVNI
  BY DEF Types, processDeletedAtt, StoreOK, VnOK, StartOK, storeVars, vnVars, startVars
<1>4. PassesOK'
  BY <1>3, IdleOK, Continued DEF processDeletedAtt
<1> QED
  BY <1>2, <1>3, <1>4 DEF Types

LEMMA RunCommandTypes ==
    ASSUME Types, NEW c \in commands, RunCommand(c)
    PROVE  Types'
<1>1. c.key \in Keys /\ c.pair \in Pairs
  BY DEF Types, IfcsOK
<1>2. IfcsOK'
  <2>1. nsnToPostCreateExecReport' \in [Keys -> Pairs \cup {NoPair}]
    BY <1>1 DEF RunCommand, setExecReport, Types, IfcsOK
  <2> QED
    BY <2>1 DEF RunCommand, Types, IfcsOK, fabricVars
<1>3. PassesOK'
  BY <1>1 DEF RunCommand, Types, PassesOK, vnVars
<1>4. StoreOK' /\ VnOK' /\ StartOK'
  BY DEF Types, RunCommand, StoreOK, VnOK, StartOK, storeVars, vnVars, startVars
<1> QED
  BY <1>2, <1>3, <1>4 DEF Types

-----------------------------------------------------------------------------
(* Types: start-up and the environment.                                     *)

LEMMA syncPreExistingLocalIfcTypes ==
    ASSUME Types, syncPreExistingLocalIfc
    PROVE  Types'
<1>1. todo \subseteq Pairs /\ phase = "syncLocal"
  BY DEF Types, StartOK, syncPreExistingLocalIfc
<1>2. PICK ifc \in todo :
         /\ \/ \E k \in Keys : matchLocalIfc(k, ifc)
            \/ /\ DeleteLocalIfc(ifc)
               /\ UNCHANGED <<nsnToLocalMainState, nsnToPostCreateExecReport>>
         /\ todo' = todo \ {ifc}
  BY DEF syncPreExistingLocalIfc, ifcOwnerAtts
<1>3. ifc \in Pairs
  BY <1>1
<1>4. nsnToRemoteIfc' = nsnToRemoteIfc /\ commands' = commands
  BY DEF syncPreExistingLocalIfc
<1>5. IfcsOK'
  <2>1. CASE DeleteLocalIfc(ifc)
             /\ UNCHANGED <<nsnToLocalMainState, nsnToPostCreateExecReport>>
    BY <1>4, <2>1 DEF Types, IfcsOK, DeleteLocalIfc
  <2>2. ASSUME NEW k \in Keys, matchLocalIfc(k, ifc) PROVE IfcsOK'
    <3>1. localIfcs' \subseteq localIfcs /\ remoteIfcs' = remoteIfcs
      BY <2>2 DEF matchLocalIfc, DeleteLocalIfc, fabricVars
    <3>2. nsnToLocalMainState' \in [Keys -> Pairs \cup {NoPair}]
      BY <1>3, <2>2 DEF matchLocalIfc, setLocalAttMainState, Types, IfcsOK
    <3>3. localAtts.cache[k] \in NetworkAttachment
      BY CachedUsable DEF Types, StoreOK, LocalInformer
    <3>4. localAtts.cache[k].report \in Pairs \cup {NoPair}
      BY <3>3 DEF NetworkAttachment
    <3>5. nsnToPostCreateExecReport' \in [Keys -> Pairs \cup {NoPair}]
      BY <2>2, <3>4 DEF matchLocalIfc, Types, IfcsOK
    <3> QED
      BY <1>4, <3>1, <3>2, <3>5 DEF Types, IfcsOK
  <2> QED
    BY <1>2, <2>1, <2>2
<1>6. StartOK'
  BY <1>1, <1>2 DEF StartOK, syncPreExistingLocalIfc
<1> QED
  BY <1>5, <1>6 DEF Types, syncPreExistingLocalIfc, StoreOK, VnOK, PassesOK, storeVars, vnVars

LEMMA startRemoteInformersTypes ==
    ASSUME Types, Resting, startRemoteInformers
    PROVE  Types'
<1> DEFINE locals(v) == {k \in Keys : AddressVNI(localAtts.cache[k]) = v}
<1>1. ASSUME NEW v \in VNIs
      PROVE  (IF locals(v) = {} THEN NoVnState
              ELSE [initVNState(v) EXCEPT !.localAtts = locals(v)]) \in VnState
  <2>1. locals(v) \in SUBSET Keys
    OBVIOUS
  <2> HIDE DEF locals
  <2>2. initVNState(v) \in VnState
    BY InitTyped DEF Types
  <2>3. [initVNState(v) EXCEPT !.localAtts = locals(v)] \in VnState
    BY <2>1, <2>2, VnMade
  <2> QED
    BY <2>3, EmptyTyped
<1>2. vniToVnState' \in [VNIs -> VnState]
  BY <1>1 DEF startRemoteInformers
<1>3. ASSUME NEW k \in Keys PROVE AddressVNI(localAtts.cache[k]) \in VNIs \cup {NoVNI}
  <2>1. localAtts.cache[k] \in NetworkAttachment
    BY CachedUsable DEF Types, StoreOK, LocalInformer
  <2> QED
    BY <2>1, AttParts
<1>4. nsnToVNStateVNI' \in [Keys -> VNIs \cup {NoVNI}]
  BY <1>3 DEF startRemoteInformers
<1>5. VnOK'
  BY <1>2, <1>4 DEF Types, VnOK, startRemoteInformers
<1>6. StoreOK' /\ IfcsOK'
  BY IfcsSame DEF Types, StoreOK, startRemoteInformers, storeVars
<1>7. StartOK'
  BY DEF Types, StartOK, IfcsOK, startRemoteInformers
<1>8. PassesOK'
  <2>1. \A k \in Keys : proc'[k] = Idle
    BY DEF Resting, startRemoteInformers
  <2> QED
    BY <2>1, IdleOK DEF Types, PassesOK, startRemoteInformers
<1> QED
  BY <1>5, <1>6, <1>7, <1>8 DEF Types

LEMMA syncPreExistingRemoteIfcTypes ==
    ASSUME Types, syncPreExistingRemoteIfc
    PROVE  Types'
<1>1. todo \subseteq RemoteNetIfc /\ phase = "syncRemote"
  BY DEF Types, StartOK, syncPreExistingRemoteIfc
<1>2. PICK ifc \in todo :
         /\ \/ \E k \in Keys : matchRemoteIfc(k, ifc)
            \/ DeleteRemoteIfc(ifc) /\ UNCHANGED <<nsnToRemoteIfc, adopted, twofold>>
         /\ todo' = todo \ {ifc}
  BY DEF syncPreExistingRemoteIfc, ifcOwnerAtts
<1>3. ifc \in RemoteNetIfc
  BY <1>1
<1>4. /\ nsnToLocalMainState' = nsnToLocalMainState /\ commands' = commands
      /\ nsnToPostCreateExecReport' = nsnToPostCreateExecReport
  BY DEF syncPreExistingRemoteIfc
<1>5. IfcsOK'
  <2>1. CASE DeleteRemoteIfc(ifc) /\ UNCHANGED <<nsnToRemoteIfc, adopted, twofold>>
    BY <1>4, <2>1 DEF Types, IfcsOK, DeleteRemoteIfc
  <2>2. ASSUME NEW k \in Keys, matchRemoteIfc(k, ifc) PROVE IfcsOK'
    <3>1. localIfcs' \subseteq localIfcs /\ remoteIfcs' \subseteq remoteIfcs
      BY <2>2 DEF matchRemoteIfc, DeleteLocalIfc, DeleteRemoteIfc, fabricVars
    <3>2. nsnToRemoteIfc' \in [Keys -> RemoteNetIfc \cup {NoIfc}]
      BY <1>3, <2>2 DEF matchRemoteIfc, assignRemoteIfc, Types, IfcsOK
    <3> QED
      BY <1>4, <3>1, <3>2 DEF Types, IfcsOK
  <2> QED
    BY <1>2, <2>1, <2>2
<1>6. StartOK'
  BY <1>1, <1>2 DEF StartOK, syncPreExistingRemoteIfc
<1> QED
  BY <1>5, <1>6 DEF Types, syncPreExistingRemoteIfc, StoreOK, VnOK, PassesOK, storeVars, vnVars

LEMMA startWorkersTypes ==
    ASSUME Types, startWorkers
    PROVE  Types'
BY DEF Types, startWorkers, StoreOK, VnOK, IfcsOK, StartOK, PassesOK, storeVars, vnVars,
       ifcVars, fabricVars

LEMMA WriteAttTypes ==
    ASSUME Types, NEW k \in Keys, NEW n \in Hosts, NEW p \in Pairs, NEW h \in Hosts \cup {""},
           WriteAtt(k, n, p, h)
    PROVE  Types'
<1> DEFINE new == [atts[k] EXCEPT !.node = n, !.pair = p, !.host = h]
<1>1. new \in NetworkAttachment
  <2>1. atts[k] \in NetworkAttachment
    BY DEF Types, StoreOK
  <2> QED
    BY <2>1 DEF NetworkAttachment
<1>2. PutAtt(k, new)
  BY DEF WriteAtt
<1> HIDE DEF new
<1>3. StoreOK' /\ (vniToVnState \in [VNIs -> VnState])'
  BY <1>1, <1>2, PutTyped DEF Types, VnOK
<1> QED
  BY <1>3 DEF Types, WriteAtt, VnOK, IfcsOK, StartOK, PassesOK, ifcVars, fabricVars, startVars

LEMMA DeleteAttTypes ==
    ASSUME Types, NEW k \in Keys, DeleteAtt(k)
    PROVE  Types'
<1>1. StoreOK' /\ (vniToVnState \in [VNIs -> VnState])'
  BY ConstantsTyped, PutTyped DEF Types, VnOK, DeleteAtt
<1> QED
  BY <1>1 DEF Types, DeleteAtt, VnOK, IfcsOK, StartOK, PassesOK, ifcVars, fabricVars, startVars

\* The state of an agent that starts.
LEMMA StartTyped ==
    ASSUME NEW store \in [Keys -> NetworkAttachment], NEW pairs
    PROVE  /\ StartAgent(store, pairs).localAtts \in LocalInformer
           /\ StartAgent(store, pairs).queue \subseteq Keys
           /\ StartAgent(store, pairs).phase = "syncLocal"
           /\ StartAgent(store, pairs).todo = pairs
<1> DEFINE list == [k \in Keys |-> IF InLocalWatch(store[k]) THEN store[k] ELSE NoAtt]
           inf == [cache |-> list, events |-> <<>>]
<1>1. list \in [Keys -> LocalObjs]
  BY LocalSelected, ConstantsTyped
<1>2. StartAgent(store, pairs) =
         [localAtts |-> inf, queue |-> {k \in Keys : list[k] # NoAtt},
          phase |-> "syncLocal", todo |-> pairs]
  BY DEF StartAgent
<1> HIDE DEF list
<1>3. inf \in LocalInformer
  BY <1>1 DEF LocalInformer
<1> HIDE DEF inf
<1> QED
  BY <1>2, <1>3

LEMMA TablesTyped ==
    /\ [v \in VNIs |-> NoVnState] \in [VNIs -> VnState]
    /\ [v \in VNIs |-> <<>>] \in [VNIs -> Seq(Notes)]
    /\ [k \in Keys |-> NoVNI] \in [Keys -> VNIs \cup {NoVNI}]
    /\ [k \in Keys |-> {}] \in [Keys -> SUBSET VNIs]
    /\ [k \in Keys |-> NoPair] \in [Keys -> Pairs \cup {NoPair}]
    /\ [k \in Keys |-> NoIfc] \in [Keys -> RemoteNetIfc \cup {NoIfc}]
    /\ [k \in Keys |-> Idle] \in [Keys -> Pass]
    /\ \A k \in Keys : \A u : PassOK([m \in Keys |-> Idle][k], u)
BY EmptyTyped, IdleOK

LEMMA CrashTypes ==
    ASSUME Types, Crash
    PROVE  Types'
<1>1. /\ localAtts' = StartAgent(atts, localIfcs).localAtts
      /\ queue' = StartAgent(atts, localIfcs).queue
      /\ phase' = StartAgent(atts, localIfcs).phase
      /\ todo' = StartAgent(atts, localIfcs).todo
  BY DEF Crash
<1>2. /\ localAtts' \in LocalInformer /\ queue' \subseteq Keys
      /\ phase' = "syncLocal" /\ todo' = localIfcs
  BY <1>1, StartTyped DEF Types, StoreOK
<1>3. StoreOK'
  BY <1>2 DEF Types, StoreOK, Crash
<1>4. VnOK'
  BY TablesTyped DEF VnOK, Crash
<1>5. IfcsOK'
  BY TablesTyped DEF Types, IfcsOK, Crash, fabricVars
<1>6. StartOK'
  BY <1>2 DEF Types, IfcsOK, StartOK
<1>7. PassesOK'
  <2>1. proc' = [k \in Keys |-> Idle]
    BY DEF Crash
  <2> QED
    BY <1>2, <2>1, TablesTyped DEF PassesOK
<1> QED
  BY <1>3, <1>4, <1>5, <1>6, <1>7 DEF Types

LEMMA FaultTypes ==
    ASSUME Types, NEW k \in Keys, Fault(k)
    PROVE  Types'
<1>1. Retry(k) /\ nsnToVNStateVNI' = nsnToVNStateVNI
  BY DEF Fault, vnVars
<1>2. PassesOK'
  BY <1>1, Retried
<1>3. StoreOK' /\ VnOK' /\ IfcsOK' /\ StartOK'
  BY IfcsSame DEF Types, Fault, StoreOK, VnOK, StartOK, vnVars, startVars
<1> QED
  BY <1>2, <1>3 DEF Types

LEMMA InitTypes ==
    ASSUME Init
    PROVE  Types
<1>1. atts = [k \in Keys |-> NoAtt]
  BY DEF Init
<1>2. atts \in [Keys -> NetworkAttachment]
  BY <1>1, ConstantsTyped
<1>3. /\ localAtts = StartAgent(atts, {}).localAtts
      /\ queue = StartAgent(atts, {}).queue
      /\ phase = StartAgent(atts, {}).phase
      /\ todo = StartAgent(atts, {}).todo
  BY DEF Init
<1>4. localAtts \in LocalInformer /\ queue \subseteq Keys /\ phase = "syncLocal" /\ todo = {}
  BY <1>2, <1>3, StartTyped
<1>5. StoreOK /\ StartOK
  BY <1>2, <1>4 DEF StoreOK, StartOK
<1>6. VnOK
  BY TablesTyped DEF VnOK, Init
<1>7. IfcsOK
  BY TablesTyped DEF IfcsOK, Init, FabricInit
<1>8. PassesOK
  <2>1. proc = [k \in Keys |-> Idle]
    BY DEF Init
  <2> QED
    BY <1>4, <2>1, TablesTyped DEF PassesOK
<1> QED
  BY <1>5, <1>6, <1>7, <1>8 DEF Types

LEMMA StepResting ==
    ASSUME Resting, [Next]_vars
    PROVE  Resting'
<1>1. ASSUME proc' = proc, phase' = phase \/ phase # "run" PROVE Resting'
  BY <1>1 DEF Resting
<1>2. ASSUME phase = "run", phase' = phase PROVE Resting'
  BY <1>2 DEF Resting
<1>3. CASE InformerNext
  BY <1>1, <1>3 DEF InformerNext, onLocalAtt, IndexRemoteAtt, onRemoteAtt, onLateRemoteAtt,
     HandleRemoteNote, EndStoppedInformers, startVars
<1>4. CASE StartNext
  BY <1>1, <1>4 DEF StartNext, syncPreExistingLocalIfc, startRemoteInformers,
     syncPreExistingRemoteIfc, startWorkers
<1>5. ASSUME NEW k \in Keys, Work(k) \/ Fault(k) PROVE Resting'
  <2>1. phase' = phase
    BY <1>5 DEF Work, Fault, processNetworkAttachment, getAttachment, removeAttFromVNState,
       clearVNResources, updateVNStateForExistingAtt, updateIfc, createIfc, setAttStatus,
       processDeletedAtt, startVars
  <2>2. phase = "run" \/ proc[k].pc # "idle"
    BY <1>5 DEF Work, Fault, processNetworkAttachment, getAttachment, removeAttFromVNState,
       clearVNResources, updateVNStateForExistingAtt, updateIfc, createIfc, setAttStatus,
       processDeletedAtt
  <2>3. phase = "run"
    BY <2>2 DEF Resting, Idle
  <2> QED
    BY <1>2, <2>1, <2>3
<1>6. ASSUME NEW c \in commands, RunCommand(c) PROVE Resting'
  BY <1>1, <1>6 DEF RunCommand, startVars
<1>7. ASSUME NEW k \in Keys, NEW n, NEW p, NEW h, WriteAtt(k, n, p, h) PROVE Resting'
  BY <1>1, <1>7 DEF WriteAtt, startVars
<1>8. ASSUME NEW k \in Keys, DeleteAtt(k) PROVE Resting'
  BY <1>1, <1>8 DEF DeleteAtt, startVars
<1>9. CASE Crash
  <2>1. proc' = [k \in Keys |-> Idle]
    BY <1>9 DEF Crash
  <2> QED
    BY <2>1 DEF Resting
<1>10. CASE UNCHANGED vars
  BY <1>1, <1>10 DEF vars, startVars
<1> QED
  BY <1>3, <1>4, <1>5, <1>6, <1>7, <1>8, <1>9, <1>10 DEF Next, EnvironmentNext

LEMMA StepTypes ==
    ASSUME Types, Resting, [Next]_vars
    PROVE  Types'
<1>1. CASE InformerNext
  BY <1>1, onLocalAttTypes, IndexRemoteAttTypes, onRemoteAttTypes, onLateRemoteAttTypes,
     EndStoppedInformersTypes DEF InformerNext
<1>2. CASE StartNext
  BY <1>2, syncPreExistingLocalIfcTypes, startRemoteInformersTypes,
     syncPreExistingRemoteIfcTypes, startWorkersTypes DEF StartNext
<1>3. ASSUME NEW k \in Keys, Work(k) PROVE Types'
  BY <1>3, processNetworkAttachmentTypes, getAttachmentTypes, removeAttFromVNStateTypes,
     clearVNResourcesTypes, updateVNStateForExistingAttTypes, updateIfcTypes, createIfcTypes,
     setAttStatusTypes, processDeletedAttTypes DEF Work
<1>4. ASSUME NEW c \in commands, RunCommand(c) PROVE Types'
  BY <1>4, RunCommandTypes
<1>5. CASE EnvironmentNext
  BY <1>5, WriteAttTypes, DeleteAttTypes, CrashTypes, FaultTypes DEF EnvironmentNext
<1>6. CASE UNCHANGED vars
  BY <1>6 DEF Types, vars, StoreOK, VnOK, IfcsOK, StartOK, PassesOK, storeVars, vnVars,
              ifcVars, fabricVars, startVars
<1> QED
  BY <1>1, <1>2, <1>3, <1>4, <1>5, <1>6 DEF Next

-----------------------------------------------------------------------------
(* Who owns the interfaces.                                                 *)

\* Every interface of the fabric is in a table, or start-up has yet to look at it.
LocalOwned ==
    \A p \in localIfcs : \/ \E k \in Keys : nsnToLocalMainState[k] = p
                         \/ phase = "syncLocal" /\ p \in todo

RemoteOwned ==
    \A r \in remoteIfcs : \/ phase = "syncLocal"
                          \/ r \in twofold
                          \/ \E k \in Keys : nsnToRemoteIfc[k] = r
                          \/ phase = "syncRemote" /\ r \in todo

\* Only start-up gives an attachment two interfaces.
OneIfc ==
    /\ phase = "syncLocal" => \A k \in Keys : ~HasRemoteIfc(k)
    /\ \A k \in Keys : HasLocalIfc(k) /\ HasRemoteIfc(k) => nsnToRemoteIfc[k] \in twofold

\* A pass that is about to create an interface has deleted the old one, or the
\* local one of the two.
CreatorsBare ==
    \A k \in Keys : proc[k].pc = "create" =>
       ~HasLocalIfc(k) /\ (HasRemoteIfc(k) => nsnToRemoteIfc[k] \in twofold)

Owned == LocalOwned /\ RemoteOwned /\ OneIfc /\ CreatorsBare

IInv == Types /\ Resting /\ Owned

tables == <<localIfcs, remoteIfcs, nsnToLocalMainState, nsnToRemoteIfc, phase, todo,
            twofold, lost>>

LEMMA OwnedSame ==
    ASSUME Owned, UNCHANGED tables,
           \A k \in Keys : proc'[k].pc = "create" => proc[k].pc = "create"
    PROVE  Owned'
<1>1. LocalOwned'
  BY DEF Owned, LocalOwned, tables
<1>2. RemoteOwned'
  BY DEF Owned, RemoteOwned, tables
<1>3. OneIfc'
  BY DEF Owned, OneIfc, HasLocalIfc, HasRemoteIfc, tables
<1>4. CreatorsBare'
  BY DEF Owned, CreatorsBare, HasLocalIfc, HasRemoteIfc, tables
<1> QED
  BY <1>1, <1>2, <1>3, <1>4 DEF Owned

\* Where the passes go.
LEMMA PassPlaces ==
    /\ Idle.pc = "idle"
    /\ \A p \in Pass : \A pc : pc # "create" => GoOn(p, pc).pc # "create"
    /\ \A p \in Pass : \A v, names, then : Clearing(p, v, names, then).pc = "clear"
    /\ \A k, report : \A p \in Pass : IfcDone(k, p, report).pc # "create"
BY DEF Idle, GoOn, Clearing, IfcDone, Pass

LEMMA OtherPass ==
    ASSUME Types, Owned, UNCHANGED tables, NEW k \in Keys, NEW q, q.pc # "create",
           proc' = [proc EXCEPT ![k] = q]
    PROVE  Owned'
<1>1. \A m \in Keys : proc'[m].pc = "create" => proc[m].pc = "create"
  BY DEF Types, PassesOK
<1> QED
  BY <1>1, OwnedSame

LEMMA InformersOwned ==
    ASSUME Owned, InformerNext
    PROVE  Owned'
<1>1. UNCHANGED tables /\ proc' = proc
  BY DEF InformerNext, onLocalAtt, IndexRemoteAtt, onRemoteAtt, onLateRemoteAtt,
     HandleRemoteNote, EndStoppedInformers, startVars, ifcVars, fabricVars, tables
<1> QED
  BY <1>1, OwnedSame

\* The steps of a pass that touch no interface.
LEMMA LookupsOwned ==
    ASSUME Types, Owned, NEW k \in Keys,
           \/ processNetworkAttachment(k) \/ getAttachment(k) \/ removeAttFromVNState(k)
           \/ clearVNResources(k) \/ updateVNStateForExistingAtt(k) \/ setAttStatus(k)
           \/ Fault(k)
    PROVE  Owned'
<1>1. proc[k] \in Pass /\ proc[k].then # "create"
  BY PassParts DEF Types, PassesOK
<1>2. UNCHANGED tables
  BY DEF processNetworkAttachment, getAttachment, removeAttFromVNState, clearVNResources,
     updateVNStateForExistingAtt, setAttStatus, Fault, ifcVars, fabricVars, startVars, tables
<1>3. CASE processNetworkAttachment(k)
  <2> DEFINE a == getRemoteAttListerForVNI(getAttSeenInVNI(k))[k]
             q == IF Cardinality(nsnToVNIs[k]) > 1 THEN Idle
                  ELSE [Idle EXCEPT !.pc = "lookup", !.att = a]
  <2>1. q.pc # "create"
    BY DEF Idle
  <2>2. proc' = [proc EXCEPT ![k] = q]
    BY <1>3 DEF processNetworkAttachment
  <2> HIDE DEF q
  <2> QED
    BY <1>2, <2>1, <2>2, OtherPass
<1>4. CASE getAttachment(k)
  <2> DEFINE attAsRemote == proc[k].att
             attAsLocal == localAtts.cache[k]
             deleted == (attAsRemote = NoAtt) = (attAsLocal = NoAtt)
             att == CASE deleted -> NoAtt
                      [] ~deleted /\ attAsLocal # NoAtt -> attAsLocal
                      [] OTHER -> attAsRemote
             next == IF deleted THEN "remove" ELSE "join"
             moved == nsnToVNStateVNI[k] \notin {NoVNI, AddressVNI(att)}
             q == IF moved THEN [Idle EXCEPT !.pc = "depart", !.att = att, !.then = next]
                           ELSE [Idle EXCEPT !.pc = next, !.att = att]
  <2>1. proc' = [proc EXCEPT ![k] = q]
    BY <1>4 DEF getAttachment, Continue
  <2>2. next # "create"
    OBVIOUS
  <2> HIDE DEF att, next, moved
  <2>3. q.pc # "create"
    BY <2>2 DEF Idle
  <2> HIDE DEF q
  <2> QED
    BY <1>2, <2>1, <2>3, OtherPass
<1>5. CASE removeAttFromVNState(k)
  <2>1. \/ \E v, names : proc' = [proc EXCEPT ![k] = Clearing(proc[k], v, names, proc[k].then)]
        \/ proc' = [proc EXCEPT ![k] = GoOn(proc[k], proc[k].then)]
    BY <1>5 DEF removeAttFromVNState, Continue
  <2> QED
    BY <1>1, <1>2, <2>1, PassPlaces, OtherPass
<1>6. CASE clearVNResources(k)
  <2>1. proc' = [proc EXCEPT ![k] = GoOn(proc[k], proc[k].then)]
    BY <1>6 DEF clearVNResources
  <2> QED
    BY <1>1, <1>2, <2>1, PassPlaces, OtherPass
<1>7. CASE updateVNStateForExistingAtt(k)
  <2>1. \/ proc' = [proc EXCEPT ![k] = GoOn(proc[k], "update")]
        \/ \E v, names : proc' = [proc EXCEPT ![k] = Clearing(proc[k], v, names, "idle")]
        \/ proc' = [proc EXCEPT ![k] = GoOn(proc[k], "remove")]
    BY <1>7 DEF updateVNStateForExistingAtt, joinLocal, joinRemote, leaveLast, joinNothing,
                Continue
  <2> QED
    BY <1>1, <1>2, <2>1, PassPlaces, OtherPass
<1>8. CASE setAttStatus(k) \/ Fault(k)
  <2>1. proc' = [proc EXCEPT ![k] = Idle]
    BY <1>8 DEF setAttStatus, Fault, Continue, Retry
  <2> QED
    BY <1>2, <2>1, PassPlaces, OtherPass
<1> QED
  BY <1>3, <1>4, <1>5, <1>6, <1>7, <1>8

\* The local interface of k goes.
LEMMA deleteOldLocalIfcOwned ==
    ASSUME Types, Owned, phase = "run", NEW k \in Keys, deleteOldLocalIfc(k), UNCHANGED startVars
    PROVE  LocalOwned' /\ RemoteOwned' /\ OneIfc' /\ nsnToLocalMainState'[k] = NoPair
           /\ nsnToRemoteIfc' = nsnToRemoteIfc /\ phase' = "run"
           /\ \A m \in Keys \ {k} : nsnToLocalMainState'[m] = nsnToLocalMainState[m]
<1> DEFINE old == nsnToLocalMainState[k]
<1>1. /\ localIfcs' = localIfcs \ {old} /\ remoteIfcs' = remoteIfcs
      /\ nsnToLocalMainState' = [nsnToLocalMainState EXCEPT ![k] = NoPair]
      /\ nsnToRemoteIfc' = nsnToRemoteIfc
      /\ phase' = phase /\ todo' = todo /\ twofold' = twofold
  BY DEF deleteOldLocalIfc, DeleteLocalIfc, unsetLocalAttState, startVars
<1>2. /\ nsnToLocalMainState'[k] = NoPair
      /\ \A m \in Keys \ {k} : nsnToLocalMainState'[m] = nsnToLocalMainState[m]
  BY <1>1 DEF Types, IfcsOK
<1>3. LocalOwned'
  <2> SUFFICES ASSUME NEW p \in localIfcs' PROVE \E m \in Keys : nsnToLocalMainState'[m] = p
    BY DEF LocalOwned
  <2>1. PICK m \in Keys : nsnToLocalMainState[m] = p
    BY <1>1 DEF Owned, LocalOwned
  <2>2. m # k
    BY <1>1, <2>1
  <2> QED
    BY <1>2, <2>1, <2>2
<1>4. RemoteOwned'
  BY <1>1 DEF Owned, RemoteOwned
<1>5. OneIfc'
  BY <1>1, <1>2 DEF Owned, OneIfc, HasLocalIfc, HasRemoteIfc
<1> QED
  BY <1>1, <1>2, <1>3, <1>4, <1>5

\* The remote interface of k goes.
LEMMA deleteOldRemoteIfcOwned ==
    ASSUME Types, Owned, phase = "run", NEW k \in Keys, deleteOldRemoteIfc(k), UNCHANGED startVars
    PROVE  LocalOwned' /\ RemoteOwned' /\ OneIfc' /\ nsnToRemoteIfc'[k] = NoIfc
           /\ nsnToLocalMainState' = nsnToLocalMainState /\ phase' = "run"
           /\ \A m \in Keys \ {k} : nsnToRemoteIfc'[m] = nsnToRemoteIfc[m]
<1> DEFINE old == nsnToRemoteIfc[k]
<1>1. /\ remoteIfcs' = remoteIfcs \ {old} /\ localIfcs' = localIfcs
      /\ nsnToRemoteIfc' = [nsnToRemoteIfc EXCEPT ![k] = NoIfc]
      /\ nsnToLocalMainState' = nsnToLocalMainState
      /\ phase' = phase /\ todo' = todo /\ twofold' = twofold
  BY DEF deleteOldRemoteIfc, DeleteRemoteIfc, unsetRemoteIfc, assignRemoteIfc, startVars
<1>2. /\ nsnToRemoteIfc'[k] = NoIfc
      /\ \A m \in Keys \ {k} : nsnToRemoteIfc'[m] = nsnToRemoteIfc[m]
  BY <1>1 DEF Types, IfcsOK
<1>3. RemoteOwned'
  <2> SUFFICES ASSUME NEW r \in remoteIfcs', r \notin twofold
               PROVE  \E m \in Keys : nsnToRemoteIfc'[m] = r
    BY <1>1 DEF RemoteOwned
  <2>1. PICK m \in Keys : nsnToRemoteIfc[m] = r
    BY <1>1 DEF Owned, RemoteOwned
  <2>2. m # k
    BY <1>1, <2>1
  <2> QED
    BY <1>2, <2>1, <2>2
<1>4. LocalOwned'
  BY <1>1 DEF Owned, LocalOwned
<1>5. OneIfc'
  BY <1>1, <1>2 DEF Owned, OneIfc, HasLocalIfc, HasRemoteIfc
<1> QED
  BY <1>1, <1>2, <1>3, <1>4, <1>5

LEMMA updateIfcOwned ==
    ASSUME Types, Resting, Owned, NEW k \in Keys, updateIfc(k)
    PROVE  Owned'
<1>1. proc[k] \in Pass /\ proc[k].pc = "update"
  BY DEF Types, PassesOK, updateIfc
<1>2. phase = "run"
  BY <1>1 DEF Resting, Idle
<1>3. UNCHANGED startVars /\ twofold' = twofold
  BY DEF updateIfc, startVars
<1>4. \E q : proc' = [proc EXCEPT ![k] = q]
  BY DEF updateIfc, Continue
<1>5. \A m \in Keys \ {k} : proc'[m] = proc[m]
  BY <1>4 DEF Types, PassesOK
<1>6. CASE HasLocalIfc(k) /\ deleteOldLocalIfc(k)
  <2>1. /\ LocalOwned' /\ RemoteOwned' /\ OneIfc' /\ nsnToLocalMainState'[k] = NoPair
        /\ nsnToRemoteIfc' = nsnToRemoteIfc
        /\ \A m \in Keys \ {k} : nsnToLocalMainState'[m] = nsnToLocalMainState[m]
    BY <1>2, <1>3, <1>6, deleteOldLocalIfcOwned
  <2>2. HasRemoteIfc(k) => nsnToRemoteIfc[k] \in twofold
    BY <1>6 DEF Owned, OneIfc
  <2>3. ASSUME NEW m \in Keys, (proc[m].pc = "create")'
        PROVE  (~HasLocalIfc(m) /\ (HasRemoteIfc(m) => nsnToRemoteIfc[m] \in twofold))'
    <3>1. CASE m = k
      BY <1>3, <2>1, <2>2, <3>1 DEF HasLocalIfc, HasRemoteIfc
    <3>2. CASE m # k
      BY <1>3, <1>5, <2>1, <2>3, <3>2 DEF Owned, CreatorsBare, HasLocalIfc, HasRemoteIfc
    <3> QED
      BY <3>1, <3>2
  <2> QED
    BY <2>1, <2>3 DEF Owned, CreatorsBare
<1>7. CASE ~HasLocalIfc(k) /\ deleteOldRemoteIfc(k)
  <2>1. /\ LocalOwned' /\ RemoteOwned' /\ OneIfc' /\ nsnToRemoteIfc'[k] = NoIfc
        /\ nsnToLocalMainState' = nsnToLocalMainState
        /\ \A m \in Keys \ {k} : nsnToRemoteIfc'[m] = nsnToRemoteIfc[m]
    BY <1>2, <1>3, <1>7, deleteOldRemoteIfcOwned
  <2>2. ASSUME NEW m \in Keys, (proc[m].pc = "create")'
        PROVE  (~HasLocalIfc(m) /\ (HasRemoteIfc(m) => nsnToRemoteIfc[m] \in twofold))'
    <3>1. CASE m = k
      BY <1>3, <1>7, <2>1, <3>1 DEF HasLocalIfc, HasRemoteIfc
    <3>2. CASE m # k
      BY <1>3, <1>5, <2>1, <2>2, <3>2 DEF Owned, CreatorsBare, HasLocalIfc, HasRemoteIfc
    <3> QED
      BY <3>1, <3>2
  <2> QED
    BY <2>1, <2>2 DEF Owned, CreatorsBare
<1>8. CASE /\ ~HasLocalIfc(k) /\ ~HasRemoteIfc(k) /\ UNCHANGED ifcVars
  <2>1. UNCHANGED tables
    BY <1>3, <1>8 DEF tables, ifcVars, fabricVars, startVars
  <2>2. LocalOwned' /\ RemoteOwned' /\ OneIfc'
    BY <2>1 DEF Owned, LocalOwned, RemoteOwned, OneIfc, HasLocalIfc, HasRemoteIfc, tables
  <2>3. CreatorsBare'
    BY <1>5, <1>8, <2>1 DEF Owned, CreatorsBare, HasLocalIfc, HasRemoteIfc, tables
  <2> QED
    BY <2>2, <2>3 DEF Owned
<1>9. CASE /\ Continue(k, IfcDone(k, proc[k], nsnToPostCreateExecReport[k]))
           /\ UNCHANGED ifcVars
  <2> DEFINE q == IfcDone(k, proc[k], nsnToPostCreateExecReport[k])
  <2>1. q.pc # "create"
    BY <1>1, PassPlaces
  <2>2. proc' = [proc EXCEPT ![k] = q]
    BY <1>9 DEF Continue
  <2> HIDE DEF q
  <2>3. UNCHANGED tables
    BY <1>3, <1>9 DEF tables, ifcVars, fabricVars, startVars
  <2> QED
    BY <2>1, <2>2, <2>3, OtherPass
<1> QED
  BY <1>6, <1>7, <1>8, <1>9 DEF updateIfc

LEMMA createIfcOwned ==
    ASSUME Types, Resting, Owned, NEW k \in Keys, createIfc(k)
    PROVE  Owned'
<1> DEFINE att == proc[k].att
           ifc == [pair |-> att.pair, host |-> attHostIP(att)]
<1>1. proc[k] \in Pass /\ proc[k].pc = "create" /\ Usable(att)
  BY DEF Types, PassesOK, PassOK, createIfc
<1>2. phase = "run"
  BY <1>1 DEF Resting, Idle
<1>3. phase' = phase /\ todo' = todo /\ twofold' = twofold /\ lost' = lost
  BY DEF createIfc, startVars
<1>4. ~HasLocalIfc(k) /\ (HasRemoteIfc(k) => nsnToRemoteIfc[k] \in twofold)
  BY <1>1 DEF Owned, CreatorsBare
<1>5. att.pair \in Pairs /\ ifc \in RemoteNetIfc
  BY <1>1 DEF Usable, RemoteNetIfc
<1>6. /\ \A m \in Keys \ {k} : proc'[m] = proc[m]
      /\ proc'[k].pc # "create"
  <2>1. \/ proc' = [proc EXCEPT ![k] = IfcDone(k, proc[k], NoPair)]
        \/ proc' = [proc EXCEPT ![k] = Idle]
    BY DEF createIfc, Continue, Retry
  <2>2. IfcDone(k, proc[k], NoPair).pc # "create" /\ Idle.pc # "create"
    BY <1>1, PassPlaces
  <2> QED
    BY <2>1, <2>2 DEF Types, PassesOK
<1> HIDE DEF att, ifc
<1>7. CASE /\ CreateLocalIfc(att.pair) /\ setLocalAttMainState(k, att.pair)
           /\ UNCHANGED <<nsnToRemoteIfc, nsnToPostCreateExecReport>>
  <2>1. /\ localIfcs' = localIfcs \cup {att.pair} /\ remoteIfcs' = remoteIfcs
        /\ nsnToRemoteIfc' = nsnToRemoteIfc
        /\ nsnToLocalMainState'[k] = att.pair
        /\ \A m \in Keys \ {k} : nsnToLocalMainState'[m] = nsnToLocalMainState[m]
    BY <1>7 DEF CreateLocalIfc, setLocalAttMainState, Types, IfcsOK
  <2>2. LocalOwned'
    <3> SUFFICES ASSUME NEW p \in localIfcs' PROVE \E m \in Keys : nsnToLocalMainState'[m] = p
      BY DEF LocalOwned
    <3>1. CASE p = att.pair
      BY <2>1, <3>1
    <3>2. CASE p # att.pair
      <4>1. p \in localIfcs /\ p \in Pairs
        BY <2>1, <3>2 DEF Types, IfcsOK
      <4>2. PICK m \in Keys : nsnToLocalMainState[m] = p
        BY <1>2, <4>1 DEF Owned, LocalOwned
      <4>3. m # k
        BY <1>4, <4>1, <4>2, ConstantsTyped DEF HasLocalIfc
      <4> QED
        BY <2>1, <4>2, <4>3
    <3> QED
      BY <3>1, <3>2
  <2>3. RemoteOwned'
    BY <1>3, <2>1 DEF Owned, RemoteOwned
  <2>4. OneIfc'
    BY <1>2, <1>3, <1>4, <2>1 DEF Owned, OneIfc, HasLocalIfc, HasRemoteIfc
  <2>5. CreatorsBare'
    BY <1>3, <1>6, <2>1 DEF Owned, CreatorsBare, HasLocalIfc, HasRemoteIfc
  <2> QED
    BY <2>2, <2>3, <2>4, <2>5 DEF Owned
<1>8. CASE /\ CreateRemoteIfc(ifc) /\ assignRemoteIfc(k, ifc)
           /\ UNCHANGED <<nsnToLocalMainState, nsnToPostCreateExecReport, commands>>
  <2>1. /\ remoteIfcs' = remoteIfcs \cup {ifc} /\ localIfcs' = localIfcs
        /\ nsnToLocalMainState' = nsnToLocalMainState
        /\ nsnToRemoteIfc'[k] = ifc
        /\ \A m \in Keys \ {k} : nsnToRemoteIfc'[m] = nsnToRemoteIfc[m]
    BY <1>8 DEF CreateRemoteIfc, assignRemoteIfc, Types, IfcsOK
  <2>2. RemoteOwned'
    <3> SUFFICES ASSUME NEW r \in remoteIfcs', r \notin twofold
                 PROVE  \E m \in Keys : nsnToRemoteIfc'[m] = r
      BY <1>3 DEF RemoteOwned
    <3>1. CASE r = ifc
      BY <2>1, <3>1
    <3>2. CASE r # ifc
      <4>1. r \in remoteIfcs /\ r \in RemoteNetIfc
        BY <2>1, <3>2 DEF Types, IfcsOK
      <4>2. PICK m \in Keys : nsnToRemoteIfc[m] = r
        BY <1>2, <4>1 DEF Owned, RemoteOwned
      <4>3. m # k
        BY <1>4, <4>1, <4>2, ConstantsTyped DEF HasRemoteIfc
      <4> QED
        BY <2>1, <4>2, <4>3
    <3> QED
      BY <3>1, <3>2
  <2>3. LocalOwned'
    BY <1>3, <2>1 DEF Owned, LocalOwned
  <2>4. OneIfc'
    BY <1>2, <1>3, <1>4, <2>1 DEF Owned, OneIfc, HasLocalIfc, HasRemoteIfc
  <2>5. CreatorsBare'
    BY <1>3, <1>6, <2>1 DEF Owned, CreatorsBare, HasLocalIfc, HasRemoteIfc
  <2> QED
    BY <2>2, <2>3, <2>4, <2>5 DEF Owned
<1>9. CASE UNCHANGED ifcVars
  <2>1. UNCHANGED tables
    BY <1>3, <1>9 DEF tables, ifcVars, fabricVars
  <2> QED
    BY <1>6, <2>1, OwnedSame
<1> QED
  BY <1>7, <1>8, <1>9 DEF createIfc, att, ifc

LEMMA processDeletedAttOwned ==
    ASSUME Types, Resting, Owned, NEW k \in Keys, processDeletedAtt(k)
    PROVE  Owned'
<1>1. phase = "run"
  BY DEF Resting, Idle, processDeletedAtt
<1>2. UNCHANGED startVars /\ twofold' = twofold
  BY DEF processDeletedAtt, startVars
<1>3. proc' = [proc EXCEPT ![k] = Idle]
  BY DEF processDeletedAtt, Continue
<1>4. /\ \A m \in Keys \ {k} : proc'[m] = proc[m]
      /\ proc'[k].pc # "create"
  BY <1>3, PassPlaces DEF Types, PassesOK
<1>5. CASE deleteOldLocalIfc(k)
  <2>1. /\ LocalOwned' /\ RemoteOwned' /\ OneIfc'
        /\ nsnToRemoteIfc' = nsnToRemoteIfc
        /\ \A m \in Keys \ {k} : nsnToLocalMainState'[m] = nsnToLocalMainState[m]
    BY <1>1, <1>2, <1>5, deleteOldLocalIfcOwned
  <2>2. CreatorsBare'
    BY <1>2, <1>4, <2>1 DEF Owned, CreatorsBare, HasLocalIfc, HasRemoteIfc
  <2> QED
    BY <2>1, <2>2 DEF Owned
<1>6. CASE deleteOldRemoteIfc(k)
  <2>1. /\ LocalOwned' /\ RemoteOwned' /\ OneIfc'
        /\ nsnToLocalMainState' = nsnToLocalMainState
        /\ \A m \in Keys \ {k} : nsnToRemoteIfc'[m] = nsnToRemoteIfc[m]
    BY <1>1, <1>2, <1>6, deleteOldRemoteIfcOwned
  <2>2. CreatorsBare'
    BY <1>2, <1>4, <2>1 DEF Owned, CreatorsBare, HasLocalIfc, HasRemoteIfc
  <2> QED
    BY <2>1, <2>2 DEF Owned
<1>7. CASE UNCHANGED ifcVars
  <2>1. UNCHANGED tables
    BY <1>2, <1>7 DEF tables, ifcVars, fabricVars, startVars
  <2> QED
    BY <1>3, <2>1, PassPlaces, OtherPass
<1> QED
  BY <1>5, <1>6, <1>7 DEF processDeletedAtt

\* A command that ends and the writes of others touch no table.
LEMMA OthersOwned ==
    ASSUME Owned,
           \/ \E c \in commands : RunCommand(c)
           \/ \E k \in Keys : DeleteAtt(k)
           \/ \E k \in Keys, n \in Hosts, p \in Pairs, h \in Hosts \cup {""} :
                 WriteAtt(k, n, p, h)
    PROVE  Owned'
<1>1. UNCHANGED tables /\ proc' = proc
  BY DEF RunCommand, DeleteAtt, WriteAtt, startVars, ifcVars, fabricVars, tables
<1> QED
  BY <1>1, OwnedSame

-----------------------------------------------------------------------------
(* Start-up.                                                                *)

LEMMA syncPreExistingLocalIfcOwned ==
    ASSUME Types, Resting, Owned, syncPreExistingLocalIfc
    PROVE  Owned'
<1>1. /\ phase = "syncLocal" /\ phase' = phase /\ twofold' = twofold
      /\ nsnToRemoteIfc' = nsnToRemoteIfc /\ proc' = proc
  BY DEF syncPreExistingLocalIfc
<1>2. RemoteOwned'
  BY <1>1 DEF RemoteOwned
<1>3. OneIfc'
  BY <1>1 DEF Owned, OneIfc, HasRemoteIfc
<1>4. CreatorsBare'
  BY <1>1 DEF CreatorsBare, Resting, Idle
<1>5. PICK ifc \in todo :
         /\ \/ \E k \in Keys : matchLocalIfc(k, ifc)
            \/ DeleteLocalIfc(ifc) /\ nsnToLocalMainState' = nsnToLocalMainState
         /\ todo' = todo \ {ifc}
  BY DEF syncPreExistingLocalIfc, ifcOwnerAtts
<1>6. ASSUME NEW k \in Keys, matchLocalIfc(k, ifc)
      PROVE  LocalOwned'
  <2>1. /\ nsnToLocalMainState'[k] = ifc
        /\ \A m \in Keys \ {k} : nsnToLocalMainState'[m] = nsnToLocalMainState[m]
    BY <1>6 DEF matchLocalIfc, setLocalAttMainState, Types, IfcsOK
  <2>2. localIfcs' \subseteq localIfcs
    BY <1>6 DEF matchLocalIfc, DeleteLocalIfc, fabricVars
  <2>3. \A p \in localIfcs' : p # nsnToLocalMainState[k]
    <3>1. CASE HasLocalIfc(k)
      BY <1>6, <3>1 DEF matchLocalIfc, DeleteLocalIfc
    <3>2. CASE ~HasLocalIfc(k)
      BY <2>2, <3>2, ConstantsTyped DEF HasLocalIfc, Types, IfcsOK
    <3> QED
      BY <3>1, <3>2
  <2> SUFFICES ASSUME NEW p \in localIfcs', p \notin todo'
               PROVE  \E m \in Keys : nsnToLocalMainState'[m] = p
    BY <1>1 DEF LocalOwned
  <2>4. CASE p = ifc
    BY <2>1, <2>4
  <2>5. CASE p # ifc
    <3>1. PICK m \in Keys : nsnToLocalMainState[m] = p
      BY <1>5, <2>2, <2>5 DEF Owned, LocalOwned
    <3>2. m # k
      BY <2>3, <3>1
    <3> QED
      BY <2>1, <3>1, <3>2
  <2> QED
    BY <2>4, <2>5
<1>7. CASE DeleteLocalIfc(ifc) /\ nsnToLocalMainState' = nsnToLocalMainState
  <2>1. LocalOwned'
    BY <1>1, <1>5, <1>7 DEF Owned, LocalOwned, DeleteLocalIfc
  <2> QED
    BY <1>2, <1>3, <1>4, <2>1 DEF Owned
<1> QED
  BY <1>2, <1>3, <1>4, <1>5, <1>6, <1>7 DEF Owned

LEMMA startRemoteInformersOwned ==
    ASSUME Resting, Owned, startRemoteInformers
    PROVE  Owned'
<1>1. /\ phase = "syncLocal" /\ todo = {} /\ phase' = "syncRemote" /\ todo' = remoteIfcs
      /\ localIfcs' = localIfcs /\ remoteIfcs' = remoteIfcs /\ twofold' = twofold
      /\ nsnToLocalMainState' = nsnToLocalMainState /\ nsnToRemoteIfc' = nsnToRemoteIfc
      /\ proc' = proc
  BY DEF startRemoteInformers, ifcVars, fabricVars
<1>2. LocalOwned'
  BY <1>1 DEF Owned, LocalOwned
<1>3. RemoteOwned'
  BY <1>1 DEF RemoteOwned
<1>4. OneIfc'
  BY <1>1 DEF Owned, OneIfc, HasLocalIfc, HasRemoteIfc
<1>5. CreatorsBare'
  BY <1>1 DEF CreatorsBare, Resting, Idle
<1> QED
  BY <1>2, <1>3, <1>4, <1>5 DEF Owned

LEMMA syncPreExistingRemoteIfcOwned ==
    ASSUME Types, Resting, Owned, syncPreExistingRemoteIfc
    PROVE  Owned'
<1>1. /\ phase = "syncRemote" /\ phase' = phase
      /\ nsnToLocalMainState' = nsnToLocalMainState /\ proc' = proc
  BY DEF syncPreExistingRemoteIfc
<1>2. CreatorsBare'
  BY <1>1 DEF CreatorsBare, Resting, Idle
<1>3. PICK ifc \in todo :
         /\ \/ \E k \in Keys : matchRemoteIfc(k, ifc)
            \/ DeleteRemoteIfc(ifc) /\ UNCHANGED <<nsnToRemoteIfc, twofold>>
         /\ todo' = todo \ {ifc}
  BY DEF syncPreExistingRemoteIfc, ifcOwnerAtts
<1>4. ASSUME NEW k \in Keys, matchRemoteIfc(k, ifc)
      PROVE  LocalOwned' /\ RemoteOwned' /\ OneIfc'
  <2>1. /\ nsnToRemoteIfc'[k] = ifc
        /\ \A m \in Keys \ {k} : nsnToRemoteIfc'[m] = nsnToRemoteIfc[m]
        /\ twofold \subseteq twofold' /\ (HasLocalIfc(k) => ifc \in twofold')
    BY <1>4 DEF matchRemoteIfc, assignRemoteIfc, Types, IfcsOK
  <2>2. localIfcs' \subseteq localIfcs /\ remoteIfcs' \subseteq remoteIfcs
    BY <1>4 DEF matchRemoteIfc, DeleteLocalIfc, DeleteRemoteIfc, fabricVars
  <2>3. \A r \in remoteIfcs' : r # nsnToRemoteIfc[k]
    <3>1. CASE HasRemoteIfc(k)
      BY <1>4, <3>1 DEF matchRemoteIfc, DeleteRemoteIfc
    <3>2. CASE ~HasRemoteIfc(k)
      BY <2>2, <3>2, ConstantsTyped DEF HasRemoteIfc, Types, IfcsOK
    <3> QED
      BY <3>1, <3>2
  <2>4. LocalOwned'
    BY <1>1, <2>2 DEF Owned, LocalOwned
  <2>5. RemoteOwned'
    <3> SUFFICES ASSUME NEW r \in remoteIfcs', r \notin twofold', r \notin todo'
                 PROVE  \E m \in Keys : nsnToRemoteIfc'[m] = r
      BY <1>1 DEF RemoteOwned
    <3>1. CASE r = ifc
      BY <2>1, <3>1
    <3>2. CASE r # ifc
      <4>1. PICK m \in Keys : nsnToRemoteIfc[m] = r
        BY <1>1, <1>3, <2>1, <2>2, <3>2 DEF Owned, RemoteOwned
      <4>2. m # k
        BY <2>3, <4>1
      <4> QED
        BY <2>1, <4>1, <4>2
    <3> QED
      BY <3>1, <3>2
  <2>6. OneIfc'
    <3> SUFFICES ASSUME NEW m \in Keys, (HasLocalIfc(m) /\ HasRemoteIfc(m))'
                 PROVE  nsnToRemoteIfc'[m] \in twofold'
      BY <1>1 DEF OneIfc
    <3>1. CASE m = k
      BY <1>1, <2>1, <3>1 DEF HasLocalIfc
    <3>2. CASE m # k
      BY <1>1, <2>1, <3>2 DEF Owned, OneIfc, HasLocalIfc, HasRemoteIfc
    <3> QED
      BY <3>1, <3>2
  <2> QED
    BY <2>4, <2>5, <2>6
<1>5. CASE DeleteRemoteIfc(ifc) /\ UNCHANGED <<nsnToRemoteIfc, twofold>>
  <2>1. LocalOwned'
    BY <1>1, <1>5 DEF Owned, LocalOwned, DeleteRemoteIfc
  <2>2. RemoteOwned'
    BY <1>1, <1>3, <1>5 DEF Owned, RemoteOwned, DeleteRemoteIfc
  <2>3. OneIfc'
    BY <1>1, <1>5 DEF Owned, OneIfc, HasLocalIfc, HasRemoteIfc
  <2> QED
    BY <1>2, <2>1, <2>2, <2>3 DEF Owned
<1> QED
  BY <1>2, <1>3, <1>4, <1>5 DEF Owned

LEMMA startWorkersOwned ==
    ASSUME Owned, startWorkers
    PROVE  Owned'
<1>1. /\ phase = "syncRemote" /\ todo = {} /\ phase' = "run"
      /\ localIfcs' = localIfcs /\ remoteIfcs' = remoteIfcs /\ twofold' = twofold
      /\ nsnToLocalMainState' = nsnToLocalMainState /\ nsnToRemoteIfc' = nsnToRemoteIfc
      /\ proc' = proc
  BY DEF startWorkers, ifcVars, fabricVars
<1>2. LocalOwned'
  BY <1>1 DEF Owned, LocalOwned
<1>3. RemoteOwned'
  BY <1>1 DEF Owned, RemoteOwned
<1>4. OneIfc'
  BY <1>1 DEF Owned, OneIfc, HasLocalIfc, HasRemoteIfc
<1>5. CreatorsBare'
  BY <1>1 DEF Owned, CreatorsBare, HasLocalIfc, HasRemoteIfc
<1> QED
  BY <1>2, <1>3, <1>4, <1>5 DEF Owned

LEMMA CrashOwned ==
    ASSUME Crash
    PROVE  Owned'
<1>1. /\ phase' = "syncLocal" /\ todo' = localIfcs /\ localIfcs' = localIfcs
      /\ \A k \in Keys : nsnToRemoteIfc'[k] = NoIfc /\ proc'[k] = Idle
  BY DEF Crash, StartAgent, fabricVars
<1>2. LocalOwned' /\ RemoteOwned'
  BY <1>1 DEF LocalOwned, RemoteOwned
<1>3. OneIfc'
  BY <1>1 DEF OneIfc, HasRemoteIfc
<1>4. CreatorsBare'
  BY <1>1 DEF CreatorsBare, Idle
<1> QED
  BY <1>2, <1>3, <1>4 DEF Owned

LEMMA InitOwned ==
    ASSUME Init
    PROVE  Owned
<1>1. /\ phase = "syncLocal" /\ localIfcs = {}
      /\ \A k \in Keys : nsnToRemoteIfc[k] = NoIfc /\ proc[k] = Idle
  BY DEF Init, StartAgent, FabricInit
<1>2. LocalOwned /\ RemoteOwned
  BY <1>1 DEF LocalOwned, RemoteOwned
<1>3. OneIfc
  BY <1>1 DEF OneIfc, HasRemoteIfc
<1>4. CreatorsBare
  BY <1>1 DEF CreatorsBare, Idle
<1> QED
  BY <1>2, <1>3, <1>4 DEF Owned

-----------------------------------------------------------------------------
(* The invariant holds.                                                     *)

LEMMA StepOwned ==
    ASSUME Types, Resting, Owned, [Next]_vars
    PROVE  Owned'
<1>1. CASE InformerNext
  BY <1>1, InformersOwned
<1>2. CASE StartNext
  BY <1>2, syncPreExistingLocalIfcOwned, startRemoteInformersOwned,
     syncPreExistingRemoteIfcOwned, startWorkersOwned DEF StartNext
<1>3. ASSUME NEW k \in Keys, Work(k) PROVE Owned'
  BY <1>3, LookupsOwned, updateIfcOwned, createIfcOwned, processDeletedAttOwned DEF Work
<1>4. CASE \E c \in commands : RunCommand(c)
  BY <1>4, OthersOwned
<1>5. CASE EnvironmentNext
  BY <1>5, OthersOwned, CrashOwned, LookupsOwned DEF EnvironmentNext
<1>6. CASE UNCHANGED vars
  <2>1. UNCHANGED tables /\ proc' = proc
    BY <1>6 DEF vars, tables, ifcVars, fabricVars, startVars
  <2> QED
    BY <2>1, OwnedSame
<1> QED
  BY <1>1, <1>2, <1>3, <1>4, <1>5, <1>6 DEF Next

\* The inductive invariant: no table, cache or pass of the agent holds an object
\* an interface cannot be made of where it needs one, no pass is under way before
\* the workers run, every interface of the fabric is owned by a table or yet to
\* be looked at by syncPreExistingIfcs, and an attachment has two interfaces, or
\* one while a pass creates another, only if start-up gave it both.
THEOREM AgentInvariant == Spec => []IInv
<1>1. Init => IInv
  <2>1. Init => Resting
    BY DEF Init, Resting
  <2> QED
    BY <2>1, InitTypes, InitOwned DEF IInv
<1>2. IInv /\ [Next]_vars => IInv'
  BY StepTypes, StepResting, StepOwned DEF IInv
<1> QED
  BY <1>1, <1>2, PTL DEF Spec

\* The agent's tables hold addresses and interfaces of attachments only, however
\* attachments move, vanish and come back while passes over them are under way:
\* createOrUpdateIfc is never reached with an attachment that lacks its address,
\* or the host of its remote interface.
THEOREM AgentTyped == Spec => []TypeOK
<1>1. IInv => TypeOK
  BY DEF IInv, Types, TypeOK, StoreOK, VnOK, IfcsOK, StartOK, PassesOK
<1> QED
  BY <1>1, AgentInvariant, PTL

\* Once the workers run, the interfaces of the fabric are in the agent's tables,
\* through every interleaving of passes, failing calls and restarts; except the
\* remote interfaces that syncPreExistingRemoteIfcs gave to an attachment with a
\* local one.
THEOREM AgentOwnsFabric == Spec => []FabricOwned
<1>1. IInv => FabricOwned
  <2> SUFFICES ASSUME LocalOwned, RemoteOwned, phase = "run"
               PROVE  /\ localIfcs \subseteq {nsnToLocalMainState[k] : k \in Keys}
                      /\ remoteIfcs \ twofold \subseteq {nsnToRemoteIfc[k] : k \in Keys}
    BY DEF IInv, Owned, FabricOwned
  <2>1. ASSUME NEW p \in localIfcs
        PROVE  p \in {nsnToLocalMainState[k] : k \in Keys}
    BY <2>1 DEF LocalOwned
  <2>2. ASSUME NEW r \in remoteIfcs \ twofold
        PROVE  r \in {nsnToRemoteIfc[k] : k \in Keys}
    BY <2>2 DEF RemoteOwned
  <2> QED
    BY <2>1, <2>2
<1> QED
  BY <1>1, AgentInvariant, PTL

-----------------------------------------------------------------------------
(* What the tables hold is in the fabric.                                   *)

\* The interfaces of the tables are in the fabric, each for one attachment, but
\* for the local ones that start-up deleted without a word to the table.
LocalHeld ==
    /\ \A k \in Keys : HasLocalIfc(k) =>
          nsnToLocalMainState[k] \in localIfcs \/ nsnToLocalMainState[k] \in lost
    /\ \A j, k \in Keys : j # k /\ HasLocalIfc(k) /\ nsnToLocalMainState[j] = nsnToLocalMainState[k]
          => nsnToLocalMainState[k] \in lost

RemoteHeld ==
    /\ \A k \in Keys : HasRemoteIfc(k) => nsnToRemoteIfc[k] \in remoteIfcs
    /\ \A j, k \in Keys : j # k /\ HasRemoteIfc(k) => nsnToRemoteIfc[j] # nsnToRemoteIfc[k]

\* The interfaces that start-up has yet to look at are in the fabric and in no table.
TodoHeld ==
    /\ phase = "syncLocal" =>
          todo \subseteq localIfcs /\ \A k \in Keys : nsnToLocalMainState[k] \notin todo
    /\ phase = "syncRemote" =>
          todo \subseteq remoteIfcs /\ \A k \in Keys : nsnToRemoteIfc[k] \notin todo

Losses == twofold = {} => lost = {}

Held == LocalHeld /\ RemoteHeld /\ TodoHeld /\ Losses

LEMMA HeldSame ==
    ASSUME Held, UNCHANGED tables
    PROVE  Held'
<1>1. LocalHeld'
  BY DEF Held, LocalHeld, HasLocalIfc, tables
<1>2. RemoteHeld'
  BY DEF Held, RemoteHeld, HasRemoteIfc, tables
<1>3. TodoHeld' /\ Losses'
  BY DEF Held, TodoHeld, Losses, tables
<1> QED
  BY <1>1, <1>2, <1>3 DEF Held

LEMMA deleteOldLocalIfcHeld ==
    ASSUME Types, Held, NEW k \in Keys, HasLocalIfc(k), deleteOldLocalIfc(k), lost' = lost
    PROVE  LocalHeld'
<1>1. /\ nsnToLocalMainState'[k] = NoPair
      /\ \A m \in Keys \ {k} : nsnToLocalMainState'[m] = nsnToLocalMainState[m]
      /\ localIfcs' = localIfcs \ {nsnToLocalMainState[k]}
  BY DEF deleteOldLocalIfc, unsetLocalAttState, DeleteLocalIfc, Types, IfcsOK
<1> QED
  BY <1>1 DEF Held, LocalHeld, HasLocalIfc

LEMMA deleteOldRemoteIfcHeld ==
    ASSUME Types, Held, NEW k \in Keys, HasRemoteIfc(k), deleteOldRemoteIfc(k)
    PROVE  RemoteHeld'
<1>1. /\ nsnToRemoteIfc'[k] = NoIfc
      /\ \A m \in Keys \ {k} : nsnToRemoteIfc'[m] = nsnToRemoteIfc[m]
      /\ remoteIfcs' = remoteIfcs \ {nsnToRemoteIfc[k]}
  BY DEF deleteOldRemoteIfc, unsetRemoteIfc, assignRemoteIfc, DeleteRemoteIfc, Types, IfcsOK
<1> QED
  BY <1>1 DEF Held, RemoteHeld, HasRemoteIfc

\* A step of a pass that deletes the old interface, or touches none.
LEMMA DeletionHeld ==
    ASSUME Types, Held, phase = "run", UNCHANGED startVars, NEW k \in Keys,
           \/ HasLocalIfc(k) /\ deleteOldLocalIfc(k)
           \/ HasRemoteIfc(k) /\ deleteOldRemoteIfc(k)
           \/ UNCHANGED ifcVars
    PROVE  Held'
<1>1. phase' = phase /\ lost' = lost /\ twofold' = twofold /\ todo' = todo
  BY DEF startVars
<1>2. TodoHeld' /\ Losses'
  BY <1>1 DEF Held, TodoHeld, Losses
<1>3. CASE HasLocalIfc(k) /\ deleteOldLocalIfc(k)
  <2>1. UNCHANGED <<remoteIfcs, nsnToRemoteIfc>>
    BY <1>3 DEF deleteOldLocalIfc, DeleteLocalIfc
  <2>2. RemoteHeld'
    BY <2>1 DEF Held, RemoteHeld, HasRemoteIfc
  <2> QED
    BY <1>1, <1>2, <1>3, <2>2, deleteOldLocalIfcHeld DEF Held
<1>4. CASE HasRemoteIfc(k) /\ deleteOldRemoteIfc(k)
  <2>1. UNCHANGED <<localIfcs, nsnToLocalMainState>>
    BY <1>4 DEF deleteOldRemoteIfc, DeleteRemoteIfc
  <2>2. LocalHeld'
    BY <1>1, <2>1 DEF Held, LocalHeld, HasLocalIfc
  <2> QED
    BY <1>2, <1>4, <2>2, deleteOldRemoteIfcHeld DEF Held
<1>5. CASE UNCHANGED ifcVars
  BY <1>1, <1>5, HeldSame DEF tables, ifcVars, fabricVars
<1> QED
  BY <1>3, <1>4, <1>5

LEMMA createIfcHeld ==
    ASSUME Types, Resting, Owned, Held, NEW k \in Keys, createIfc(k)
    PROVE  Held'
<1> DEFINE att == proc[k].att
           ifc == [pair |-> att.pair, host |-> attHostIP(att)]
<1>1. phase = "run" /\ UNCHANGED startVars /\ proc[k].pc = "create"
  BY DEF Resting, Idle, createIfc
<1>2. phase' = phase /\ lost' = lost /\ twofold' = twofold /\ todo' = todo
  BY <1>1 DEF startVars
<1>3. TodoHeld' /\ Losses'
  BY <1>1, <1>2 DEF Held, TodoHeld, Losses
<1>4. att.pair \in Pairs /\ ifc \in RemoteNetIfc /\ ifc.pair = att.pair
  BY <1>1 DEF Types, PassesOK, PassOK, Usable, RemoteNetIfc
<1> HIDE DEF ifc, att
<1>5. CASE /\ CreateLocalIfc(att.pair) /\ setLocalAttMainState(k, att.pair)
           /\ UNCHANGED nsnToRemoteIfc
  <2>1. /\ att.pair \notin localIfcs /\ localIfcs' = localIfcs \cup {att.pair}
        /\ remoteIfcs' = remoteIfcs /\ nsnToRemoteIfc' = nsnToRemoteIfc
        /\ nsnToLocalMainState'[k] = att.pair
        /\ \A m \in Keys \ {k} : nsnToLocalMainState'[m] = nsnToLocalMainState[m]
    BY <1>5 DEF CreateLocalIfc, InUse, setLocalAttMainState, Types, IfcsOK
  <2>2. LocalHeld'
    <3>1. \A m \in Keys : HasLocalIfc(m)' =>
             nsnToLocalMainState'[m] \in localIfcs' \/ nsnToLocalMainState'[m] \in lost'
      BY <1>2, <2>1 DEF Held, LocalHeld, HasLocalIfc
    <3>2. \A m \in Keys \ {k} : nsnToLocalMainState[m] = att.pair => att.pair \in lost
      BY <1>4, <2>1, ConstantsTyped DEF Held, LocalHeld, HasLocalIfc
    <3> QED
      BY <1>2, <2>1, <3>1, <3>2 DEF Held, LocalHeld, HasLocalIfc
  <2>3. RemoteHeld'
    BY <2>1 DEF Held, RemoteHeld, HasRemoteIfc
  <2> QED
    BY <1>3, <2>2, <2>3 DEF Held
<1>6. CASE CreateRemoteIfc(ifc) /\ assignRemoteIfc(k, ifc) /\ UNCHANGED nsnToLocalMainState
  <2>1. /\ ifc \notin remoteIfcs /\ remoteIfcs' = remoteIfcs \cup {ifc}
        /\ localIfcs' = localIfcs /\ nsnToLocalMainState' = nsnToLocalMainState
        /\ nsnToRemoteIfc'[k] = ifc
        /\ \A m \in Keys \ {k} : nsnToRemoteIfc'[m] = nsnToRemoteIfc[m]
    BY <1>6 DEF CreateRemoteIfc, InUse, assignRemoteIfc, Types, IfcsOK
  <2>2. RemoteHeld'
    <3>1. \A m \in Keys \ {k} : nsnToRemoteIfc[m] # ifc
      BY <1>4, <2>1, ConstantsTyped DEF Held, RemoteHeld, HasRemoteIfc
    <3> QED
      BY <2>1, <3>1 DEF Held, RemoteHeld, HasRemoteIfc
  <2>3. LocalHeld'
    BY <1>2, <2>1 DEF Held, LocalHeld, HasLocalIfc
  <2> QED
    BY <1>3, <2>2, <2>3 DEF Held
<1>7. CASE UNCHANGED ifcVars
  BY <1>1, <1>7, DeletionHeld
<1> QED
  BY <1>5, <1>6, <1>7 DEF createIfc, ifc, att

LEMMA syncPreExistingLocalIfcHeld ==
    ASSUME Types, Owned, Held, syncPreExistingLocalIfc
    PROVE  Held'
<1>1. /\ phase = "syncLocal" /\ phase' = phase /\ twofold' = twofold /\ lost' = lost
      /\ nsnToRemoteIfc' = nsnToRemoteIfc
  BY DEF syncPreExistingLocalIfc
<1>2. \A k \in Keys : ~HasRemoteIfc(k) /\ ~HasRemoteIfc(k)'
  BY <1>1 DEF Owned, OneIfc, HasRemoteIfc
<1>3. RemoteHeld' /\ Losses'
  BY <1>1, <1>2 DEF Held, RemoteHeld, Losses
<1>4. PICK ifc \in todo :
         /\ \/ \E k \in Keys : matchLocalIfc(k, ifc)
            \/ DeleteLocalIfc(ifc) /\ nsnToLocalMainState' = nsnToLocalMainState
         /\ todo' = todo \ {ifc}
  BY DEF syncPreExistingLocalIfc, ifcOwnerAtts
<1>5. /\ todo \subseteq localIfcs /\ todo \subseteq Pairs
      /\ \A k \in Keys : nsnToLocalMainState[k] \notin todo
  BY <1>1 DEF Held, TodoHeld, Types, IfcsOK
<1>6. ASSUME NEW k \in Keys, matchLocalIfc(k, ifc) PROVE LocalHeld' /\ TodoHeld'
  <2>1. /\ nsnToLocalMainState'[k] = ifc
        /\ \A m \in Keys \ {k} : nsnToLocalMainState'[m] = nsnToLocalMainState[m]
    BY <1>6 DEF matchLocalIfc, setLocalAttMainState, Types, IfcsOK
  <2>2. localIfcs' = localIfcs \/ (HasLocalIfc(k) /\ localIfcs' = localIfcs \ {nsnToLocalMainState[k]})
    BY <1>6 DEF matchLocalIfc, DeleteLocalIfc, fabricVars
  <2>3. TodoHeld'
    BY <1>1, <1>4, <1>5, <2>1, <2>2 DEF TodoHeld
  <2>4. \A m \in Keys : HasLocalIfc(m)' =>
           nsnToLocalMainState'[m] \in localIfcs' \/ nsnToLocalMainState'[m] \in lost'
    <3>1. ifc \in localIfcs'
      BY <1>5, <2>2
    <3>2. \A m \in Keys \ {k} : HasLocalIfc(m) =>
             nsnToLocalMainState[m] \in localIfcs' \/ nsnToLocalMainState[m] \in lost
      BY <2>2 DEF Held, LocalHeld
    <3> QED
      BY <1>1, <2>1, <3>1, <3>2 DEF HasLocalIfc
  <2>5. \A m \in Keys : nsnToLocalMainState[m] # ifc
    BY <1>5
  <2>6. LocalHeld'
    BY <1>1, <2>1, <2>4, <2>5 DEF Held, LocalHeld, HasLocalIfc
  <2> QED
    BY <2>3, <2>6
<1>7. CASE DeleteLocalIfc(ifc) /\ nsnToLocalMainState' = nsnToLocalMainState
  <2>1. localIfcs' = localIfcs \ {ifc} /\ \A k \in Keys : nsnToLocalMainState[k] # ifc
    BY <1>5, <1>7 DEF DeleteLocalIfc
  <2>2. LocalHeld'
    BY <1>1, <1>7, <2>1 DEF Held, LocalHeld, HasLocalIfc
  <2>3. TodoHeld'
    BY <1>1, <1>4, <1>5, <1>7, <2>1 DEF TodoHeld
  <2> QED
    BY <1>3, <2>2, <2>3 DEF Held
<1> QED
  BY <1>3, <1>4, <1>6, <1>7 DEF Held

LEMMA syncPreExistingRemoteIfcHeld ==
    ASSUME Types, Held, syncPreExistingRemoteIfc
    PROVE  Held'
<1>1. /\ phase = "syncRemote" /\ phase' = phase
      /\ nsnToLocalMainState' = nsnToLocalMainState
  BY DEF syncPreExistingRemoteIfc
<1>2. PICK ifc \in todo :
         /\ \/ \E k \in Keys : matchRemoteIfc(k, ifc)
            \/ DeleteRemoteIfc(ifc) /\ UNCHANGED <<nsnToRemoteIfc, twofold, lost>>
         /\ todo' = todo \ {ifc}
  BY DEF syncPreExistingRemoteIfc, ifcOwnerAtts
<1>3. todo \subseteq remoteIfcs /\ \A k \in Keys : nsnToRemoteIfc[k] \notin todo
  BY <1>1 DEF Held, TodoHeld
<1>4. ASSUME NEW k \in Keys, matchRemoteIfc(k, ifc) PROVE Held'
  <2>1. /\ nsnToRemoteIfc'[k] = ifc
        /\ \A m \in Keys \ {k} : nsnToRemoteIfc'[m] = nsnToRemoteIfc[m]
    BY <1>4 DEF matchRemoteIfc, assignRemoteIfc, Types, IfcsOK
  <2>2. Losses'
    BY <1>4 DEF Held, Losses, matchRemoteIfc
  <2>3. CASE /\ HasRemoteIfc(k) /\ remoteIfcs' = remoteIfcs \ {nsnToRemoteIfc[k]}
             /\ localIfcs' = localIfcs /\ lost' = lost
    <3>1. TodoHeld'
      BY <1>1, <1>2, <1>3, <2>1, <2>3 DEF TodoHeld
    <3>2. RemoteHeld'
      BY <1>3, <2>1, <2>3 DEF Held, RemoteHeld, HasRemoteIfc
    <3>3. LocalHeld'
      BY <1>1, <2>3 DEF Held, LocalHeld, HasLocalIfc
    <3> QED
      BY <2>2, <3>1, <3>2, <3>3 DEF Held
  <2>4. CASE /\ remoteIfcs' = remoteIfcs
             /\ \/ localIfcs' = localIfcs /\ lost' = lost
                \/ /\ localIfcs' = localIfcs \ {nsnToLocalMainState[k]}
                   /\ lost' = lost \cup {nsnToLocalMainState[k]}
    <3>1. TodoHeld'
      BY <1>1, <1>2, <1>3, <2>1, <2>4 DEF TodoHeld
    <3>2. RemoteHeld'
      BY <1>3, <2>1, <2>4 DEF Held, RemoteHeld, HasRemoteIfc
    <3>3. LocalHeld'
      BY <1>1, <2>4 DEF Held, LocalHeld, HasLocalIfc
    <3> QED
      BY <2>2, <3>1, <3>2, <3>3 DEF Held
  <2> QED
    BY <1>4, <2>3, <2>4 DEF matchRemoteIfc, DeleteRemoteIfc, DeleteLocalIfc, fabricVars
<1>5. CASE DeleteRemoteIfc(ifc) /\ UNCHANGED <<nsnToRemoteIfc, twofold, lost>>
  <2>1. TodoHeld' /\ RemoteHeld'
    BY <1>1, <1>2, <1>3, <1>5 DEF Held, TodoHeld, RemoteHeld, DeleteRemoteIfc, HasRemoteIfc
  <2>2. LocalHeld' /\ Losses'
    BY <1>1, <1>5 DEF Held, LocalHeld, Losses, DeleteRemoteIfc, HasLocalIfc
  <2> QED
    BY <2>1, <2>2 DEF Held
<1> QED
  BY <1>2, <1>4, <1>5

LEMMA PhasesHeld ==
    ASSUME Types, Owned, Held, startRemoteInformers \/ startWorkers
    PROVE  Held'
<1>1. /\ localIfcs' = localIfcs /\ remoteIfcs' = remoteIfcs /\ twofold' = twofold
      /\ nsnToLocalMainState' = nsnToLocalMainState /\ nsnToRemoteIfc' = nsnToRemoteIfc
      /\ lost' = lost
  BY DEF startRemoteInformers, startWorkers, ifcVars, fabricVars
<1>2. LocalHeld' /\ RemoteHeld' /\ Losses'
  BY <1>1 DEF Held, LocalHeld, RemoteHeld, Losses, HasLocalIfc, HasRemoteIfc
<1>3. CASE startRemoteInformers
  <2>1. phase = "syncLocal" /\ phase' = "syncRemote" /\ todo' = remoteIfcs
    BY <1>3 DEF startRemoteInformers
  <2>2. \A r \in remoteIfcs : r # NoIfc
    BY ConstantsTyped DEF Types, IfcsOK
  <2> QED
    BY <1>1, <1>2, <2>1, <2>2 DEF Held, TodoHeld, Owned, OneIfc, HasRemoteIfc
<1>4. CASE startWorkers
  <2>1. phase' = "run"
    BY <1>4 DEF startWorkers
  <2> QED
    BY <1>2, <2>1 DEF Held, TodoHeld
<1> QED
  BY <1>3, <1>4

LEMMA StartsHeld ==
    /\ Init => Held
    /\ Types /\ Crash => Held'
<1>1. ASSUME Init PROVE Held
  <2>1. /\ todo = {} /\ lost = {}
        /\ \A k \in Keys : nsnToRemoteIfc[k] = NoIfc /\ nsnToLocalMainState[k] = NoPair
    BY <1>1 DEF Init, StartAgent
  <2> QED
    BY <2>1 DEF Held, LocalHeld, RemoteHeld, TodoHeld, Losses, HasLocalIfc, HasRemoteIfc
<1>2. ASSUME Types, Crash PROVE Held'
  <2>1. /\ phase' = "syncLocal" /\ todo' = localIfcs /\ localIfcs' = localIfcs /\ lost' = {}
        /\ \A k \in Keys : nsnToRemoteIfc'[k] = NoIfc /\ nsnToLocalMainState'[k] = NoPair
    BY <1>2 DEF Crash, StartAgent, fabricVars
  <2>2. NoPair \notin localIfcs
    BY <1>2, ConstantsTyped DEF Types, IfcsOK
  <2> QED
    BY <2>1, <2>2 DEF Held, LocalHeld, RemoteHeld, TodoHeld, Losses, HasLocalIfc, HasRemoteIfc
<1> QED
  BY <1>1, <1>2

LEMMA StepHeld ==
    ASSUME Types, Resting, Owned, Held, [Next]_vars
    PROVE  Held'
<1>1. CASE InformerNext
  <2>1. UNCHANGED tables
    BY <1>1 DEF InformerNext, onLocalAtt, IndexRemoteAtt, onRemoteAtt, onLateRemoteAtt,
       HandleRemoteNote, EndStoppedInformers, startVars, ifcVars, fabricVars, tables
  <2> QED
    BY <2>1, HeldSame
<1>2. CASE StartNext
  BY <1>2, syncPreExistingLocalIfcHeld, syncPreExistingRemoteIfcHeld, PhasesHeld DEF StartNext
<1>3. ASSUME NEW k \in Keys, Work(k) \/ Fault(k) PROVE Held'
  <2>1. CASE createIfc(k)
    BY <2>1, createIfcHeld
  <2>2. CASE updateIfc(k) \/ processDeletedAtt(k)
    <3>1. phase = "run" /\ UNCHANGED startVars
      BY <2>2 DEF Resting, Idle, updateIfc, processDeletedAtt
    <3> QED
      BY <2>2, <3>1, DeletionHeld DEF updateIfc, processDeletedAtt
  <2>3. CASE \/ processNetworkAttachment(k) \/ getAttachment(k) \/ removeAttFromVNState(k)
             \/ clearVNResources(k) \/ updateVNStateForExistingAtt(k) \/ setAttStatus(k)
             \/ Fault(k)
    <3>1. UNCHANGED tables
      BY <2>3 DEF processNetworkAttachment, getAttachment, removeAttFromVNState,
         clearVNResources, updateVNStateForExistingAtt, setAttStatus, Fault, ifcVars,
         fabricVars, startVars, tables
    <3> QED
      BY <3>1, HeldSame
  <2> QED
    BY <1>3, <2>1, <2>2, <2>3 DEF Work
<1>4. CASE \/ \E c \in commands : RunCommand(c)
           \/ \E k \in Keys : DeleteAtt(k)
           \/ \E k \in Keys, n \in Hosts, p \in Pairs, h \in Hosts \cup {""} :
                 WriteAtt(k, n, p, h)
  <2>1. UNCHANGED tables
    BY <1>4 DEF RunCommand, DeleteAtt, WriteAtt, startVars, ifcVars, fabricVars, tables
  <2> QED
    BY <2>1, HeldSame
<1>5. CASE EnvironmentNext
  BY <1>3, <1>4, <1>5, StartsHeld DEF EnvironmentNext
<1>6. CASE UNCHANGED vars
  BY <1>6, HeldSame DEF vars, tables, ifcVars, fabricVars, startVars
<1> QED
  BY <1>1, <1>2, <1>3, <1>4, <1>5, <1>6 DEF Next

LEMMA HeldInFabric ==
    ASSUME Held, NEW k \in Keys, HasLocalIfc(k) => nsnToLocalMainState[k] \notin lost
    PROVE  InFabric(k)
BY DEF Held, LocalHeld, RemoteHeld, InFabric

\* The interfaces that the agent's tables name are in the fabric, at every moment
\* and not only at rest: no pass deletes an interface that another attachment's
\* entry stands for, and the agent never asks for the deletion of one that is
\* gone, whatever addresses were handed from one attachment to another in the
\* meantime.  The exception are the local interfaces that start-up deleted
\* because a remote one was matched to the same attachment, which the table
\* keeps; without such a match there is none.
THEOREM AgentHoldsInterfaces ==
    Spec => [](\A k \in Keys : /\ nsnToLocalMainState[k] \notin lost => InFabric(k)
                               /\ HasRemoteIfc(k) => nsnToRemoteIfc[k] \in remoteIfcs
                               /\ twofold = {} => InFabric(k))
<1>1. Init => IInv /\ Held
  <2>1. Init => Resting
    BY DEF Init, Resting
  <2> QED
    BY <2>1, InitTypes, InitOwned, StartsHeld DEF IInv
<1>2. (IInv /\ Held) /\ [Next]_vars => (IInv /\ Held)'
  BY StepTypes, StepResting, StepOwned, StepHeld DEF IInv
<1>3. IInv /\ Held =>
         \A k \in Keys : /\ nsnToLocalMainState[k] \notin lost => InFabric(k)
                         /\ HasRemoteIfc(k) => nsnToRemoteIfc[k] \in remoteIfcs
                         /\ twofold = {} => InFabric(k)
  BY HeldInFabric DEF Held, RemoteHeld, Losses
<1> QED
  BY <1>1, <1>2, <1>3, PTL DEF Spec

-----------------------------------------------------------------------------
(* Residents: the inductive invariant.  An attachment that never was on     *)
(* another node is unknown to the remote informers, and the pass over it    *)
(* ends with what the cache shows unless another pass is due.               *)

\* Different guests have different MAC addresses: the agent compares the MACs to
\* find out whether the address of an attachment changed (ifcNeedsUpdate).
DistinctMACs ==
    \A p, q \in Pairs : generateMACAddr(p) = generateMACAddr(q) => p = q

\* The stream s holds news of attachment k.
Tells(s, k) == \E i \in 1 .. Len(s) : s[i].key = k

\* The last event of k in the stream s, or else the cache, shows what there is.
Synced(s, k, cached, present) ==
    /\ ~Tells(s, k) => cached = present
    /\ \A i \in 1 .. Len(s) :
          s[i].key = k /\ (\A j \in 1 .. Len(s) : j > i => s[j].key # k)
             => s[i].obj = present

\* What the watch on local attachments shows of one.
Seen(a) == IF InLocalWatch(a) THEN a ELSE NoAtt

Stays(k) == homes[k] \subseteq {Here}

AtHome(a) == a = NoAtt \/ a.node = Here

\* A vnState whose informer knows nothing of the attachment.
Silent(s, k) == s.cache[k] = NoAtt /\ ~Tells(s.events, k) /\ ~Tells(s.notes, k)

Hushed(k) ==
    /\ AtHome(atts[k])
    /\ \A v \in VNIs : Silent(vniToVnState[v], k) /\ ~Tells(lateNotes[v], k)
    /\ nsnToVNIs[k] = {}

\* A pass p over an attachment whose local interface is that of pair.
PassAtHome(p, pair) ==
    /\ AtHome(p.att)
    /\ p.pc \in {"lookup", "remove"} \/ p.then = "remove" => p.att = NoAtt
    /\ p.pc \in {"depart", "clear"} => p.then \in {"join", "remove"}
    /\ p.pc = "create" => pair = NoPair

\* The interface pair and its report are what the attachment asks for.
Fits(k, att, pair, report) ==
    IF att = NoAtt THEN pair = NoPair
    ELSE pair = att.pair /\ att = WithStatus(k, att, report)

Owed(k) ==
    \/ k \in queue \/ Tells(localAtts.events, k)
    \/ proc[k].pc = "lookup"
    \/ proc[k].pc # "idle" /\ proc[k].att = localAtts.cache[k]
    \/ /\ proc[k].pc = "idle"
       /\ Fits(k, localAtts.cache[k], nsnToLocalMainState[k], nsnToPostCreateExecReport[k])

LocalSynced ==
    \A k \in Keys : Synced(localAtts.events, k, localAtts.cache[k], Seen(atts[k]))

Reported ==
    \A k \in Keys : nsnToLocalMainState[k] = NoPair => nsnToPostCreateExecReport[k] = NoPair

HomesTyped == homes \in [Keys -> SUBSET Hosts]

ResidentsHushed == \A k \in Keys : Stays(k) => Hushed(k)

\* The pass over a resident is in order, and another one is due unless it ends,
\* or ended, with what the cache shows.
Tended(k) ==
    /\ nsnToRemoteIfc[k] = NoIfc
    /\ PassAtHome(proc[k], nsnToLocalMainState[k])
    /\ Owed(k)

ResidentsTended == \A k \in Keys : Stays(k) => Tended(k)

ResInv == HomesTyped /\ LocalSynced /\ Reported /\ ResidentsHushed /\ ResidentsTended

-----------------------------------------------------------------------------
(* Residents: streams.                                                      *)

LEMMA SyncedAppend ==
    ASSUME NEW S, NEW s \in Seq(S), NEW e \in S, NEW k, NEW cached, NEW present,
           Synced(s, k, cached, present)
    PROVE  /\ Tells(Append(s, e), k) <=> Tells(s, k) \/ e.key = k
           /\ Synced(Append(s, e), k, cached, IF e.key = k THEN e.obj ELSE present)
<1> DEFINE t == Append(s, e)
           n == Len(s)
<1>1. n \in Nat /\ Len(t) = n + 1 /\ t[n + 1] = e /\ \A i \in 1 .. n : t[i] = s[i]
  OBVIOUS
<1> HIDE DEF t, n
<1>2. Tells(t, k) <=> Tells(s, k) \/ e.key = k
  BY <1>1 DEF Tells, n
<1>3. CASE e.key = k
  <2>1. Tells(t, k)
    BY <1>2, <1>3
  <2>2. ASSUME NEW i \in 1 .. Len(t), t[i].key = k, \A j \in 1 .. Len(t) : j > i => t[j].key # k
        PROVE  t[i].obj = e.obj
    BY <1>1, <1>3, <2>2
  <2> QED BY <1>2, <1>3, <2>1, <2>2 DEF Synced, t
<1>4. CASE e.key # k
  <2>1. ASSUME NEW i \in 1 .. Len(t), t[i].key = k, \A j \in 1 .. Len(t) : j > i => t[j].key # k
        PROVE  t[i].obj = present
    <3>1. i \in 1 .. n /\ s[i].key = k
      BY <1>1, <1>4, <2>1
    <3>2. \A j \in 1 .. n : j > i => s[j].key # k
      BY <1>1, <2>1
    <3> QED BY <1>1, <3>1, <3>2 DEF Synced, n
  <2> QED BY <1>2, <1>4, <2>1 DEF Synced, t
<1> QED BY <1>3, <1>4

LEMMA SyncedTail ==
    ASSUME NEW S, NEW s \in Seq(S), s # <<>>, NEW k, NEW cached, NEW present,
           Synced(s, k, cached, present)
    PROVE  /\ Tells(s, k) <=> Tells(Tail(s), k) \/ Head(s).key = k
           /\ Synced(Tail(s), k, IF Head(s).key = k THEN Head(s).obj ELSE cached, present)
<1> DEFINE t == Tail(s)
           n == Len(s)
<1>1. n \in Nat \ {0} /\ Len(t) = n - 1 /\ Head(s) = s[1] /\ \A i \in 1 .. n - 1 : t[i] = s[i + 1]
  OBVIOUS
<1> HIDE DEF t, n
<1>2. \A i \in 1 .. n : i = 1 \/ (i - 1 \in 1 .. Len(t) /\ t[i - 1] = s[i])
  BY <1>1
<1>3. Tells(s, k) <=> Tells(t, k) \/ Head(s).key = k
  <2>1. Tells(t, k) => Tells(s, k)
    <3> SUFFICES ASSUME NEW i \in 1 .. Len(t), t[i].key = k PROVE Tells(s, k)
      BY DEF Tells
    <3>1. i + 1 \in 1 .. n /\ s[i + 1].key = k
      BY <1>1
    <3> QED BY <3>1 DEF Tells, n
  <2>2. Head(s).key = k => Tells(s, k)
    BY <1>1 DEF Tells, n
  <2>3. Tells(s, k) => Tells(t, k) \/ Head(s).key = k
    BY <1>1, <1>2 DEF Tells, n
  <2> QED BY <2>1, <2>2, <2>3
<1>4. ASSUME NEW i \in 1 .. Len(t), t[i].key = k, \A j \in 1 .. Len(t) : j > i => t[j].key # k
      PROVE  t[i].obj = present
  <2>1. i + 1 \in 1 .. n /\ s[i + 1] = t[i]
    BY <1>1
  <2>2. ASSUME NEW j \in 1 .. n, j > i + 1 PROVE s[j].key # k
    <3>1. j - 1 \in 1 .. Len(t) /\ t[j - 1] = s[j] /\ j - 1 > i
      BY <1>1, <1>2, <2>2
    <3> QED BY <1>4, <3>1
  <2> QED BY <1>4, <2>1, <2>2 DEF Synced, n
<1>5. ASSUME ~Tells(t, k), Head(s).key = k PROVE Head(s).obj = present
  <2>1. ASSUME NEW j \in 1 .. n, j > 1 PROVE s[j].key # k
    <3>1. j - 1 \in 1 .. Len(t) /\ t[j - 1] = s[j]
      BY <1>1, <1>2, <2>1
    <3> QED BY <1>5, <3>1 DEF Tells
  <2>2. 1 \in 1 .. n /\ s[1].key = k
    BY <1>1, <1>5
  <2> QED BY <1>1, <2>1, <2>2 DEF Synced, n
<1>6. ASSUME ~Tells(t, k), Head(s).key # k PROVE cached = present
  BY <1>3, <1>6 DEF Synced
<1> QED BY <1>3, <1>4, <1>5, <1>6 DEF Synced, t

LEMMA TellsAppend ==
    ASSUME NEW S, NEW s \in Seq(S), NEW e \in S, NEW k
    PROVE  Tells(Append(s, e), k) <=> Tells(s, k) \/ e.key = k
<1> DEFINE t == Append(s, e)
           n == Len(s)
<1>1. n \in Nat /\ Len(t) = n + 1 /\ t[n + 1] = e /\ \A i \in 1 .. n : t[i] = s[i]
  OBVIOUS
<1> HIDE DEF t, n
<1>2. Tells(t, k) <=> Tells(s, k) \/ e.key = k
  BY <1>1 DEF Tells, n
<1> QED
  BY <1>2 DEF t

\* Nothing is told that the whole stream does not tell.
LEMMA TellsTail ==
    ASSUME NEW S, NEW s \in Seq(S), s # <<>>, NEW k, ~Tells(s, k)
    PROVE  Head(s).key # k /\ ~Tells(Tail(s), k)
<1> DEFINE t == Tail(s)
           n == Len(s)
<1>1. n \in Nat \ {0} /\ Len(t) = n - 1 /\ Head(s) = s[1] /\ \A i \in 1 .. n - 1 : t[i] = s[i + 1]
  OBVIOUS
<1> HIDE DEF t, n
<1>2. ASSUME NEW i \in 1 .. Len(t), t[i].key = k PROVE FALSE
  <2>1. i + 1 \in 1 .. n /\ s[i + 1].key = k
    BY <1>1, <1>2
  <2> QED
    BY <2>1 DEF Tells, n
<1>3. Head(s).key # k
  BY <1>1 DEF Tells, n
<1> QED
  BY <1>2, <1>3 DEF Tells, t

LEMMA TellsNothing == \A k : ~Tells(<<>>, k)
<1>1. Len(<<>>) = 0
  OBVIOUS
<1> QED
  BY <1>1 DEF Tells

\* The list of a new informer tells of what it has seen only.
LEMMA ListTells ==
    ASSUME NEW seen \in SUBSET Keys, NEW k, k \notin seen
    PROVE  ~Tells(SetToSeq({[key |-> m, op |-> "added"] : m \in seen}), k)
<1> DEFINE S == {[key |-> m, op |-> "added"] : m \in seen}
<1>1. IsFiniteSet(S)
  <2>1. IsFiniteSet(seen)
    BY AgentAssumption, FS_Subset
  <2> DEFINE f == [m \in seen |-> [key |-> m, op |-> "added"]]
  <2>2. f \in Surjection(seen, S)
    BY DEF Surjection
  <2> QED
    BY <2>1, <2>2, FS_Surjection
<1>2. \A e \in S : e.key \in seen
  OBVIOUS
<1> HIDE DEF S
<1>3. SetToSeq(S) \in [1 .. Cardinality(S) -> S] /\ Cardinality(S) \in Nat
  <2>1. PICK f : f \in Bijection(1 .. Cardinality(S), S)
    BY <1>1, FS_NatBijection, FS_CountingElements, FS_CardinalityType, Zenon DEF ExistsBijection
  <2>2. \E g \in [1 .. Cardinality(S) -> S] : IsInjective(g)
    BY <2>1 DEF Bijection, Injection, Surjection, IsInjective
  <2>3. Cardinality(S) \in Nat
    BY <1>1, FS_CardinalityType
  <2> QED
    BY <2>2, <2>3 DEF SetToSeq
<1>4. Len(SetToSeq(S)) = Cardinality(S)
  BY <1>3
<1>5. ~Tells(SetToSeq(S), k)
  BY <1>2, <1>3, <1>4 DEF Tells
<1> QED
  BY <1>5 DEF S

-----------------------------------------------------------------------------
(* Residents: the remote informers.                                         *)

LEMMA Addressed ==
    ASSUME NEW a, a.pair \in Pairs
    PROVE  a # NoAtt
<1>1. NoAtt.pair = NoPair
  BY DEF NoAtt
<1> QED
  BY <1>1, ConstantsTyped

\* The remote watches do not select what is on the node, the local watch all of
\* it that has an address.
LEMMA WatchesHome ==
    ASSUME NEW a \in NetworkAttachment, AtHome(a)
    PROVE  /\ \A v : ~InRemoteWatch(v, a)
           /\ a.pair \in Pairs => InLocalWatch(a)
<1>1. ASSUME NEW v, InRemoteWatch(v, a) PROVE FALSE
  <2>1. a # NoAtt
    BY <1>1 DEF InRemoteWatch, MatchNetworkAttachment
  <2>2. a.node # Here
    BY <1>1, <2>1, RemoteSelected DEF RemoteObjs
  <2> QED
    BY <2>1, <2>2 DEF AtHome
<1>2. ASSUME a.pair \in Pairs PROVE InLocalWatch(a)
  <2> DEFINE F == SelectableFields(a)
  <2>1. a.pair # NoPair /\ a # NoAtt /\ a.node = Here
    BY <1>2, ConstantsTyped, Addressed DEF AtHome
  <2>2. F.node = Here /\ F.ipv4 = a.pair[2]
    BY <2>1 DEF SelectableFields, IPv4
  <2>3. a.pair[2] # <<>>
    <3>1. PICK x \in Nat, b1, b2, b3, b4 \in Byte : a.pair = <<x, <<b1, b2, b3, b4>>>>
      BY <1>2, PairsAssumption
    <3>2. Len(<<b1, b2, b3, b4>>) = 4 /\ Len(<<>>) = 0
      OBVIOUS
    <3> QED
      BY <3>1, <3>2
  <2>4. Holds(Equals("node", Here), F)
    BY <2>2 DEF Holds, Equals
  <2>5. Holds(Differs("ipv4", <<>>), F)
    BY <2>2, <2>3 DEF Holds, Differs
  <2> QED
    BY <2>1, <2>4, <2>5 DEF InLocalWatch, MatchNetworkAttachment, localAttWithAnIPSelector
<1> QED
  BY <1>1, <1>2

LEMMA EmptySilent == \A k \in Keys : Silent(NoVnState, k)
BY TellsNothing DEF Silent, NoVnState

LEMMA InitSilent ==
    ASSUME StoreOK, NEW v, NEW k \in Keys, AtHome(atts[k])
    PROVE  Silent(initVNState(v), k)
<1> DEFINE seen == {m \in Keys : InRemoteWatch(v, atts[m])}
           cache == [m \in Keys |-> IF m \in seen THEN atts[m] ELSE NoAtt]
           notes == SetToSeq({[key |-> m, op |-> "added"] : m \in seen})
<1>1. k \notin seen
  BY WatchesHome DEF StoreOK
<1>2. cache[k] = NoAtt
  BY <1>1
<1>3. ~Tells(notes, k)
  BY <1>1, ListTells
<1>4. initVNState(v) = [NoVnState EXCEPT !.on = TRUE, !.cache = cache, !.notes = notes]
  BY DEF initVNState
<1> HIDE DEF cache, notes
<1>5. /\ initVNState(v).cache = cache /\ initVNState(v).notes = notes
      /\ initVNState(v).events = <<>>
  BY <1>4 DEF NoVnState
<1> QED
  BY <1>2, <1>3, <1>5, TellsNothing DEF Silent

LEMMA HushedKept ==
    ASSUME NEW k \in Keys, Hushed(k), AtHome(atts'[k]),
           \A v \in VNIs : Silent(vniToVnState[v], k) => Silent(vniToVnState'[v], k),
           \A v \in VNIs : ~Tells(lateNotes[v], k) => ~Tells(lateNotes'[v], k),
           nsnToVNIs'[k] \subseteq nsnToVNIs[k]
    PROVE  Hushed(k)'
<1>1. \A v \in VNIs : Silent(vniToVnState[v], k) /\ ~Tells(lateNotes[v], k)
  BY DEF Hushed
<1>2. \A v \in VNIs : Silent(vniToVnState'[v], k) /\ ~Tells(lateNotes'[v], k)
  BY <1>1
<1>3. nsnToVNIs'[k] = {}
  BY DEF Hushed
<1>4. AtHome(atts[k])'
  BY DEF AtHome
<1>5. (\A v \in VNIs : Silent(vniToVnState[v], k) /\ ~Tells(lateNotes[v], k))'
  BY <1>2 DEF Silent, Tells
<1> QED
  BY <1>3, <1>4, <1>5 DEF Hushed

LEMMA HushedStill ==
    ASSUME NEW k \in Keys, Hushed(k), UNCHANGED <<atts, vnVars>>
    PROVE  Hushed(k)'
BY DEF Hushed, AtHome, Silent, Tells, vnVars

\* One vnState changes.
LEMMA HushedReplaced ==
    ASSUME VnOK, NEW k \in Keys, Hushed(k), atts' = atts, NEW v \in VNIs, NEW s,
           vniToVnState' = [vniToVnState EXCEPT ![v] = s],
           Silent(vniToVnState[v], k) => Silent(s, k),
           \A w \in VNIs : ~Tells(lateNotes[w], k) => ~Tells(lateNotes'[w], k),
           nsnToVNIs'[k] \subseteq nsnToVNIs[k]
    PROVE  Hushed(k)'
<1>1. AtHome(atts'[k])
  BY DEF Hushed
<1>2. \A w \in VNIs : vniToVnState'[w] = IF w = v THEN s ELSE vniToVnState[w]
  BY DEF VnOK
<1>3. \A w \in VNIs : Silent(vniToVnState[w], k) => Silent(vniToVnState'[w], k)
  BY <1>2
<1> QED
  BY <1>1, <1>3, HushedKept

LEMMA ChangeSilent ==
    ASSUME NEW S, NoAtt \in S, NEW events \in Seq([key : Keys, obj : S]),
           NEW m \in Keys, NEW old, NEW new,
           NEW seesOld \in BOOLEAN, NEW seesNew \in BOOLEAN, seesNew => new \in S,
           NEW k, ~Tells(events, k), k = m => ~seesOld /\ ~seesNew
    PROVE  ~Tells(Change(events, m, old, new, seesOld, seesNew), k)
<1>1. CASE ~seesOld /\ ~seesNew
  BY <1>1 DEF Change
<1>2. CASE ~(~seesOld /\ ~seesNew)
  <2> DEFINE obj == IF seesNew THEN new ELSE NoAtt
             e == [key |-> m, obj |-> obj]
             E == [key : Keys, obj : S]
  <2>1. obj \in S
    OBVIOUS
  <2> HIDE DEF obj
  <2>2. e \in E /\ e.key = m /\ events \in Seq(E)
    BY <2>1
  <2>3. Change(events, m, old, new, seesOld, seesNew) = Append(events, e)
    BY <1>2 DEF Change, obj
  <2> HIDE DEF e, E
  <2>4. Tells(Append(events, e), k) <=> Tells(events, k) \/ e.key = k
    BY <2>2, TellsAppend
  <2> QED
    BY <1>2, <2>2, <2>3, <2>4
<1> QED
  BY <1>1, <1>2

LEMMA PutHushed ==
    ASSUME Types, NEW m \in Keys, NEW a \in NetworkAttachment, PutAtt(m, a),
           NEW k \in Keys, Hushed(k), k = m => AtHome(a),
           UNCHANGED <<lateNotes, nsnToVNIs>>
    PROVE  Hushed(k)'
<1>1. atts \in [Keys -> NetworkAttachment] /\ atts' = [atts EXCEPT ![m] = a]
  BY DEF Types, StoreOK, PutAtt
<1>2. AtHome(atts'[k])
  BY <1>1 DEF Hushed
<1>3. ASSUME NEW v \in VNIs, Silent(vniToVnState[v], k)
      PROVE  Silent(vniToVnState'[v], k)
  <2> DEFINE s == vniToVnState[v]
             e == Change(s.events, m, atts[m], a, InRemoteWatch(v, atts[m]), InRemoteWatch(v, a))
  <2>1. s \in VnState /\ s.events \in Seq(RemoteEvents)
    BY VnParts DEF Types, VnOK
  <2>2. k = m => ~InRemoteWatch(v, atts[m]) /\ ~InRemoteWatch(v, a)
    BY <1>1, WatchesHome DEF Hushed
  <2>3. ~Tells(e, k)
    <3>1. ~Tells(s.events, k)
      BY <1>3 DEF Silent
    <3>2. InRemoteWatch(v, atts[m]) \in BOOLEAN /\ InRemoteWatch(v, a) \in BOOLEAN
      BY WatchBoolean
    <3>3. InRemoteWatch(v, a) => a \in RemoteObjs
      BY RemoteSelected
    <3> QED
      BY <2>1, <2>2, <3>1, <3>2, <3>3, ChangeSilent, ConstantsTyped DEF RemoteEvents
  <2>4. vniToVnState'[v] = IF ~s.on THEN s ELSE [s EXCEPT !.events = e]
    BY DEF PutAtt
  <2> HIDE DEF e
  <2>5. [s EXCEPT !.events = e].events = e /\ [s EXCEPT !.events = e].cache = s.cache
        /\ [s EXCEPT !.events = e].notes = s.notes
    BY <2>1 DEF VnState
  <2>6. Silent([s EXCEPT !.events = e], k)
    BY <1>3, <2>3, <2>5 DEF Silent
  <2> QED
    BY <1>3, <2>4, <2>6
<1> QED
  BY <1>2, <1>3, HushedKept

LEMMA IndexRemoteAttHushed ==
    ASSUME Types, NEW v \in VNIs, IndexRemoteAtt(v), NEW k \in Keys, Hushed(k)
    PROVE  Hushed(k)'
<1> DEFINE s == vniToVnState[v]
           e == Head(s.events)
           cache == [s.cache EXCEPT ![e.key] = e.obj]
           notes == IF s.cache[e.key] = NoAtt /\ e.obj = NoAtt THEN s.notes
                    ELSE Append(s.notes, Note(e.key, s.cache[e.key], e.obj))
           t == [s EXCEPT !.cache = cache, !.events = Tail(s.events), !.notes = notes]
<1>1. s \in VnState /\ s.events # <<>> /\ s.events \in Seq(RemoteEvents)
      /\ s.notes \in Seq(Notes) /\ s.cache \in [Keys -> RemoteObjs]
  BY VnParts DEF Types, VnOK, IndexRemoteAtt
<1>2. Silent(s, k)
  BY DEF Hushed
<1>3. e \in RemoteEvents
  BY <1>1, Ends
<1>4. e.key \in Keys
  BY <1>3 DEF RemoteEvents
<1>5. e.key # k /\ ~Tells(Tail(s.events), k)
  BY <1>1, <1>2, TellsTail DEF Silent
<1>6. cache[k] = NoAtt
  BY <1>1, <1>2, <1>5 DEF Silent
<1>7. ~Tells(notes, k)
  <2> DEFINE n == Note(e.key, s.cache[e.key], e.obj)
  <2>1. n \in Notes /\ n.key = e.key
    BY <1>4, NoteTyped DEF Note
  <2> HIDE DEF n
  <2>2. ~Tells(Append(s.notes, n), k)
    BY <1>1, <1>2, <1>5, <2>1, TellsAppend DEF Silent
  <2> QED
    BY <1>2, <2>2 DEF Silent, n
<1>8. vniToVnState' = [vniToVnState EXCEPT ![v] = t]
  <2>1. vniToVnState \in [VNIs -> VnState]
    BY DEF Types, VnOK
  <2> QED
    BY <1>1, <2>1 DEF IndexRemoteAtt, VnState
<1> HIDE DEF cache, notes
<1>9. t.cache = cache /\ t.events = Tail(s.events) /\ t.notes = notes
  BY <1>1 DEF VnState
<1> HIDE DEF t, e, s
<1>10. Silent(t, k)
  BY <1>5, <1>6, <1>7, <1>9 DEF Silent
<1>11. atts' = atts /\ lateNotes' = lateNotes /\ nsnToVNIs' = nsnToVNIs
  BY DEF IndexRemoteAtt, storeVars
<1> QED
  BY <1>8, <1>10, <1>11, HushedReplaced DEF Types

\* The notification of another attachment.
LEMMA NoteHushed ==
    ASSUME VnOK, NEW v \in VNIs, NEW note \in Notes, HandleRemoteNote(v, note),
           NEW k \in Keys, note.key # k
    PROVE  nsnToVNIs'[k] \subseteq nsnToVNIs[k] /\ atts' = atts
<1>1. note.key \in Keys /\ note.op \in {"added", "removed", "updated"}
  BY DEF Notes
<1>2. addVNI(note.key, v)[k] = nsnToVNIs[k]
  BY <1>1 DEF addVNI, VnOK
<1>3. removeSeenInVNI({note.key}, v)[k] \subseteq nsnToVNIs[k]
  BY DEF removeSeenInVNI
<1> QED
  BY <1>1, <1>2, <1>3 DEF HandleRemoteNote, storeVars

LEMMA onRemoteAttHushed ==
    ASSUME Types, NEW v \in VNIs, onRemoteAtt(v), NEW k \in Keys, Hushed(k)
    PROVE  Hushed(k)'
<1> DEFINE s == vniToVnState[v]
           t == [s EXCEPT !.notes = Tail(s.notes)]
<1>1. s \in VnState /\ s.notes # <<>> /\ s.notes \in Seq(Notes)
  BY VnParts DEF Types, VnOK, onRemoteAtt
<1>2. Silent(s, k)
  BY DEF Hushed
<1>3. Head(s.notes) \in Notes
  BY <1>1, Ends
<1>4. Head(s.notes).key # k /\ ~Tells(Tail(s.notes), k)
  BY <1>1, <1>2, TellsTail DEF Silent
<1>5. HandleRemoteNote(v, Head(s.notes)) /\ lateNotes' = lateNotes
      /\ vniToVnState' = [vniToVnState EXCEPT ![v] = t]
  BY DEF onRemoteAtt
<1>6. t.cache = s.cache /\ t.events = s.events /\ t.notes = Tail(s.notes)
  BY <1>1 DEF VnState
<1> HIDE DEF t, s
<1>7. Silent(t, k)
  BY <1>2, <1>4, <1>6 DEF Silent
<1>8. nsnToVNIs'[k] \subseteq nsnToVNIs[k] /\ atts' = atts
  BY <1>3, <1>4, <1>5, NoteHushed DEF Types
<1> QED
  BY <1>5, <1>7, <1>8, HushedReplaced DEF Types

LEMMA onLateRemoteAttHushed ==
    ASSUME Types, NEW v \in VNIs, onLateRemoteAtt(v), NEW k \in Keys, Hushed(k)
    PROVE  Hushed(k)'
<1> DEFINE s == lateNotes[v]
<1>1. s # <<>> /\ s \in Seq(Notes) /\ ~Tells(s, k)
  BY DEF Types, VnOK, onLateRemoteAtt, Hushed
<1>2. Head(s) \in Notes
  BY <1>1, Ends
<1>3. Head(s).key # k /\ ~Tells(Tail(s), k)
  BY <1>1, TellsTail
<1>4. HandleRemoteNote(v, Head(s)) /\ vniToVnState' = vniToVnState
      /\ lateNotes' = [lateNotes EXCEPT ![v] = Tail(s)]
  BY DEF onLateRemoteAtt
<1> HIDE DEF s
<1>5. nsnToVNIs'[k] \subseteq nsnToVNIs[k] /\ atts' = atts
  BY <1>2, <1>3, <1>4, NoteHushed DEF Types
<1>6. \A w \in VNIs : ~Tells(lateNotes[w], k) => ~Tells(lateNotes'[w], k)
  BY <1>3, <1>4 DEF Types, VnOK
<1>7. AtHome(atts'[k])
  BY <1>5 DEF Hushed
<1> QED
  BY <1>4, <1>5, <1>6, <1>7, HushedKept

LEMMA EndStoppedInformersHushed ==
    ASSUME Types, NEW v \in VNIs, EndStoppedInformers(v), NEW k \in Keys, Hushed(k)
    PROVE  Hushed(k)'
<1>1. /\ atts' = atts /\ vniToVnState' = vniToVnState /\ nsnToVNIs' = nsnToVNIs
      /\ lateNotes' = [lateNotes EXCEPT ![v] = <<>>]
  BY DEF EndStoppedInformers, storeVars
<1>2. \A w \in VNIs : ~Tells(lateNotes[w], k) => ~Tells(lateNotes'[w], k)
  BY <1>1, TellsNothing DEF Types, VnOK
<1>3. AtHome(atts'[k])
  BY <1>1 DEF Hushed
<1> QED
  BY <1>1, <1>2, <1>3, HushedKept

\* Members come and go.
LEMMA MembersSilent ==
    ASSUME NEW s \in VnState, NEW l, NEW r, NEW k, Silent(s, k)
    PROVE  Silent([s EXCEPT !.localAtts = l, !.remoteAtts = r], k)
<1> DEFINE t == [s EXCEPT !.localAtts = l, !.remoteAtts = r]
<1>1. t.cache = s.cache /\ t.events = s.events /\ t.notes = s.notes
  BY DEF VnState
<1> HIDE DEF t
<1>2. Silent(t, k)
  BY <1>1 DEF Silent
<1> QED
  BY <1>2 DEF t

LEMMA DropHushed ==
    ASSUME VnOK, NEW v \in VNIs, DropVnState(v), NEW k \in Keys, Hushed(k),
           atts' = atts, nsnToVNIs' = nsnToVNIs
    PROVE  Hushed(k)'
<1>1. ~Tells(vniToVnState[v].notes, k)
  BY DEF Hushed, Silent
<1>2. \A w \in VNIs : ~Tells(lateNotes[w], k) => ~Tells(lateNotes'[w], k)
  BY <1>1 DEF DropVnState, VnOK
<1>3. vniToVnState' = [vniToVnState EXCEPT ![v] = NoVnState]
  BY DEF DropVnState
<1> QED
  BY <1>2, <1>3, EmptySilent, HushedReplaced

LEMMA removeAttFromVNStateHushed ==
    ASSUME Types, NEW m \in Keys, removeAttFromVNState(m), NEW k \in Keys, Hushed(k)
    PROVE  Hushed(k)'
<1> DEFINE v == nsnToVNStateVNI[m]
           s == vniToVnState[v]
<1>1. proc[m].pc = "depart" /\ atts' = atts /\ nsnToVNIs' = nsnToVNIs
  BY DEF removeAttFromVNState, storeVars
<1>2. v \in VNIs
  BY <1>1 DEF Types, PassesOK, PassOK
<1>3. s \in VnState
  BY <1>2 DEF Types, VnOK
<1>4. CASE DropVnState(v)
  BY <1>1, <1>2, <1>4, DropHushed DEF Types
<1>5. CASE /\ vniToVnState' = [vniToVnState EXCEPT ![v].localAtts = @ \ {m},
                                                  ![v].remoteAtts = @ \ {m}]
           /\ lateNotes' = lateNotes
  <2> DEFINE t == [s EXCEPT !.localAtts = s.localAtts \ {m}, !.remoteAtts = s.remoteAtts \ {m}]
  <2>1. vniToVnState' = [vniToVnState EXCEPT ![v] = t]
    <3>1. vniToVnState \in [VNIs -> VnState]
      BY DEF Types, VnOK
    <3> QED
      BY <1>2, <1>3, <1>5, <3>1 DEF VnState
  <2>2. Silent(s, k) => Silent(t, k)
    BY <1>3, MembersSilent
  <2> HIDE DEF t
  <2> QED
    BY <1>1, <1>2, <1>5, <2>1, <2>2, HushedReplaced DEF Types
<1> QED
  BY <1>4, <1>5 DEF removeAttFromVNState

LEMMA clearVNResourcesHushed ==
    ASSUME Types, NEW m \in Keys, clearVNResources(m), NEW k \in Keys, Hushed(k)
    PROVE  Hushed(k)'
<1>1. atts' = atts /\ vniToVnState' = vniToVnState /\ lateNotes' = lateNotes
  BY DEF clearVNResources, storeVars
<1>2. nsnToVNIs'[k] \subseteq nsnToVNIs[k]
  BY DEF clearVNResources, removeSeenInVNI
<1>3. AtHome(atts'[k])
  BY <1>1 DEF Hushed
<1> QED
  BY <1>1, <1>2, <1>3, HushedKept

LEMMA updateVNStateForExistingAttHushed ==
    ASSUME Types, NEW m \in Keys, updateVNStateForExistingAtt(m), NEW k \in Keys, Hushed(k)
    PROVE  Hushed(k)'
<1> DEFINE v == AddressVNI(proc[m].att)
           s == vniToVnState[v]
<1>1. proc[m].pc = "join" /\ atts' = atts
  BY DEF updateVNStateForExistingAtt, storeVars
<1>2. v \in VNIs
  <2>1. proc[m].att.pair \in Pairs
    BY <1>1 DEF Types, PassesOK, PassOK, Usable
  <2> QED
    BY <2>1, AttParts, PassParts DEF Types, PassesOK
<1>3. s \in VnState /\ vniToVnState \in [VNIs -> VnState]
  BY <1>2 DEF Types, VnOK
<1>4. CASE joinLocal(m, v)
  <2> DEFINE u == IF s.on THEN s ELSE initVNState(v)
             t == [u EXCEPT !.localAtts = u.localAtts \cup {m}, !.remoteAtts = u.remoteAtts \ {m}]
  <2>1. vniToVnState' = [vniToVnState EXCEPT ![v] = t]
        /\ lateNotes' = lateNotes /\ nsnToVNIs' = nsnToVNIs
    BY <1>4 DEF joinLocal
  <2>2. u \in VnState
    BY <1>3, InitTyped DEF Types
  <2>3. Silent(s, k) => Silent(u, k)
    BY InitSilent DEF Types, Hushed
  <2> HIDE DEF u
  <2>4. Silent(s, k) => Silent(t, k)
    BY <2>2, <2>3, MembersSilent
  <2> HIDE DEF t
  <2> QED
    BY <1>1, <1>2, <2>1, <2>4, HushedReplaced DEF Types
<1>5. CASE joinRemote(m, v)
  <2> DEFINE t == [s EXCEPT !.localAtts = s.localAtts \ {m}, !.remoteAtts = s.remoteAtts \cup {m}]
  <2>1. vniToVnState' = [vniToVnState EXCEPT ![v] = t]
    BY <1>2, <1>3, <1>5 DEF joinRemote, VnState
  <2>2. lateNotes' = lateNotes /\ nsnToVNIs' = nsnToVNIs
    BY <1>5 DEF joinRemote
  <2>3. Silent(s, k) => Silent(t, k)
    BY <1>3, MembersSilent
  <2> HIDE DEF t
  <2> QED
    BY <1>1, <1>2, <2>1, <2>2, <2>3, HushedReplaced DEF Types
<1>6. CASE leaveLast(m, v)
  BY <1>1, <1>2, <1>6, DropHushed DEF Types, leaveLast
<1>7. CASE joinNothing(m, v)
  <2>1. vniToVnState' = vniToVnState /\ lateNotes' = lateNotes
    BY <1>7 DEF joinNothing
  <2>2. nsnToVNIs'[k] \subseteq nsnToVNIs[k]
    BY <1>7 DEF joinNothing, removeSeenInVNI
  <2>3. AtHome(atts'[k])
    BY <1>1 DEF Hushed
  <2> QED
    BY <2>1, <2>2, <2>3, HushedKept
<1> QED
  BY <1>4, <1>5, <1>6, <1>7 DEF updateVNStateForExistingAtt

LEMMA startRemoteInformersHushed ==
    ASSUME Types, startRemoteInformers, NEW k \in Keys, Hushed(k)
    PROVE  Hushed(k)'
<1>1. atts' = atts /\ lateNotes' = lateNotes /\ nsnToVNIs' = nsnToVNIs
  BY DEF startRemoteInformers, storeVars
<1>2. AtHome(atts[k])
  BY DEF Hushed
<1>3. ASSUME NEW v \in VNIs PROVE Silent(vniToVnState'[v], k)
  <2> DEFINE L == {m \in Keys : AddressVNI(localAtts.cache[m]) = v}
             s == initVNState(v)
             t == [s EXCEPT !.localAtts = L]
  <2>1. vniToVnState'[v] = IF L = {} THEN NoVnState ELSE t
    BY DEF startRemoteInformers
  <2>2. s \in VnState /\ Silent(s, k)
    BY <1>2, InitTyped, InitSilent DEF Types
  <2> HIDE DEF L, s
  <2>3. t.cache = s.cache /\ t.events = s.events /\ t.notes = s.notes
    BY <2>2 DEF VnState
  <2> HIDE DEF t
  <2>4. Silent(t, k)
    BY <2>2, <2>3 DEF Silent
  <2> QED
    BY <2>1, <2>4, EmptySilent
<1> QED
  BY <1>1, <1>2, <1>3, HushedKept

LEMMA CrashHushed ==
    ASSUME Crash, NEW k \in Keys, AtHome(atts[k])
    PROVE  Hushed(k)'
<1>1. /\ atts' = atts /\ vniToVnState' = [v \in VNIs |-> NoVnState]
      /\ lateNotes' = [v \in VNIs |-> <<>>] /\ nsnToVNIs'[k] = {}
  BY DEF Crash
<1>2. \A v \in VNIs : Silent(vniToVnState'[v], k) /\ ~Tells(lateNotes'[v], k)
  BY <1>1, EmptySilent, TellsNothing
<1>3. (\A v \in VNIs : Silent(vniToVnState[v], k) /\ ~Tells(lateNotes[v], k))'
  BY <1>2 DEF Silent, Tells
<1> QED
  BY <1>1, <1>3 DEF Hushed, AtHome

\* Writes of the attachment: by its users, and by the agent itself.
LEMMA WriteAttHushed ==
    ASSUME Types, NEW m \in Keys, NEW node \in Hosts, NEW pair \in Pairs,
           NEW host \in Hosts \cup {""}, WriteAtt(m, node, pair, host),
           NEW k \in Keys, Stays(k)', HomesTyped, Stays(k) => Hushed(k)
    PROVE  Stays(k) /\ Hushed(k)'
<1> DEFINE a == [atts[m] EXCEPT !.node = node, !.pair = pair, !.host = host]
<1>1. atts[m] \in NetworkAttachment
  BY DEF Types, StoreOK
<1>2. a \in NetworkAttachment /\ a.node = node
  BY <1>1 DEF NetworkAttachment
<1>3. homes' = [homes EXCEPT ![m] = homes[m] \cup {node}]
  BY DEF WriteAtt
<1>4. Stays(k)
  BY <1>3 DEF Stays, HomesTyped
<1>5. k = m => node = Here
  BY <1>3 DEF Stays, HomesTyped
<1>6. PutAtt(m, a) /\ lateNotes' = lateNotes /\ nsnToVNIs' = nsnToVNIs
  BY DEF WriteAtt
<1> HIDE DEF a
<1>7. k = m => AtHome(a)
  BY <1>2, <1>5 DEF AtHome
<1>8. Hushed(k)'
  BY <1>2, <1>4, <1>6, <1>7, PutHushed
<1> QED
  BY <1>4, <1>8

LEMMA StatusWritten ==
    ASSUME NEW k \in Keys, NEW a \in NetworkAttachment, a.pair \in Pairs,
           NEW r \in Pairs \cup {NoPair}
    PROVE  /\ WithStatus(k, a, r) \in NetworkAttachment
           /\ WithStatus(k, a, r).node = a.node /\ WithStatus(k, a, r).pair = a.pair
           /\ WithStatus(k, a, r).report = r
BY AgentAssumption DEF WithStatus, NetworkAttachment

LEMMA setAttStatusHushed ==
    ASSUME Types, NEW m \in Keys, setAttStatus(m), NEW k \in Keys, Hushed(k)
    PROVE  Hushed(k)'
<1> DEFINE p == proc[m]
           a == WithStatus(m, p.att, p.report)
<1>1. lateNotes' = lateNotes /\ nsnToVNIs' = nsnToVNIs /\ nsnToVNStateVNI' = nsnToVNStateVNI
  BY DEF setAttStatus
<1>2. p \in Pass /\ p.pc = "status"
  BY DEF Types, PassesOK, setAttStatus
<1>3. p.att.pair \in Pairs
  BY <1>2 DEF Types, PassesOK, PassOK, Usable
<1>4. p.att \in NetworkAttachment /\ p.report \in Pairs \cup {NoPair}
  BY <1>2, PassParts
<1>5. a \in NetworkAttachment /\ a.node = p.att.node
  BY <1>3, <1>4, StatusWritten
<1>6. CASE atts[m] = p.att /\ PutAtt(m, a)
  <2>1. p.att # NoAtt
    BY <1>3, Addressed
  <2> HIDE DEF a, p
  <2>2. k = m => AtHome(a)
    BY <1>5, <1>6, <2>1 DEF Hushed, AtHome
  <2> QED
    BY <1>1, <1>5, <1>6, <2>2, PutHushed
<1>7. CASE UNCHANGED <<atts, localAtts, vniToVnState>>
  BY <1>1, <1>7, HushedStill DEF vnVars
<1> QED
  BY <1>6, <1>7 DEF setAttStatus

LEMMA DeleteAttHushed ==
    ASSUME Types, NEW m \in Keys, DeleteAtt(m), NEW k \in Keys, Hushed(k)
    PROVE  Hushed(k)'
<1>1. AtHome(NoAtt)
  BY DEF AtHome
<1> QED
  BY <1>1, PutHushed, ConstantsTyped DEF DeleteAtt

\* The steps that leave the store and the vnStates alone.
LEMMA VnStill ==
    ASSUME NEW k \in Keys,
           \/ onLocalAtt
           \/ processNetworkAttachment(k) \/ getAttachment(k) \/ updateIfc(k) \/ createIfc(k)
           \/ processDeletedAtt(k) \/ Fault(k)
           \/ \E c \in commands : RunCommand(c)
           \/ syncPreExistingLocalIfc \/ syncPreExistingRemoteIfc \/ startWorkers
           \/ UNCHANGED vars
    PROVE  UNCHANGED <<atts, homes, vnVars>>
<1>1. ASSUME processNetworkAttachment(k) \/ getAttachment(k) \/ updateIfc(k) \/ createIfc(k)
             \/ processDeletedAtt(k) \/ Fault(k)
      PROVE  UNCHANGED <<atts, homes, vnVars>>
  BY <1>1 DEF processNetworkAttachment, getAttachment, updateIfc, createIfc,
              processDeletedAtt, Fault, storeVars
<1>2. ASSUME onLocalAtt \/ (\E c \in commands : RunCommand(c))
      PROVE  UNCHANGED <<atts, homes, vnVars>>
  BY <1>2 DEF onLocalAtt, RunCommand, storeVars
<1>3. ASSUME syncPreExistingLocalIfc \/ syncPreExistingRemoteIfc \/ startWorkers
      PROVE  UNCHANGED <<atts, homes, vnVars>>
  BY <1>3 DEF syncPreExistingLocalIfc, syncPreExistingRemoteIfc, startWorkers, storeVars
<1>4. ASSUME UNCHANGED vars PROVE UNCHANGED <<atts, homes, vnVars>>
  BY <1>4 DEF vars, storeVars
<1> QED
  BY <1>1, <1>2, <1>3, <1>4

\* The steps that change a vnState, a note or the VNIs of a key.
LEMMA HomesStill ==
    ASSUME NEW m \in Keys,
           \/ \E v \in VNIs : \/ IndexRemoteAtt(v) \/ onRemoteAtt(v) \/ onLateRemoteAtt(v)
                              \/ EndStoppedInformers(v)
           \/ removeAttFromVNState(m) \/ clearVNResources(m) \/ updateVNStateForExistingAtt(m)
           \/ setAttStatus(m) \/ DeleteAtt(m) \/ startRemoteInformers \/ Crash
    PROVE  homes' = homes
<1>1. ASSUME NEW v \in VNIs, IndexRemoteAtt(v) \/ onRemoteAtt(v) \/ onLateRemoteAtt(v)
                             \/ EndStoppedInformers(v)
      PROVE  homes' = homes
  BY <1>1 DEF IndexRemoteAtt, onRemoteAtt, onLateRemoteAtt, EndStoppedInformers,
              HandleRemoteNote, storeVars
<1>2. ASSUME removeAttFromVNState(m) \/ clearVNResources(m) \/ updateVNStateForExistingAtt(m)
      PROVE  homes' = homes
  BY <1>2 DEF removeAttFromVNState, clearVNResources, updateVNStateForExistingAtt, storeVars
<1>3. ASSUME setAttStatus(m) \/ DeleteAtt(m) \/ startRemoteInformers \/ Crash
      PROVE  homes' = homes
  BY <1>3 DEF setAttStatus, DeleteAtt, startRemoteInformers, Crash, storeVars
<1> QED
  BY <1>1, <1>2, <1>3

\* A resident stays unknown to the remote informers, and nobody becomes a
\* resident again.
LEMMA StepHushed ==
    ASSUME Types, HomesTyped, ResidentsHushed, [Next]_vars
    PROVE  HomesTyped' /\ ResidentsHushed' /\ \A k \in Keys : Stays(k)' => Stays(k)
<1>1. HomesTyped'
  <2>1. ASSUME NEW m \in Keys, NEW n \in Hosts, NEW p \in Pairs, NEW h \in Hosts \cup {""},
               WriteAtt(m, n, p, h)
        PROVE  HomesTyped'
    BY <2>1 DEF WriteAtt, HomesTyped
  <2>2. ASSUME homes' = homes PROVE HomesTyped'
    BY <2>2 DEF HomesTyped
  <2>3. CASE InformerNext
    BY <2>2, <2>3, HomesStill, VnStill DEF InformerNext, onLocalAtt, IndexRemoteAtt,
       onRemoteAtt, onLateRemoteAtt, EndStoppedInformers, HandleRemoteNote, storeVars
  <2>4. CASE StartNext
    BY <2>2, <2>4 DEF StartNext, syncPreExistingLocalIfc, startRemoteInformers,
       syncPreExistingRemoteIfc, startWorkers, storeVars
  <2>5. ASSUME NEW m \in Keys, Work(m) PROVE HomesTyped'
    BY <2>2, <2>5, HomesStill, VnStill DEF Work
  <2>6. CASE \E c \in commands : RunCommand(c)
    BY <2>2, <2>6 DEF RunCommand, storeVars
  <2>7. CASE EnvironmentNext
    BY <2>1, <2>2, <2>7, HomesStill, VnStill DEF EnvironmentNext, Crash
  <2>8. CASE UNCHANGED vars
    BY <2>2, <2>8 DEF vars, storeVars
  <2> QED
    BY <2>3, <2>4, <2>5, <2>6, <2>7, <2>8 DEF Next
<1>2. ASSUME NEW k \in Keys, Stays(k)' PROVE Stays(k) /\ Hushed(k)'
  <2>1. ASSUME homes' = homes PROVE Stays(k) /\ Hushed(k)
    BY <1>2, <2>1 DEF Stays, ResidentsHushed
  <2>2. ASSUME UNCHANGED <<atts, homes, vnVars>> PROVE Stays(k) /\ Hushed(k)'
    BY <2>1, <2>2, HushedStill
  <2>3. CASE onLocalAtt
    BY <2>2, <2>3, VnStill
  <2>4. ASSUME NEW v \in VNIs, IndexRemoteAtt(v) \/ onRemoteAtt(v) \/ onLateRemoteAtt(v)
                               \/ EndStoppedInformers(v)
        PROVE  Stays(k) /\ Hushed(k)'
    <3>1. homes' = homes
      BY <2>4, HomesStill
    <3> QED
      BY <2>1, <2>4, <3>1, IndexRemoteAttHushed, onRemoteAttHushed, onLateRemoteAttHushed,
         EndStoppedInformersHushed
  <2>5. CASE StartNext
    <3>1. CASE startRemoteInformers
      BY <2>1, <3>1, HomesStill, startRemoteInformersHushed
    <3>2. CASE ~startRemoteInformers
      BY <2>2, <2>5, <3>2, VnStill DEF StartNext
    <3> QED
      BY <3>1, <3>2
  <2>6. ASSUME NEW m \in Keys, Work(m) PROVE Stays(k) /\ Hushed(k)'
    <3>1. CASE removeAttFromVNState(m) \/ clearVNResources(m) \/ updateVNStateForExistingAtt(m)
               \/ setAttStatus(m)
      <4>1. homes' = homes
        BY <3>1, HomesStill
      <4> QED
        BY <2>1, <3>1, <4>1, removeAttFromVNStateHushed, clearVNResourcesHushed,
           updateVNStateForExistingAttHushed, setAttStatusHushed
    <3>2. CASE processNetworkAttachment(m) \/ getAttachment(m) \/ updateIfc(m) \/ createIfc(m)
               \/ processDeletedAtt(m)
      BY <2>2, <3>2, VnStill
    <3> QED
      BY <2>6, <3>1, <3>2 DEF Work
  <2>7. CASE \E c \in commands : RunCommand(c)
    BY <2>2, <2>7, VnStill
  <2>8. CASE EnvironmentNext
    <3>1. ASSUME NEW m \in Keys, NEW n \in Hosts, NEW p \in Pairs, NEW h \in Hosts \cup {""},
                 WriteAtt(m, n, p, h)
          PROVE  Stays(k) /\ Hushed(k)'
      BY <1>2, <3>1, WriteAttHushed DEF ResidentsHushed
    <3>2. ASSUME NEW m \in Keys, DeleteAtt(m) PROVE Stays(k) /\ Hushed(k)'
      BY <2>1, <3>2, HomesStill, DeleteAttHushed
    <3>3. ASSUME Crash PROVE Stays(k) /\ Hushed(k)'
      <4>1. homes' = homes
        BY <3>3 DEF Crash
      <4>2. AtHome(atts[k])
        BY <2>1, <4>1 DEF Hushed
      <4> QED
        BY <2>1, <3>3, <4>1, <4>2, CrashHushed
    <3>4. ASSUME NEW m \in Keys, Fault(m) PROVE Stays(k) /\ Hushed(k)'
      BY <2>2, <3>4, VnStill
    <3> QED
      BY <2>8, <3>1, <3>2, <3>3, <3>4 DEF EnvironmentNext
  <2>9. CASE UNCHANGED vars
    BY <2>2, <2>9, VnStill
  <2> QED
    BY <2>3, <2>4, <2>5, <2>6, <2>7, <2>8, <2>9 DEF Next, InformerNext
<1>3. ResidentsHushed'
  BY <1>2 DEF ResidentsHushed
<1> QED
  BY <1>1, <1>2, <1>3

-----------------------------------------------------------------------------
(* Residents: the informer on local attachments.                            *)

LEMMA LocalParts ==
    ASSUME StoreOK
    PROVE  /\ localAtts.events \in Seq(LocalEvents) /\ localAtts.cache \in [Keys -> LocalObjs]
           /\ atts \in [Keys -> NetworkAttachment]
BY DEF StoreOK, LocalInformer

LEMMA SyncedNow ==
    ASSUME NEW k, NEW a
    PROVE  Synced(<<>>, k, a, a)
<1>1. Len(<<>>) = 0
  OBVIOUS
<1> QED
  BY <1>1 DEF Synced

\* A write leaves the cache alone and tells what it did.
LEMMA PutEvents ==
    ASSUME StoreOK, NEW m \in Keys, NEW a \in NetworkAttachment, PutAtt(m, a)
    PROVE  /\ localAtts'.cache = localAtts.cache
           /\ atts' = [atts EXCEPT ![m] = a]
           /\ \/ /\ localAtts'.events = localAtts.events
                 /\ ~InLocalWatch(atts[m]) /\ ~InLocalWatch(a)
              \/ \E e \in LocalEvents :
                    /\ e.key = m /\ e.obj = Seen(a)
                    /\ localAtts'.events = Append(localAtts.events, e)
<1> DEFINE s == Change(localAtts.events, m, atts[m], a, InLocalWatch(atts[m]), InLocalWatch(a))
           e == [key |-> m, obj |-> Seen(a)]
<1>1. localAtts' = [localAtts EXCEPT !.events = s] /\ atts' = [atts EXCEPT ![m] = a]
  BY DEF PutAtt
<1>2. Seen(a) \in LocalObjs
  BY LocalSelected, ConstantsTyped DEF Seen
<1>3. e \in LocalEvents /\ e.key = m /\ e.obj = Seen(a)
  BY <1>2 DEF LocalEvents
<1>4. \/ s = localAtts.events /\ ~InLocalWatch(atts[m]) /\ ~InLocalWatch(a)
      \/ s = Append(localAtts.events, e)
  BY DEF Change, Seen
<1> HIDE DEF s, e
<1>5. localAtts'.cache = localAtts.cache /\ localAtts'.events = s
  BY <1>1 DEF StoreOK, LocalInformer
<1> QED
  BY <1>1, <1>3, <1>4, <1>5

LEMMA PutSynced ==
    ASSUME StoreOK, LocalSynced, NEW m \in Keys, NEW a \in NetworkAttachment, PutAtt(m, a)
    PROVE  LocalSynced'
<1> SUFFICES ASSUME NEW k \in Keys
             PROVE  Synced(localAtts'.events, k, localAtts'.cache[k], Seen(atts'[k]))
  BY DEF LocalSynced, Synced, Tells, Seen
<1>1. Synced(localAtts.events, k, localAtts.cache[k], Seen(atts[k]))
  BY DEF LocalSynced
<1>2. localAtts'.cache[k] = localAtts.cache[k] /\ atts'[k] = IF k = m THEN a ELSE atts[k]
  BY PutEvents, LocalParts
<1>3. CASE /\ localAtts'.events = localAtts.events
           /\ ~InLocalWatch(atts[m]) /\ ~InLocalWatch(a)
  <2>1. Seen(atts'[k]) = Seen(atts[k])
    BY <1>2, <1>3 DEF Seen
  <2> QED
    BY <1>1, <1>2, <1>3, <2>1
<1>4. ASSUME NEW e \in LocalEvents, e.key = m, e.obj = Seen(a),
             localAtts'.events = Append(localAtts.events, e)
      PROVE  Synced(localAtts'.events, k, localAtts'.cache[k], Seen(atts'[k]))
  <2>1. Synced(Append(localAtts.events, e), k, localAtts.cache[k],
               IF e.key = k THEN e.obj ELSE Seen(atts[k]))
    BY <1>1, LocalParts, SyncedAppend
  <2>2. (IF e.key = k THEN e.obj ELSE Seen(atts[k])) = Seen(atts'[k])
    BY <1>2, <1>4
  <2> QED
    BY <1>2, <1>4, <2>1, <2>2
<1> QED
  BY <1>3, <1>4, PutEvents

LEMMA onLocalAttParts ==
    ASSUME StoreOK, onLocalAtt
    PROVE  /\ localAtts.events # <<>> /\ Head(localAtts.events) \in LocalEvents
           /\ localAtts'.events = Tail(localAtts.events)
           /\ \A k \in Keys : localAtts'.cache[k] =
                 IF Head(localAtts.events).key = k THEN Head(localAtts.events).obj
                 ELSE localAtts.cache[k]
           /\ queue' = queue \cup {Head(localAtts.events).key}
<1>1. Head(localAtts.events) \in LocalEvents
  BY LocalParts, Ends DEF onLocalAtt
<1>2. Head(localAtts.events).key \in Keys
  BY <1>1 DEF LocalEvents
<1> QED
  BY <1>1, <1>2, LocalParts DEF onLocalAtt

LEMMA onLocalAttSynced ==
    ASSUME StoreOK, LocalSynced, onLocalAtt
    PROVE  LocalSynced'
<1> SUFFICES ASSUME NEW k \in Keys
             PROVE  Synced(localAtts'.events, k, localAtts'.cache[k], Seen(atts'[k]))
  BY DEF LocalSynced, Synced, Tells, Seen
<1>1. Synced(localAtts.events, k, localAtts.cache[k], Seen(atts[k])) /\ atts' = atts
  BY DEF LocalSynced, onLocalAtt, storeVars
<1>2. Synced(Tail(localAtts.events), k,
             IF Head(localAtts.events).key = k THEN Head(localAtts.events).obj
             ELSE localAtts.cache[k], Seen(atts[k]))
  BY <1>1, LocalParts, onLocalAttParts, SyncedTail
<1> QED
  BY <1>1, <1>2, onLocalAttParts

LEMMA CrashParts ==
    ASSUME Crash
    PROVE  /\ localAtts'.events = <<>> /\ atts' = atts /\ homes' = homes
           /\ \A k \in Keys :
                 /\ localAtts'.cache[k] = Seen(atts[k])
                 /\ k \in queue' <=> Seen(atts[k]) # NoAtt
                 /\ nsnToLocalMainState'[k] = NoPair /\ nsnToPostCreateExecReport'[k] = NoPair
                 /\ nsnToRemoteIfc'[k] = NoIfc /\ proc'[k] = Idle
<1> DEFINE list == [k \in Keys |-> Seen(atts[k])]
<1>1. StartAgent(atts, localIfcs).localAtts = [cache |-> list, events |-> <<>>]
      /\ StartAgent(atts, localIfcs).queue = {k \in Keys : list[k] # NoAtt}
  BY DEF StartAgent, Seen
<1>2. localAtts' = [cache |-> list, events |-> <<>>] /\ queue' = {k \in Keys : list[k] # NoAtt}
  BY <1>1 DEF Crash
<1>3. \A k \in Keys : list[k] = Seen(atts[k])
  OBVIOUS
<1> HIDE DEF list
<1>4. localAtts'.cache = list /\ localAtts'.events = <<>>
  BY <1>2
<1> QED
  BY <1>2, <1>3, <1>4 DEF Crash

LEMMA CrashSynced ==
    ASSUME Crash
    PROVE  LocalSynced'
<1> SUFFICES ASSUME NEW k \in Keys
             PROVE  Synced(localAtts'.events, k, localAtts'.cache[k], Seen(atts'[k]))
  BY DEF LocalSynced, Synced, Tells, Seen
<1> QED
  BY CrashParts, SyncedNow

\* The steps that neither write nor take an event.
LEMMA LocalStill ==
    ASSUME NEW m \in Keys,
           \/ \E v \in VNIs : \/ IndexRemoteAtt(v) \/ onRemoteAtt(v) \/ onLateRemoteAtt(v)
                              \/ EndStoppedInformers(v)
           \/ processNetworkAttachment(m) \/ getAttachment(m) \/ removeAttFromVNState(m)
           \/ clearVNResources(m) \/ updateVNStateForExistingAtt(m) \/ updateIfc(m)
           \/ createIfc(m) \/ processDeletedAtt(m) \/ Fault(m)
           \/ \E c \in commands : RunCommand(c)
           \/ StartNext \/ UNCHANGED vars
    PROVE  UNCHANGED <<atts, localAtts>>
<1>1. ASSUME NEW v \in VNIs, IndexRemoteAtt(v) \/ onRemoteAtt(v) \/ onLateRemoteAtt(v)
                             \/ EndStoppedInformers(v)
      PROVE  UNCHANGED <<atts, localAtts>>
  BY <1>1 DEF IndexRemoteAtt, onRemoteAtt, onLateRemoteAtt, EndStoppedInformers,
              HandleRemoteNote, storeVars
<1>2. ASSUME processNetworkAttachment(m) \/ getAttachment(m) \/ removeAttFromVNState(m)
             \/ clearVNResources(m) \/ updateVNStateForExistingAtt(m)
      PROVE  UNCHANGED <<atts, localAtts>>
  BY <1>2 DEF processNetworkAttachment, getAttachment, removeAttFromVNState,
              clearVNResources, updateVNStateForExistingAtt, storeVars
<1>3. ASSUME updateIfc(m) \/ createIfc(m) \/ processDeletedAtt(m) \/ Fault(m)
      PROVE  UNCHANGED <<atts, localAtts>>
  BY <1>3 DEF updateIfc, createIfc, processDeletedAtt, Fault, storeVars
<1>4. ASSUME StartNext PROVE UNCHANGED <<atts, localAtts>>
  BY <1>4 DEF StartNext, syncPreExistingLocalIfc, startRemoteInformers,
              syncPreExistingRemoteIfc, startWorkers, storeVars
<1>5. ASSUME (\E c \in commands : RunCommand(c)) \/ UNCHANGED vars
      PROVE  UNCHANGED <<atts, localAtts>>
  BY <1>5 DEF RunCommand, vars, storeVars
<1> QED
  BY <1>1, <1>2, <1>3, <1>4, <1>5

\* The writes of a status and of a user.
LEMMA Puts ==
    ASSUME Types, NEW m \in Keys, NEW n \in Hosts, NEW p \in Pairs, NEW h \in Hosts \cup {""},
           setAttStatus(m) \/ WriteAtt(m, n, p, h) \/ DeleteAtt(m)
    PROVE  \/ UNCHANGED <<atts, localAtts>>
           \/ \E a \in NetworkAttachment : PutAtt(m, a)
<1>1. ASSUME WriteAtt(m, n, p, h) PROVE \E a \in NetworkAttachment : PutAtt(m, a)
  <2> DEFINE a == [atts[m] EXCEPT !.node = n, !.pair = p, !.host = h]
  <2>1. a \in NetworkAttachment
    BY DEF Types, StoreOK, NetworkAttachment
  <2> QED
    BY <1>1, <2>1 DEF WriteAtt
<1>2. ASSUME DeleteAtt(m) PROVE \E a \in NetworkAttachment : PutAtt(m, a)
  BY <1>2, ConstantsTyped DEF DeleteAtt
<1>3. ASSUME setAttStatus(m), ~UNCHANGED <<atts, localAtts>>
      PROVE  \E a \in NetworkAttachment : PutAtt(m, a)
  <2>1. proc[m] \in Pass /\ proc[m].pc = "status"
    BY <1>3 DEF Types, PassesOK, setAttStatus
  <2>2. proc[m].att.pair \in Pairs
    BY <2>1 DEF Types, PassesOK, PassOK, Usable
  <2>3. WithStatus(m, proc[m].att, proc[m].report) \in NetworkAttachment
    BY <2>1, <2>2, PassParts, StatusWritten
  <2> QED
    BY <1>3, <2>3 DEF setAttStatus
<1> QED
  BY <1>1, <1>2, <1>3

LEMMA StepSynced ==
    ASSUME Types, LocalSynced, [Next]_vars
    PROVE  LocalSynced'
<1>1. ASSUME UNCHANGED <<atts, localAtts>> PROVE LocalSynced'
  BY <1>1 DEF LocalSynced, Synced, Tells, Seen
<1>2. ASSUME NEW m \in Keys, NEW a \in NetworkAttachment, PutAtt(m, a) PROVE LocalSynced'
  BY <1>2, PutSynced DEF Types
<1>3. CASE InformerNext
  BY <1>1, <1>3, LocalStill, onLocalAttSynced DEF InformerNext, Types, IndexRemoteAtt,
     onRemoteAtt, onLateRemoteAtt, EndStoppedInformers, HandleRemoteNote, storeVars
<1>4. CASE StartNext
  BY <1>1, <1>4 DEF StartNext, syncPreExistingLocalIfc, startRemoteInformers,
     syncPreExistingRemoteIfc, startWorkers, storeVars
<1>5. ASSUME NEW m \in Keys, Work(m) PROVE LocalSynced'
  <2>1. CASE setAttStatus(m)
    <3>1. Here \in Hosts
      BY ConstantsTyped
    <3>2. proc[m].pc = "status" /\ proc[m].att.pair \in Pairs
      BY <2>1 DEF setAttStatus, Types, PassesOK, PassOK, Usable
    <3> QED
      BY <1>1, <1>2, <2>1, <3>1, <3>2, Puts
  <2>2. CASE ~setAttStatus(m)
    BY <1>1, <1>5, <2>2, LocalStill DEF Work
  <2> QED
    BY <2>1, <2>2
<1>6. CASE \E c \in commands : RunCommand(c)
  BY <1>1, <1>6 DEF RunCommand, storeVars
<1>7. CASE EnvironmentNext
  <2>1. ASSUME NEW m \in Keys, NEW n \in Hosts, NEW p \in Pairs, NEW h \in Hosts \cup {""},
               WriteAtt(m, n, p, h)
        PROVE  LocalSynced'
    BY <1>1, <1>2, <2>1, Puts
  <2>2. ASSUME NEW m \in Keys, DeleteAtt(m) PROVE LocalSynced'
    BY <1>2, <2>2, ConstantsTyped DEF DeleteAtt
  <2>3. ASSUME NEW m \in Keys, Fault(m) PROVE LocalSynced'
    BY <1>1, <2>3, LocalStill
  <2> QED
    BY <1>7, <2>1, <2>2, <2>3, CrashSynced DEF EnvironmentNext
<1>8. CASE UNCHANGED vars
  BY <1>1, <1>8 DEF vars, storeVars
<1> QED
  BY <1>3, <1>4, <1>5, <1>6, <1>7, <1>8 DEF Next

-----------------------------------------------------------------------------
(* Residents: passes.                                                       *)

\* A step that leaves the key alone, or queues it.
LEMMA TendedKept ==
    ASSUME NEW k \in Keys, Tended(k), proc'[k] = proc[k],
           nsnToLocalMainState'[k] = nsnToLocalMainState[k],
           nsnToRemoteIfc'[k] = nsnToRemoteIfc[k],
           k \in queue => k \in queue',
           k \in queue' \/ nsnToPostCreateExecReport'[k] = nsnToPostCreateExecReport[k],
           k \in queue' \/ localAtts'.cache[k] = localAtts.cache[k],
           k \in queue' \/ (Tells(localAtts.events, k) => Tells(localAtts'.events, k))
    PROVE  Tended(k)'
<1>1. PassAtHome(proc[k], nsnToLocalMainState[k])' /\ nsnToRemoteIfc'[k] = NoIfc
  BY DEF Tended, PassAtHome, AtHome
<1>2. Owed(k)'
  <2>1. CASE k \in queue'
    BY <2>1 DEF Owed
  <2>2. CASE k \notin queue'
    <3>1. CASE Tells(localAtts.events, k)
      <4>1. Tells(localAtts'.events, k)
        BY <2>2, <3>1
      <4> QED
        BY <4>1 DEF Owed, Tells
    <3>2. CASE ~Tells(localAtts.events, k)
      BY <2>2, <3>2 DEF Tended, Owed, Fits, WithStatus
    <3> QED
      BY <3>1, <3>2
  <2> QED
    BY <2>1, <2>2
<1> QED
  BY <1>1, <1>2 DEF Tended

\* The pass over the key itself goes on as q.
LEMMA TendedMade ==
    ASSUME NEW k \in Keys, NEW q, proc'[k] = q, nsnToRemoteIfc'[k] = NoIfc,
           PassAtHome(q, nsnToLocalMainState'[k]),
           \/ k \in queue' \/ Tells(localAtts'.events, k) \/ q.pc = "lookup"
           \/ q.pc # "idle" /\ q.att = localAtts'.cache[k]
           \/ /\ q.pc = "idle"
              /\ Fits(k, localAtts'.cache[k], nsnToLocalMainState'[k],
                      nsnToPostCreateExecReport'[k])
    PROVE  Tended(k)'
<1>1. PassAtHome(proc[k], nsnToLocalMainState[k])'
  BY DEF PassAtHome, AtHome
<1>2. Owed(k)'
  BY DEF Owed, Fits, WithStatus, Tells
<1> QED
  BY <1>1, <1>2 DEF Tended

LEMMA IdleParts ==
    /\ Idle.pc = "idle" /\ Idle.att = NoAtt /\ Idle.then = "idle"
    /\ \A pair : PassAtHome(Idle, pair)
BY DEF Idle, PassAtHome, AtHome

LEMMA GoOnParts ==
    ASSUME NEW p \in Pass, NEW pc, pc # "idle"
    PROVE  GoOn(p, pc).pc = pc /\ GoOn(p, pc).att = p.att /\ GoOn(p, pc).then = "idle"
BY DEF GoOn, Pass

LEMMA RetryTended ==
    ASSUME Types, NEW k \in Keys, Retry(k), nsnToRemoteIfc'[k] = NoIfc
    PROVE  Tended(k)'
<1>1. proc'[k] = Idle /\ k \in queue'
  BY DEF Retry, Types, PassesOK
<1> QED
  BY <1>1, IdleParts, TendedMade

LEMMA processNetworkAttachmentTended ==
    ASSUME Types, NEW k \in Keys, processNetworkAttachment(k), Tended(k), Hushed(k)
    PROVE  Tended(k)'
<1> DEFINE q == [Idle EXCEPT !.pc = "lookup",
                             !.att = getRemoteAttListerForVNI(getAttSeenInVNI(k))[k]]
<1>1. nsnToVNIs[k] = {} /\ Cardinality({}) = 0
  BY FS_EmptySet DEF Hushed
<1>2. getAttSeenInVNI(k) = NoVNI
  BY <1>1 DEF getAttSeenInVNI
<1>3. getRemoteAttListerForVNI(getAttSeenInVNI(k))[k] = NoAtt
  BY <1>2 DEF getRemoteAttListerForVNI
<1>4. proc'[k] = q
  BY <1>1 DEF processNetworkAttachment, Types, PassesOK
<1>5. q.pc = "lookup" /\ q.att = NoAtt /\ q.then = "idle"
  BY <1>3 DEF Idle
<1> HIDE DEF q
<1>6. nsnToRemoteIfc'[k] = NoIfc
  BY DEF processNetworkAttachment, ifcVars, Tended
<1>7. PassAtHome(q, nsnToLocalMainState'[k])
  BY <1>5 DEF PassAtHome, AtHome
<1> QED
  BY <1>4, <1>5, <1>6, <1>7, TendedMade

LEMMA getAttachmentTended ==
    ASSUME Types, NEW k \in Keys, getAttachment(k), Tended(k)
    PROVE  Tended(k)'
<1> DEFINE att == localAtts.cache[k]
           next == IF att = NoAtt THEN "remove" ELSE "join"
           q1 == [Idle EXCEPT !.pc = "depart", !.att = att, !.then = next]
           q2 == [Idle EXCEPT !.pc = next, !.att = att]
<1>1. proc[k].pc = "lookup"
  BY DEF getAttachment
<1>2. proc[k].att = NoAtt
  BY <1>1 DEF Tended, PassAtHome
<1>3. att \in LocalObjs
  BY LocalParts DEF Types
<1>4. AtHome(att)
  BY <1>3 DEF LocalObjs, AtHome
<1>5. proc'[k] = q1 \/ proc'[k] = q2
  <2>1. proc' = [proc EXCEPT ![k] = q1] \/ proc' = [proc EXCEPT ![k] = q2]
    <3> DEFINE attAsRemote == proc[k].att
               deleted == (attAsRemote = NoAtt) = (att = NoAtt)
               found == CASE deleted -> NoAtt
                          [] ~deleted /\ att # NoAtt -> att
                          [] OTHER -> attAsRemote
               goal == IF deleted THEN "remove" ELSE "join"
               moved == nsnToVNStateVNI[k] \notin {NoVNI, AddressVNI(found)}
    <3>1. proc' = [proc EXCEPT ![k] =
             IF moved THEN [Idle EXCEPT !.pc = "depart", !.att = found, !.then = goal]
             ELSE [Idle EXCEPT !.pc = goal, !.att = found]]
      BY DEF getAttachment, Continue
    <3>2. deleted <=> att = NoAtt
      BY <1>2
    <3>3. found = att
      BY <1>2, <3>2
    <3>4. goal = next
      BY <3>2
    <3> HIDE DEF found, goal, moved
    <3> QED
      BY <3>1, <3>3, <3>4
  <2> QED
    BY <2>1 DEF Types, PassesOK
<1>6. /\ q1.pc = "depart" /\ q1.att = att /\ q1.then = next
      /\ q2.pc = next /\ q2.att = att /\ q2.then = "idle"
  BY DEF Idle
<1>7. next \in {"remove", "join"} /\ (next = "remove" => att = NoAtt)
  OBVIOUS
<1>8. localAtts' = localAtts /\ nsnToRemoteIfc'[k] = NoIfc
  BY DEF getAttachment, ifcVars, Tended
<1> HIDE DEF q1, q2, next
<1>9. PassAtHome(q1, nsnToLocalMainState'[k]) /\ PassAtHome(q2, nsnToLocalMainState'[k])
  BY <1>4, <1>6, <1>7 DEF PassAtHome
<1>10. CASE proc'[k] = q1
  <2>1. q1.pc # "idle" /\ q1.att = localAtts'.cache[k]
    BY <1>6, <1>8
  <2> QED
    BY <1>8, <1>9, <1>10, <2>1, TendedMade
<1>11. CASE proc'[k] = q2
  <2>1. q2.pc # "idle" /\ q2.att = localAtts'.cache[k]
    BY <1>6, <1>7, <1>8
  <2> QED
    BY <1>8, <1>9, <1>11, <2>1, TendedMade
<1> QED
  BY <1>5, <1>10, <1>11

\* A pass that goes on with its attachment.
LEMMA TendedOn ==
    ASSUME NEW k \in Keys, Tended(k), proc[k].pc \notin {"idle", "lookup"},
           NEW q, proc'[k] = q, q.pc # "idle", q.att = proc[k].att,
           localAtts' = localAtts, nsnToRemoteIfc'[k] = NoIfc,
           PassAtHome(q, nsnToLocalMainState'[k]), k \in queue => k \in queue'
    PROVE  Tended(k)'
<1>1. \/ k \in queue' \/ Tells(localAtts'.events, k)
      \/ q.pc # "idle" /\ q.att = localAtts'.cache[k]
  BY DEF Tended, Owed
<1> QED
  BY <1>1, TendedMade

LEMMA LeavingTended ==
    ASSUME Types, NEW k \in Keys, removeAttFromVNState(k) \/ clearVNResources(k), Tended(k)
    PROVE  Tended(k)'
<1> DEFINE p == proc[k]
<1>1. p \in Pass /\ p.pc \in {"depart", "clear"}
  BY DEF Types, PassesOK, removeAttFromVNState, clearVNResources
<1>2. AtHome(p.att) /\ p.then \in {"join", "remove"} /\ (p.then = "remove" => p.att = NoAtt)
  BY <1>1 DEF Tended, PassAtHome
<1>3. localAtts' = localAtts /\ nsnToRemoteIfc'[k] = NoIfc
  BY DEF removeAttFromVNState, clearVNResources, ifcVars, Tended
<1>4. k \in queue => k \in queue'
  BY DEF removeAttFromVNState, clearVNResources, Continue
<1>5. \/ proc' = [proc EXCEPT ![k] = GoOn(p, p.then)]
      \/ \E v, names : proc' = [proc EXCEPT ![k] = Clearing(p, v, names, p.then)]
  BY DEF removeAttFromVNState, clearVNResources, Continue
<1>6. CASE proc' = [proc EXCEPT ![k] = GoOn(p, p.then)]
  <2> DEFINE q == GoOn(p, p.then)
  <2>1. proc'[k] = q
    BY <1>6 DEF Types, PassesOK
  <2>2. q.pc = p.then /\ q.att = p.att /\ q.then = "idle"
    BY <1>1, <1>2, GoOnParts
  <2> HIDE DEF q
  <2>3. PassAtHome(q, nsnToLocalMainState'[k])
    BY <1>2, <2>2 DEF PassAtHome
  <2> QED
    BY <1>1, <1>2, <1>3, <1>4, <2>1, <2>2, <2>3, TendedOn
<1>7. ASSUME NEW v, NEW names, proc' = [proc EXCEPT ![k] = Clearing(p, v, names, p.then)]
      PROVE  Tended(k)'
  <2> DEFINE q == Clearing(p, v, names, p.then)
  <2>1. proc'[k] = q
    BY <1>7 DEF Types, PassesOK
  <2>2. q.pc = "clear" /\ q.att = p.att /\ q.then = p.then
    BY <1>1 DEF Clearing, Pass
  <2> HIDE DEF q
  <2>3. PassAtHome(q, nsnToLocalMainState'[k])
    BY <1>2, <2>2 DEF PassAtHome
  <2> QED
    BY <1>1, <1>3, <1>4, <2>1, <2>2, <2>3, TendedOn
<1> QED
  BY <1>5, <1>6, <1>7

\* Where a pass needs an attachment it has one, on this node.
LEMMA HomeInPass ==
    ASSUME Types, NEW k \in Keys, Tended(k),
           proc[k].pc \in {"join", "update", "create", "status"}
    PROVE  /\ proc[k] \in Pass /\ proc[k].att \in NetworkAttachment
           /\ proc[k].att.pair \in Pairs /\ proc[k].att # NoAtt /\ proc[k].att.node = Here
           /\ attHostIP(proc[k].att) = Here /\ proc[k].then # "remove"
<1>1. proc[k] \in Pass /\ proc[k].att.pair \in Pairs
  BY DEF Types, PassesOK, PassOK, Usable
<1>2. proc[k].att # NoAtt
  BY <1>1, Addressed
<1> QED
  BY <1>1, <1>2, PassParts DEF Tended, PassAtHome, AtHome, attHostIP

LEMMA updateVNStateForExistingAttTended ==
    ASSUME Types, NEW k \in Keys, updateVNStateForExistingAtt(k), Tended(k)
    PROVE  Tended(k)'
<1> DEFINE p == proc[k]
           q == GoOn(p, "update")
<1>1. p.pc = "join" /\ p \in Pass /\ p.att.node = Here
  BY HomeInPass DEF updateVNStateForExistingAtt
<1>2. proc' = [proc EXCEPT ![k] = q] /\ queue' = queue
  BY <1>1 DEF updateVNStateForExistingAtt, joinLocal, Continue
<1>3. proc'[k] = q
  BY <1>2 DEF Types, PassesOK
<1>4. q.pc = "update" /\ q.att = p.att /\ q.then = "idle"
  BY <1>1, GoOnParts
<1> HIDE DEF q
<1>5. localAtts' = localAtts /\ nsnToRemoteIfc'[k] = NoIfc
  BY DEF updateVNStateForExistingAtt, ifcVars, Tended
<1>6. PassAtHome(q, nsnToLocalMainState'[k])
  BY <1>1, <1>4 DEF PassAtHome, AtHome
<1> QED
  BY <1>1, <1>2, <1>3, <1>4, <1>5, <1>6, TendedOn

\* The interface is in place: the pass ends if the status says so.
LEMMA DoneTended ==
    ASSUME Types, NEW k \in Keys, Tended(k), proc[k].pc \in {"update", "create"},
           NEW report, proc' = [proc EXCEPT ![k] = IfcDone(k, proc[k], report)],
           localAtts' = localAtts, nsnToRemoteIfc'[k] = NoIfc, queue' = queue,
           nsnToLocalMainState'[k] = proc[k].att.pair,
           nsnToPostCreateExecReport'[k] = report
    PROVE  Tended(k)'
<1> DEFINE p == proc[k]
           q == [p EXCEPT !.pc = "status", !.report = report]
<1>1. /\ p \in Pass /\ p.att.pair \in Pairs /\ p.att # NoAtt /\ p.att.node = Here
      /\ p.then # "remove"
  BY HomeInPass
<1>2. CASE WithStatus(k, p.att, report) = p.att
  <2>1. proc'[k] = Idle
    BY <1>2 DEF IfcDone, Types, PassesOK
  <2>2. CASE k \in queue \/ Tells(localAtts.events, k)
    BY <2>1, <2>2, IdleParts, TendedMade
  <2>3. CASE p.att = localAtts.cache[k]
    <3>1. Fits(k, localAtts'.cache[k], nsnToLocalMainState'[k], nsnToPostCreateExecReport'[k])
      BY <1>1, <1>2, <2>3 DEF Fits
    <3> QED
      BY <2>1, <3>1, IdleParts, TendedMade
  <2> QED
    BY <2>2, <2>3 DEF Tended, Owed
<1>3. CASE WithStatus(k, p.att, report) # p.att
  <2>1. proc'[k] = q
    BY <1>1, <1>3 DEF IfcDone, Types, PassesOK
  <2>2. q.pc = "status" /\ q.att = p.att /\ q.then = p.then
    BY <1>1 DEF Pass
  <2> HIDE DEF q
  <2>3. PassAtHome(q, nsnToLocalMainState'[k])
    BY <1>1, <2>2 DEF PassAtHome, AtHome
  <2> QED
    BY <2>1, <2>2, <2>3, TendedOn
<1> QED
  BY <1>2, <1>3

\* An interface that needs no update has the MAC of the attachment, and so its
\* address.
LEMMA updateIfcTended ==
    ASSUME DistinctMACs, Types, NEW k \in Keys, updateIfc(k), Tended(k)
    PROVE  Tended(k)'
<1> DEFINE p == proc[k]
           q == GoOn(p, "create")
           need == newIfcNeedsToBeCreated(k, p.att)
<1>1. /\ p.pc = "update" /\ p \in Pass /\ p.att.pair \in Pairs /\ p.att.node = Here
      /\ attHostIP(p.att) = Here
  BY HomeInPass DEF updateIfc
<1>2. localAtts' = localAtts /\ queue' = queue
  BY DEF updateIfc, Continue
<1>3. ~HasRemoteIfc(k)
  BY DEF Tended, HasRemoteIfc
<1>4. q.pc = "create" /\ q.att = p.att /\ q.then = "idle"
  BY <1>1, GoOnParts
<1>5. ASSUME proc' = [proc EXCEPT ![k] = q], nsnToLocalMainState'[k] = NoPair,
             nsnToRemoteIfc' = nsnToRemoteIfc
      PROVE  Tended(k)'
  <2>1. proc'[k] = q /\ nsnToRemoteIfc'[k] = NoIfc
    BY <1>5 DEF Types, PassesOK, Tended
  <2> HIDE DEF q
  <2>2. PassAtHome(q, nsnToLocalMainState'[k])
    BY <1>1, <1>4, <1>5 DEF PassAtHome, AtHome
  <2> QED
    BY <1>1, <1>2, <1>4, <2>1, <2>2, TendedOn
<1>6. CASE need /\ HasLocalIfc(k) /\ deleteOldLocalIfc(k) /\ Continue(k, q)
  <2>1. nsnToLocalMainState'[k] = NoPair /\ nsnToRemoteIfc' = nsnToRemoteIfc
    BY <1>6 DEF deleteOldLocalIfc, unsetLocalAttState, Types, IfcsOK
  <2> QED
    BY <1>5, <1>6, <2>1 DEF Continue
<1>7. CASE need /\ ~HasLocalIfc(k) /\ ~HasRemoteIfc(k) /\ Continue(k, q) /\ UNCHANGED ifcVars
  BY <1>5, <1>7 DEF Continue, HasLocalIfc, ifcVars
<1>8. CASE /\ ~need /\ Continue(k, IfcDone(k, p, nsnToPostCreateExecReport[k]))
           /\ UNCHANGED ifcVars
  <2>1. HasLocalIfc(k) /\ ~ifcNeedsUpdate(Here, nsnToLocalMainState[k], attHostIP(p.att), p.att.pair)
    BY <1>3, <1>8 DEF newIfcNeedsToBeCreated
  <2>2. nsnToLocalMainState[k] \in Pairs
    BY <2>1 DEF HasLocalIfc, Types, IfcsOK
  <2>3. generateMACAddr(nsnToLocalMainState[k]) = generateMACAddr(p.att.pair)
    BY <2>1 DEF ifcNeedsUpdate
  <2>4. nsnToLocalMainState[k] = p.att.pair
    BY <1>1, <2>2, <2>3 DEF DistinctMACs
  <2>5. /\ nsnToLocalMainState'[k] = p.att.pair /\ nsnToRemoteIfc'[k] = NoIfc
        /\ nsnToPostCreateExecReport'[k] = nsnToPostCreateExecReport[k]
        /\ proc' = [proc EXCEPT ![k] = IfcDone(k, p, nsnToPostCreateExecReport[k])]
    BY <1>8, <2>4 DEF ifcVars, Tended, Continue
  <2> QED
    BY <1>1, <1>2, <2>5, DoneTended
<1> QED
  BY <1>3, <1>6, <1>7, <1>8 DEF updateIfc

LEMMA createIfcTended ==
    ASSUME Types, NEW k \in Keys, createIfc(k), Tended(k), Reported
    PROVE  Tended(k)'
<1> DEFINE p == proc[k]
<1>1. /\ p.pc = "create" /\ p \in Pass /\ p.att.pair \in Pairs /\ p.att.node = Here
      /\ attHostIP(p.att) = Here
  BY HomeInPass DEF createIfc
<1>2. nsnToLocalMainState[k] = NoPair /\ nsnToRemoteIfc[k] = NoIfc
  BY <1>1 DEF Tended, PassAtHome
<1>3. nsnToPostCreateExecReport[k] = NoPair
  BY <1>2 DEF Reported
<1>4. localAtts' = localAtts
  BY DEF createIfc
<1>5. CASE /\ setLocalAttMainState(k, p.att.pair) /\ Continue(k, IfcDone(k, p, NoPair))
           /\ UNCHANGED <<nsnToRemoteIfc, nsnToPostCreateExecReport>>
  <2>1. /\ nsnToLocalMainState'[k] = p.att.pair /\ nsnToRemoteIfc'[k] = NoIfc
        /\ nsnToPostCreateExecReport'[k] = NoPair /\ queue' = queue
        /\ proc' = [proc EXCEPT ![k] = IfcDone(k, p, NoPair)]
    BY <1>2, <1>3, <1>5 DEF setLocalAttMainState, Continue, Types, IfcsOK
  <2> QED
    BY <1>1, <1>4, <2>1, DoneTended
<1>6. CASE Retry(k) /\ UNCHANGED ifcVars
  <2>1. nsnToRemoteIfc'[k] = NoIfc
    BY <1>2, <1>6 DEF ifcVars
  <2> QED
    BY <1>6, <2>1, RetryTended
<1> QED
  BY <1>1, <1>5, <1>6 DEF createIfc

\* The status is written and comes back as an event.
LEMMA setAttStatusTended ==
    ASSUME Types, NEW k \in Keys, setAttStatus(k), Tended(k), Hushed(k)
    PROVE  Tended(k)'
<1> DEFINE p == proc[k]
           a == WithStatus(k, p.att, p.report)
<1>1. /\ p.pc = "status" /\ p \in Pass /\ p.att.pair \in Pairs /\ p.att.node = Here
      /\ p.att \in NetworkAttachment
  BY HomeInPass DEF setAttStatus
<1>2. nsnToRemoteIfc'[k] = NoIfc
  BY DEF setAttStatus, ifcVars, Tended
<1>3. CASE atts[k] = p.att /\ PutAtt(k, a) /\ Continue(k, Idle)
  <2>1. a \in NetworkAttachment
    BY <1>1, PassParts, StatusWritten
  <2>2. InLocalWatch(atts[k])
    BY <1>1, <1>3, WatchesHome DEF AtHome
  <2> HIDE DEF a
  <2>3. PICK e \in LocalEvents : e.key = k /\ localAtts'.events = Append(localAtts.events, e)
    BY <1>3, <2>1, <2>2, PutEvents DEF Types
  <2>4. Tells(Append(localAtts.events, e), k) <=> Tells(localAtts.events, k) \/ e.key = k
    BY LocalParts, TellsAppend DEF Types
  <2>5. Tells(localAtts'.events, k)
    BY <2>3, <2>4
  <2>6. proc'[k] = Idle
    BY <1>3 DEF Continue, Types, PassesOK
  <2> QED
    BY <1>2, <2>5, <2>6, IdleParts, TendedMade
<1>4. CASE Retry(k)
  BY <1>2, <1>4, RetryTended
<1> QED
  BY <1>3, <1>4 DEF setAttStatus

LEMMA processDeletedAttTended ==
    ASSUME Types, NEW k \in Keys, processDeletedAtt(k), Tended(k)
    PROVE  Tended(k)'
<1>1. proc[k].pc = "remove" /\ localAtts' = localAtts /\ queue' = queue
  BY DEF processDeletedAtt, Continue
<1>2. proc'[k] = Idle
  BY DEF processDeletedAtt, Continue, Types, PassesOK
<1>3. proc[k].att = NoAtt
  BY <1>1 DEF Tended, PassAtHome
<1>4. ~HasRemoteIfc(k)
  BY DEF Tended, HasRemoteIfc
<1>5. nsnToLocalMainState'[k] = NoPair /\ nsnToRemoteIfc'[k] = NoIfc
  <2>1. CASE HasLocalIfc(k) /\ deleteOldLocalIfc(k)
    BY <2>1 DEF deleteOldLocalIfc, unsetLocalAttState, Types, IfcsOK, Tended
  <2>2. CASE ~HasLocalIfc(k) /\ UNCHANGED ifcVars
    BY <2>2 DEF HasLocalIfc, ifcVars, Tended
  <2> QED
    BY <1>4, <2>1, <2>2 DEF processDeletedAtt
<1>6. CASE k \in queue \/ Tells(localAtts.events, k)
  BY <1>1, <1>2, <1>5, <1>6, IdleParts, TendedMade
<1>7. CASE localAtts.cache[k] = NoAtt
  <2>1. Fits(k, localAtts'.cache[k], nsnToLocalMainState'[k], nsnToPostCreateExecReport'[k])
    BY <1>1, <1>5, <1>7 DEF Fits
  <2> QED
    BY <1>2, <1>5, <2>1, IdleParts, TendedMade
<1> QED
  BY <1>1, <1>3, <1>6, <1>7 DEF Tended, Owed

\* What a pass over m does to another key.
KeyStill(k) ==
    /\ proc'[k] = proc[k] /\ (k \in queue => k \in queue')
    /\ nsnToLocalMainState'[k] = nsnToLocalMainState[k]
    /\ nsnToPostCreateExecReport'[k] = nsnToPostCreateExecReport[k]
    /\ nsnToRemoteIfc'[k] = nsnToRemoteIfc[k]

LEMMA OtherKeys ==
    ASSUME Types, NEW m \in Keys, NEW k \in Keys, k # m, Work(m) \/ Fault(m)
    PROVE  KeyStill(k)
<1>1. ASSUME NEW q, Continue(m, q) PROVE proc'[k] = proc[k] /\ (k \in queue => k \in queue')
  BY <1>1 DEF Continue, Types, PassesOK
<1>2. ASSUME Retry(m) PROVE proc'[k] = proc[k] /\ (k \in queue => k \in queue')
  BY <1>2 DEF Retry, Types, PassesOK
<1>3. ASSUME UNCHANGED ifcVars
      PROVE  /\ nsnToLocalMainState'[k] = nsnToLocalMainState[k]
             /\ nsnToPostCreateExecReport'[k] = nsnToPostCreateExecReport[k]
             /\ nsnToRemoteIfc'[k] = nsnToRemoteIfc[k]
  BY <1>3 DEF ifcVars
<1>4. ASSUME deleteOldLocalIfc(m) \/ deleteOldRemoteIfc(m)
      PROVE  /\ nsnToLocalMainState'[k] = nsnToLocalMainState[k]
             /\ nsnToPostCreateExecReport'[k] = nsnToPostCreateExecReport[k]
             /\ nsnToRemoteIfc'[k] = nsnToRemoteIfc[k]
  BY <1>4 DEF deleteOldLocalIfc, deleteOldRemoteIfc, unsetLocalAttState, unsetRemoteIfc,
              assignRemoteIfc, Types, IfcsOK
<1>5. CASE processNetworkAttachment(m)
  <2>1. proc'[k] = proc[k] /\ (k \in queue => k \in queue')
    BY <1>5 DEF processNetworkAttachment, Types, PassesOK
  <2> QED
    BY <1>3, <1>5, <2>1 DEF processNetworkAttachment, KeyStill
<1>6. CASE getAttachment(m)
  <2>1. PICK q : Continue(m, q)
    BY <1>6 DEF getAttachment
  <2> QED
    BY <1>1, <1>3, <1>6, <2>1 DEF getAttachment, KeyStill
<1>7. CASE removeAttFromVNState(m)
  <2>1. PICK q : Continue(m, q)
    BY <1>7 DEF removeAttFromVNState
  <2> QED
    BY <1>1, <1>3, <1>7, <2>1 DEF removeAttFromVNState, KeyStill
<1>8. CASE clearVNResources(m)
  <2>1. proc'[k] = proc[k] /\ (k \in queue => k \in queue')
    BY <1>8 DEF clearVNResources, Types, PassesOK
  <2> QED
    BY <1>3, <1>8, <2>1 DEF clearVNResources, KeyStill
<1>9. CASE updateVNStateForExistingAtt(m)
  <2>1. PICK q : Continue(m, q)
    BY <1>9 DEF updateVNStateForExistingAtt, joinLocal, joinRemote, leaveLast, joinNothing
  <2> QED
    BY <1>1, <1>3, <1>9, <2>1 DEF updateVNStateForExistingAtt, KeyStill
<1>10. CASE updateIfc(m)
  <2>1. PICK q : Continue(m, q)
    BY <1>10 DEF updateIfc
  <2>2. deleteOldLocalIfc(m) \/ deleteOldRemoteIfc(m) \/ UNCHANGED ifcVars
    BY <1>10 DEF updateIfc
  <2> QED
    BY <1>1, <1>3, <1>4, <2>1, <2>2 DEF KeyStill
<1>11. CASE createIfc(m)
  <2>1. Retry(m) \/ \E q : Continue(m, q)
    BY <1>11 DEF createIfc
  <2>2. /\ nsnToLocalMainState'[k] = nsnToLocalMainState[k]
        /\ nsnToPostCreateExecReport'[k] = nsnToPostCreateExecReport[k]
        /\ nsnToRemoteIfc'[k] = nsnToRemoteIfc[k]
    BY <1>11 DEF createIfc, setLocalAttMainState, assignRemoteIfc, ifcVars, Types, IfcsOK
  <2> QED
    BY <1>1, <1>2, <2>1, <2>2 DEF KeyStill
<1>12. CASE setAttStatus(m)
  <2>1. Retry(m) \/ \E q : Continue(m, q)
    BY <1>12 DEF setAttStatus
  <2> QED
    BY <1>1, <1>2, <1>3, <1>12, <2>1 DEF setAttStatus, KeyStill
<1>13. CASE processDeletedAtt(m)
  <2>1. Continue(m, Idle)
    BY <1>13 DEF processDeletedAtt
  <2>2. deleteOldLocalIfc(m) \/ deleteOldRemoteIfc(m) \/ UNCHANGED ifcVars
    BY <1>13 DEF processDeletedAtt
  <2> QED
    BY <1>1, <1>3, <1>4, <2>1, <2>2 DEF KeyStill
<1>14. CASE Fault(m)
  BY <1>2, <1>3, <1>14 DEF Fault, KeyStill
<1> QED
  BY <1>5, <1>6, <1>7, <1>8, <1>9, <1>10, <1>11, <1>12, <1>13, <1>14 DEF Work

\* The local informer does not take back what it told.
LEMMA EventsGrow ==
    ASSUME StoreOK, NEW m \in Keys, NEW a \in NetworkAttachment, PutAtt(m, a), NEW k \in Keys
    PROVE  /\ localAtts'.cache[k] = localAtts.cache[k]
           /\ Tells(localAtts.events, k) => Tells(localAtts'.events, k)
<1>1. CASE localAtts'.events = localAtts.events
  BY <1>1, PutEvents
<1>2. ASSUME NEW e \in LocalEvents, localAtts'.events = Append(localAtts.events, e)
      PROVE  Tells(localAtts.events, k) => Tells(localAtts'.events, k)
  <2>1. Tells(Append(localAtts.events, e), k) <=> Tells(localAtts.events, k) \/ e.key = k
    BY LocalParts, TellsAppend
  <2> QED
    BY <1>2, <2>1
<1> QED
  BY <1>1, <1>2, PutEvents

\* The pass over another key, or over the resident itself.
LEMMA WorkTended ==
    ASSUME DistinctMACs, Types, Reported, NEW m \in Keys, Work(m) \/ Fault(m),
           NEW k \in Keys, Tended(k), Hushed(k)
    PROVE  Tended(k)'
<1>1. CASE k # m
  <2>1. KeyStill(k)
    BY <1>1, OtherKeys
  <2>2. /\ localAtts'.cache[k] = localAtts.cache[k]
        /\ Tells(localAtts.events, k) => Tells(localAtts'.events, k)
    <3>1. CASE UNCHANGED <<atts, localAtts>>
      BY <3>1
    <3>2. ASSUME NEW a \in NetworkAttachment, PutAtt(m, a)
          PROVE  /\ localAtts'.cache[k] = localAtts.cache[k]
                 /\ Tells(localAtts.events, k) => Tells(localAtts'.events, k)
      BY <3>2, EventsGrow DEF Types
    <3>3. CASE setAttStatus(m)
      <4>1. proc[m].att.pair \in Pairs /\ Here \in Hosts
        BY <3>3, ConstantsTyped DEF setAttStatus, Types, PassesOK, PassOK, Usable
      <4>2. UNCHANGED <<atts, localAtts>> \/ \E a \in NetworkAttachment : PutAtt(m, a)
        BY <3>3, <4>1, Puts
      <4> QED
        BY <3>1, <3>2, <4>2
    <3>4. CASE ~setAttStatus(m)
      <4>1. UNCHANGED <<atts, localAtts>>
        BY <3>4, LocalStill DEF Work
      <4> QED
        BY <3>1, <4>1
    <3> QED
      BY <3>3, <3>4
  <2> QED
    BY <2>1, <2>2, TendedKept DEF KeyStill
<1>2. CASE k = m /\ Work(m)
  BY <1>2, processNetworkAttachmentTended, getAttachmentTended, LeavingTended,
     updateVNStateForExistingAttTended, updateIfcTended, createIfcTended,
     setAttStatusTended, processDeletedAttTended DEF Work
<1>3. CASE k = m /\ Fault(m)
  <2>1. nsnToRemoteIfc'[k] = NoIfc /\ Retry(k)
    BY <1>3 DEF Fault, ifcVars, Tended
  <2> QED
    BY <2>1, RetryTended
<1> QED
  BY <1>1, <1>2, <1>3

LEMMA InformersTended ==
    ASSUME Types, InformerNext, NEW k \in Keys, Tended(k)
    PROVE  Tended(k)'
<1>1. CASE onLocalAtt
  <2>1. KeyStill(k) /\ queue \subseteq queue'
    BY <1>1 DEF onLocalAtt, ifcVars, KeyStill
  <2>2. CASE Head(localAtts.events).key = k
    <3>1. k \in queue'
      BY <1>1, <2>2, onLocalAttParts DEF Types
    <3> QED
      BY <2>1, <3>1, TendedKept DEF KeyStill
  <2>3. CASE Head(localAtts.events).key # k
    <3>1. localAtts'.cache[k] = localAtts.cache[k]
      BY <1>1, <2>3, onLocalAttParts DEF Types
    <3>2. ASSUME Tells(localAtts.events, k) PROVE Tells(localAtts'.events, k)
      <4> DEFINE s == localAtts.events
                 t == Tail(s)
      <4>1. s \in Seq(LocalEvents) /\ s # <<>> /\ localAtts'.events = t
        BY <1>1, LocalParts, onLocalAttParts DEF Types
      <4>2. Len(t) = Len(s) - 1 /\ Len(s) \in Nat /\ Head(s) = s[1]
            /\ \A i \in 1 .. Len(s) - 1 : t[i] = s[i + 1]
        BY <4>1
      <4>3. PICK i \in 1 .. Len(s) : s[i].key = k
        BY <3>2 DEF Tells
      <4> HIDE DEF t, s
      <4>4. i # 1
        BY <2>3, <4>2, <4>3 DEF s
      <4>5. i - 1 \in 1 .. Len(t) /\ t[i - 1].key = k
        BY <4>2, <4>3, <4>4
      <4> QED
        BY <4>1, <4>5 DEF Tells
    <3> QED
      BY <2>1, <3>1, <3>2, TendedKept DEF KeyStill
  <2> QED
    BY <2>2, <2>3
<1>2. ASSUME NEW v \in VNIs, IndexRemoteAtt(v) \/ onRemoteAtt(v) \/ onLateRemoteAtt(v)
                             \/ EndStoppedInformers(v)
      PROVE  Tended(k)'
  <2>1. KeyStill(k) /\ localAtts' = localAtts
    BY <1>2 DEF IndexRemoteAtt, onRemoteAtt, onLateRemoteAtt, EndStoppedInformers,
                HandleRemoteNote, ifcVars, KeyStill
  <2> QED
    BY <2>1, TendedKept DEF KeyStill
<1> QED
  BY <1>1, <1>2 DEF InformerNext

LEMMA RunCommandTended ==
    ASSUME Types, NEW c \in commands, RunCommand(c), NEW k \in Keys, Tended(k)
    PROVE  Tended(k)'
<1>1. /\ proc' = proc /\ queue' = queue \cup {c.key} /\ localAtts' = localAtts
      /\ nsnToLocalMainState' = nsnToLocalMainState /\ nsnToRemoteIfc' = nsnToRemoteIfc
  BY DEF RunCommand
<1>2. c.key # k => nsnToPostCreateExecReport'[k] = nsnToPostCreateExecReport[k]
  BY DEF RunCommand, setExecReport, Types, IfcsOK
<1> QED
  BY <1>1, <1>2, TendedKept

-----------------------------------------------------------------------------
(* Residents: start-up and the environment.                                 *)

\* An interface matched with the attachment its cache shows: it had none before,
\* or that one.
LEMMA syncPreExistingLocalIfcTended ==
    ASSUME Types, Resting, syncPreExistingLocalIfc, NEW k \in Keys, Tended(k)
    PROVE  Tended(k)'
<1>1. /\ phase = "syncLocal" /\ localAtts' = localAtts /\ proc' = proc /\ queue' = queue
      /\ nsnToRemoteIfc' = nsnToRemoteIfc
  BY DEF syncPreExistingLocalIfc
<1>2. proc[k] = Idle
  BY <1>1 DEF Resting
<1>3. PICK ifc \in todo :
         LET owners == ifcOwnerAtts(localAtts.cache, ifc) IN
         \/ \E m \in owners : owners = {m} /\ matchLocalIfc(m, ifc)
         \/ UNCHANGED <<nsnToLocalMainState, nsnToPostCreateExecReport>>
  BY DEF syncPreExistingLocalIfc
<1>4. ifc \in Pairs
  BY <1>1 DEF Types, StartOK
<1>5. CASE UNCHANGED <<nsnToLocalMainState, nsnToPostCreateExecReport>>
  BY <1>1, <1>5, TendedKept
<1>6. ASSUME NEW m \in ifcOwnerAtts(localAtts.cache, ifc), matchLocalIfc(m, ifc)
      PROVE  Tended(k)'
  <2>1. m \in Keys /\ localAtts.cache[m].pair = ifc
    BY DEF ifcOwnerAtts
  <2>2. CASE m # k
    <3>1. /\ nsnToLocalMainState'[k] = nsnToLocalMainState[k]
          /\ nsnToPostCreateExecReport'[k] = nsnToPostCreateExecReport[k]
      BY <1>6, <2>2 DEF matchLocalIfc, setLocalAttMainState, Types, IfcsOK
    <3> QED
      BY <1>1, <3>1, TendedKept
  <2>3. CASE m = k
    <3> DEFINE att == localAtts.cache[k]
    <3>1. nsnToLocalMainState'[k] = ifc /\ nsnToPostCreateExecReport'[k] = att.report
      BY <1>6, <2>3 DEF matchLocalIfc, setLocalAttMainState, Types, IfcsOK
    <3>2. att # NoAtt /\ att.pair = ifc /\ att \in NetworkAttachment
      BY <1>4, <2>1, <2>3, Addressed, LocalParts, CachedUsable DEF Types
    <3>3. CASE k \in queue \/ Tells(localAtts.events, k)
      BY <1>1, <1>2, <3>3, IdleParts, TendedMade DEF Tended
    <3>4. CASE Fits(k, att, nsnToLocalMainState[k], nsnToPostCreateExecReport[k])
      <4>1. att = WithStatus(k, att, nsnToPostCreateExecReport[k])
        BY <3>2, <3>4 DEF Fits
      <4>2. WithStatus(k, att, nsnToPostCreateExecReport[k]).report = nsnToPostCreateExecReport[k]
        BY <3>2 DEF WithStatus, NetworkAttachment
      <4>3. att.report = nsnToPostCreateExecReport[k]
        BY <4>1, <4>2
      <4>4. Fits(k, localAtts'.cache[k], nsnToLocalMainState'[k], nsnToPostCreateExecReport'[k])
        BY <1>1, <3>1, <3>2, <4>1, <4>3 DEF Fits
      <4> QED
        BY <1>1, <1>2, <4>4, IdleParts, TendedMade DEF Tended
    <3> QED
      BY <1>2, <3>3, <3>4, IdleParts DEF Tended, Owed
  <2> QED
    BY <2>2, <2>3
<1> QED
  BY <1>3, <1>5, <1>6

LEMMA syncPreExistingRemoteIfcTended ==
    ASSUME Types, syncPreExistingRemoteIfc, NEW k \in Keys, Tended(k), Hushed(k)
    PROVE  Tended(k)'
<1>1. /\ phase = "syncRemote" /\ localAtts' = localAtts /\ proc' = proc /\ queue' = queue
      /\ nsnToLocalMainState' = nsnToLocalMainState
      /\ nsnToPostCreateExecReport' = nsnToPostCreateExecReport
  BY DEF syncPreExistingRemoteIfc
<1>2. PICK ifc \in todo :
         LET owners == ifcOwnerAtts(getRemoteAttListerForVNI(ifc.pair[1]), ifc.pair) IN
         \/ \E m \in owners : owners = {m} /\ matchRemoteIfc(m, ifc)
         \/ UNCHANGED nsnToRemoteIfc
  BY DEF syncPreExistingRemoteIfc
<1>3. ifc.pair \in Pairs
  BY <1>1 DEF Types, StartOK, RemoteNetIfc
<1>4. getRemoteAttListerForVNI(ifc.pair[1])[k] = NoAtt
  <2>1. ifc.pair[1] \in VNIs
    BY <1>3, ConstantsTyped
  <2>2. vniToVnState[ifc.pair[1]].cache[k] = NoAtt
    BY <2>1 DEF Hushed, Silent
  <2> QED
    BY <2>2 DEF getRemoteAttListerForVNI
<1>5. k \notin ifcOwnerAtts(getRemoteAttListerForVNI(ifc.pair[1]), ifc.pair)
  <2>1. NoAtt.pair # ifc.pair
    BY <1>3, ConstantsTyped DEF NoAtt
  <2> QED
    BY <1>4, <2>1 DEF ifcOwnerAtts
<1>6. nsnToRemoteIfc'[k] = nsnToRemoteIfc[k]
  BY <1>2, <1>5 DEF matchRemoteIfc, assignRemoteIfc, Types, IfcsOK
<1> QED
  BY <1>1, <1>6, TendedKept

LEMMA StartTended ==
    ASSUME Types, Resting, StartNext, NEW k \in Keys, Tended(k), Hushed(k)
    PROVE  Tended(k)'
<1>1. CASE startRemoteInformers \/ startWorkers
  <2>1. KeyStill(k) /\ localAtts' = localAtts
    BY <1>1 DEF startRemoteInformers, startWorkers, ifcVars, KeyStill
  <2> QED
    BY <2>1, TendedKept DEF KeyStill
<1> QED
  BY <1>1, syncPreExistingLocalIfcTended, syncPreExistingRemoteIfcTended DEF StartNext

LEMMA CrashTended ==
    ASSUME Crash, NEW k \in Keys
    PROVE  Tended(k)'
<1>1. /\ proc'[k] = Idle /\ nsnToRemoteIfc'[k] = NoIfc /\ nsnToLocalMainState'[k] = NoPair
      /\ localAtts'.cache[k] = Seen(atts[k]) /\ (k \in queue' <=> Seen(atts[k]) # NoAtt)
  BY CrashParts
<1>2. CASE k \in queue'
  BY <1>1, <1>2, IdleParts, TendedMade
<1>3. CASE k \notin queue'
  <2>1. Fits(k, localAtts'.cache[k], nsnToLocalMainState'[k], nsnToPostCreateExecReport'[k])
    BY <1>1, <1>3 DEF Fits
  <2> QED
    BY <1>1, <2>1, IdleParts, TendedMade
<1> QED
  BY <1>2, <1>3

LEMMA WritesTended ==
    ASSUME Types, NEW m \in Keys, NEW n \in Hosts, NEW p \in Pairs, NEW h \in Hosts \cup {""},
           WriteAtt(m, n, p, h) \/ DeleteAtt(m), NEW k \in Keys, Tended(k)
    PROVE  Tended(k)'
<1>1. KeyStill(k)
  BY DEF WriteAtt, DeleteAtt, ifcVars, KeyStill
<1>2. /\ localAtts'.cache[k] = localAtts.cache[k]
      /\ Tells(localAtts.events, k) => Tells(localAtts'.events, k)
  <2>1. UNCHANGED <<atts, localAtts>> \/ \E a \in NetworkAttachment : PutAtt(m, a)
    BY Puts
  <2> QED
    BY <2>1, EventsGrow DEF Types
<1> QED
  BY <1>1, <1>2, TendedKept DEF KeyStill

LEMMA StepTended ==
    ASSUME DistinctMACs, Types, Resting, Reported, HomesTyped, ResidentsHushed,
           ResidentsTended, [Next]_vars
    PROVE  ResidentsTended'
<1> SUFFICES ASSUME NEW k \in Keys, Stays(k)' PROVE Tended(k)'
  BY DEF ResidentsTended
<1>1. Stays(k) /\ Tended(k) /\ Hushed(k)
  BY StepHushed DEF ResidentsTended, ResidentsHushed
<1>2. CASE InformerNext
  BY <1>1, <1>2, InformersTended
<1>3. CASE StartNext
  BY <1>1, <1>3, StartTended
<1>4. ASSUME NEW m \in Keys, Work(m) PROVE Tended(k)'
  BY <1>1, <1>4, WorkTended
<1>5. ASSUME NEW c \in commands, RunCommand(c) PROVE Tended(k)'
  BY <1>1, <1>5, RunCommandTended
<1>6. CASE EnvironmentNext
  <2>1. ASSUME NEW m \in Keys, NEW n \in Hosts, NEW p \in Pairs, NEW h \in Hosts \cup {""},
               WriteAtt(m, n, p, h)
        PROVE  Tended(k)'
    BY <1>1, <2>1, WritesTended
  <2>2. ASSUME NEW m \in Keys, DeleteAtt(m) PROVE Tended(k)'
    <3>1. KeyStill(k)
      BY <2>2 DEF DeleteAtt, ifcVars, KeyStill
    <3>2. PutAtt(m, NoAtt) /\ NoAtt \in NetworkAttachment
      BY <2>2, ConstantsTyped DEF DeleteAtt
    <3> QED
      BY <1>1, <3>1, <3>2, EventsGrow, TendedKept DEF KeyStill, Types
  <2>3. ASSUME NEW m \in Keys, Fault(m) PROVE Tended(k)'
    BY <1>1, <2>3, WorkTended
  <2> QED
    BY <1>6, <2>1, <2>2, <2>3, CrashTended DEF EnvironmentNext
<1>7. CASE UNCHANGED vars
  <2>1. KeyStill(k) /\ localAtts' = localAtts
    BY <1>7 DEF vars, ifcVars, KeyStill
  <2> QED
    BY <1>1, <2>1, TendedKept DEF KeyStill
<1> QED
  BY <1>2, <1>3, <1>4, <1>5, <1>6, <1>7 DEF Next

\* A report is of a local interface.
LEMMA StepReported ==
    ASSUME Types, Reported, [Next]_vars
    PROVE  Reported'
<1> SUFFICES ASSUME NEW k \in Keys, nsnToLocalMainState'[k] = NoPair
             PROVE  nsnToPostCreateExecReport'[k] = NoPair
  BY DEF Reported
<1>1. ASSUME KeyStill(k) PROVE nsnToPostCreateExecReport'[k] = NoPair
  BY <1>1 DEF KeyStill, Reported
<1>2. ASSUME UNCHANGED <<nsnToLocalMainState, nsnToPostCreateExecReport>>
      PROVE  nsnToPostCreateExecReport'[k] = NoPair
  BY <1>2 DEF Reported
<1>3. CASE InformerNext
  BY <1>2, <1>3 DEF InformerNext, onLocalAtt, IndexRemoteAtt, onRemoteAtt, onLateRemoteAtt,
     EndStoppedInformers, HandleRemoteNote, ifcVars
<1>4. CASE StartNext
  <2>1. CASE syncPreExistingLocalIfc
    <3>1. phase = "syncLocal"
      BY <2>1 DEF syncPreExistingLocalIfc
    <3>2. PICK ifc \in todo :
             LET owners == ifcOwnerAtts(localAtts.cache, ifc) IN
             \/ \E m \in owners : owners = {m} /\ matchLocalIfc(m, ifc)
             \/ UNCHANGED <<nsnToLocalMainState, nsnToPostCreateExecReport>>
      BY <2>1 DEF syncPreExistingLocalIfc
    <3>3. ifc # NoPair
      BY <3>1, ConstantsTyped DEF Types, StartOK
    <3>4. ASSUME NEW m \in Keys, matchLocalIfc(m, ifc)
          PROVE  nsnToPostCreateExecReport'[k] = NoPair
      BY <3>3, <3>4 DEF matchLocalIfc, setLocalAttMainState, Types, IfcsOK, Reported
    <3> QED
      BY <1>2, <3>2, <3>4 DEF ifcOwnerAtts
  <2>2. CASE ~syncPreExistingLocalIfc
    BY <1>2, <1>4, <2>2 DEF StartNext, startRemoteInformers, syncPreExistingRemoteIfc,
       startWorkers, ifcVars
  <2> QED
    BY <2>1, <2>2
<1>5. ASSUME NEW m \in Keys, Work(m) PROVE nsnToPostCreateExecReport'[k] = NoPair
  <2>1. CASE k # m
    BY <1>1, <1>5, <2>1, OtherKeys
  <2>2. CASE k = m
    <3>1. ASSUME deleteOldLocalIfc(k) PROVE nsnToPostCreateExecReport'[k] = NoPair
      BY <3>1 DEF deleteOldLocalIfc, unsetLocalAttState, Types, IfcsOK
    <3>2. ASSUME deleteOldRemoteIfc(k) PROVE nsnToPostCreateExecReport'[k] = NoPair
      BY <1>2, <3>2 DEF deleteOldRemoteIfc
    <3>3. ASSUME UNCHANGED ifcVars PROVE nsnToPostCreateExecReport'[k] = NoPair
      BY <1>2, <3>3 DEF ifcVars
    <3>4. CASE updateIfc(k)
      BY <3>1, <3>2, <3>3, <3>4 DEF updateIfc
    <3>5. CASE createIfc(k)
      <4>1. proc[k].att.pair # NoPair
        <5>1. proc[k].pc = "create"
          BY <3>5 DEF createIfc
        <5>2. proc[k].att.pair \in Pairs
          BY <5>1 DEF Types, PassesOK, PassOK, Usable
        <5> QED
          BY <5>2, ConstantsTyped
      <4>2. CASE setLocalAttMainState(k, proc[k].att.pair)
        BY <4>1, <4>2 DEF setLocalAttMainState, Types, IfcsOK
      <4> QED
        BY <1>2, <3>3, <3>5, <4>2 DEF createIfc
    <3>6. CASE processDeletedAtt(k)
      BY <3>1, <3>2, <3>3, <3>6 DEF processDeletedAtt
    <3>7. CASE processNetworkAttachment(k) \/ getAttachment(k) \/ removeAttFromVNState(k)
               \/ clearVNResources(k) \/ updateVNStateForExistingAtt(k) \/ setAttStatus(k)
      BY <3>3, <3>7 DEF processNetworkAttachment, getAttachment, removeAttFromVNState,
         clearVNResources, updateVNStateForExistingAtt, setAttStatus
    <3> QED
      BY <1>5, <2>2, <3>4, <3>5, <3>6, <3>7 DEF Work
  <2> QED
    BY <2>1, <2>2
<1>6. ASSUME NEW c \in commands, RunCommand(c) PROVE nsnToPostCreateExecReport'[k] = NoPair
  <2>1. ~HasLocalIfc(k)
    BY <1>6 DEF RunCommand, HasLocalIfc
  <2>2. nsnToPostCreateExecReport'[k] = nsnToPostCreateExecReport[k]
    BY <1>6, <2>1 DEF RunCommand, setExecReport, Types, IfcsOK
  <2> QED
    BY <2>1, <2>2 DEF Reported, HasLocalIfc
<1>7. CASE EnvironmentNext
  BY <1>2, <1>7, CrashParts DEF EnvironmentNext, WriteAtt, DeleteAtt, Fault, ifcVars
<1>8. CASE UNCHANGED vars
  BY <1>2, <1>8 DEF vars, ifcVars
<1> QED
  BY <1>3, <1>4, <1>5, <1>6, <1>7, <1>8 DEF Next

LEMMA InitResidents ==
    ASSUME Init
    PROVE  ResInv
<1> DEFINE list == [k \in Keys |-> Seen(atts[k])]
<1>1. localAtts = [cache |-> list, events |-> <<>>] /\ queue = {k \in Keys : list[k] # NoAtt}
  BY DEF Init, StartAgent, Seen
<1>2. \A k \in Keys : list[k] = Seen(atts[k]) /\ atts[k] = NoAtt
  BY DEF Init
<1> HIDE DEF list
<1>3. localAtts.cache = list /\ localAtts.events = <<>>
  BY <1>1
<1>4. HomesTyped /\ Reported
  BY DEF Init, HomesTyped, Reported
<1>5. LocalSynced
  BY <1>2, <1>3, SyncedNow DEF LocalSynced
<1>6. \A k \in Keys : Hushed(k)
  <2>1. \A v \in VNIs : vniToVnState[v] = NoVnState /\ lateNotes[v] = <<>>
    BY DEF Init
  <2>2. \A k \in Keys : nsnToVNIs[k] = {}
    BY DEF Init
  <2> QED
    BY <1>2, <2>1, <2>2, EmptySilent, TellsNothing DEF Hushed, AtHome
<1>7. ASSUME NEW k \in Keys PROVE Tended(k)
  <2>1. /\ proc[k] = Idle /\ nsnToRemoteIfc[k] = NoIfc /\ nsnToLocalMainState[k] = NoPair
    BY DEF Init
  <2>2. ~InLocalWatch(NoAtt)
    BY DEF InLocalWatch, MatchNetworkAttachment
  <2>3. localAtts.cache[k] = NoAtt
    BY <1>2, <1>3, <2>2 DEF Seen
  <2>4. Owed(k)
    BY <2>1, <2>3, IdleParts DEF Owed, Fits
  <2> QED
    BY <2>1, <2>4, IdleParts DEF Tended
<1> QED
  BY <1>4, <1>5, <1>6, <1>7 DEF ResInv, ResidentsHushed, ResidentsTended

-----------------------------------------------------------------------------
(* Residents are served.                                                    *)

LEMMA ResidentsRecorded ==
    ASSUME Types, ResInv, Quiet, NEW k \in Keys, homes[k] = {Here}
    PROVE  Recorded(k)
<1>1. Stays(k) /\ Tended(k) /\ Hushed(k)
  BY DEF Stays, ResInv, ResidentsTended, ResidentsHushed
<1>2. ~Tells(localAtts.events, k)
  BY TellsNothing DEF Quiet
<1>3. localAtts.cache[k] = Seen(atts[k])
  BY <1>2 DEF ResInv, LocalSynced, Synced
<1>4. Fits(k, Seen(atts[k]), nsnToLocalMainState[k], nsnToPostCreateExecReport[k])
  BY <1>1, <1>2, <1>3 DEF Tended, Owed, Quiet
<1>5. ~IsRemote(k)
  <2>1. \A v : ~InRemoteWatch(v, atts[k])
    BY <1>1, WatchesHome DEF Hushed, Types, StoreOK
  <2> QED
    BY <2>1 DEF IsRemote
<1>6. CASE IsLocal(k)
  <2>1. Seen(atts[k]) = atts[k] /\ atts[k] # NoAtt
    BY <1>6 DEF IsLocal, Seen, InLocalWatch, MatchNetworkAttachment
  <2> QED
    BY <1>1, <1>4, <1>5, <1>6, <2>1 DEF Recorded, Fits, Tended
<1>7. CASE ~IsLocal(k)
  <2>1. Seen(atts[k]) = NoAtt
    BY <1>7 DEF IsLocal, Seen
  <2> QED
    BY <1>1, <1>4, <1>5, <1>7, <2>1 DEF Recorded, Fits, Tended
<1> QED
  BY <1>6, <1>7

\* If the MACs of different addresses differ, an attachment that never was on
\* another node has, whenever the agent has nothing left to do, its local
\* interface with its last address, no remote one, and the status of that
\* interface: through any number of changes of address, deletions, failing
\* calls and restarts, and whatever passes over other attachments are under way.
\* The agent's table has the interface in any case; the fabric has it unless
\* start-up deleted a local interface with that address that the table still
\* has for another attachment.
THEOREM AgentServesResidents ==
    ASSUME DistinctMACs
    PROVE  Spec => []ResidentsServed
<1> DEFINE Inv == IInv /\ Held /\ ResInv
<1>1. Init => Inv
  <2>1. Init => Resting
    BY DEF Init, Resting
  <2> QED
    BY <2>1, InitTypes, InitOwned, StartsHeld, InitResidents DEF IInv
<1>2. Inv /\ [Next]_vars => Inv'
  <2> SUFFICES ASSUME IInv, Held, ResInv, [Next]_vars PROVE IInv' /\ Held' /\ ResInv'
    OBVIOUS
  <2>1. IInv' /\ Held'
    BY StepTypes, StepResting, StepOwned, StepHeld DEF IInv
  <2>2. HomesTyped' /\ ResidentsHushed'
    BY StepHushed DEF IInv, ResInv
  <2>3. LocalSynced' /\ Reported'
    BY StepSynced, StepReported DEF IInv, ResInv
  <2>4. ResidentsTended'
    BY StepTended DEF IInv, ResInv
  <2> QED
    BY <2>1, <2>2, <2>3, <2>4 DEF ResInv
<1>3. Inv => ResidentsServed
  <2> SUFFICES ASSUME Inv, Quiet, NEW k \in Keys, homes[k] = {Here}
               PROVE  Recorded(k) /\ (atts[k].pair \notin lost => InFabric(k))
    BY DEF ResidentsServed
  <2>1. Recorded(k)
    BY ResidentsRecorded DEF IInv
  <2>2. HasLocalIfc(k) => nsnToLocalMainState[k] = atts[k].pair
    BY <2>1 DEF Recorded, HasLocalIfc
  <2> QED
    BY <2>1, <2>2, HeldInFabric
<1> QED
  BY <1>1, <1>2, <1>3, PTL DEF Spec

-----------------------------------------------------------------------------
(* Members: the inductive invariant.  What a pass carries is what a cache   *)
(* shows, or another pass is due; and an attachment at rest has what its    *)
(* cache shows.                                                             *)

\* What the watch on the remote attachments of a virtual network shows of one.
SeenIn(v, a) == IF InRemoteWatch(v, a) THEN a ELSE NoAtt

Watched(v, a) == a = NoAtt \/ InRemoteWatch(v, a)

\* A vnState s of v that follows the store.
Follows(v, s, store) ==
    /\ s.on => s.localAtts # {}
    /\ ~s.on => s = NoVnState
    /\ \A k \in Keys : Watched(v, s.cache[k])
    /\ \A i \in 1 .. Len(s.events) : Watched(v, s.events[i].obj)
    /\ \A k \in Keys : s.on => Synced(s.events, k, s.cache[k], SeenIn(v, store[k]))

RemoteSynced == \A v \in VNIs : Follows(v, vniToVnState[v], atts)

InLocal(v, k) == k \in vniToVnState[v].localAtts
InRemote(v, k) == k \in vniToVnState[v].remoteAtts
Known(v, k) == vniToVnState[v].cache[k]
Noted(v, k) == Tells(vniToVnState[v].notes, k)

\* Another pass over the attachment is due.
Due(k) == k \in queue \/ \E j \in Keys : proc[j].pc = "clear" /\ k \in proc[j].names

Doubled(k) == nsnToRemoteIfc[k] \in twofold

\* An attachment is stored in one vnState, as local or as remote, and knows which.
Placed(k) ==
    \A v \in VNIs : /\ InLocal(v, k) => nsnToVNStateVNI[k] = v /\ ~InRemote(v, k)
                    /\ InRemote(v, k) => nsnToVNStateVNI[k] = v

\* Where the pass over an attachment has stored it.
PassPlaced(k) ==
    /\ proc[k].pc \in {"update", "create", "status"} =>
          \E v \in VNIs : /\ nsnToVNStateVNI[k] = v /\ AddressVNI(proc[k].att) = v
                          /\ proc[k].att.node = Here => InLocal(v, k)
                          /\ proc[k].att.node # Here => InRemote(v, k) \/ Due(k)
    /\ proc[k].pc = "join" => nsnToVNStateVNI[k] \in {NoVNI, AddressVNI(proc[k].att)}
    /\ proc[k].pc \in {"clear", "remove"} => nsnToVNStateVNI[k] = NoVNI
    /\ proc[k].pc = "status" => proc[k].att.node = Here
    /\ proc[k].pc = "depart" => proc[k].then # "idle"
    /\ proc[k].pc = "clear" /\ proc[k].then = "idle" => k \in proc[k].names

\* What the pass carries was read from a cache that still shows it, or another
\* pass is due.
FromLocal(k) ==
    proc[k].pc # "idle" /\ proc[k].att # NoAtt /\ proc[k].att.node = Here =>
       proc[k].att = localAtts.cache[k] \/ k \in queue

FromRemote(k) ==
    proc[k].pc # "idle" /\ proc[k].att # NoAtt /\ proc[k].att.node # Here =>
       /\ \A v \in VNIs : AddressVNI(proc[k].att) = v =>
             /\ InRemoteWatch(v, proc[k].att)
             /\ vniToVnState[v].on => \/ proc[k].att = Known(v, k) \/ Due(k) \/ Noted(v, k)
                                      \/ Known(v, k) = NoAtt /\ k \in behind
       /\ proc[k].pc # "lookup" => localAtts.cache[k] = NoAtt \/ k \in queue

\* An attachment at rest has what the cache shows.
IfcOf(a) == [pair |-> a.pair, host |-> a.host]

LocalDone(v, k) ==
    /\ InLocal(v, k)
    /\ \/ Tells(localAtts.events, k)
       \/ /\ localAtts.cache[k] # NoAtt /\ AddressVNI(localAtts.cache[k]) = v
          /\ \/ Doubled(k)
             \/ /\ ~HasRemoteIfc(k)
                /\ Fits(k, localAtts.cache[k], nsnToLocalMainState[k],
                        nsnToPostCreateExecReport[k])

RemoteDone(v, k) ==
    /\ InRemote(v, k)
    /\ localAtts.cache[k] = NoAtt
    /\ \/ Known(v, k) = NoAtt /\ k \in behind
       \/ Noted(v, k)
       \/ Doubled(k)
       \/ /\ Known(v, k) # NoAtt
          /\ ~HasLocalIfc(k) /\ nsnToRemoteIfc[k] = IfcOf(Known(v, k))

Done(k) ==
    proc[k].pc = "idle" /\ ~Due(k) /\ ~Ambiguous(k) =>
       /\ nsnToVNStateVNI[k] = NoVNI =>
             k \in adopted \/ Doubled(k) \/ (~HasLocalIfc(k) /\ ~HasRemoteIfc(k))
       /\ \A v \in VNIs : nsnToVNStateVNI[k] = v => LocalDone(v, k) \/ RemoteDone(v, k)

\* Until the workers run, whatever start-up finds out about is queued or adopted.
Starting(k) ==
    phase # "run" =>
       /\ HasLocalIfc(k) \/ nsnToVNStateVNI[k] # NoVNI \/ localAtts.cache[k] # NoAtt => k \in queue
       /\ HasRemoteIfc(k) => k \in adopted

KeyOK(k) == Placed(k) /\ PassPlaced(k) /\ FromLocal(k) /\ FromRemote(k) /\ Done(k) /\ Starting(k)

\* A remote interface leads to another node.
Outbound ==
    /\ \A r \in remoteIfcs : r.host # Here
    /\ phase = "syncRemote" => \A r \in todo : r.host # Here
    /\ \A k \in Keys : HasRemoteIfc(k) => nsnToRemoteIfc[k].host # Here

MemInv == RemoteSynced /\ Outbound /\ \A k \in Keys : KeyOK(k)

-----------------------------------------------------------------------------
(* Members: steps that leave an attachment alone, or queue it.              *)

\* A vnState changes from s to t.
KeptIn(s, t, k) ==
    /\ k \in t.localAtts <=> k \in s.localAtts
    /\ k \in t.remoteAtts <=> k \in s.remoteAtts
    /\ \/ /\ t.cache[k] = s.cache[k] /\ (Tells(s.notes, k) => Tells(t.notes, k))
          /\ t.on => s.on
       \/ t.cache[k] = NoAtt /\ ~t.on /\ k \notin t.remoteAtts
       \/ Tells(t.notes, k)

LostIn(s, t, k) ==
    /\ k \in t.localAtts <=> k \in s.localAtts
    /\ k \in t.remoteAtts => k \in s.remoteAtts

\* A new vnState t lacks the attachment.
RenewedIn(s, t, k) ==
    /\ k \in t.localAtts <=> k \in s.localAtts
    /\ k \notin s.remoteAtts /\ k \notin t.remoteAtts
    /\ t.cache[k] = NoAtt

Renewed(v, k) ==
    /\ RenewedIn(vniToVnState[v], vniToVnState'[v], k)
    /\ proc[k].att.node # Here /\ AddressVNI(proc[k].att) = v => k \in behind'

Untouched(k) ==
    /\ proc'[k] = proc[k] /\ nsnToVNStateVNI'[k] = nsnToVNStateVNI[k]
    /\ nsnToLocalMainState'[k] = nsnToLocalMainState[k] /\ nsnToRemoteIfc'[k] = nsnToRemoteIfc[k]
    /\ twofold' = twofold /\ (k \in adopted => k \in adopted')
    /\ phase' # "run" => phase' = phase
    /\ k \in queue => k \in queue'
    /\ k \in behind => k \in behind'
    /\ Due(k) => Due(k)'
    /\ \/ k \in queue'
       \/ /\ nsnToVNIs'[k] = nsnToVNIs[k]
          /\ localAtts'.cache[k] = localAtts.cache[k]
          /\ Tells(localAtts.events, k) => Tells(localAtts'.events, k)
          /\ nsnToPostCreateExecReport'[k] = nsnToPostCreateExecReport[k]
    /\ \A v \in VNIs : \/ KeptIn(vniToVnState[v], vniToVnState'[v], k)
                       \/ Due(k)' /\ LostIn(vniToVnState[v], vniToVnState'[v], k)
                       \/ Renewed(v, k)

LEMMA KeyKept ==
    ASSUME NEW k \in Keys, KeyOK(k), Untouched(k)
    PROVE  KeyOK(k)'
<1>1. \A v \in VNIs : /\ InLocal(v, k)' <=> InLocal(v, k)
                      /\ InRemote(v, k)' => InRemote(v, k)
                      /\ InRemote(v, k) => InRemote(v, k)' \/ Due(k)'
  BY DEF Untouched, KeptIn, LostIn, Renewed, RenewedIn, InLocal, InRemote
<1>2. \A v \in VNIs :
         \/ Due(k)' \/ Noted(v, k)'
         \/ ~vniToVnState'[v].on /\ ~InRemote(v, k)'
         \/ /\ Known(v, k)' = NoAtt /\ ~InRemote(v, k)'
            /\ proc[k].att.node # Here /\ AddressVNI(proc[k].att) = v => k \in behind'
         \/ /\ Known(v, k)' = Known(v, k) /\ (Noted(v, k) => Noted(v, k)')
            /\ vniToVnState'[v].on => vniToVnState[v].on
  BY DEF Untouched, KeptIn, Renewed, RenewedIn, Known, Noted, InRemote
<1>3. Placed(k)'
  BY <1>1 DEF KeyOK, Placed, Untouched
<1>4. Due(k) => Due(k)'
  BY DEF Untouched
<1>5. k \in queue' => Due(k)'
  BY DEF Due
<1>6. PassPlaced(k)'
  <2>1. proc[k].pc \in {"update", "create", "status"} =>
          \E v \in VNIs : /\ nsnToVNStateVNI[k] = v /\ AddressVNI(proc[k].att) = v
                          /\ proc[k].att.node = Here => InLocal(v, k)
                          /\ proc[k].att.node # Here => InRemote(v, k) \/ Due(k)
    BY DEF KeyOK, PassPlaced
  <2>2. (proc[k].pc \in {"update", "create", "status"} =>
          \E v \in VNIs : /\ nsnToVNStateVNI[k] = v /\ AddressVNI(proc[k].att) = v
                          /\ proc[k].att.node = Here => InLocal(v, k)
                          /\ proc[k].att.node # Here => InRemote(v, k) \/ Due(k))'
    BY <1>1, <1>4, <2>1 DEF Untouched, AddressVNI
  <2>3. (/\ proc[k].pc = "join" => nsnToVNStateVNI[k] \in {NoVNI, AddressVNI(proc[k].att)}
         /\ proc[k].pc \in {"clear", "remove"} => nsnToVNStateVNI[k] = NoVNI
         /\ proc[k].pc = "status" => proc[k].att.node = Here
         /\ proc[k].pc = "depart" => proc[k].then # "idle"
         /\ proc[k].pc = "clear" /\ proc[k].then = "idle" => k \in proc[k].names)'
    BY DEF KeyOK, PassPlaced, Untouched, AddressVNI
  <2> QED
    BY <2>2, <2>3 DEF PassPlaced
<1>7. FromLocal(k)'
  BY DEF KeyOK, FromLocal, Untouched
<1>8. FromRemote(k)'
  <2> SUFFICES ASSUME proc[k].pc # "idle", proc[k].att # NoAtt, proc[k].att.node # Here
               PROVE  /\ \A v \in VNIs : AddressVNI(proc[k].att) = v =>
                            /\ InRemoteWatch(v, proc[k].att)
                            /\ vniToVnState'[v].on =>
                                  \/ proc[k].att = Known(v, k)' \/ Due(k)' \/ Noted(v, k)'
                                  \/ Known(v, k)' = NoAtt /\ k \in behind'
                      /\ proc[k].pc # "lookup" => localAtts'.cache[k] = NoAtt \/ k \in queue'
    BY DEF FromRemote, Untouched
  <2>1. /\ \A v \in VNIs : AddressVNI(proc[k].att) = v =>
              /\ InRemoteWatch(v, proc[k].att)
              /\ vniToVnState[v].on => \/ proc[k].att = Known(v, k) \/ Due(k) \/ Noted(v, k)
                                       \/ Known(v, k) = NoAtt /\ k \in behind
        /\ proc[k].pc # "lookup" => localAtts.cache[k] = NoAtt \/ k \in queue
    BY DEF KeyOK, FromRemote
  <2>2. k \in behind => k \in behind'
    BY DEF Untouched
  <2>3. localAtts.cache[k] = NoAtt \/ k \in queue => localAtts'.cache[k] = NoAtt \/ k \in queue'
    BY DEF Untouched
  <2> QED
    BY <1>2, <1>4, <2>1, <2>2, <2>3
<1>9. Done(k)'
  <2> SUFFICES ASSUME (proc[k].pc = "idle" /\ ~Due(k) /\ ~Ambiguous(k))'
               PROVE  (/\ nsnToVNStateVNI[k] = NoVNI =>
                             \/ k \in adopted \/ Doubled(k)
                             \/ (~HasLocalIfc(k) /\ ~HasRemoteIfc(k))
                       /\ \A v \in VNIs : nsnToVNStateVNI[k] = v =>
                             LocalDone(v, k) \/ RemoteDone(v, k))'
    BY DEF Done
  <2>1. k \notin queue' /\ ~Due(k) /\ nsnToVNIs'[k] = nsnToVNIs[k] /\ ~Ambiguous(k)
    BY <1>4, <1>5 DEF Untouched, Ambiguous
  <2>2. proc[k].pc = "idle"
    BY DEF Untouched
  <2>3. /\ localAtts'.cache[k] = localAtts.cache[k]
        /\ Tells(localAtts.events, k) => Tells(localAtts'.events, k)
        /\ nsnToPostCreateExecReport'[k] = nsnToPostCreateExecReport[k]
        /\ nsnToLocalMainState'[k] = nsnToLocalMainState[k]
        /\ nsnToRemoteIfc'[k] = nsnToRemoteIfc[k] /\ twofold' = twofold
        /\ nsnToVNStateVNI'[k] = nsnToVNStateVNI[k]
        /\ (k \in adopted => k \in adopted') /\ (k \in behind => k \in behind')
    BY <2>1 DEF Untouched
  <2>4. /\ Doubled(k)' <=> Doubled(k)
        /\ HasLocalIfc(k)' <=> HasLocalIfc(k)
        /\ HasRemoteIfc(k)' <=> HasRemoteIfc(k)
    BY <2>3 DEF Doubled, HasLocalIfc, HasRemoteIfc
  <2>5. ASSUME NEW v \in VNIs, LocalDone(v, k) PROVE LocalDone(v, k)'
    BY <1>1, <2>3, <2>4, <2>5 DEF LocalDone, Fits, WithStatus, AddressVNI
  <2>6. ASSUME NEW v \in VNIs, RemoteDone(v, k) PROVE RemoteDone(v, k)'
    BY <1>1, <1>2, <2>3, <2>4, <2>6 DEF RemoteDone, IfcOf
  <2> QED
    BY <2>1, <2>2, <2>3, <2>4, <2>5, <2>6 DEF KeyOK, Done
<1>10. Starting(k)'
  BY DEF KeyOK, Starting, Untouched, HasLocalIfc, HasRemoteIfc
<1> QED
  BY <1>3, <1>6, <1>7, <1>8, <1>9, <1>10 DEF KeyOK

-----------------------------------------------------------------------------
(* Members: the remote informers follow the store.                          *)

\* The list of a new informer tells of everything it has seen.
LEMMA ListTellsAll ==
    ASSUME NEW seen \in SUBSET Keys, NEW k \in seen
    PROVE  Tells(SetToSeq({[key |-> m, op |-> "added"] : m \in seen}), k)
<1> DEFINE S == {[key |-> m, op |-> "added"] : m \in seen}
           e == [key |-> k, op |-> "added"]
<1>1. IsFiniteSet(S)
  <2>1. IsFiniteSet(seen)
    BY AgentAssumption, FS_Subset
  <2> DEFINE f == [m \in seen |-> [key |-> m, op |-> "added"]]
  <2>2. f \in Surjection(seen, S)
    BY DEF Surjection
  <2> QED
    BY <2>1, <2>2, FS_Surjection
<1>2. e \in S /\ e.key = k
  OBVIOUS
<1> HIDE DEF S, e
<1> DEFINE n == Cardinality(S)
           g == SetToSeq(S)
<1>3. n \in Nat
  BY <1>1, FS_CardinalityType
<1>4. g \in [1 .. n -> S] /\ IsInjective(g)
  <2>1. PICK f : f \in Bijection(1 .. n, S)
    BY <1>1, FS_NatBijection, FS_CountingElements, FS_CardinalityType, Zenon DEF ExistsBijection
  <2>2. \E h \in [1 .. n -> S] : IsInjective(h)
    BY <2>1 DEF Bijection, Injection, Surjection, IsInjective
  <2> QED
    BY <2>2 DEF SetToSeq
<1> HIDE DEF g
<1>5. g \in Injection(1 .. n, S)
  BY <1>4 DEF Injection
<1>6. Cardinality(1 .. n) = n
  BY <1>3, FS_Interval
<1> HIDE DEF n
<1>7. g \in Surjection(1 .. n, S)
  BY <1>1, <1>5, <1>6, FS_Injection DEF n
<1>8. PICK i \in 1 .. n : g[i] = e
  BY <1>2, <1>7 DEF Surjection
<1>9. Len(g) = n
  BY <1>3, <1>4
<1>10. Tells(g, k)
  BY <1>2, <1>8, <1>9 DEF Tells
<1> QED
  BY <1>10 DEF g, S

LEMMA InitParts ==
    ASSUME NEW v
    PROVE  /\ initVNState(v).on /\ initVNState(v).localAtts = {}
           /\ initVNState(v).remoteAtts = {} /\ initVNState(v).events = <<>>
           /\ \A k \in Keys :
                 /\ initVNState(v).cache[k] = SeenIn(v, atts[k])
                 /\ initVNState(v).cache[k] # NoAtt => Tells(initVNState(v).notes, k)
<1> DEFINE seen == {k \in Keys : InRemoteWatch(v, atts[k])}
           cache == [k \in Keys |-> IF k \in seen THEN atts[k] ELSE NoAtt]
           notes == SetToSeq({[key |-> k, op |-> "added"] : k \in seen})
<1>1. \A k \in Keys : cache[k] = SeenIn(v, atts[k]) /\ (cache[k] # NoAtt => k \in seen)
  BY DEF SeenIn
<1>2. \A k \in seen : Tells(notes, k)
  BY ListTellsAll
<1>3. initVNState(v) = [NoVnState EXCEPT !.on = TRUE, !.cache = cache, !.notes = notes]
  BY DEF initVNState
<1> HIDE DEF cache, notes, seen
<1>4. /\ initVNState(v).on /\ initVNState(v).localAtts = {} /\ initVNState(v).remoteAtts = {}
      /\ initVNState(v).events = <<>>
      /\ initVNState(v).cache = cache /\ initVNState(v).notes = notes
  BY <1>3 DEF NoVnState
<1> QED
  BY <1>1, <1>2, <1>4

LEMMA NoVnParts ==
    /\ ~NoVnState.on /\ NoVnState.localAtts = {} /\ NoVnState.remoteAtts = {}
    /\ NoVnState.events = <<>> /\ NoVnState.notes = <<>>
    /\ \A k \in Keys : NoVnState.cache[k] = NoAtt
BY DEF NoVnState

LEMMA EmptyFollows ==
    ASSUME NEW v, NEW store
    PROVE  Follows(v, NoVnState, store)
<1>1. Len(<<>>) = 0
  OBVIOUS
<1> QED
  BY <1>1, NoVnParts DEF Follows, Watched

LEMMA InitFollows ==
    ASSUME NEW v, NEW s, s.on, s.localAtts # {}, s.events = <<>>,
           \A k \in Keys : s.cache[k] = SeenIn(v, atts[k])
    PROVE  Follows(v, s, atts)
<1>1. Len(<<>>) = 0
  OBVIOUS
<1>2. \A k \in Keys : Watched(v, s.cache[k])
  BY DEF Watched, SeenIn
<1>3. \A k \in Keys : Synced(s.events, k, s.cache[k], SeenIn(v, atts[k]))
  BY SyncedNow
<1> QED
  BY <1>1, <1>2, <1>3 DEF Follows

\* Members and notifications come and go.
LEMMA MembersFollow ==
    ASSUME NEW v, NEW store, NEW s, NEW t, Follows(v, s, store), s.on,
           t.on = s.on, t.cache = s.cache, t.events = s.events, t.localAtts # {}
    PROVE  Follows(v, t, store)
BY DEF Follows

LEMMA FollowReplaced ==
    ASSUME VnOK, RemoteSynced, atts' = atts, NEW v \in VNIs, NEW t, Follows(v, t, atts),
           vniToVnState' = [vniToVnState EXCEPT ![v] = t]
    PROVE  RemoteSynced'
<1>1. \A u \in VNIs : vniToVnState'[u] = IF u = v THEN t ELSE vniToVnState[u]
  BY DEF VnOK
<1>2. \A u \in VNIs : Follows(u, vniToVnState'[u], atts')
  BY <1>1 DEF RemoteSynced
<1> QED
  BY <1>2 DEF RemoteSynced

LEMMA IndexRemoteAttFollows ==
    ASSUME Types, RemoteSynced, NEW v \in VNIs, IndexRemoteAtt(v)
    PROVE  RemoteSynced'
<1> DEFINE s == vniToVnState[v]
           e == Head(s.events)
           cache == [s.cache EXCEPT ![e.key] = e.obj]
           notes == IF s.cache[e.key] = NoAtt /\ e.obj = NoAtt THEN s.notes
                    ELSE Append(s.notes, Note(e.key, s.cache[e.key], e.obj))
           t == [s EXCEPT !.cache = cache, !.events = Tail(s.events), !.notes = notes]
<1>1. s \in VnState /\ s.events # <<>> /\ s.events \in Seq(RemoteEvents)
      /\ s.notes \in Seq(Notes) /\ s.cache \in [Keys -> RemoteObjs]
  BY VnParts DEF Types, VnOK, IndexRemoteAtt
<1>2. Follows(v, s, atts) /\ atts' = atts
  BY DEF RemoteSynced, IndexRemoteAtt, storeVars
<1>3. s.on
  BY <1>1, <1>2, NoVnParts DEF Follows
<1>4. e \in RemoteEvents
  BY <1>1, Ends
<1>5. e.key \in Keys
  BY <1>4 DEF RemoteEvents
<1>6. vniToVnState' = [vniToVnState EXCEPT ![v] = t]
  <2>1. vniToVnState \in [VNIs -> VnState]
    BY DEF Types, VnOK
  <2> QED
    BY <1>1, <2>1 DEF IndexRemoteAtt, VnState
<1>7. \A k \in Keys : cache[k] = IF e.key = k THEN e.obj ELSE s.cache[k]
  BY <1>1, <1>5
<1> HIDE DEF cache, notes
<1>8. t.cache = cache /\ t.events = Tail(s.events) /\ t.on = s.on /\ t.localAtts = s.localAtts
  BY <1>1 DEF VnState
<1> HIDE DEF t
<1>9. Watched(v, e.obj) /\ \A i \in 1 .. Len(Tail(s.events)) : Watched(v, Tail(s.events)[i].obj)
  <2>1. \A i \in 1 .. Len(s.events) : Watched(v, s.events[i].obj)
    BY <1>2 DEF Follows
  <2>2. Len(s.events) \in Nat \ {0} /\ Len(Tail(s.events)) = Len(s.events) - 1 /\ e = s.events[1]
        /\ \A i \in 1 .. Len(s.events) - 1 : Tail(s.events)[i] = s.events[i + 1]
    BY <1>1
  <2>3. ASSUME NEW i \in 1 .. Len(s.events) - 1 PROVE Watched(v, Tail(s.events)[i].obj)
    <3>1. i + 1 \in 1 .. Len(s.events) /\ Tail(s.events)[i] = s.events[i + 1]
      BY <2>2
    <3> QED
      BY <2>1, <3>1
  <2> QED
    BY <2>1, <2>2, <2>3
<1>10. \A k \in Keys : Synced(Tail(s.events), k, cache[k], SeenIn(v, atts[k]))
  <2> TAKE k \in Keys
  <2>1. Synced(s.events, k, s.cache[k], SeenIn(v, atts[k]))
    BY <1>2, <1>3 DEF Follows
  <2>2. Synced(Tail(s.events), k, IF e.key = k THEN e.obj ELSE s.cache[k], SeenIn(v, atts[k]))
    BY <1>1, <2>1, SyncedTail
  <2> QED
    BY <1>7, <2>2
<1>11. \A k \in Keys : Watched(v, cache[k])
  BY <1>2, <1>7, <1>9 DEF Follows
<1>12. s.localAtts # {}
  BY <1>2, <1>3 DEF Follows
<1>13. Follows(v, t, atts)
  BY <1>3, <1>8, <1>9, <1>10, <1>11, <1>12 DEF Follows
<1> QED
  BY <1>2, <1>6, <1>13, FollowReplaced DEF Types

LEMMA onRemoteAttFollows ==
    ASSUME Types, RemoteSynced, NEW v \in VNIs, onRemoteAtt(v)
    PROVE  RemoteSynced'
<1> DEFINE s == vniToVnState[v]
           t == [s EXCEPT !.notes = Tail(s.notes)]
<1>1. s \in VnState /\ s.notes # <<>>
  BY DEF Types, VnOK, onRemoteAtt
<1>2. Follows(v, s, atts) /\ atts' = atts
  BY DEF RemoteSynced, onRemoteAtt, HandleRemoteNote, storeVars
<1>3. s.on /\ s.localAtts # {}
  BY <1>1, <1>2, NoVnParts DEF Follows
<1>4. vniToVnState' = [vniToVnState EXCEPT ![v] = t]
  BY DEF onRemoteAtt
<1>5. t.cache = s.cache /\ t.events = s.events /\ t.on = s.on /\ t.localAtts = s.localAtts
  BY <1>1 DEF VnState
<1> HIDE DEF t, s
<1>6. Follows(v, t, atts)
  BY <1>2, <1>3, <1>5, MembersFollow
<1> QED
  BY <1>2, <1>4, <1>6, FollowReplaced DEF Types

LEMMA PutFollows ==
    ASSUME Types, RemoteSynced, NEW m \in Keys, NEW a \in NetworkAttachment, PutAtt(m, a)
    PROVE  RemoteSynced'
<1>1. atts \in [Keys -> NetworkAttachment] /\ atts' = [atts EXCEPT ![m] = a]
  BY DEF Types, StoreOK, PutAtt
<1>2. ASSUME NEW v \in VNIs PROVE Follows(v, vniToVnState'[v], atts')
  <2> DEFINE s == vniToVnState[v]
             e == Change(s.events, m, atts[m], a, InRemoteWatch(v, atts[m]), InRemoteWatch(v, a))
             t == [s EXCEPT !.events = e]
             ev == [key |-> m, obj |-> SeenIn(v, a)]
  <2>1. s \in VnState /\ s.events \in Seq(RemoteEvents)
    BY VnParts DEF Types, VnOK
  <2>2. Follows(v, s, atts)
    BY DEF RemoteSynced
  <2>3. vniToVnState'[v] = IF ~s.on THEN s ELSE t
    BY DEF PutAtt
  <2>4. CASE ~s.on
    <3>1. s = NoVnState
      BY <2>2, <2>4 DEF Follows
    <3> QED
      BY <2>3, <2>4, <3>1, EmptyFollows
  <2>5. CASE s.on
    <3>1. SeenIn(v, a) \in RemoteObjs
      BY RemoteSelected, ConstantsTyped DEF SeenIn
    <3>2. ev \in RemoteEvents /\ ev.key = m /\ ev.obj = SeenIn(v, a)
      BY <3>1 DEF RemoteEvents
    <3>3. \/ e = s.events /\ ~InRemoteWatch(v, atts[m]) /\ ~InRemoteWatch(v, a)
          \/ e = Append(s.events, ev)
      BY DEF Change, SeenIn
    <3>4. Watched(v, SeenIn(v, a))
      BY DEF Watched, SeenIn
    <3> HIDE DEF e, ev
    <3>5. t.events = e /\ t.cache = s.cache /\ t.on = s.on /\ t.localAtts = s.localAtts
      BY <2>1 DEF VnState
    <3> HIDE DEF t
    <3>6. \A i \in 1 .. Len(e) : Watched(v, e[i].obj)
      <4>1. \A i \in 1 .. Len(s.events) : Watched(v, s.events[i].obj)
        BY <2>2 DEF Follows
      <4>2. CASE e = s.events
        BY <4>1, <4>2
      <4>3. CASE e = Append(s.events, ev)
        <5>1. Len(s.events) \in Nat /\ Len(e) = Len(s.events) + 1 /\ e[Len(s.events) + 1] = ev
              /\ \A i \in 1 .. Len(s.events) : e[i] = s.events[i]
          BY <2>1, <3>2, <4>3
        <5>2. ASSUME NEW i \in 1 .. Len(e) PROVE Watched(v, e[i].obj)
          <6>1. CASE i \in 1 .. Len(s.events)
            <7>1. e[i] = s.events[i] /\ Watched(v, s.events[i].obj)
              BY <4>1, <5>1, <6>1
            <7> QED
              BY <7>1
          <6>2. CASE i = Len(s.events) + 1
            <7>1. e[i].obj = SeenIn(v, a)
              BY <3>2, <5>1, <6>2
            <7> QED
              BY <3>4, <7>1
          <6>3. i \in 1 .. Len(s.events) \/ i = Len(s.events) + 1
            BY <5>1, <5>2
          <6> QED
            BY <6>1, <6>2, <6>3
        <5> QED
          BY <5>2
      <4> QED
        BY <3>3, <4>2, <4>3
    <3>7. ASSUME NEW k \in Keys PROVE Synced(e, k, s.cache[k], SeenIn(v, atts'[k]))
      <4>1. Synced(s.events, k, s.cache[k], SeenIn(v, atts[k]))
        BY <2>2, <2>5 DEF Follows
      <4>2. atts'[k] = IF k = m THEN a ELSE atts[k]
        BY <1>1
      <4>3. CASE e = s.events /\ ~InRemoteWatch(v, atts[m]) /\ ~InRemoteWatch(v, a)
        <5>1. SeenIn(v, atts'[k]) = SeenIn(v, atts[k])
          BY <4>2, <4>3 DEF SeenIn
        <5> QED
          BY <4>1, <4>3, <5>1
      <4>4. CASE e = Append(s.events, ev)
        <5>1. Synced(Append(s.events, ev), k, s.cache[k],
                     IF ev.key = k THEN ev.obj ELSE SeenIn(v, atts[k]))
          BY <2>1, <3>2, <4>1, SyncedAppend
        <5>2. (IF ev.key = k THEN ev.obj ELSE SeenIn(v, atts[k])) = SeenIn(v, atts'[k])
          BY <3>2, <4>2
        <5> QED
          BY <4>4, <5>1, <5>2
      <4> QED
        BY <3>3, <4>3, <4>4
    <3>8. Follows(v, t, atts')
      BY <2>2, <2>5, <3>5, <3>6, <3>7 DEF Follows
    <3> QED
      BY <2>3, <2>5, <3>8
  <2> QED
    BY <2>4, <2>5
<1> QED
  BY <1>2 DEF RemoteSynced

-----------------------------------------------------------------------------
(* Members: the vnStates.                                                   *)

LEMMA VnReplacedAt ==
    ASSUME VnOK, NEW v \in VNIs, NEW t, vniToVnState' = [vniToVnState EXCEPT ![v] = t]
    PROVE  \A u \in VNIs : vniToVnState'[u] = IF u = v THEN t ELSE vniToVnState[u]
BY DEF VnOK

LEMMA SameVn ==
    ASSUME NEW s \in VnState, NEW t \in VnState, t.on = s.on, t.localAtts = s.localAtts,
           t.remoteAtts = s.remoteAtts, t.cache = s.cache, t.events = s.events,
           t.notes = s.notes
    PROVE  t = s
BY DEF VnState

LEMMA SameKept ==
    ASSUME NEW s, NEW t, NEW k, t.cache = s.cache, t.notes = s.notes, t.on = s.on,
           k \in t.localAtts <=> k \in s.localAtts, k \in t.remoteAtts <=> k \in s.remoteAtts
    PROVE  KeptIn(s, t, k)
BY DEF KeptIn

LEMMA DropKept ==
    ASSUME VnOK, NEW v \in VNIs, DropVnState(v), NEW k \in Keys,
           k \notin vniToVnState[v].localAtts, k \in vniToVnState[v].remoteAtts => Due(k)'
    PROVE  \A u \in VNIs : \/ KeptIn(vniToVnState[u], vniToVnState'[u], k)
                           \/ Due(k)' /\ LostIn(vniToVnState[u], vniToVnState'[u], k)
<1>1. \A u \in VNIs : vniToVnState'[u] = IF u = v THEN NoVnState ELSE vniToVnState[u]
  BY VnReplacedAt DEF DropVnState
<1>2. \A u \in VNIs : u # v => KeptIn(vniToVnState[u], vniToVnState'[u], k)
  BY <1>1, SameKept
<1>3. KeptIn(vniToVnState[v], NoVnState, k) \/ (Due(k)' /\ LostIn(vniToVnState[v], NoVnState, k))
  BY NoVnParts DEF KeptIn, LostIn
<1> QED
  BY <1>1, <1>2, <1>3

\* One vnState changes, not for the attachment.
LEMMA ReplacedKept ==
    ASSUME VnOK, NEW v \in VNIs, NEW t, vniToVnState' = [vniToVnState EXCEPT ![v] = t], NEW k,
           KeptIn(vniToVnState[v], t, k)
    PROVE  \A u \in VNIs : KeptIn(vniToVnState[u], vniToVnState'[u], k)
<1>1. \A u \in VNIs : vniToVnState'[u] = IF u = v THEN t ELSE vniToVnState[u]
  BY VnReplacedAt
<1>2. \A u \in VNIs : u # v => KeptIn(vniToVnState[u], vniToVnState'[u], k)
  BY <1>1, SameKept
<1> QED
  BY <1>1, <1>2

LEMMA StillKept ==
    ASSUME UNCHANGED vniToVnState, NEW k
    PROVE  \A u \in VNIs : KeptIn(vniToVnState[u], vniToVnState'[u], k)
BY SameKept

\* The departure of m from its vnState.
LEMMA DepartureParts ==
    ASSUME Types, RemoteSynced, NEW m \in Keys, removeAttFromVNState(m)
    PROVE  \E v \in VNIs :
              /\ nsnToVNStateVNI[m] = v
              /\ nsnToVNStateVNI' = [nsnToVNStateVNI EXCEPT ![m] = NoVNI]
              /\ \/ /\ vniToVnState[v].localAtts \subseteq {m}
                    /\ DropVnState(v)
                    /\ Continue(m, Clearing(proc[m], v, vniToVnState[v].remoteAtts, proc[m].then))
                 \/ \E t : /\ vniToVnState' = [vniToVnState EXCEPT ![v] = t]
                           /\ Follows(v, t, atts)
                           /\ t.cache = vniToVnState[v].cache /\ t.notes = vniToVnState[v].notes
                           /\ t.on = vniToVnState[v].on
                           /\ t.localAtts = vniToVnState[v].localAtts \ {m}
                           /\ t.remoteAtts = vniToVnState[v].remoteAtts \ {m}
                           /\ Continue(m, GoOn(proc[m], proc[m].then))
<1> DEFINE v == nsnToVNStateVNI[m]
           s == vniToVnState[v]
<1>1. proc[m].pc = "depart"
  BY DEF removeAttFromVNState
<1>2. v \in VNIs
  BY <1>1 DEF Types, PassesOK, PassOK
<1>3. s \in VnState /\ Follows(v, s, atts)
  BY <1>2 DEF Types, VnOK, RemoteSynced
<1>4. nsnToVNStateVNI' = [nsnToVNStateVNI EXCEPT ![m] = NoVNI]
  BY DEF removeAttFromVNState, unsetVNStateVNI
<1>5. CASE /\ s.on /\ s.localAtts \subseteq {m}
           /\ DropVnState(v)
           /\ Continue(m, Clearing(proc[m], v, s.remoteAtts, proc[m].then))
  BY <1>2, <1>4, <1>5
<1>6. CASE /\ ~(s.on /\ s.localAtts \subseteq {m})
           /\ vniToVnState' = [vniToVnState EXCEPT ![v].localAtts = @ \ {m},
                                                   ![v].remoteAtts = @ \ {m}]
           /\ Continue(m, GoOn(proc[m], proc[m].then))
  <2> DEFINE l == s.localAtts \ {m}
             r == s.remoteAtts \ {m}
             t == [s EXCEPT !.localAtts = l, !.remoteAtts = r]
  <2>1. vniToVnState' = [vniToVnState EXCEPT ![v] = t]
    <3>1. vniToVnState \in [VNIs -> VnState]
      BY DEF Types, VnOK
    <3> QED
      BY <1>2, <1>3, <1>6, <3>1 DEF VnState
  <2> HIDE DEF l, r
  <2>2. t.cache = s.cache /\ t.notes = s.notes /\ t.events = s.events /\ t.on = s.on
        /\ t.localAtts = l /\ t.remoteAtts = r
    BY <1>3 DEF VnState
  <2>3. Follows(v, t, atts)
    <3>1. CASE s.on
      <4>1. l # {}
        BY <1>6, <3>1 DEF l
      <4> HIDE DEF t
      <4> QED
        BY <1>3, <2>2, <3>1, <4>1, MembersFollow
    <3>2. CASE ~s.on
      <4>1. s = NoVnState
        BY <1>3, <3>2 DEF Follows
      <4>2. l = {} /\ r = {}
        BY <4>1, NoVnParts DEF l, r
      <4>3. s.localAtts = l /\ s.remoteAtts = r
        BY <4>1, <4>2, NoVnParts
      <4>4. t \in VnState
        <5>1. l \subseteq Keys /\ r \subseteq Keys
          BY <4>2
        <5> QED
          BY <1>3, <5>1, VnMade
      <4>5. t = NoVnState
        <5> HIDE DEF t
        <5> QED
          BY <1>3, <2>2, <4>1, <4>3, <4>4, SameVn
      <4> QED
        BY <4>5, EmptyFollows
    <3> QED
      BY <1>3, <3>1, <3>2, VnParts
  <2> HIDE DEF t
  <2> QED
    BY <1>2, <1>4, <1>6, <2>1, <2>2, <2>3 DEF l, r
<1> QED
  BY <1>5, <1>6 DEF removeAttFromVNState

LEMMA JoiningAt ==
    ASSUME Types, NEW m \in Keys, proc[m].pc = "join"
    PROVE  AddressVNI(proc[m].att) \in VNIs /\ proc[m].att # NoAtt
<1>1. proc[m].att.pair \in Pairs
  BY DEF Types, PassesOK, PassOK, Usable
<1> QED
  BY <1>1, AttParts, PassParts, Addressed DEF Types, PassesOK

\* m joins the vnState of v as a local attachment.
LEMMA JoinLocalParts ==
    ASSUME Types, RemoteSynced, NEW m \in Keys, NEW v \in VNIs, joinLocal(m, v)
    PROVE  \E t : /\ vniToVnState' = [vniToVnState EXCEPT ![v] = t]
                  /\ Follows(v, t, atts)
                  /\ t.localAtts = vniToVnState[v].localAtts \cup {m}
                  /\ t.remoteAtts = vniToVnState[v].remoteAtts \ {m}
                  /\ \A k \in Keys : k # m =>
                        \/ KeptIn(vniToVnState[v], t, k)
                        \/ /\ RenewedIn(vniToVnState[v], t, k)
                           /\ ~vniToVnState[v].on /\ ~InRemoteWatch(v, atts[k])
                  /\ \A k \in Keys : t.cache[k] # NoAtt => \/ Tells(t.notes, k)
                                        \/ /\ t.cache[k] = vniToVnState[v].cache[k]
                                           /\ Tells(vniToVnState[v].notes, k) => Tells(t.notes, k)
<1> DEFINE s == vniToVnState[v]
           u == IF s.on THEN s ELSE initVNState(v)
           l == u.localAtts \cup {m}
           r == u.remoteAtts \ {m}
           t == [u EXCEPT !.localAtts = l, !.remoteAtts = r]
<1>1. vniToVnState' = [vniToVnState EXCEPT ![v] = t]
  BY DEF joinLocal
<1>2. s \in VnState /\ Follows(v, s, atts)
  BY DEF Types, VnOK, RemoteSynced
<1>3. u \in VnState
  BY <1>2, InitTyped DEF Types
<1>4. s.on => u = s
  OBVIOUS
<1>5. ~s.on => u = initVNState(v) /\ s = NoVnState
  BY <1>2 DEF Follows
<1> HIDE DEF u, l, r
<1>6. t.cache = u.cache /\ t.notes = u.notes /\ t.events = u.events /\ t.on = u.on
      /\ t.localAtts = l /\ t.remoteAtts = r
  BY <1>3 DEF VnState
<1> HIDE DEF t
<1>7. u.localAtts = s.localAtts /\ u.remoteAtts = s.remoteAtts /\ u.on
  BY <1>4, <1>5, InitParts, NoVnParts
<1>8. l # {}
  BY DEF l
<1>9. Follows(v, t, atts)
  <2>1. CASE s.on
    BY <1>2, <1>4, <1>6, <1>8, <2>1, MembersFollow
  <2>2. CASE ~s.on
    BY <1>5, <1>6, <1>8, <2>2, InitParts, InitFollows
  <2> QED
    BY <2>1, <2>2
<1>10. ASSUME NEW k \in Keys
       PROVE  t.cache[k] # NoAtt => \/ Tells(t.notes, k)
                                    \/ /\ t.cache[k] = s.cache[k]
                                       /\ Tells(s.notes, k) => Tells(t.notes, k)
  <2>1. CASE s.on
    BY <1>4, <1>6, <2>1
  <2>2. CASE ~s.on
    BY <1>5, <1>6, <2>2, InitParts
  <2> QED
    BY <2>1, <2>2
<1>11. ASSUME NEW k \in Keys, k # m
       PROVE  KeptIn(s, t, k) \/ (RenewedIn(s, t, k) /\ ~s.on /\ ~InRemoteWatch(v, atts[k]))
  <2>1. /\ k \in t.localAtts <=> k \in s.localAtts
        /\ k \in t.remoteAtts <=> k \in s.remoteAtts
    BY <1>6, <1>7, <1>11 DEF l, r
  <2>2. CASE s.on
    BY <1>4, <1>6, <2>1, <2>2 DEF KeptIn
  <2>3. CASE ~s.on
    <3>1. /\ t.cache[k] = SeenIn(v, atts[k]) /\ (t.cache[k] # NoAtt => Tells(t.notes, k))
          /\ k \notin s.remoteAtts
      BY <1>5, <1>6, <2>3, InitParts, NoVnParts
    <3>2. InRemoteWatch(v, atts[k]) => atts[k] # NoAtt
      BY DEF InRemoteWatch, MatchNetworkAttachment
    <3> QED
      BY <2>1, <2>3, <3>1, <3>2 DEF KeptIn, RenewedIn, SeenIn
  <2> QED
    BY <2>2, <2>3
<1> QED
  BY <1>1, <1>6, <1>7, <1>9, <1>10, <1>11 DEF l, r

LEMMA JoinRemoteParts ==
    ASSUME Types, RemoteSynced, NEW m \in Keys, NEW v \in VNIs, joinRemote(m, v)
    PROVE  \E t : /\ vniToVnState' = [vniToVnState EXCEPT ![v] = t]
                  /\ Follows(v, t, atts)
                  /\ t.localAtts = vniToVnState[v].localAtts \ {m}
                  /\ t.remoteAtts = vniToVnState[v].remoteAtts \cup {m}
                  /\ t.cache = vniToVnState[v].cache /\ t.notes = vniToVnState[v].notes
                  /\ t.on = vniToVnState[v].on
<1> DEFINE s == vniToVnState[v]
           l == s.localAtts \ {m}
           r == s.remoteAtts \cup {m}
           t == [s EXCEPT !.localAtts = l, !.remoteAtts = r]
<1>1. s \in VnState /\ Follows(v, s, atts) /\ vniToVnState \in [VNIs -> VnState]
  BY DEF Types, VnOK, RemoteSynced
<1>2. vniToVnState' = [vniToVnState EXCEPT ![v] = t]
  BY <1>1 DEF joinRemote, VnState
<1>3. s.on /\ l # {}
  BY DEF joinRemote
<1> HIDE DEF l, r
<1>4. t.cache = s.cache /\ t.notes = s.notes /\ t.events = s.events /\ t.on = s.on
      /\ t.localAtts = l /\ t.remoteAtts = r
  BY <1>1 DEF VnState
<1> HIDE DEF t
<1>5. Follows(v, t, atts)
  BY <1>1, <1>3, <1>4, MembersFollow
<1> QED
  BY <1>2, <1>4, <1>5 DEF l, r

LEMMA DropFollows ==
    ASSUME VnOK, RemoteSynced, atts' = atts, NEW v \in VNIs, DropVnState(v)
    PROVE  RemoteSynced'
BY EmptyFollows, FollowReplaced DEF DropVnState

LEMMA StartFollows ==
    ASSUME Types, startRemoteInformers
    PROVE  RemoteSynced'
<1>1. ASSUME NEW v \in VNIs PROVE Follows(v, vniToVnState'[v], atts')
  <2> DEFINE L == {m \in Keys : AddressVNI(localAtts.cache[m]) = v}
             s == initVNState(v)
             t == [s EXCEPT !.localAtts = L]
  <2>1. vniToVnState'[v] = (IF L = {} THEN NoVnState ELSE t) /\ atts' = atts
    BY DEF startRemoteInformers, storeVars
  <2>2. s \in VnState
    BY InitTyped DEF Types
  <2>3. s.on /\ s.events = <<>> /\ \A k \in Keys : s.cache[k] = SeenIn(v, atts[k])
    BY InitParts
  <2> HIDE DEF L, s
  <2>4. t.cache = s.cache /\ t.events = s.events /\ t.on = s.on /\ t.localAtts = L
    BY <2>2 DEF VnState
  <2> HIDE DEF t
  <2>5. L # {} => Follows(v, t, atts)
    BY <2>3, <2>4, InitFollows
  <2> QED
    BY <2>1, <2>5, EmptyFollows
<1> QED
  BY <1>1 DEF RemoteSynced

LEMMA StepFollows ==
    ASSUME Types, RemoteSynced, [Next]_vars
    PROVE  RemoteSynced'
<1>1. ASSUME UNCHANGED <<atts, vniToVnState>> PROVE RemoteSynced'
  BY <1>1 DEF RemoteSynced, Follows
<1>2. CASE InformerNext
  <2>1. CASE onLocalAtt
    BY <1>1, <2>1 DEF onLocalAtt, storeVars, vnVars
  <2>2. ASSUME NEW v \in VNIs, onLateRemoteAtt(v) \/ EndStoppedInformers(v) PROVE RemoteSynced'
    BY <1>1, <2>2 DEF onLateRemoteAtt, EndStoppedInformers, HandleRemoteNote, storeVars
  <2> QED
    BY <1>2, <2>1, <2>2, IndexRemoteAttFollows, onRemoteAttFollows DEF InformerNext
<1>3. CASE StartNext
  <2>1. CASE syncPreExistingLocalIfc \/ syncPreExistingRemoteIfc \/ startWorkers
    BY <1>1, <2>1 DEF syncPreExistingLocalIfc, syncPreExistingRemoteIfc, startWorkers,
                      storeVars, vnVars
  <2> QED
    BY <1>3, <2>1, StartFollows DEF StartNext
<1>4. ASSUME NEW m \in Keys, Work(m) PROVE RemoteSynced'
  <2>1. CASE \/ processNetworkAttachment(m) \/ getAttachment(m) \/ updateIfc(m) \/ createIfc(m)
             \/ processDeletedAtt(m)
    <3>1. UNCHANGED <<atts, vnVars>>
      BY <2>1, VnStill
    <3> QED
      BY <1>1, <3>1 DEF vnVars
  <2>2. CASE clearVNResources(m)
    BY <1>1, <2>2 DEF clearVNResources, storeVars
  <2>3. CASE removeAttFromVNState(m)
    <3>1. atts' = atts
      BY <2>3 DEF removeAttFromVNState, storeVars
    <3>2. ASSUME NEW v \in VNIs, DropVnState(v) PROVE RemoteSynced'
      BY <3>1, <3>2, DropFollows DEF Types
    <3>3. ASSUME NEW v \in VNIs, NEW t, vniToVnState' = [vniToVnState EXCEPT ![v] = t],
                 Follows(v, t, atts)
          PROVE  RemoteSynced'
      BY <3>1, <3>3, FollowReplaced DEF Types
    <3> QED
      BY <2>3, <3>2, <3>3, DepartureParts
  <2>4. CASE updateVNStateForExistingAtt(m)
    <3> DEFINE v == AddressVNI(proc[m].att)
    <3>1. atts' = atts /\ proc[m].pc = "join"
      BY <2>4 DEF updateVNStateForExistingAtt, storeVars
    <3>2. v \in VNIs
      BY <3>1, JoiningAt
    <3> HIDE DEF v
    <3>3. ASSUME NEW t, vniToVnState' = [vniToVnState EXCEPT ![v] = t], Follows(v, t, atts)
          PROVE  RemoteSynced'
      BY <3>1, <3>2, <3>3, FollowReplaced DEF Types
    <3>4. CASE joinLocal(m, v)
      BY <3>2, <3>3, <3>4, JoinLocalParts
    <3>5. CASE joinRemote(m, v)
      BY <3>2, <3>3, <3>5, JoinRemoteParts
    <3>6. CASE leaveLast(m, v)
      BY <3>1, <3>2, <3>6, DropFollows DEF leaveLast, Types
    <3>7. CASE joinNothing(m, v)
      BY <1>1, <3>1, <3>7 DEF joinNothing
    <3> QED
      BY <2>4, <3>4, <3>5, <3>6, <3>7 DEF updateVNStateForExistingAtt, v
  <2>5. CASE setAttStatus(m)
    <3>1. proc[m] \in Pass /\ proc[m].pc = "status"
      BY <2>5 DEF Types, PassesOK, setAttStatus
    <3>2. proc[m].att.pair \in Pairs
      BY <3>1 DEF Types, PassesOK, PassOK, Usable
    <3>3. WithStatus(m, proc[m].att, proc[m].report) \in NetworkAttachment
      BY <3>1, <3>2, PassParts, StatusWritten
    <3> QED
      BY <1>1, <2>5, <3>3, PutFollows DEF setAttStatus
  <2> QED
    BY <1>4, <2>1, <2>2, <2>3, <2>4, <2>5 DEF Work
<1>5. CASE \E c \in commands : RunCommand(c)
  BY <1>1, <1>5 DEF RunCommand, storeVars, vnVars
<1>6. CASE EnvironmentNext
  <2>1. ASSUME NEW m \in Keys, NEW n \in Hosts, NEW p \in Pairs, NEW h \in Hosts \cup {""},
               WriteAtt(m, n, p, h)
        PROVE  RemoteSynced'
    <3>1. [atts[m] EXCEPT !.node = n, !.pair = p, !.host = h] \in NetworkAttachment
      BY DEF Types, StoreOK, NetworkAttachment
    <3> QED
      BY <2>1, <3>1, PutFollows DEF WriteAtt
  <2>2. ASSUME NEW m \in Keys, DeleteAtt(m) PROVE RemoteSynced'
    BY <2>2, PutFollows, ConstantsTyped DEF DeleteAtt
  <2>3. ASSUME NEW m \in Keys, Fault(m) PROVE RemoteSynced'
    BY <1>1, <2>3 DEF Fault, vnVars
  <2>4. CASE Crash
    <3>1. \A v \in VNIs : vniToVnState'[v] = NoVnState
      BY <2>4 DEF Crash
    <3> QED
      BY <3>1, EmptyFollows DEF RemoteSynced
  <2> QED
    BY <1>6, <2>1, <2>2, <2>3, <2>4 DEF EnvironmentNext
<1>7. CASE UNCHANGED vars
  BY <1>1, <1>7 DEF vars, storeVars, vnVars
<1> QED
  BY <1>2, <1>3, <1>4, <1>5, <1>6, <1>7 DEF Next

-----------------------------------------------------------------------------
(* Members: what a pass does to other attachments.                          *)

LEMMA DueMoves ==
    ASSUME Types, NEW m \in Keys, NEW q, proc' = [proc EXCEPT ![m] = q], proc[m].pc # "clear",
           NEW k, k \in queue => k \in queue'
    PROVE  /\ Due(k) => Due(k)'
           /\ q.pc = "clear" /\ k \in q.names => Due(k)'
<1>1. \A j \in Keys : proc'[j] = IF j = m THEN q ELSE proc[j]
  BY DEF Types, PassesOK
<1> QED
  BY <1>1 DEF Due

LEMMA DueClears ==
    ASSUME Types, NEW m \in Keys, clearVNResources(m), NEW k
    PROVE  /\ Due(k) => Due(k)'
           /\ k \in proc[m].names => k \in queue'
<1>1. \A j \in Keys : j # m => proc'[j] = proc[j]
  BY DEF Types, PassesOK, clearVNResources
<1>2. queue' = queue \cup proc[m].names
  BY DEF clearVNResources
<1> QED
  BY <1>1, <1>2 DEF Due

\* A write changes nothing of a vnState but its events.
LEMMA PutKept ==
    ASSUME Types, NEW m, NEW a, PutAtt(m, a), NEW k
    PROVE  \A v \in VNIs : KeptIn(vniToVnState[v], vniToVnState'[v], k)
<1> SUFFICES ASSUME NEW v \in VNIs PROVE KeptIn(vniToVnState[v], vniToVnState'[v], k)
  OBVIOUS
<1> DEFINE s == vniToVnState[v]
           e == Change(s.events, m, atts[m], a, InRemoteWatch(v, atts[m]), InRemoteWatch(v, a))
           t == [s EXCEPT !.events = e]
<1>1. s \in VnState
  BY DEF Types, VnOK
<1>2. vniToVnState'[v] = IF ~s.on THEN s ELSE t
  BY DEF PutAtt
<1> HIDE DEF e
<1>3. t.cache = s.cache /\ t.notes = s.notes /\ t.localAtts = s.localAtts
      /\ t.remoteAtts = s.remoteAtts /\ t.on = s.on
  BY <1>1 DEF VnState
<1> HIDE DEF t
<1> QED
  BY <1>2, <1>3, SameKept

\* The parts of Untouched that every step of a pass over another key has.
LEMMA OtherParts ==
    ASSUME Types, NEW m \in Keys, NEW k \in Keys, k # m, Work(m) \/ Fault(m)
    PROVE  /\ KeyStill(k)
           /\ twofold' = twofold /\ phase' = phase /\ (k \in adopted => k \in adopted')
           /\ localAtts'.cache[k] = localAtts.cache[k]
           /\ Tells(localAtts.events, k) => Tells(localAtts'.events, k)
           /\ k \in behind => k \in behind'
<1>0. k \in behind => k \in behind'
  BY DEF Work, Fault, processNetworkAttachment, getAttachment, removeAttFromVNState,
         clearVNResources, updateVNStateForExistingAtt, updateIfc, createIfc, setAttStatus,
         processDeletedAtt, joinLocal, joinRemote, leaveLast, joinNothing
<1>1. KeyStill(k)
  BY OtherKeys
<1>2. twofold' = twofold /\ phase' = phase /\ (k \in adopted => k \in adopted')
  BY DEF Work, Fault, processNetworkAttachment, getAttachment, removeAttFromVNState,
         clearVNResources, updateVNStateForExistingAtt, updateIfc, createIfc, setAttStatus,
         processDeletedAtt, startVars
<1>3. CASE setAttStatus(m)
  <2>1. proc[m].att.pair \in Pairs /\ Here \in Hosts
    BY <1>3, ConstantsTyped DEF setAttStatus, Types, PassesOK, PassOK, Usable
  <2>2. UNCHANGED <<atts, localAtts>> \/ \E a \in NetworkAttachment : PutAtt(m, a)
    BY <1>3, <2>1, Puts
  <2> QED
    BY <1>0, <1>1, <1>2, <2>2, EventsGrow DEF Types
<1>4. CASE ~setAttStatus(m)
  <2>1. UNCHANGED <<atts, localAtts>>
    BY <1>4, LocalStill DEF Work
  <2> QED
    BY <1>0, <1>1, <1>2, <2>1
<1> QED
  BY <1>3, <1>4

LEMMA OtherUntouched ==
    ASSUME Types, RemoteSynced, NEW m \in Keys, NEW k \in Keys, k # m, Work(m) \/ Fault(m)
    PROVE  Untouched(k)
<1>1. /\ KeyStill(k)
      /\ twofold' = twofold /\ phase' = phase /\ (k \in adopted => k \in adopted')
      /\ localAtts'.cache[k] = localAtts.cache[k]
      /\ Tells(localAtts.events, k) => Tells(localAtts'.events, k)
      /\ k \in behind => k \in behind'
  BY OtherParts
<1>2. ASSUME nsnToVNStateVNI'[k] = nsnToVNStateVNI[k], Due(k) => Due(k)',
             k \in queue' \/ nsnToVNIs'[k] = nsnToVNIs[k],
             \A v \in VNIs : \/ KeptIn(vniToVnState[v], vniToVnState'[v], k)
                             \/ Due(k)' /\ LostIn(vniToVnState[v], vniToVnState'[v], k)
                             \/ Renewed(v, k)
      PROVE  Untouched(k)
  BY <1>1, <1>2 DEF Untouched, KeyStill
<1>3. ASSUME NEW q, Continue(m, q), proc[m].pc # "clear" PROVE Due(k) => Due(k)'
  BY <1>3, DueMoves DEF Continue
<1>4. ASSUME Retry(m), proc[m].pc # "clear" PROVE Due(k) => Due(k)'
  BY <1>4, DueMoves DEF Retry
<1>5. ASSUME UNCHANGED vnVars, Due(k) => Due(k)' PROVE Untouched(k)
  BY <1>2, <1>5, StillKept DEF vnVars
<1>6. CASE processNetworkAttachment(m)
  <2>1. PICK q : proc' = [proc EXCEPT ![m] = q]
    BY <1>6 DEF processNetworkAttachment
  <2>2. proc[m].pc # "clear" /\ queue' = queue \ {m} /\ UNCHANGED vnVars
    BY <1>6 DEF processNetworkAttachment
  <2>3. Due(k) => Due(k)'
    BY <2>1, <2>2, DueMoves
  <2> QED
    BY <1>5, <2>2, <2>3
<1>7. CASE getAttachment(m)
  <2>1. proc[m].pc # "clear" /\ UNCHANGED vnVars /\ \E q : Continue(m, q)
    BY <1>7 DEF getAttachment
  <2> QED
    BY <1>3, <1>5, <2>1
<1>8. CASE removeAttFromVNState(m)
  <2>1. PICK v \in VNIs :
              /\ nsnToVNStateVNI[m] = v
              /\ nsnToVNStateVNI' = [nsnToVNStateVNI EXCEPT ![m] = NoVNI]
              /\ \/ /\ vniToVnState[v].localAtts \subseteq {m}
                    /\ DropVnState(v)
                    /\ Continue(m, Clearing(proc[m], v, vniToVnState[v].remoteAtts, proc[m].then))
                 \/ \E t : /\ vniToVnState' = [vniToVnState EXCEPT ![v] = t]
                           /\ Follows(v, t, atts)
                           /\ t.cache = vniToVnState[v].cache /\ t.notes = vniToVnState[v].notes
                           /\ t.on = vniToVnState[v].on
                           /\ t.localAtts = vniToVnState[v].localAtts \ {m}
                           /\ t.remoteAtts = vniToVnState[v].remoteAtts \ {m}
                           /\ Continue(m, GoOn(proc[m], proc[m].then))
    BY <1>8, DepartureParts
  <2>2. nsnToVNStateVNI'[k] = nsnToVNStateVNI[k]
    BY <2>1 DEF Types, VnOK
  <2>3. proc[m].pc = "depart" /\ nsnToVNIs' = nsnToVNIs /\ proc[m] \in Pass
    BY <1>8 DEF removeAttFromVNState, Types, PassesOK
  <2>4. CASE /\ vniToVnState[v].localAtts \subseteq {m}
             /\ DropVnState(v)
             /\ Continue(m, Clearing(proc[m], v, vniToVnState[v].remoteAtts, proc[m].then))
    <3> DEFINE q == Clearing(proc[m], v, vniToVnState[v].remoteAtts, proc[m].then)
    <3>1. q.pc = "clear" /\ q.names = vniToVnState[v].remoteAtts
      BY <2>3 DEF Clearing, Pass
    <3> HIDE DEF q
    <3>2. proc' = [proc EXCEPT ![m] = q] /\ queue' = queue
      BY <2>4 DEF Continue, q
    <3>3. (Due(k) => Due(k)') /\ (k \in vniToVnState[v].remoteAtts => Due(k)')
      BY <2>3, <3>1, <3>2, DueMoves
    <3>4. k \notin vniToVnState[v].localAtts
      BY <2>4
    <3>5. \A u \in VNIs : \/ KeptIn(vniToVnState[u], vniToVnState'[u], k)
                          \/ Due(k)' /\ LostIn(vniToVnState[u], vniToVnState'[u], k)
      BY <2>4, <3>3, <3>4, DropKept DEF Types
    <3> QED
      BY <1>2, <2>2, <2>3, <3>3, <3>5
  <2>5. ASSUME NEW t, vniToVnState' = [vniToVnState EXCEPT ![v] = t],
               t.cache = vniToVnState[v].cache, t.notes = vniToVnState[v].notes,
               t.on = vniToVnState[v].on,
               t.localAtts = vniToVnState[v].localAtts \ {m},
               t.remoteAtts = vniToVnState[v].remoteAtts \ {m},
               Continue(m, GoOn(proc[m], proc[m].then))
        PROVE  Untouched(k)
    <3>1. KeptIn(vniToVnState[v], t, k)
      BY <2>5, SameKept
    <3>2. \A u \in VNIs : KeptIn(vniToVnState[u], vniToVnState'[u], k)
      BY <2>5, <3>1, ReplacedKept DEF Types
    <3>3. Due(k) => Due(k)'
      BY <1>3, <2>3, <2>5
    <3> QED
      BY <1>2, <2>2, <2>3, <3>2, <3>3
  <2> QED
    BY <2>1, <2>4, <2>5
<1>9. CASE clearVNResources(m)
  <2>1. UNCHANGED <<vniToVnState, nsnToVNStateVNI>>
    BY <1>9 DEF clearVNResources
  <2>2. k \in queue' \/ nsnToVNIs'[k] = nsnToVNIs[k]
    BY <1>9, DueClears DEF clearVNResources, removeSeenInVNI
  <2> QED
    BY <1>2, <1>9, <2>1, <2>2, DueClears, StillKept
<1>10. CASE updateVNStateForExistingAtt(m)
  <2> DEFINE v == AddressVNI(proc[m].att)
  <2>1. proc[m].pc = "join" /\ proc[m] \in Pass
    BY <1>10 DEF updateVNStateForExistingAtt, Types, PassesOK
  <2>2. v \in VNIs
    BY <2>1, JoiningAt
  <2> HIDE DEF v
  <2>3. nsnToVNStateVNI'[k] = nsnToVNStateVNI[k]
    BY <1>10 DEF updateVNStateForExistingAtt, joinLocal, joinRemote, leaveLast, joinNothing,
                 setVNStateVNI, unsetVNStateVNI, Types, VnOK
  <2>4. nsnToVNIs'[k] = nsnToVNIs[k]
    BY <1>10 DEF updateVNStateForExistingAtt, joinLocal, joinRemote, leaveLast, joinNothing,
                 removeSeenInVNI
  <2>5. \E q : Continue(m, q)
    BY <1>10 DEF updateVNStateForExistingAtt, joinLocal, joinRemote, leaveLast, joinNothing
  <2>6. Due(k) => Due(k)'
    BY <1>3, <2>1, <2>5
  <2>7. CASE joinLocal(m, v)
    <3>1. PICK t : /\ vniToVnState' = [vniToVnState EXCEPT ![v] = t]
                   /\ \/ KeptIn(vniToVnState[v], t, k)
                      \/ /\ RenewedIn(vniToVnState[v], t, k)
                         /\ ~vniToVnState[v].on /\ ~InRemoteWatch(v, atts[k])
      BY <2>2, <2>7, JoinLocalParts
    <3>2. CASE KeptIn(vniToVnState[v], t, k)
      <4>1. \A u \in VNIs : KeptIn(vniToVnState[u], vniToVnState'[u], k)
        BY <2>2, <3>1, <3>2, ReplacedKept DEF Types
      <4> QED
        BY <1>2, <2>3, <2>4, <2>6, <4>1
    <3>3. CASE /\ RenewedIn(vniToVnState[v], t, k)
               /\ ~vniToVnState[v].on /\ ~InRemoteWatch(v, atts[k])
      <4>1. behind' = behind \cup ReadTooEarly(v)
        BY <2>7, <3>3 DEF joinLocal
      <4>2. proc[k].att.node # Here /\ AddressVNI(proc[k].att) = v => k \in behind'
        BY <3>3, <4>1 DEF ReadTooEarly
      <4>3. \A u \in VNIs : vniToVnState'[u] = IF u = v THEN t ELSE vniToVnState[u]
        BY <2>2, <3>1, VnReplacedAt DEF Types
      <4>4. Renewed(v, k)
        BY <2>2, <3>3, <4>2, <4>3 DEF Renewed
      <4>5. \A u \in VNIs : u # v => KeptIn(vniToVnState[u], vniToVnState'[u], k)
        BY <4>3, SameKept
      <4> QED
        BY <1>2, <2>3, <2>4, <2>6, <4>4, <4>5
    <3> QED
      BY <3>1, <3>2, <3>3
  <2>8. CASE joinRemote(m, v)
    <3>1. PICK t : /\ vniToVnState' = [vniToVnState EXCEPT ![v] = t]
                   /\ t.localAtts = vniToVnState[v].localAtts \ {m}
                   /\ t.remoteAtts = vniToVnState[v].remoteAtts \cup {m}
                   /\ t.cache = vniToVnState[v].cache /\ t.notes = vniToVnState[v].notes
                   /\ t.on = vniToVnState[v].on
      BY <2>2, <2>8, JoinRemoteParts
    <3>2. KeptIn(vniToVnState[v], t, k)
      BY <3>1, SameKept
    <3>3. \A u \in VNIs : KeptIn(vniToVnState[u], vniToVnState'[u], k)
      BY <2>2, <3>1, <3>2, ReplacedKept DEF Types
    <3> QED
      BY <1>2, <2>3, <2>4, <2>6, <3>3
  <2>9. CASE leaveLast(m, v)
    <3> DEFINE q == Clearing(proc[m], v, vniToVnState[v].remoteAtts \cup {m}, "idle")
    <3>1. q.pc = "clear" /\ q.names = vniToVnState[v].remoteAtts \cup {m}
      BY <2>1 DEF Clearing, Pass
    <3> HIDE DEF q
    <3>2. proc' = [proc EXCEPT ![m] = q] /\ queue' = queue /\ DropVnState(v)
          /\ vniToVnState[v].localAtts \subseteq {m}
      BY <2>9 DEF leaveLast, Continue, q
    <3>3. k \in vniToVnState[v].remoteAtts => Due(k)'
      BY <2>1, <3>1, <3>2, DueMoves
    <3>4. k \notin vniToVnState[v].localAtts
      BY <3>2
    <3>5. \A u \in VNIs : \/ KeptIn(vniToVnState[u], vniToVnState'[u], k)
                          \/ Due(k)' /\ LostIn(vniToVnState[u], vniToVnState'[u], k)
      BY <2>2, <3>2, <3>3, <3>4, DropKept DEF Types
    <3> QED
      BY <1>2, <2>3, <2>4, <2>6, <3>5
  <2>10. CASE joinNothing(m, v)
    <3>1. vniToVnState' = vniToVnState
      BY <2>10 DEF joinNothing
    <3> QED
      BY <1>2, <2>3, <2>4, <2>6, <3>1, StillKept
  <2> QED
    BY <1>10, <2>7, <2>8, <2>9, <2>10 DEF updateVNStateForExistingAtt, v
<1>11. CASE updateIfc(m)
  <2>1. proc[m].pc # "clear" /\ UNCHANGED vnVars /\ \E q : Continue(m, q)
    BY <1>11 DEF updateIfc
  <2> QED
    BY <1>3, <1>5, <2>1
<1>12. CASE createIfc(m)
  <2>1. proc[m].pc # "clear" /\ UNCHANGED vnVars /\ (Retry(m) \/ \E q : Continue(m, q))
    BY <1>12 DEF createIfc
  <2> QED
    BY <1>3, <1>4, <1>5, <2>1
<1>13. CASE setAttStatus(m)
  <2>1. proc[m].pc # "clear" /\ (Retry(m) \/ \E q : Continue(m, q))
        /\ UNCHANGED <<nsnToVNStateVNI, nsnToVNIs>>
    BY <1>13 DEF setAttStatus
  <2>2. Due(k) => Due(k)'
    BY <1>3, <1>4, <2>1
  <2>3. vniToVnState' = vniToVnState \/ \E a : PutAtt(m, a)
    BY <1>13 DEF setAttStatus
  <2>4. \A u \in VNIs : KeptIn(vniToVnState[u], vniToVnState'[u], k)
    BY <2>3, StillKept, PutKept
  <2> QED
    BY <1>2, <2>1, <2>2, <2>4
<1>14. CASE processDeletedAtt(m)
  <2>1. proc[m].pc # "clear" /\ UNCHANGED vnVars /\ Continue(m, Idle)
    BY <1>14 DEF processDeletedAtt
  <2> QED
    BY <1>3, <1>5, <2>1
<1>15. CASE Fault(m)
  <2>1. proc[m].pc # "clear" /\ UNCHANGED vnVars /\ Retry(m)
    BY <1>15 DEF Fault
  <2> QED
    BY <1>4, <1>5, <2>1
<1> QED
  BY <1>6, <1>7, <1>8, <1>9, <1>10, <1>11, <1>12, <1>13, <1>14, <1>15 DEF Work

-----------------------------------------------------------------------------
(* Members: the informers, the commands and the writes.                     *)

\* The news that is left when the first item of a stream is gone.
LEMMA TellsLeft ==
    ASSUME NEW S, NEW s \in Seq(S), s # <<>>, NEW k, Tells(s, k), Head(s).key # k
    PROVE  Tells(Tail(s), k)
<1> DEFINE t == Tail(s)
<1>1. Len(t) = Len(s) - 1 /\ Len(s) \in Nat /\ Head(s) = s[1]
      /\ \A i \in 1 .. Len(s) - 1 : t[i] = s[i + 1]
  OBVIOUS
<1>2. PICK i \in 1 .. Len(s) : s[i].key = k
  BY DEF Tells
<1> HIDE DEF t
<1>3. i # 1
  BY <1>1, <1>2
<1>4. i - 1 \in 1 .. Len(t) /\ t[i - 1].key = k
  BY <1>1, <1>2, <1>3
<1>5. Tells(t, k)
  BY <1>4 DEF Tells
<1> QED
  BY <1>5 DEF t

LEMMA DueStill ==
    ASSUME proc' = proc, NEW k, k \in queue => k \in queue'
    PROVE  Due(k) => Due(k)'
BY DEF Due

\* A step outside the passes.
LEMMA UntouchedBy ==
    ASSUME proc' = proc, UNCHANGED <<nsnToVNStateVNI, nsnToLocalMainState, nsnToRemoteIfc,
                                     twofold, adopted, behind>>,
           phase' # "run" => phase' = phase, NEW k, k \in queue => k \in queue',
           \/ k \in queue'
           \/ /\ nsnToVNIs'[k] = nsnToVNIs[k]
              /\ localAtts'.cache[k] = localAtts.cache[k]
              /\ Tells(localAtts.events, k) => Tells(localAtts'.events, k)
              /\ nsnToPostCreateExecReport'[k] = nsnToPostCreateExecReport[k],
           \A v \in VNIs : \/ KeptIn(vniToVnState[v], vniToVnState'[v], k)
                           \/ Due(k)' /\ LostIn(vniToVnState[v], vniToVnState'[v], k)
    PROVE  Untouched(k)
BY DueStill DEF Untouched

LEMMA onLocalAttUntouched ==
    ASSUME Types, onLocalAtt, NEW k \in Keys
    PROVE  Untouched(k)
<1>1. /\ UNCHANGED <<vnVars, ifcVars, proc, startVars, behind>>
      /\ queue' = queue \cup {Head(localAtts.events).key}
  BY DEF onLocalAtt
<1>2. /\ localAtts.events # <<>> /\ localAtts'.events = Tail(localAtts.events)
      /\ localAtts'.cache[k] = IF Head(localAtts.events).key = k THEN Head(localAtts.events).obj
                               ELSE localAtts.cache[k]
      /\ localAtts.events \in Seq(LocalEvents)
  BY onLocalAttParts, LocalParts DEF Types
<1>3. Head(localAtts.events).key # k =>
         (Tells(localAtts.events, k) => Tells(localAtts'.events, k))
  BY <1>2, TellsLeft
<1>4. \A v \in VNIs : KeptIn(vniToVnState[v], vniToVnState'[v], k)
  BY <1>1, StillKept DEF vnVars
<1> QED
  BY <1>1, <1>2, <1>3, <1>4, UntouchedBy DEF vnVars, ifcVars, startVars

LEMMA IndexRemoteAttUntouched ==
    ASSUME Types, NEW v \in VNIs, IndexRemoteAtt(v), NEW k \in Keys
    PROVE  Untouched(k)
<1> DEFINE s == vniToVnState[v]
           e == Head(s.events)
           cache == [s.cache EXCEPT ![e.key] = e.obj]
           note == Note(e.key, s.cache[e.key], e.obj)
           notes == IF s.cache[e.key] = NoAtt /\ e.obj = NoAtt THEN s.notes
                    ELSE Append(s.notes, note)
           t == [s EXCEPT !.cache = cache, !.events = Tail(s.events), !.notes = notes]
<1>1. s \in VnState /\ s.events # <<>> /\ s.events \in Seq(RemoteEvents)
      /\ s.notes \in Seq(Notes) /\ s.cache \in [Keys -> RemoteObjs]
  BY VnParts DEF Types, VnOK, IndexRemoteAtt
<1>2. e \in RemoteEvents
  BY <1>1, Ends
<1>3. e.key \in Keys
  BY <1>2 DEF RemoteEvents
<1>4. vniToVnState' = [vniToVnState EXCEPT ![v] = t]
  <2>1. vniToVnState \in [VNIs -> VnState]
    BY DEF Types, VnOK
  <2> QED
    BY <1>1, <2>1 DEF IndexRemoteAtt, VnState
<1>5. note \in Notes /\ note.key = e.key
  BY <1>3 DEF Note, Notes
<1>6. cache[k] = IF e.key = k THEN e.obj ELSE s.cache[k]
  BY <1>1, <1>3
<1>7. Tells(Append(s.notes, note), k) <=> Tells(s.notes, k) \/ note.key = k
  BY <1>1, <1>5, TellsAppend
<1>8. \/ cache[k] = s.cache[k] /\ (Tells(s.notes, k) => Tells(notes, k))
      \/ Tells(notes, k)
  <2>1. CASE s.cache[e.key] = NoAtt /\ e.obj = NoAtt
    BY <1>6, <2>1
  <2>2. CASE ~(s.cache[e.key] = NoAtt /\ e.obj = NoAtt)
    BY <1>5, <1>6, <1>7, <2>2
  <2> QED
    BY <2>1, <2>2
<1> HIDE DEF cache, notes
<1>9. t.cache = cache /\ t.notes = notes /\ t.localAtts = s.localAtts
      /\ t.remoteAtts = s.remoteAtts /\ t.on = s.on
  BY <1>1 DEF VnState
<1> HIDE DEF t
<1>10. KeptIn(s, t, k)
  BY <1>8, <1>9 DEF KeptIn
<1>11. \A u \in VNIs : KeptIn(vniToVnState[u], vniToVnState'[u], k)
  BY <1>4, <1>10, ReplacedKept DEF Types
<1>12. UNCHANGED <<localAtts, nsnToVNStateVNI, nsnToVNIs, ifcVars, queue, proc, startVars,
                   behind>>
  BY DEF IndexRemoteAtt
<1> QED
  BY <1>11, <1>12, UntouchedBy DEF ifcVars, startVars

LEMMA NoteUntouched ==
    ASSUME VnOK, NEW v \in VNIs, NEW note \in Notes, HandleRemoteNote(v, note), NEW k \in Keys,
           k # note.key =>
              \A u \in VNIs : KeptIn(vniToVnState[u], vniToVnState'[u], k),
           \A u \in VNIs : LostIn(vniToVnState[u], vniToVnState'[u], k)
    PROVE  Untouched(k)
<1>1. /\ UNCHANGED <<localAtts, nsnToVNStateVNI, ifcVars, proc, startVars, behind>>
      /\ queue' = queue \cup {note.key}
  BY DEF HandleRemoteNote
<1>2. CASE k = note.key
  <2>1. k \in queue' /\ Due(k)'
    BY <1>1, <1>2 DEF Due
  <2> QED
    BY <1>1, <2>1, UntouchedBy DEF ifcVars, startVars
<1>3. CASE k # note.key
  <2>1. nsnToVNIs'[k] = nsnToVNIs[k]
    <3>1. note.key \in Keys /\ note.op \in {"added", "removed", "updated"}
      BY DEF Notes
    <3>2. addVNI(note.key, v)[k] = nsnToVNIs[k] /\ removeSeenInVNI({note.key}, v)[k] = nsnToVNIs[k]
      BY <1>3, <3>1 DEF addVNI, removeSeenInVNI, VnOK
    <3> QED
      BY <3>1, <3>2 DEF HandleRemoteNote
  <2> QED
    BY <1>1, <1>3, <2>1, UntouchedBy DEF ifcVars, startVars
<1> QED
  BY <1>2, <1>3

LEMMA onRemoteAttUntouched ==
    ASSUME Types, NEW v \in VNIs, onRemoteAtt(v), NEW k \in Keys
    PROVE  Untouched(k)
<1> DEFINE s == vniToVnState[v]
           t == [s EXCEPT !.notes = Tail(s.notes)]
           note == Head(s.notes)
<1>1. s \in VnState /\ s.notes # <<>> /\ s.notes \in Seq(Notes)
  BY VnParts DEF Types, VnOK, onRemoteAtt
<1>2. vniToVnState' = [vniToVnState EXCEPT ![v] = t] /\ HandleRemoteNote(v, note)
  BY DEF onRemoteAtt
<1>3. note \in Notes
  BY <1>1, Ends
<1>4. t.cache = s.cache /\ t.notes = Tail(s.notes) /\ t.localAtts = s.localAtts
      /\ t.remoteAtts = s.remoteAtts /\ t.on = s.on
  BY <1>1 DEF VnState
<1> HIDE DEF t
<1>5. ASSUME k # note.key PROVE \A u \in VNIs : KeptIn(vniToVnState[u], vniToVnState'[u], k)
  <2>1. Tells(s.notes, k) => Tells(t.notes, k)
    BY <1>1, <1>4, <1>5, TellsLeft
  <2>2. KeptIn(s, t, k)
    BY <1>4, <2>1 DEF KeptIn
  <2> QED
    BY <1>2, <2>2, ReplacedKept DEF Types
<1>6. \A u \in VNIs : LostIn(vniToVnState[u], vniToVnState'[u], k)
  <2>1. \A u \in VNIs : vniToVnState'[u] = IF u = v THEN t ELSE vniToVnState[u]
    BY <1>2, VnReplacedAt DEF Types
  <2> QED
    BY <1>4, <2>1 DEF LostIn
<1> HIDE DEF note
<1> QED
  BY <1>2, <1>3, <1>5, <1>6, NoteUntouched DEF Types

LEMMA onLateRemoteAttUntouched ==
    ASSUME Types, NEW v \in VNIs, onLateRemoteAtt(v), NEW k \in Keys
    PROVE  Untouched(k)
<1> DEFINE note == Head(lateNotes[v])
<1>1. HandleRemoteNote(v, note) /\ vniToVnState' = vniToVnState /\ lateNotes[v] # <<>>
  BY DEF onLateRemoteAtt
<1>2. note \in Notes
  BY <1>1, Ends DEF Types, VnOK
<1>3. \A u \in VNIs : /\ KeptIn(vniToVnState[u], vniToVnState'[u], k)
                      /\ LostIn(vniToVnState[u], vniToVnState'[u], k)
  BY <1>1, StillKept DEF LostIn
<1> HIDE DEF note
<1> QED
  BY <1>1, <1>2, <1>3, NoteUntouched DEF Types

\* The steps outside the passes and start-up.
LEMMA OutsideUntouched ==
    ASSUME Types, NEW k \in Keys,
           \/ InformerNext
           \/ startWorkers
           \/ \E c \in commands : RunCommand(c)
           \/ \E m \in Keys, n \in Hosts, p \in Pairs, h \in Hosts \cup {""} : WriteAtt(m, n, p, h)
           \/ \E m \in Keys : DeleteAtt(m)
           \/ UNCHANGED vars
    PROVE  Untouched(k)
<1>1. CASE InformerNext
  <2>1. ASSUME NEW v \in VNIs, EndStoppedInformers(v) PROVE Untouched(k)
    <3>1. UNCHANGED <<localAtts, vniToVnState, nsnToVNStateVNI, nsnToVNIs, ifcVars, queue, proc,
                      startVars, behind>>
      BY <2>1 DEF EndStoppedInformers
    <3> QED
      BY <3>1, StillKept, UntouchedBy DEF ifcVars, startVars
  <2> QED
    BY <1>1, <2>1, onLocalAttUntouched, IndexRemoteAttUntouched, onRemoteAttUntouched,
       onLateRemoteAttUntouched DEF InformerNext
<1>2. CASE startWorkers
  <2>1. /\ UNCHANGED <<localAtts, vnVars, ifcVars, queue, proc, adopted, twofold, behind>>
        /\ phase' = "run"
    BY <1>2 DEF startWorkers
  <2> QED
    BY <2>1, StillKept, UntouchedBy DEF vnVars, ifcVars
<1>3. ASSUME NEW c \in commands, RunCommand(c) PROVE Untouched(k)
  <2>1. /\ UNCHANGED <<localAtts, vnVars, nsnToLocalMainState, nsnToRemoteIfc, proc, startVars,
                       behind>>
        /\ queue' = queue \cup {c.key}
    BY <1>3 DEF RunCommand
  <2>2. c.key # k => nsnToPostCreateExecReport'[k] = nsnToPostCreateExecReport[k]
    BY <1>3 DEF RunCommand, setExecReport, Types, IfcsOK
  <2> QED
    BY <2>1, <2>2, StillKept, UntouchedBy DEF vnVars, startVars
<1>4. ASSUME NEW m \in Keys, NEW a \in NetworkAttachment, PutAtt(m, a),
             UNCHANGED <<nsnToVNStateVNI, nsnToVNIs, ifcVars, queue, proc, startVars, behind>>
      PROVE  Untouched(k)
  <2>1. /\ localAtts'.cache[k] = localAtts.cache[k]
        /\ Tells(localAtts.events, k) => Tells(localAtts'.events, k)
    BY <1>4, EventsGrow DEF Types
  <2> QED
    BY <1>4, <2>1, PutKept, UntouchedBy DEF ifcVars, startVars
<1>5. ASSUME NEW m \in Keys, NEW n \in Hosts, NEW p \in Pairs, NEW h \in Hosts \cup {""},
             WriteAtt(m, n, p, h)
      PROVE  Untouched(k)
  <2> DEFINE a == [atts[m] EXCEPT !.node = n, !.pair = p, !.host = h]
  <2>1. a \in NetworkAttachment
    BY DEF Types, StoreOK, NetworkAttachment
  <2> QED
    BY <1>4, <1>5, <2>1 DEF WriteAtt
<1>6. ASSUME NEW m \in Keys, DeleteAtt(m) PROVE Untouched(k)
  BY <1>4, <1>6, ConstantsTyped DEF DeleteAtt
<1>7. CASE UNCHANGED vars
  BY <1>7, StillKept, UntouchedBy DEF vars, vnVars, ifcVars, startVars
<1> QED
  BY <1>1, <1>2, <1>3, <1>5, <1>6, <1>7

-----------------------------------------------------------------------------
(* Members: the pass over the attachment itself.                            *)

\* What a remote watch selects is in its virtual network, on another node.
LEMMA RemoteWatched ==
    ASSUME NEW v, NEW a \in NetworkAttachment, InRemoteWatch(v, a)
    PROVE  /\ AddressVNI(a) = v /\ a # NoAtt
           /\ a.node # Here /\ a.host # Here /\ a.pair \in Pairs
<1> DEFINE F == SelectableFields(a)
<1>1. F.node = a.node /\ F.hostIP = a.host /\ F.addressVNI = AddressVNI(a)
  BY DEF SelectableFields
<1>2. /\ Holds(Differs("node", Here), F) /\ Holds(Differs("hostIP", Here), F)
      /\ Holds(Equals("addressVNI", v), F)
  BY DEF InRemoteWatch, MatchNetworkAttachment, remoteAttInVNWithVirtualIPHostIPSelector
<1>3. F.node # Here
  BY <1>2 DEF Holds, Differs
<1>4. F.hostIP # Here
  BY <1>2 DEF Holds, Differs
<1>5. F.addressVNI = v
  BY <1>2 DEF Holds, Equals
<1>6. a # NoAtt
  BY DEF InRemoteWatch, MatchNetworkAttachment
<1>7. a.pair \in Pairs
  BY <1>6, RemoteSelected DEF RemoteObjs
<1> QED
  BY <1>1, <1>3, <1>4, <1>5, <1>6, <1>7

LEMMA WorkRuns ==
    ASSUME Types, Resting, NEW m \in Keys, Work(m) \/ Fault(m)
    PROVE  phase = "run" /\ phase' = "run" /\ twofold' = twofold
<1>1. phase' = phase /\ twofold' = twofold
  BY DEF Work, Fault, processNetworkAttachment, getAttachment, removeAttFromVNState,
         clearVNResources, updateVNStateForExistingAtt, updateIfc, createIfc, setAttStatus,
         processDeletedAtt, startVars
<1>2. processNetworkAttachment(m) \/ proc[m].pc # "idle"
  BY DEF Work, Fault, getAttachment, removeAttFromVNState,
         clearVNResources, updateVNStateForExistingAtt, updateIfc, createIfc, setAttStatus,
         processDeletedAtt
<1>3. phase = "run"
  BY <1>2, IdleParts DEF processNetworkAttachment, Resting
<1> QED
  BY <1>1, <1>3

LEMMA RunKey ==
    ASSUME NEW m \in Keys, phase' = "run", Placed(m)', PassPlaced(m)', FromLocal(m)',
           FromRemote(m)', Done(m)'
    PROVE  KeyOK(m)'
BY DEF KeyOK, Starting

\* The pass ends.
LEMMA EndKey ==
    ASSUME NEW m \in Keys, proc'[m] = Idle, Placed(m)', Done(m)', Starting(m)'
    PROVE  KeyOK(m)'
<1>1. proc'[m].pc = "idle"
  BY IdleParts
<1>2. PassPlaced(m)'
  BY <1>1 DEF PassPlaced
<1>3. FromLocal(m)' /\ FromRemote(m)'
  BY <1>1 DEF FromLocal, FromRemote
<1> QED
  BY <1>2, <1>3 DEF KeyOK

LEMMA RetryKey ==
    ASSUME Types, NEW m \in Keys, KeyOK(m), Retry(m), phase' = "run",
           UNCHANGED <<vniToVnState, nsnToVNStateVNI>>
    PROVE  KeyOK(m)'
<1>1. proc'[m] = Idle /\ m \in queue'
  BY DEF Retry, Types, PassesOK
<1>2. Due(m)'
  BY <1>1 DEF Due
<1>3. Done(m)' /\ Starting(m)'
  BY <1>2 DEF Done, Starting
<1>4. Placed(m)'
  BY DEF KeyOK, Placed, InLocal, InRemote
<1> QED
  BY <1>1, <1>3, <1>4, EndKey

\* The pass goes on with its attachment.
LEMMA OnKey ==
    ASSUME Types, NEW m \in Keys, KeyOK(m), phase' = "run",
           UNCHANGED <<vniToVnState, nsnToVNStateVNI, localAtts, queue, behind>>,
           NEW q, proc' = [proc EXCEPT ![m] = q], proc[m].pc \in {"update", "create"},
           q.pc \in {"create", "status"}, q.att = proc[m].att, q.pc = "status" => q.att.node = Here
    PROVE  KeyOK(m)'
<1>1. proc'[m] = q
  BY DEF Types, PassesOK
<1>2. Due(m) => Due(m)'
  BY DueMoves
<1>3. \A v \in VNIs : /\ InLocal(v, m)' <=> InLocal(v, m)
                      /\ InRemote(v, m)' <=> InRemote(v, m)
                      /\ Known(v, m)' = Known(v, m) /\ (Noted(v, m)' <=> Noted(v, m))
  BY DEF InLocal, InRemote, Known, Noted
<1>4. Placed(m)'
  BY <1>3 DEF KeyOK, Placed
<1>5. PassPlaced(m)'
  <2>1. PICK v \in VNIs : /\ nsnToVNStateVNI[m] = v /\ AddressVNI(proc[m].att) = v
                          /\ proc[m].att.node = Here => InLocal(v, m)
                          /\ proc[m].att.node # Here => InRemote(v, m) \/ Due(m)
    BY DEF KeyOK, PassPlaced
  <2>2. (\E u \in VNIs : /\ nsnToVNStateVNI[m] = u /\ AddressVNI(proc[m].att) = u
                         /\ proc[m].att.node = Here => InLocal(u, m)
                         /\ proc[m].att.node # Here => InRemote(u, m) \/ Due(m))'
    BY <1>1, <1>2, <1>3, <2>1 DEF AddressVNI
  <2> QED
    BY <1>1, <2>2 DEF PassPlaced
<1>6. FromLocal(m)'
  BY <1>1 DEF KeyOK, FromLocal
<1>7. FromRemote(m)'
  BY <1>1, <1>2, <1>3 DEF KeyOK, FromRemote, AddressVNI
<1>8. Done(m)'
  BY <1>1 DEF Done
<1> QED
  BY <1>4, <1>5, <1>6, <1>7, <1>8, RunKey

LEMMA processNetworkAttachmentKey ==
    ASSUME Types, Resting, RemoteSynced, NEW m \in Keys, KeyOK(m), processNetworkAttachment(m)
    PROVE  KeyOK(m)'
<1> DEFINE u == getAttSeenInVNI(m)
           a == getRemoteAttListerForVNI(u)[m]
           q == [Idle EXCEPT !.pc = "lookup", !.att = a]
<1>1. UNCHANGED <<vniToVnState, nsnToVNStateVNI, localAtts, nsnToVNIs>> /\ phase' = "run"
  BY WorkRuns DEF processNetworkAttachment, vnVars, Work
<1>2. \/ Cardinality(nsnToVNIs[m]) > 1 /\ proc'[m] = Idle
      \/ ~(Cardinality(nsnToVNIs[m]) > 1) /\ proc'[m] = q
  BY DEF processNetworkAttachment, Types, PassesOK
<1>3. Placed(m)'
  BY <1>1 DEF KeyOK, Placed, InLocal, InRemote
<1>4. CASE Cardinality(nsnToVNIs[m]) > 1 /\ proc'[m] = Idle
  <2>1. Ambiguous(m)'
    BY <1>1, <1>4 DEF Ambiguous
  <2> QED
    BY <1>1, <1>3, <1>4, <2>1, EndKey DEF Done, Starting
<1>5. CASE proc'[m] = q
  <2>1. q.pc = "lookup" /\ q.att = a
    BY DEF Idle
  <2>2. a # NoAtt => u \in VNIs /\ a = Known(u, m)
    <3>1. ASSUME a # NoAtt PROVE u # NoVNI /\ a = Known(u, m)
      BY <3>1 DEF getRemoteAttListerForVNI, Known
    <3>2. ASSUME u # NoVNI PROVE u \in VNIs
      <4>1. Cardinality(nsnToVNIs[m]) = 1 /\ u = CHOOSE v \in nsnToVNIs[m] : TRUE
        BY <3>2 DEF getAttSeenInVNI
      <4>2. nsnToVNIs[m] # {} /\ nsnToVNIs[m] \subseteq VNIs
        <5>1. Cardinality({}) = 0
          BY FS_EmptySet
        <5>2. nsnToVNIs[m] # {}
          BY <4>1, <5>1
        <5> QED
          BY <5>2 DEF Types, VnOK
      <4> QED
        BY <4>1, <4>2
    <3> QED
      BY <3>1, <3>2
  <2>3. a # NoAtt => InRemoteWatch(u, a) /\ a \in NetworkAttachment
    <3>1. ASSUME u \in VNIs, a = Known(u, m) PROVE Watched(u, a) /\ a \in RemoteObjs
      BY <3>1, VnParts DEF Known, RemoteSynced, Follows, Types, VnOK
    <3> QED
      BY <2>2, <3>1, CachedUsable DEF Watched
  <2>4. a # NoAtt => AddressVNI(a) = u /\ a.node # Here
    BY <2>3, RemoteWatched
  <2> HIDE DEF q, a, u
  <2>5. PassPlaced(m)' /\ Done(m)'
    BY <1>5, <2>1 DEF PassPlaced, Done
  <2>6. FromLocal(m)'
    BY <1>5, <2>1, <2>4 DEF FromLocal
  <2>7. FromRemote(m)'
    <3> SUFFICES ASSUME a # NoAtt, NEW v \in VNIs, AddressVNI(a) = v
                 PROVE  InRemoteWatch(v, a) /\ a = Known(v, m)'
      BY <1>5, <2>1 DEF FromRemote, AddressVNI
    <3>1. v = u
      BY <2>4
    <3>2. Known(v, m)' = Known(v, m)
      BY <1>1 DEF Known
    <3> QED
      BY <2>2, <2>3, <3>1, <3>2
  <2> QED
    BY <1>1, <1>3, <2>5, <2>6, <2>7, RunKey
<1> QED
  BY <1>2, <1>4, <1>5

LEMMA getAttachmentKey ==
    ASSUME Types, Resting, NEW m \in Keys, KeyOK(m), getAttachment(m)
    PROVE  KeyOK(m)'
<1> DEFINE rem == proc[m].att
           loc == localAtts.cache[m]
           deleted == (rem = NoAtt) = (loc = NoAtt)
           att == CASE deleted -> NoAtt
                    [] ~deleted /\ loc # NoAtt -> loc
                    [] OTHER -> rem
           next == IF deleted THEN "remove" ELSE "join"
           moved == nsnToVNStateVNI[m] \notin {NoVNI, AddressVNI(att)}
           q1 == [Idle EXCEPT !.pc = "depart", !.att = att, !.then = next]
           q2 == [Idle EXCEPT !.pc = next, !.att = att]
<1>1. proc[m].pc = "lookup" /\ phase' = "run"
      /\ UNCHANGED <<vniToVnState, nsnToVNStateVNI, localAtts, queue, behind>>
  BY WorkRuns DEF getAttachment, vnVars, Work, Continue
<1>2. rem \in RemoteObjs /\ loc \in LocalObjs
  BY <1>1, LocalParts DEF Types, PassesOK, PassOK
<1>3. proc' = [proc EXCEPT ![m] = IF moved THEN q1 ELSE q2]
  BY DEF getAttachment, Continue
<1>4. /\ next \in {"remove", "join"}
      /\ next = "remove" => att = NoAtt
      /\ att = NoAtt \/ (att = loc /\ loc.node = Here) \/ (att = rem /\ loc = NoAtt /\ rem.node # Here)
  BY <1>2 DEF LocalObjs, RemoteObjs
<1>5. /\ q1.pc = "depart" /\ q1.att = att /\ q1.then = next
      /\ q2.pc = next /\ q2.att = att /\ q2.then = "idle"
  BY DEF Idle
<1> HIDE DEF q1, q2, next, att, deleted
<1>6. PICK q : /\ proc' = [proc EXCEPT ![m] = q] /\ q.att = att
               /\ (q.pc = "depart" /\ q.then = next) \/ (q.pc = next /\ ~moved)
  <2> HIDE DEF moved
  <2>1. CASE moved
    BY <1>3, <1>5, <2>1
  <2>2. CASE ~moved
    BY <1>3, <1>5, <2>2
  <2> QED
    BY <2>1, <2>2
<1> HIDE DEF moved
<1>7. proc'[m] = q
  BY <1>6 DEF Types, PassesOK
<1>8. Due(m) => Due(m)'
  BY <1>1, <1>6, DueMoves
<1>9. \A v \in VNIs : Known(v, m)' = Known(v, m) /\ (Noted(v, m)' <=> Noted(v, m))
  BY <1>1 DEF Known, Noted
<1>10. Placed(m)'
  BY <1>1 DEF KeyOK, Placed, InLocal, InRemote
<1>11. PassPlaced(m)'
  <2>1. q.pc = "join" => nsnToVNStateVNI[m] \in {NoVNI, AddressVNI(att)}
    BY <1>4, <1>6 DEF moved
  <2>2. q.pc = "remove" => nsnToVNStateVNI[m] = NoVNI
    <3>1. AddressVNI(NoAtt) = NoVNI
      BY DEF AddressVNI, NoAtt
    <3> QED
      BY <1>4, <1>6, <3>1 DEF moved
  <2> QED
    BY <1>1, <1>4, <1>6, <1>7, <2>1, <2>2 DEF PassPlaced, AddressVNI
<1>12. FromLocal(m)'
  BY <1>1, <1>4, <1>6, <1>7 DEF FromLocal
<1>13. FromRemote(m)'
  <2>1. ASSUME att # NoAtt, att.node # Here PROVE att = rem /\ loc = NoAtt
    BY <1>4, <2>1
  <2> QED
    BY <1>1, <1>6, <1>7, <1>8, <1>9, <2>1 DEF KeyOK, FromRemote, AddressVNI
<1>14. Done(m)'
  BY <1>4, <1>6, <1>7 DEF Done
<1> QED
  BY <1>1, <1>10, <1>11, <1>12, <1>13, <1>14, RunKey

\* The attachment is in no vnState now, and the pass goes on.
LEMMA LeaveKey ==
    ASSUME NEW m \in Keys, KeyOK(m), phase' = "run", NEW q, proc'[m] = q,
           proc[m].pc \in {"depart", "clear", "join"}, q.pc \in {"clear", "join", "remove"},
           q.att = proc[m].att, q.pc = "clear" /\ q.then = "idle" => m \in q.names,
           nsnToVNStateVNI'[m] = NoVNI, localAtts' = localAtts, m \in queue => m \in queue',
           Due(m) => Due(m)', behind' = behind,
           \A u \in VNIs : /\ ~InLocal(u, m)' /\ ~InRemote(u, m)'
                           /\ \/ ~vniToVnState'[u].on /\ Known(u, m)' = NoAtt
                              \/ /\ Known(u, m)' = Known(u, m) /\ (Noted(u, m) => Noted(u, m)')
                                 /\ vniToVnState'[u].on => vniToVnState[u].on
    PROVE  KeyOK(m)'
<1>1. Placed(m)'
  BY DEF Placed
<1>2. PassPlaced(m)' /\ Done(m)'
  BY DEF PassPlaced, Done
<1>3. FromLocal(m)'
  BY DEF KeyOK, FromLocal
<1>4. FromRemote(m)'
  BY DEF KeyOK, FromRemote, AddressVNI
<1> QED
  BY <1>1, <1>2, <1>3, <1>4, RunKey

\* The vnState of the attachment is dropped, or the attachment leaves it.
LEMMA DroppedAt ==
    ASSUME Types, NEW m \in Keys, KeyOK(m), NEW v \in VNIs, DropVnState(v),
           nsnToVNStateVNI[m] \in {NoVNI, v}
    PROVE  \A u \in VNIs : /\ ~InLocal(u, m)' /\ ~InRemote(u, m)'
                           /\ \/ ~vniToVnState'[u].on /\ Known(u, m)' = NoAtt
                              \/ /\ Known(u, m)' = Known(u, m) /\ (Noted(u, m) => Noted(u, m)')
                                 /\ vniToVnState'[u].on => vniToVnState[u].on
<1>1. \A u \in VNIs : vniToVnState'[u] = IF u = v THEN NoVnState ELSE vniToVnState[u]
  BY VnReplacedAt DEF DropVnState, Types
<1>2. \A u \in VNIs : u # v => ~InLocal(u, m) /\ ~InRemote(u, m)
  BY ConstantsTyped DEF KeyOK, Placed
<1> QED
  BY <1>1, <1>2, NoVnParts DEF InLocal, InRemote, Known, Noted

LEMMA removeAttFromVNStateKey ==
    ASSUME Types, Resting, RemoteSynced, NEW m \in Keys, KeyOK(m), removeAttFromVNState(m)
    PROVE  KeyOK(m)'
<1>1. PICK v \in VNIs :
              /\ nsnToVNStateVNI[m] = v
              /\ nsnToVNStateVNI' = [nsnToVNStateVNI EXCEPT ![m] = NoVNI]
              /\ \/ /\ vniToVnState[v].localAtts \subseteq {m}
                    /\ DropVnState(v)
                    /\ Continue(m, Clearing(proc[m], v, vniToVnState[v].remoteAtts, proc[m].then))
                 \/ \E t : /\ vniToVnState' = [vniToVnState EXCEPT ![v] = t]
                           /\ Follows(v, t, atts)
                           /\ t.cache = vniToVnState[v].cache /\ t.notes = vniToVnState[v].notes
                           /\ t.on = vniToVnState[v].on
                           /\ t.localAtts = vniToVnState[v].localAtts \ {m}
                           /\ t.remoteAtts = vniToVnState[v].remoteAtts \ {m}
                           /\ Continue(m, GoOn(proc[m], proc[m].then))
  BY DepartureParts
<1>2. nsnToVNStateVNI'[m] = NoVNI
  BY <1>1 DEF Types, VnOK
<1>3. proc[m].pc = "depart" /\ localAtts' = localAtts /\ proc[m] \in Pass /\ phase' = "run"
      /\ behind' = behind
  BY WorkRuns DEF removeAttFromVNState, Types, PassesOK, Work
<1>4. proc[m].then \in {"join", "remove"}
  BY <1>3, PassParts DEF KeyOK, PassPlaced
<1>5. CASE /\ DropVnState(v)
           /\ Continue(m, Clearing(proc[m], v, vniToVnState[v].remoteAtts, proc[m].then))
  <2> DEFINE q == Clearing(proc[m], v, vniToVnState[v].remoteAtts, proc[m].then)
  <2>1. q.pc = "clear" /\ q.then = proc[m].then /\ q.att = proc[m].att
    BY <1>3 DEF Clearing, Pass
  <2> HIDE DEF q
  <2>2. proc' = [proc EXCEPT ![m] = q] /\ queue' = queue
    BY <1>5 DEF Continue, q
  <2>3. proc'[m] = q
    BY <2>2 DEF Types, PassesOK
  <2>4. Due(m) => Due(m)'
    BY <1>3, <2>2, DueMoves
  <2>5. \A u \in VNIs : /\ ~InLocal(u, m)' /\ ~InRemote(u, m)'
                        /\ \/ ~vniToVnState'[u].on /\ Known(u, m)' = NoAtt
                           \/ /\ Known(u, m)' = Known(u, m) /\ (Noted(u, m) => Noted(u, m)')
                              /\ vniToVnState'[u].on => vniToVnState[u].on
    BY <1>1, <1>5, DroppedAt
  <2> QED
    BY <1>2, <1>3, <1>4, <2>1, <2>2, <2>3, <2>4, <2>5, LeaveKey
<1>6. ASSUME NEW t, vniToVnState' = [vniToVnState EXCEPT ![v] = t],
             t.cache = vniToVnState[v].cache, t.notes = vniToVnState[v].notes,
             t.on = vniToVnState[v].on,
             t.localAtts = vniToVnState[v].localAtts \ {m},
             t.remoteAtts = vniToVnState[v].remoteAtts \ {m},
             Continue(m, GoOn(proc[m], proc[m].then))
      PROVE  KeyOK(m)'
  <2> DEFINE q == GoOn(proc[m], proc[m].then)
  <2>1. q.pc = proc[m].then /\ q.att = proc[m].att
    BY <1>3, <1>4, GoOnParts
  <2> HIDE DEF q
  <2>2. proc' = [proc EXCEPT ![m] = q] /\ queue' = queue
    BY <1>6 DEF Continue, q
  <2>3. proc'[m] = q
    BY <2>2 DEF Types, PassesOK
  <2>4. Due(m) => Due(m)'
    BY <1>3, <2>2, DueMoves
  <2>5. \A u \in VNIs : /\ ~InLocal(u, m)' /\ ~InRemote(u, m)'
                        /\ \/ ~vniToVnState'[u].on /\ Known(u, m)' = NoAtt
                           \/ /\ Known(u, m)' = Known(u, m) /\ (Noted(u, m) => Noted(u, m)')
                              /\ vniToVnState'[u].on => vniToVnState[u].on
    <3>1. \A u \in VNIs : vniToVnState'[u] = IF u = v THEN t ELSE vniToVnState[u]
      <4>1. VnOK
        BY DEF Types
      <4>2. vniToVnState' = [vniToVnState EXCEPT ![v] = t]
        BY <1>6
      <4> QED
        BY <4>1, <4>2, VnReplacedAt
    <3>2. \A u \in VNIs : u # v => ~InLocal(u, m) /\ ~InRemote(u, m)
      BY <1>1 DEF KeyOK, Placed
    <3>3. ASSUME NEW u \in VNIs, u # v
          PROVE  /\ ~InLocal(u, m)' /\ ~InRemote(u, m)'
                 /\ Known(u, m)' = Known(u, m) /\ (Noted(u, m) => Noted(u, m)')
                 /\ vniToVnState'[u].on => vniToVnState[u].on
      <4>1. vniToVnState'[u] = vniToVnState[u]
        BY <3>1, <3>3
      <4> QED
        BY <3>2, <3>3, <4>1 DEF InLocal, InRemote, Known, Noted
    <3>4. /\ ~InLocal(v, m)' /\ ~InRemote(v, m)'
          /\ Known(v, m)' = Known(v, m) /\ (Noted(v, m) => Noted(v, m)')
          /\ vniToVnState'[v].on => vniToVnState[v].on
      <4>1. vniToVnState'[v] = t
        BY <3>1
      <4> QED
        BY <1>6, <4>1 DEF InLocal, InRemote, Known, Noted
    <3> QED
      BY <3>3, <3>4
  <2> QED
    BY <1>2, <1>3, <1>4, <2>1, <2>2, <2>3, <2>4, <2>5, LeaveKey
<1> QED
  BY <1>1, <1>5, <1>6

LEMMA clearVNResourcesKey ==
    ASSUME Types, Resting, NEW m \in Keys, KeyOK(m), clearVNResources(m)
    PROVE  KeyOK(m)'
<1> DEFINE q == GoOn(proc[m], proc[m].then)
<1>1. /\ proc[m].pc = "clear" /\ proc[m] \in Pass /\ localAtts' = localAtts /\ behind' = behind
      /\ UNCHANGED <<vniToVnState, nsnToVNStateVNI>> /\ phase' = "run"
      /\ proc' = [proc EXCEPT ![m] = q] /\ (m \in queue => m \in queue')
  BY WorkRuns DEF clearVNResources, Types, PassesOK, Work
<1>2. proc'[m] = q
  BY <1>1 DEF Types, PassesOK
<1>3. nsnToVNStateVNI[m] = NoVNI
  BY <1>1 DEF KeyOK, PassPlaced
<1>4. \A u \in VNIs : ~InLocal(u, m) /\ ~InRemote(u, m)
  BY <1>3, ConstantsTyped DEF KeyOK, Placed
<1>5. \A u \in VNIs : /\ ~InLocal(u, m)' /\ ~InRemote(u, m)'
                      /\ Known(u, m)' = Known(u, m) /\ (Noted(u, m) => Noted(u, m)')
                      /\ vniToVnState'[u].on => vniToVnState[u].on
  BY <1>1, <1>4 DEF InLocal, InRemote, Known, Noted
<1>6. CASE proc[m].then = "idle"
  <2>1. m \in queue'
    BY <1>1, <1>6, DueClears DEF KeyOK, PassPlaced
  <2>2. proc'[m] = Idle
    BY <1>2, <1>6 DEF GoOn
  <2>3. Due(m)'
    BY <2>1 DEF Due
  <2>4. Placed(m)'
    BY <1>5 DEF Placed
  <2> QED
    BY <1>1, <2>2, <2>3, <2>4, EndKey DEF Done, Starting
<1>7. CASE proc[m].then # "idle"
  <2>1. q.pc = proc[m].then /\ q.att = proc[m].att /\ q.pc \in {"join", "remove"}
    BY <1>1, <1>7, GoOnParts, PassParts
  <2> HIDE DEF q
  <2>2. Due(m) => Due(m)'
    BY DueClears
  <2> QED
    BY <1>1, <1>2, <1>3, <1>5, <2>1, <2>2, LeaveKey
<1> QED
  BY <1>6, <1>7

\* The attachment is stored in the vnState of v.
LEMMA JoinKey ==
    ASSUME Types, NEW m \in Keys, KeyOK(m), phase' = "run", proc[m].pc = "join", NEW v \in VNIs,
           v = AddressVNI(proc[m].att), Continue(m, GoOn(proc[m], "update")),
           setVNStateVNI(m, v), localAtts' = localAtts,
           NEW t, vniToVnState' = [vniToVnState EXCEPT ![v] = t],
           proc[m].att.node = Here => m \in t.localAtts,
           proc[m].att.node # Here => m \in t.remoteAtts /\ t.cache = vniToVnState[v].cache
                                      /\ t.notes = vniToVnState[v].notes
                                      /\ t.on = vniToVnState[v].on /\ behind' = behind,
           m \in t.localAtts => m \notin t.remoteAtts
    PROVE  KeyOK(m)'
<1> DEFINE p == proc[m]
           q == GoOn(p, "update")
<1>1. p \in Pass /\ proc' = [proc EXCEPT ![m] = q] /\ queue' = queue
  BY DEF Types, PassesOK, Continue
<1>2. q.pc = "update" /\ q.att = p.att
  BY <1>1, GoOnParts
<1> HIDE DEF q
<1>3. proc'[m] = q /\ nsnToVNStateVNI'[m] = v
  BY <1>1 DEF Types, PassesOK, VnOK, setVNStateVNI
<1>4. Due(m) => Due(m)'
  BY <1>1, DueMoves
<1>5. \A u \in VNIs : vniToVnState'[u] = IF u = v THEN t ELSE vniToVnState[u]
  BY DEF Types, VnOK
<1>6. nsnToVNStateVNI[m] \in {NoVNI, v}
  BY DEF KeyOK, PassPlaced
<1>7. \A u \in VNIs : u # v => ~InLocal(u, m) /\ ~InRemote(u, m)
  BY <1>6, ConstantsTyped DEF KeyOK, Placed
<1>8. Placed(m)'
  BY <1>3, <1>5, <1>7 DEF Placed, InLocal, InRemote
<1>9. PassPlaced(m)'
  <2>1. (\E u \in VNIs : /\ nsnToVNStateVNI[m] = u /\ AddressVNI(proc[m].att) = u
                         /\ proc[m].att.node = Here => InLocal(u, m)
                         /\ proc[m].att.node # Here => InRemote(u, m) \/ Due(m))'
    BY <1>2, <1>3, <1>5 DEF AddressVNI, InLocal, InRemote
  <2> QED
    BY <1>2, <1>3, <2>1 DEF PassPlaced
<1>10. FromLocal(m)'
  BY <1>1, <1>2, <1>3 DEF KeyOK, FromLocal
<1>11. FromRemote(m)'
  <2>1. p.att.node # Here =>
           \A u \in VNIs : /\ Known(u, m)' = Known(u, m) /\ (Noted(u, m) => Noted(u, m)')
                           /\ vniToVnState'[u].on => vniToVnState[u].on
    BY <1>5 DEF Known, Noted
  <2> QED
    BY <1>1, <1>2, <1>3, <1>4, <2>1 DEF KeyOK, FromRemote, AddressVNI
<1>12. Done(m)'
  BY <1>2, <1>3 DEF Done
<1> QED
  BY <1>8, <1>9, <1>10, <1>11, <1>12, RunKey

LEMMA updateVNStateForExistingAttKey ==
    ASSUME Types, Resting, RemoteSynced, NEW m \in Keys, KeyOK(m), updateVNStateForExistingAtt(m)
    PROVE  KeyOK(m)'
<1> DEFINE p == proc[m]
           v == AddressVNI(p.att)
<1>1. p.pc = "join" /\ p \in Pass /\ localAtts' = localAtts /\ phase' = "run"
  BY WorkRuns DEF updateVNStateForExistingAtt, Types, PassesOK, Work
<1>2. v \in VNIs
  BY <1>1, JoiningAt
<1>3. nsnToVNStateVNI[m] \in {NoVNI, v}
  BY <1>1 DEF KeyOK, PassPlaced
<1>4. CASE p.att.node = Here /\ joinLocal(m, v)
  <2>1. PICK t : /\ vniToVnState' = [vniToVnState EXCEPT ![v] = t]
                 /\ t.localAtts = vniToVnState[v].localAtts \cup {m}
                 /\ t.remoteAtts = vniToVnState[v].remoteAtts \ {m}
    BY <1>2, <1>4, JoinLocalParts
  <2>2. Continue(m, GoOn(p, "update")) /\ setVNStateVNI(m, v)
    BY <1>4 DEF joinLocal
  <2> HIDE DEF v
  <2> QED
    BY <1>1, <1>2, <1>4, <2>1, <2>2, JoinKey DEF v
<1>5. CASE p.att.node # Here /\ joinRemote(m, v)
  <2>1. PICK t : /\ vniToVnState' = [vniToVnState EXCEPT ![v] = t]
                 /\ t.localAtts = vniToVnState[v].localAtts \ {m}
                 /\ t.remoteAtts = vniToVnState[v].remoteAtts \cup {m}
                 /\ t.cache = vniToVnState[v].cache /\ t.notes = vniToVnState[v].notes
                 /\ t.on = vniToVnState[v].on
    BY <1>2, <1>5, JoinRemoteParts
  <2>2. Continue(m, GoOn(p, "update")) /\ setVNStateVNI(m, v) /\ behind' = behind
    BY <1>5 DEF joinRemote
  <2> HIDE DEF v
  <2> QED
    BY <1>1, <1>2, <1>5, <2>1, <2>2, JoinKey DEF v
<1>6. CASE leaveLast(m, v)
  <2> DEFINE q == Clearing(p, v, vniToVnState[v].remoteAtts \cup {m}, "idle")
  <2>1. q.pc = "clear" /\ m \in q.names /\ q.att = p.att
    BY <1>1 DEF Clearing, Pass
  <2> HIDE DEF q
  <2>2. /\ proc' = [proc EXCEPT ![m] = q] /\ queue' = queue /\ DropVnState(v)
        /\ nsnToVNStateVNI' = [nsnToVNStateVNI EXCEPT ![m] = NoVNI] /\ behind' = behind
    BY <1>6 DEF leaveLast, Continue, unsetVNStateVNI, q
  <2>3. proc'[m] = q /\ nsnToVNStateVNI'[m] = NoVNI
    BY <2>2 DEF Types, PassesOK, VnOK
  <2>4. Due(m) => Due(m)'
    BY <1>1, <2>2, DueMoves
  <2>5. \A u \in VNIs : /\ ~InLocal(u, m)' /\ ~InRemote(u, m)'
                        /\ \/ ~vniToVnState'[u].on /\ Known(u, m)' = NoAtt
                           \/ /\ Known(u, m)' = Known(u, m) /\ (Noted(u, m) => Noted(u, m)')
                              /\ vniToVnState'[u].on => vniToVnState[u].on
    BY <1>2, <1>3, <2>2, DroppedAt
  <2> QED
    BY <1>1, <2>1, <2>2, <2>3, <2>4, <2>5, LeaveKey
<1>7. CASE joinNothing(m, v)
  <2> DEFINE q == GoOn(p, "remove")
  <2>1. q.pc = "remove" /\ q.att = p.att
    BY <1>1, GoOnParts
  <2> HIDE DEF q
  <2>2. /\ proc' = [proc EXCEPT ![m] = q] /\ queue' = queue /\ vniToVnState' = vniToVnState
        /\ nsnToVNStateVNI' = [nsnToVNStateVNI EXCEPT ![m] = NoVNI]
        /\ ~vniToVnState[v].on /\ behind' = behind
    BY <1>7 DEF joinNothing, Continue, unsetVNStateVNI, q
  <2>3. proc'[m] = q /\ nsnToVNStateVNI'[m] = NoVNI
    BY <2>2 DEF Types, PassesOK, VnOK
  <2>4. Due(m) => Due(m)'
    BY <1>1, <2>2, DueMoves
  <2>5. \A u \in VNIs : ~InLocal(u, m) /\ ~InRemote(u, m)
    <3>1. vniToVnState[v] = NoVnState
      BY <1>2, <2>2 DEF RemoteSynced, Follows
    <3>2. ~InLocal(v, m) /\ ~InRemote(v, m)
      BY <3>1, NoVnParts DEF InLocal, InRemote
    <3> QED
      BY <1>3, <3>2, ConstantsTyped DEF KeyOK, Placed
  <2>6. \A u \in VNIs : /\ ~InLocal(u, m)' /\ ~InRemote(u, m)'
                        /\ Known(u, m)' = Known(u, m) /\ (Noted(u, m) => Noted(u, m)')
                        /\ vniToVnState'[u].on => vniToVnState[u].on
    BY <2>2, <2>5 DEF InLocal, InRemote, Known, Noted
  <2> QED
    BY <1>1, <2>1, <2>2, <2>3, <2>4, <2>6, LeaveKey
<1> QED
  BY <1>4, <1>5, <1>6, <1>7 DEF updateVNStateForExistingAtt

\* Where a pass that has stored its attachment stands.
LEMMA StoredAt ==
    ASSUME Types, NEW m \in Keys, KeyOK(m), proc[m].pc \in {"update", "create", "status"}
    PROVE  /\ proc[m] \in Pass /\ proc[m].att \in NetworkAttachment
           /\ proc[m].att.pair \in Pairs /\ proc[m].att # NoAtt
           /\ \E v \in VNIs :
                 /\ nsnToVNStateVNI[m] = v /\ AddressVNI(proc[m].att) = v
                 /\ proc[m].att.node = Here => InLocal(v, m)
                 /\ proc[m].att.node # Here => InRemote(v, m) \/ Due(m)
           /\ proc[m].att.node = Here => attHostIP(proc[m].att) = Here
           /\ proc[m].att.node # Here => /\ attHostIP(proc[m].att) = proc[m].att.host
                                         /\ proc[m].att.host # Here
<1>1. proc[m] \in Pass /\ proc[m].att.pair \in Pairs
  BY DEF Types, PassesOK, PassOK, Usable
<1>2. proc[m].att \in NetworkAttachment /\ proc[m].att # NoAtt
  BY <1>1, PassParts, Addressed
<1>3. PICK v \in VNIs : /\ nsnToVNStateVNI[m] = v /\ AddressVNI(proc[m].att) = v
                        /\ proc[m].att.node = Here => InLocal(v, m)
                        /\ proc[m].att.node # Here => InRemote(v, m) \/ Due(m)
  BY DEF KeyOK, PassPlaced
<1>4. ASSUME proc[m].att.node # Here PROVE proc[m].att.host # Here
  <2>1. InRemoteWatch(v, proc[m].att)
    BY <1>2, <1>3, <1>4 DEF KeyOK, FromRemote
  <2> QED
    BY <1>2, <2>1, RemoteWatched
<1> QED
  BY <1>1, <1>2, <1>3, <1>4 DEF attHostIP

\* The pass ends with the local interface that its attachment asks for.
LEMMA LocalKey ==
    ASSUME Types, NEW m \in Keys, KeyOK(m), phase' = "run", proc[m].pc \in {"update", "create"},
           proc[m].att.node = Here, proc' = [proc EXCEPT ![m] = Idle],
           UNCHANGED <<vniToVnState, nsnToVNStateVNI, localAtts, queue>>,
           nsnToLocalMainState'[m] = proc[m].att.pair,
           WithStatus(m, proc[m].att, nsnToPostCreateExecReport'[m]) = proc[m].att,
           Doubled(m)' \/ ~HasRemoteIfc(m)'
    PROVE  KeyOK(m)'
<1> DEFINE a == proc[m].att
<1>1. PICK v \in VNIs : nsnToVNStateVNI[m] = v /\ AddressVNI(a) = v /\ InLocal(v, m)
  BY StoredAt
<1>2. a # NoAtt /\ proc[m].pc # "idle"
  BY StoredAt
<1>3. proc'[m] = Idle
  BY DEF Types, PassesOK
<1>4. Placed(m)'
  BY DEF KeyOK, Placed, InLocal, InRemote
<1>5. Done(m)'
  <2> SUFFICES ASSUME ~Due(m)' PROVE LocalDone(v, m)'
    BY <1>1, ConstantsTyped DEF Done
  <2>1. m \notin queue
    BY DEF Due
  <2>2. a = localAtts.cache[m]
    BY <1>2, <2>1 DEF KeyOK, FromLocal
  <2>3. a = localAtts'.cache[m] /\ AddressVNI(localAtts'.cache[m]) = v
    BY <1>1, <2>2
  <2>4. InLocal(v, m)'
    BY <1>1 DEF InLocal
  <2>5. Fits(m, localAtts'.cache[m], nsnToLocalMainState'[m], nsnToPostCreateExecReport'[m])
    BY <1>2, <2>3 DEF Fits
  <2> QED
    BY <1>2, <2>3, <2>4, <2>5 DEF LocalDone, AddressVNI, Fits, WithStatus
<1> QED
  BY <1>3, <1>4, <1>5, EndKey DEF Starting

\* The pass ends with the remote interface that its attachment asks for.
LEMMA RemoteKey ==
    ASSUME Types, RemoteSynced, NEW m \in Keys, KeyOK(m), phase' = "run",
           behind' = behind, proc[m].pc \in {"update", "create"},
           proc[m].att.node # Here, proc' = [proc EXCEPT ![m] = Idle],
           UNCHANGED <<vniToVnState, nsnToVNStateVNI, localAtts, queue>>,
           ~HasLocalIfc(m)', nsnToRemoteIfc'[m] = IfcOf(proc[m].att)
    PROVE  KeyOK(m)'
<1> DEFINE a == proc[m].att
<1>1. PICK v \in VNIs : nsnToVNStateVNI[m] = v /\ AddressVNI(a) = v
                        /\ (InRemote(v, m) \/ Due(m))
  BY StoredAt
<1>2. a # NoAtt /\ proc[m].pc \notin {"idle", "lookup"}
  BY StoredAt
<1>3. proc'[m] = Idle
  BY DEF Types, PassesOK
<1>4. Placed(m)'
  BY DEF KeyOK, Placed, InLocal, InRemote
<1>5. Due(m) => Due(m)'
  BY DueMoves
<1>6. Done(m)'
  <2> SUFFICES ASSUME ~Due(m)' PROVE RemoteDone(v, m)'
    BY <1>1, ConstantsTyped DEF Done
  <2>1. ~Due(m) /\ m \notin queue
    BY <1>5 DEF Due
  <2>2. InRemote(v, m)'
    BY <1>1, <2>1 DEF InRemote
  <2>3. localAtts.cache[m] = NoAtt
    BY <1>2, <2>1 DEF KeyOK, FromRemote
  <2>4. vniToVnState[v].on
    BY <1>1, <2>1, NoVnParts DEF InRemote, RemoteSynced, Follows
  <2>5. a = Known(v, m) \/ Noted(v, m) \/ (Known(v, m) = NoAtt /\ m \in behind)
    BY <1>1, <1>2, <2>1, <2>4 DEF KeyOK, FromRemote
  <2>6. Known(v, m)' = Known(v, m) /\ (Noted(v, m)' <=> Noted(v, m))
    BY DEF Known, Noted
  <2> QED
    BY <1>2, <2>2, <2>3, <2>5, <2>6 DEF RemoteDone, IfcOf
<1> QED
  BY <1>3, <1>4, <1>6, EndKey DEF Starting

\* The interface is in place.
LEMMA IfcDoneKey ==
    ASSUME Types, RemoteSynced, NEW m \in Keys, KeyOK(m), phase' = "run",
           behind' = behind, proc[m].pc \in {"update", "create"},
           NEW report, Continue(m, IfcDone(m, proc[m], report)),
           UNCHANGED <<vniToVnState, nsnToVNStateVNI, localAtts>>,
           proc[m].att.node = Here =>
              /\ nsnToLocalMainState'[m] = proc[m].att.pair
              /\ nsnToPostCreateExecReport'[m] = report
              /\ Doubled(m)' \/ ~HasRemoteIfc(m)',
           proc[m].att.node # Here =>
              ~HasLocalIfc(m)' /\ nsnToRemoteIfc'[m] = IfcOf(proc[m].att)
    PROVE  KeyOK(m)'
<1> DEFINE p == proc[m]
           q == [p EXCEPT !.pc = "status", !.report = report]
<1>1. p \in Pass /\ queue' = queue
  BY DEF Types, PassesOK, Continue
<1>2. q.pc = "status" /\ q.att = p.att
  BY <1>1 DEF Pass
<1>3. CASE p.att.node # Here
  <2>1. proc' = [proc EXCEPT ![m] = Idle]
    BY <1>3 DEF Continue, IfcDone
  <2> QED
    BY <1>1, <1>3, <2>1, RemoteKey
<1>4. CASE p.att.node = Here /\ WithStatus(m, p.att, report) = p.att
  <2>1. proc' = [proc EXCEPT ![m] = Idle]
    BY <1>4 DEF Continue, IfcDone
  <2>2. WithStatus(m, p.att, nsnToPostCreateExecReport'[m]) = p.att
    BY <1>4
  <2> QED
    BY <1>1, <1>4, <2>1, <2>2, LocalKey
<1>5. CASE p.att.node = Here /\ WithStatus(m, p.att, report) # p.att
  <2>1. proc' = [proc EXCEPT ![m] = q]
    BY <1>5 DEF Continue, IfcDone
  <2> HIDE DEF q
  <2> QED
    BY <1>1, <1>2, <1>5, <2>1, OnKey
<1> QED
  BY <1>3, <1>4, <1>5

LEMMA updateIfcKey ==
    ASSUME DistinctMACs, Types, Resting, RemoteSynced, Outbound, NEW m \in Keys, KeyOK(m), updateIfc(m)
    PROVE  KeyOK(m)'
<1> DEFINE p == proc[m]
           q == GoOn(p, "create")
           need == newIfcNeedsToBeCreated(m, p.att)
<1>1. /\ p.pc = "update" /\ localAtts' = localAtts /\ queue' = queue /\ phase' = "run"
      /\ UNCHANGED <<vniToVnState, nsnToVNStateVNI, behind>> /\ twofold' = twofold
  BY WorkRuns DEF updateIfc, Continue, Work, vnVars
<1>2. /\ p \in Pass /\ p.att.pair \in Pairs
      /\ p.att.node = Here => attHostIP(p.att) = Here
      /\ p.att.node # Here => attHostIP(p.att) = p.att.host /\ p.att.host # Here
  BY <1>1, StoredAt
<1>3. q.pc = "create" /\ q.att = p.att
  BY <1>2, GoOnParts
<1>4. ASSUME Continue(m, q) PROVE KeyOK(m)'
  <2>1. proc' = [proc EXCEPT ![m] = q]
    BY <1>4 DEF Continue
  <2> HIDE DEF q
  <2> QED
    BY <1>1, <1>3, <2>1, OnKey
<1>5. CASE /\ ~need /\ Continue(m, IfcDone(m, p, nsnToPostCreateExecReport[m]))
           /\ UNCHANGED ifcVars
  <2>1. /\ HasLocalIfc(m) \/ HasRemoteIfc(m)
        /\ HasLocalIfc(m) => ~ifcNeedsUpdate(Here, nsnToLocalMainState[m], attHostIP(p.att), p.att.pair)
        /\ HasRemoteIfc(m) => ~ifcNeedsUpdate(nsnToRemoteIfc[m].host, nsnToRemoteIfc[m].pair,
                                              attHostIP(p.att), p.att.pair)
    BY <1>5 DEF newIfcNeedsToBeCreated
  <2>2. HasLocalIfc(m) => attHostIP(p.att) = Here /\ nsnToLocalMainState[m] = p.att.pair
    <3>1. HasLocalIfc(m) => nsnToLocalMainState[m] \in Pairs
      BY DEF HasLocalIfc, Types, IfcsOK
    <3> QED
      BY <1>2, <2>1, <3>1 DEF ifcNeedsUpdate, DistinctMACs
  <2>3. HasRemoteIfc(m) => /\ nsnToRemoteIfc[m].host = attHostIP(p.att)
                           /\ nsnToRemoteIfc[m].pair = p.att.pair
                           /\ nsnToRemoteIfc[m] \in RemoteNetIfc
    <3>1. HasRemoteIfc(m) => nsnToRemoteIfc[m] \in RemoteNetIfc /\ nsnToRemoteIfc[m].pair \in Pairs
      BY DEF HasRemoteIfc, Types, IfcsOK, RemoteNetIfc
    <3> QED
      BY <1>2, <2>1, <3>1 DEF ifcNeedsUpdate, DistinctMACs
  <2>4. HasRemoteIfc(m) => nsnToRemoteIfc[m].host # Here
    BY DEF Outbound
  <2>5. /\ nsnToLocalMainState' = nsnToLocalMainState /\ nsnToRemoteIfc' = nsnToRemoteIfc
        /\ nsnToPostCreateExecReport' = nsnToPostCreateExecReport
        /\ HasLocalIfc(m)' <=> HasLocalIfc(m)
        /\ HasRemoteIfc(m)' <=> HasRemoteIfc(m)
    BY <1>5 DEF ifcVars, HasLocalIfc, HasRemoteIfc
  <2>6. p.att.node = Here => nsnToLocalMainState'[m] = p.att.pair /\ ~HasRemoteIfc(m)'
    BY <1>2, <2>1, <2>2, <2>3, <2>4, <2>5
  <2>7. p.att.node # Here => ~HasLocalIfc(m)' /\ nsnToRemoteIfc'[m] = IfcOf(p.att)
    <3>1. \A r \in RemoteNetIfc : r = [pair |-> r.pair, host |-> r.host]
      BY DEF RemoteNetIfc
    <3> QED
      BY <1>2, <2>1, <2>2, <2>3, <2>5, <3>1 DEF IfcOf
  <2>8. nsnToPostCreateExecReport'[m] = nsnToPostCreateExecReport[m]
    BY <2>5
  <2> QED
    BY <1>1, <1>5, <2>6, <2>7, <2>8, IfcDoneKey
<1> QED
  BY <1>4, <1>5 DEF updateIfc

LEMMA createIfcKey ==
    ASSUME Types, Resting, Owned, RemoteSynced, Reported, NEW m \in Keys, KeyOK(m), createIfc(m)
    PROVE  KeyOK(m)'
<1> DEFINE p == proc[m]
           ifc == [pair |-> p.att.pair, host |-> attHostIP(p.att)]
<1>1. /\ p.pc = "create" /\ localAtts' = localAtts /\ phase' = "run"
      /\ UNCHANGED <<vniToVnState, nsnToVNStateVNI, behind>> /\ twofold' = twofold
  BY WorkRuns DEF createIfc, Work, vnVars
<1>2. /\ p \in Pass /\ p.att.pair \in Pairs
      /\ p.att.node = Here => attHostIP(p.att) = Here
      /\ p.att.node # Here => attHostIP(p.att) = p.att.host /\ p.att.host # Here
  BY <1>1, StoredAt
<1>3. nsnToLocalMainState[m] = NoPair /\ (HasRemoteIfc(m) => nsnToRemoteIfc[m] \in twofold)
  BY <1>1 DEF Owned, CreatorsBare, HasLocalIfc
<1>4. nsnToPostCreateExecReport[m] = NoPair
  BY <1>3 DEF Reported
<1>5. CASE /\ ifc.host = Here
           /\ setLocalAttMainState(m, p.att.pair) /\ Continue(m, IfcDone(m, p, NoPair))
           /\ UNCHANGED <<nsnToRemoteIfc, nsnToPostCreateExecReport>>
  <2>1. p.att.node = Here
    BY <1>2, <1>5
  <2>2. nsnToLocalMainState'[m] = p.att.pair /\ nsnToPostCreateExecReport'[m] = NoPair
    BY <1>4, <1>5 DEF setLocalAttMainState, Types, IfcsOK
  <2>3. Doubled(m)' \/ ~HasRemoteIfc(m)'
    BY <1>1, <1>3, <1>5 DEF Doubled, HasRemoteIfc
  <2> QED
    BY <1>1, <1>5, <2>1, <2>2, <2>3, IfcDoneKey
<1>6. CASE /\ ifc.host # Here
           /\ assignRemoteIfc(m, ifc) /\ Continue(m, IfcDone(m, p, NoPair))
           /\ UNCHANGED <<nsnToLocalMainState, nsnToPostCreateExecReport>>
  <2>1. p.att.node # Here /\ attHostIP(p.att) = p.att.host
    BY <1>2, <1>6
  <2>2. ifc = IfcOf(p.att)
    BY <2>1 DEF IfcOf
  <2>3. nsnToRemoteIfc'[m] = IfcOf(p.att) /\ ~HasLocalIfc(m)'
    BY <1>3, <1>6, <2>2 DEF assignRemoteIfc, Types, IfcsOK, HasLocalIfc
  <2> QED
    BY <1>1, <1>6, <2>1, <2>3, IfcDoneKey
<1>7. CASE Retry(m)
  BY <1>1, <1>7, RetryKey
<1> QED
  BY <1>5, <1>6, <1>7 DEF createIfc

LEMMA setAttStatusKey ==
    ASSUME Types, Resting, NEW m \in Keys, KeyOK(m), setAttStatus(m)
    PROVE  KeyOK(m)'
<1> DEFINE p == proc[m]
           a == WithStatus(m, p.att, p.report)
<1>1. p.pc = "status" /\ phase' = "run" /\ nsnToVNStateVNI' = nsnToVNStateVNI
  BY WorkRuns DEF setAttStatus, Work
<1>2. p.att.node = Here
  BY <1>1 DEF KeyOK, PassPlaced
<1>3. p \in Pass /\ p.att \in NetworkAttachment /\ p.att.pair \in Pairs
  BY <1>1, StoredAt
<1>4. PICK v \in VNIs : nsnToVNStateVNI[m] = v /\ InLocal(v, m)
  BY <1>1, <1>2, StoredAt
<1>5. CASE atts[m] = p.att /\ PutAtt(m, a) /\ Continue(m, Idle)
  <2>1. a \in NetworkAttachment
    BY <1>3, PassParts, StatusWritten
  <2>2. InLocalWatch(atts[m])
    BY <1>2, <1>3, <1>5, WatchesHome DEF AtHome
  <2>3. \A u \in VNIs : KeptIn(vniToVnState[u], vniToVnState'[u], m)
    BY <1>5, PutKept
  <2> HIDE DEF a
  <2>4. PICK e \in LocalEvents : e.key = m /\ localAtts'.events = Append(localAtts.events, e)
    BY <1>5, <2>1, <2>2, PutEvents DEF Types
  <2>5. Tells(Append(localAtts.events, e), m) <=> Tells(localAtts.events, m) \/ e.key = m
    BY LocalParts, TellsAppend DEF Types
  <2>6. Tells(localAtts'.events, m)
    BY <2>4, <2>5
  <2>7. proc'[m] = Idle
    BY <1>5 DEF Continue, Types, PassesOK
  <2>8. Placed(m)' /\ InLocal(v, m)'
    BY <1>1, <1>4, <2>3 DEF KeptIn, KeyOK, Placed, InLocal, InRemote
  <2>9. LocalDone(v, m)'
    BY <2>6, <2>8 DEF LocalDone
  <2>10. Done(m)'
    BY <1>1, <1>4, <2>9, ConstantsTyped DEF Done
  <2> QED
    BY <1>1, <2>7, <2>8, <2>10, EndKey DEF Starting
<1>6. CASE Retry(m) /\ vniToVnState' = vniToVnState
  BY <1>1, <1>6, RetryKey
<1> QED
  BY <1>5, <1>6 DEF setAttStatus

LEMMA processDeletedAttKey ==
    ASSUME Types, Resting, Owned, NEW m \in Keys, KeyOK(m), processDeletedAtt(m)
    PROVE  KeyOK(m)'
<1>1. /\ proc[m].pc = "remove" /\ phase' = "run"
      /\ UNCHANGED <<vniToVnState, nsnToVNStateVNI>> /\ twofold' = twofold
  BY WorkRuns DEF processDeletedAtt, Work, vnVars
<1>2. proc'[m] = Idle
  BY DEF processDeletedAtt, Continue, Types, PassesOK
<1>3. nsnToVNStateVNI'[m] = NoVNI
  BY <1>1 DEF KeyOK, PassPlaced
<1>4. Doubled(m)' \/ (~HasLocalIfc(m)' /\ ~HasRemoteIfc(m)')
  <2>1. CASE HasLocalIfc(m) /\ deleteOldLocalIfc(m)
    <3>1. nsnToLocalMainState'[m] = NoPair /\ nsnToRemoteIfc' = nsnToRemoteIfc
      BY <2>1 DEF deleteOldLocalIfc, unsetLocalAttState, Types, IfcsOK
    <3>2. HasRemoteIfc(m) => nsnToRemoteIfc[m] \in twofold
      BY <2>1 DEF Owned, OneIfc
    <3> QED
      BY <1>1, <3>1, <3>2 DEF Doubled, HasLocalIfc, HasRemoteIfc
  <2>2. CASE ~HasLocalIfc(m) /\ HasRemoteIfc(m) /\ deleteOldRemoteIfc(m)
    BY <2>2 DEF deleteOldRemoteIfc, unsetRemoteIfc, assignRemoteIfc, Types, IfcsOK,
                HasLocalIfc, HasRemoteIfc
  <2>3. CASE ~HasLocalIfc(m) /\ ~HasRemoteIfc(m) /\ UNCHANGED ifcVars
    BY <2>3 DEF ifcVars, HasLocalIfc, HasRemoteIfc
  <2> QED
    BY <2>1, <2>2, <2>3 DEF processDeletedAtt
<1>5. Placed(m)'
  BY <1>1 DEF KeyOK, Placed, InLocal, InRemote
<1>6. Done(m)'
  BY <1>3, <1>4, ConstantsTyped DEF Done
<1> QED
  BY <1>1, <1>2, <1>5, <1>6, EndKey DEF Starting

\* Every step of a pass keeps what is known of every attachment.
LEMMA WorkKey ==
    ASSUME DistinctMACs, IInv, RemoteSynced, Outbound, Reported, NEW m \in Keys,
           Work(m) \/ Fault(m), NEW k \in Keys, KeyOK(k)
    PROVE  KeyOK(k)'
<1>1. Types /\ Resting /\ Owned
  BY DEF IInv
<1>2. CASE k # m
  BY <1>1, <1>2, OtherUntouched, KeyKept
<1>3. CASE k = m /\ Work(m)
  BY <1>1, <1>3, processNetworkAttachmentKey, getAttachmentKey, removeAttFromVNStateKey,
     clearVNResourcesKey, updateVNStateForExistingAttKey, updateIfcKey, createIfcKey,
     setAttStatusKey, processDeletedAttKey DEF Work
<1>4. CASE k = m /\ Fault(m)
  <2>1. Retry(m) /\ UNCHANGED <<vniToVnState, nsnToVNStateVNI>> /\ phase' = "run"
    BY <1>1, <1>4, WorkRuns DEF Fault, vnVars
  <2> QED
    BY <1>1, <1>4, <2>1, RetryKey
<1> QED
  BY <1>2, <1>3, <1>4

-----------------------------------------------------------------------------
(* Members: start-up.                                                       *)

\* While start-up goes on, an attachment that is not queued has nothing yet.
LEMMA StartKey ==
    ASSUME NEW k \in Keys, proc'[k] = Idle, phase' # "run", Placed(k)', Starting(k)'
    PROVE  KeyOK(k)'
<1>1. k \in queue' => Due(k)'
  BY DEF Due
<1>2. Done(k)'
  BY <1>1, ConstantsTyped DEF Done, Starting
<1> QED
  BY <1>2, EndKey

LEMMA syncPreExistingLocalIfcKey ==
    ASSUME Types, Resting, syncPreExistingLocalIfc, NEW k \in Keys, KeyOK(k)
    PROVE  KeyOK(k)'
<1>1. /\ phase = "syncLocal" /\ phase' = phase /\ localAtts' = localAtts /\ proc' = proc
      /\ queue' = queue /\ UNCHANGED <<nsnToRemoteIfc, adopted, vniToVnState, nsnToVNStateVNI>>
  BY DEF syncPreExistingLocalIfc, vnVars
<1>2. proc'[k] = Idle
  BY <1>1 DEF Resting
<1>3. Placed(k)'
  BY <1>1 DEF KeyOK, Placed, InLocal, InRemote
<1>4. PICK ifc \in todo :
         \/ \E m \in ifcOwnerAtts(localAtts.cache, ifc) : matchLocalIfc(m, ifc)
         \/ UNCHANGED nsnToLocalMainState
  BY DEF syncPreExistingLocalIfc
<1>5. HasLocalIfc(k)' => HasLocalIfc(k) \/ localAtts.cache[k] # NoAtt
  <2>1. CASE UNCHANGED nsnToLocalMainState
    BY <2>1 DEF HasLocalIfc
  <2>2. ASSUME NEW m \in ifcOwnerAtts(localAtts.cache, ifc), matchLocalIfc(m, ifc)
        PROVE  HasLocalIfc(k)' => HasLocalIfc(k) \/ localAtts.cache[k] # NoAtt
    <3>1. m \in Keys /\ localAtts.cache[m].pair = ifc /\ ifc \in Pairs
      BY <1>1 DEF ifcOwnerAtts, Types, StartOK
    <3>2. localAtts.cache[m] # NoAtt
      BY <3>1, Addressed
    <3>3. k # m => nsnToLocalMainState'[k] = nsnToLocalMainState[k]
      BY <2>2 DEF matchLocalIfc, setLocalAttMainState, Types, IfcsOK
    <3> QED
      BY <3>2, <3>3 DEF HasLocalIfc
  <2> QED
    BY <1>4, <2>1, <2>2
<1>6. Starting(k)'
  BY <1>1, <1>5 DEF KeyOK, Starting, HasRemoteIfc
<1> QED
  BY <1>1, <1>2, <1>3, <1>6, StartKey

LEMMA startRemoteInformersKey ==
    ASSUME Types, Resting, Owned, startRemoteInformers, NEW k \in Keys, KeyOK(k)
    PROVE  KeyOK(k)'
<1>1. /\ phase = "syncLocal" /\ phase' = "syncRemote" /\ localAtts' = localAtts /\ proc' = proc
      /\ queue' = queue /\ adopted' = adopted /\ UNCHANGED ifcVars
      /\ nsnToVNStateVNI'[k] = AddressVNI(localAtts.cache[k])
  BY DEF startRemoteInformers
<1>2. proc'[k] = Idle
  BY <1>1 DEF Resting
<1>3. ASSUME NEW v \in VNIs
      PROVE  (InLocal(v, k)' => AddressVNI(localAtts.cache[k]) = v) /\ ~InRemote(v, k)'
  <2> DEFINE L == {m \in Keys : AddressVNI(localAtts.cache[m]) = v}
             s == initVNState(v)
             t == [s EXCEPT !.localAtts = L]
  <2>1. vniToVnState'[v] = IF L = {} THEN NoVnState ELSE t
    BY DEF startRemoteInformers
  <2>2. s \in VnState /\ s.remoteAtts = {}
    BY InitTyped, InitParts DEF Types
  <2>3. k \in L => AddressVNI(localAtts.cache[k]) = v
    OBVIOUS
  <2> HIDE DEF L, s
  <2>4. t.localAtts = L /\ t.remoteAtts = {}
    BY <2>2 DEF VnState
  <2> HIDE DEF t
  <2> QED
    BY <2>1, <2>3, <2>4, NoVnParts DEF InLocal, InRemote
<1>4. Placed(k)'
  BY <1>1, <1>3 DEF Placed
<1>5. Starting(k)'
  <2>1. ~HasRemoteIfc(k)' /\ (HasLocalIfc(k)' <=> HasLocalIfc(k))
    BY <1>1 DEF Owned, OneIfc, ifcVars, HasRemoteIfc, HasLocalIfc
  <2>2. AddressVNI(NoAtt) = NoVNI
    BY DEF AddressVNI, NoAtt
  <2>3. HasLocalIfc(k) \/ localAtts.cache[k] # NoAtt => k \in queue
    BY <1>1 DEF KeyOK, Starting
  <2> QED
    BY <1>1, <2>1, <2>2, <2>3 DEF Starting
<1> QED
  BY <1>1, <1>2, <1>4, <1>5, StartKey

LEMMA syncPreExistingRemoteIfcKey ==
    ASSUME Types, Resting, syncPreExistingRemoteIfc, NEW k \in Keys, KeyOK(k)
    PROVE  KeyOK(k)'
<1>1. /\ phase = "syncRemote" /\ phase' = phase /\ localAtts' = localAtts /\ proc' = proc
      /\ queue' = queue /\ UNCHANGED <<nsnToLocalMainState, vniToVnState, nsnToVNStateVNI>>
  BY DEF syncPreExistingRemoteIfc, vnVars
<1>2. proc'[k] = Idle
  BY <1>1 DEF Resting
<1>3. Placed(k)'
  BY <1>1 DEF KeyOK, Placed, InLocal, InRemote
<1>4. PICK ifc \in todo :
         (\E m \in Keys : matchRemoteIfc(m, ifc)) \/ UNCHANGED <<nsnToRemoteIfc, adopted>>
  BY DEF syncPreExistingRemoteIfc, ifcOwnerAtts
<1>5. HasRemoteIfc(k)' => k \in adopted'
  <2>1. HasRemoteIfc(k) => k \in adopted
    BY <1>1 DEF KeyOK, Starting
  <2>2. ASSUME NEW m \in Keys, matchRemoteIfc(m, ifc) PROVE HasRemoteIfc(k)' => k \in adopted'
    <3>1. adopted' = adopted \cup {m}
          /\ (k # m => nsnToRemoteIfc'[k] = nsnToRemoteIfc[k])
      BY <2>2 DEF matchRemoteIfc, assignRemoteIfc, Types, IfcsOK
    <3> QED
      BY <2>1, <3>1 DEF HasRemoteIfc
  <2> QED
    BY <1>4, <2>1, <2>2 DEF HasRemoteIfc
<1>6. Starting(k)'
  BY <1>1, <1>5 DEF KeyOK, Starting, HasLocalIfc
<1> QED
  BY <1>1, <1>2, <1>3, <1>6, StartKey

LEMMA CrashKey ==
    ASSUME Crash, NEW k \in Keys
    PROVE  KeyOK(k)'
<1>1. /\ proc'[k] = Idle /\ nsnToRemoteIfc'[k] = NoIfc /\ nsnToLocalMainState'[k] = NoPair
      /\ localAtts'.cache[k] # NoAtt => k \in queue'
  BY CrashParts
<1>2. phase' = "syncLocal" /\ nsnToVNStateVNI'[k] = NoVNI
      /\ \A v \in VNIs : vniToVnState'[v] = NoVnState
  BY DEF Crash, StartAgent
<1>3. Placed(k)'
  BY <1>2, NoVnParts DEF Placed, InLocal, InRemote
<1>4. Starting(k)'
  BY <1>1, <1>2 DEF Starting, HasLocalIfc, HasRemoteIfc
<1> QED
  BY <1>1, <1>2, <1>3, <1>4, StartKey

LEMMA InitMembers ==
    ASSUME Init
    PROVE  MemInv
<1>1. \A v \in VNIs : vniToVnState[v] = NoVnState
  BY DEF Init
<1>2. RemoteSynced
  BY <1>1, EmptyFollows DEF RemoteSynced
<1>3. Outbound
  <2>1. phase = "syncLocal" /\ remoteIfcs = {} /\ \A k \in Keys : nsnToRemoteIfc[k] = NoIfc
    BY DEF Init, StartAgent, FabricInit
  <2> QED
    BY <2>1 DEF Outbound, HasRemoteIfc
<1>4. ASSUME NEW k \in Keys PROVE KeyOK(k)
  <2> DEFINE list == [j \in Keys |-> Seen(atts[j])]
  <2>1. localAtts = [cache |-> list, events |-> <<>>] /\ queue = {j \in Keys : list[j] # NoAtt}
    BY DEF Init, StartAgent, Seen
  <2> HIDE DEF list
  <2>2. localAtts.cache[k] # NoAtt => k \in queue
    BY <2>1
  <2>3. /\ proc[k] = Idle /\ nsnToRemoteIfc[k] = NoIfc /\ nsnToLocalMainState[k] = NoPair
        /\ phase = "syncLocal" /\ nsnToVNStateVNI[k] = NoVNI
    BY DEF Init, StartAgent
  <2>4. Placed(k)
    BY <1>1, NoVnParts DEF Placed, InLocal, InRemote
  <2>5. Starting(k)
    BY <2>2, <2>3 DEF Starting, HasLocalIfc, HasRemoteIfc
  <2>6. Done(k)
    BY <2>3, ConstantsTyped DEF Done, HasLocalIfc, HasRemoteIfc
  <2>7. PassPlaced(k) /\ FromLocal(k) /\ FromRemote(k)
    BY <2>3, IdleParts DEF PassPlaced, FromLocal, FromRemote
  <2> QED
    BY <2>4, <2>5, <2>6, <2>7 DEF KeyOK
<1> QED
  BY <1>2, <1>3, <1>4 DEF MemInv

-----------------------------------------------------------------------------
(* Members: remote interfaces lead elsewhere.                               *)

LEMMA OutboundKept ==
    ASSUME Outbound, remoteIfcs' \subseteq remoteIfcs,
           phase' = "syncRemote" => phase = "syncRemote" /\ todo' \subseteq todo,
           \A k \in Keys : nsnToRemoteIfc'[k] \in {nsnToRemoteIfc[k], NoIfc}
    PROVE  Outbound'
BY DEF Outbound, HasRemoteIfc

LEMMA StepOutbound ==
    ASSUME IInv, MemInv, [Next]_vars
    PROVE  Outbound'
<1>1. Types /\ Resting /\ Outbound
  BY DEF IInv, MemInv
<1>2. ASSUME UNCHANGED <<remoteIfcs, nsnToRemoteIfc>>, phase' \in {phase, "run"}, todo' = todo
      PROVE  Outbound'
  BY <1>1, <1>2, OutboundKept
<1>3. CASE InformerNext
  BY <1>2, <1>3 DEF InformerNext, onLocalAtt, IndexRemoteAtt, onRemoteAtt, onLateRemoteAtt,
     EndStoppedInformers, HandleRemoteNote, ifcVars, fabricVars, startVars
<1>4. CASE syncPreExistingLocalIfc
  <2>1. /\ phase' = "syncLocal" /\ nsnToRemoteIfc' = nsnToRemoteIfc
        /\ remoteIfcs' = remoteIfcs
    BY <1>4 DEF syncPreExistingLocalIfc, matchLocalIfc, DeleteLocalIfc, fabricVars
  <2> QED
    BY <1>1, <2>1, OutboundKept
<1>5. CASE startRemoteInformers
  BY <1>1, <1>5 DEF startRemoteInformers, Outbound, HasRemoteIfc, ifcVars, fabricVars
<1>6. CASE syncPreExistingRemoteIfc
  <2>1. PICK ifc \in todo :
           /\ \/ \E k \in Keys : matchRemoteIfc(k, ifc)
              \/ DeleteRemoteIfc(ifc) /\ UNCHANGED nsnToRemoteIfc
           /\ todo' = todo \ {ifc}
    BY <1>6 DEF syncPreExistingRemoteIfc, ifcOwnerAtts
  <2>2. phase = "syncRemote" /\ phase' = phase
    BY <1>6 DEF syncPreExistingRemoteIfc
  <2>3. remoteIfcs' \subseteq remoteIfcs
    BY <2>1 DEF matchRemoteIfc, DeleteLocalIfc, DeleteRemoteIfc, fabricVars
  <2>4. \A k \in Keys : nsnToRemoteIfc'[k] \in {nsnToRemoteIfc[k], ifc}
    BY <1>1, <2>1 DEF matchRemoteIfc, assignRemoteIfc, Types, IfcsOK
  <2>5. ifc.host # Here
    BY <1>1, <2>1, <2>2 DEF Outbound
  <2> QED
    BY <1>1, <2>1, <2>2, <2>3, <2>4, <2>5 DEF Outbound, HasRemoteIfc
<1>7. ASSUME NEW m \in Keys, Work(m) PROVE Outbound'
  <2>1. phase = "run" /\ phase' = "run"
    BY <1>1, <1>7, WorkRuns
  <2>2. ASSUME UNCHANGED ifcVars PROVE Outbound'
    BY <1>1, <2>1, <2>2, OutboundKept DEF ifcVars, fabricVars
  <2>3. ASSUME deleteOldLocalIfc(m) PROVE Outbound'
    BY <1>1, <2>1, <2>3, OutboundKept DEF deleteOldLocalIfc, DeleteLocalIfc
  <2>4. ASSUME deleteOldRemoteIfc(m) PROVE Outbound'
    <3>1. /\ remoteIfcs' \subseteq remoteIfcs
          /\ \A k \in Keys : nsnToRemoteIfc'[k] \in {nsnToRemoteIfc[k], NoIfc}
      BY <1>1, <2>4 DEF deleteOldRemoteIfc, DeleteRemoteIfc, unsetRemoteIfc, assignRemoteIfc,
                        Types, IfcsOK
    <3> QED
      BY <1>1, <2>1, <3>1, OutboundKept
  <2>5. CASE updateIfc(m)
    BY <2>2, <2>3, <2>4, <2>5 DEF updateIfc
  <2>6. CASE processDeletedAtt(m)
    BY <2>2, <2>3, <2>4, <2>6 DEF processDeletedAtt
  <2>7. CASE createIfc(m)
    <3> DEFINE ifc == [pair |-> proc[m].att.pair, host |-> attHostIP(proc[m].att)]
    <3>1. CASE UNCHANGED <<remoteIfcs, nsnToRemoteIfc>>
      BY <1>1, <2>1, <3>1, OutboundKept
    <3>2. CASE ifc.host # Here /\ CreateRemoteIfc(ifc) /\ assignRemoteIfc(m, ifc)
      <4> HIDE DEF ifc
      <4>1. remoteIfcs' = remoteIfcs \cup {ifc}
            /\ \A k \in Keys : nsnToRemoteIfc'[k] \in {nsnToRemoteIfc[k], ifc}
        BY <1>1, <3>2 DEF CreateRemoteIfc, assignRemoteIfc, Types, IfcsOK
      <4> QED
        BY <1>1, <2>1, <3>2, <4>1 DEF Outbound, HasRemoteIfc
    <3> QED
      BY <2>7, <3>1, <3>2 DEF createIfc, CreateLocalIfc, ifcVars, fabricVars
  <2>8. CASE processNetworkAttachment(m) \/ getAttachment(m) \/ removeAttFromVNState(m)
             \/ clearVNResources(m) \/ updateVNStateForExistingAtt(m) \/ setAttStatus(m)
    BY <2>2, <2>8 DEF processNetworkAttachment, getAttachment, removeAttFromVNState,
       clearVNResources, updateVNStateForExistingAtt, setAttStatus
  <2> QED
    BY <1>7, <2>5, <2>6, <2>7, <2>8 DEF Work
<1>8. CASE startWorkers
  BY <1>2, <1>8 DEF startWorkers, ifcVars, fabricVars
<1>9. CASE (\E c \in commands : RunCommand(c)) \/ UNCHANGED vars
  BY <1>2, <1>9 DEF RunCommand, vars, ifcVars, fabricVars, startVars
<1>10. CASE EnvironmentNext
  <2>1. CASE Crash
    <3>1. phase' = "syncLocal" /\ remoteIfcs' = remoteIfcs
          /\ \A k \in Keys : nsnToRemoteIfc'[k] = NoIfc
      BY <2>1 DEF Crash, StartAgent, fabricVars
    <3> QED
      BY <1>1, <3>1, OutboundKept
  <2>2. CASE ~Crash
    BY <1>2, <1>10, <2>2 DEF EnvironmentNext, WriteAtt, DeleteAtt, Fault, ifcVars, fabricVars,
       startVars
  <2> QED
    BY <2>1, <2>2
<1> QED
  BY <1>3, <1>4, <1>5, <1>6, <1>7, <1>8, <1>9, <1>10 DEF Next, StartNext

LEMMA StepMembers ==
    ASSUME DistinctMACs, IInv, Reported, MemInv, [Next]_vars
    PROVE  MemInv'
<1>1. Types /\ Resting /\ Owned /\ RemoteSynced /\ Outbound
  BY DEF IInv, MemInv
<1>2. RemoteSynced' /\ Outbound'
  BY <1>1, StepFollows, StepOutbound
<1>3. ASSUME NEW k \in Keys PROVE KeyOK(k)'
  <2>1. KeyOK(k)
    BY DEF MemInv
  <2>2. CASE InformerNext \/ startWorkers \/ (\E c \in commands : RunCommand(c)) \/ UNCHANGED vars
    BY <1>1, <2>1, <2>2, OutsideUntouched, KeyKept
  <2>3. CASE StartNext
    BY <1>1, <2>1, <2>2, <2>3, syncPreExistingLocalIfcKey, startRemoteInformersKey,
       syncPreExistingRemoteIfcKey DEF StartNext
  <2>4. ASSUME NEW m \in Keys, Work(m) \/ Fault(m) PROVE KeyOK(k)'
    BY <1>1, <2>1, <2>4, WorkKey
  <2>5. CASE EnvironmentNext
    <3>1. CASE (\E m \in Keys, n \in Hosts, p \in Pairs, h \in Hosts \cup {""} :
                   WriteAtt(m, n, p, h)) \/ (\E m \in Keys : DeleteAtt(m))
      BY <1>1, <2>1, <3>1, OutsideUntouched, KeyKept
    <3> QED
      BY <2>4, <2>5, <3>1, CrashKey DEF EnvironmentNext
  <2> QED
    BY <2>2, <2>3, <2>4, <2>5 DEF Next
<1> QED
  BY <1>2, <1>3 DEF MemInv

-----------------------------------------------------------------------------
(* Members are up to date.                                                  *)

LEMMA QuietKey ==
    ASSUME Types, MemInv, LocalSynced, Quiet, NEW k \in Keys
    PROVE  /\ proc[k].pc = "idle" /\ ~Due(k) /\ ~Tells(localAtts.events, k)
           /\ localAtts.cache[k] = Seen(atts[k])
           /\ \A v \in VNIs : ~Noted(v, k)
           /\ \A v \in VNIs : vniToVnState[v].on => Known(v, k) = SeenIn(v, atts[k])
<1>1. proc[k].pc = "idle" /\ ~Due(k)
  BY DEF Quiet, Due
<1>2. ~Tells(localAtts.events, k)
  BY TellsNothing DEF Quiet
<1>3. localAtts.cache[k] = Seen(atts[k])
  BY <1>2 DEF LocalSynced, Synced
<1>4. \A v \in VNIs : ~Noted(v, k) /\ ~Tells(vniToVnState[v].events, k)
  BY TellsNothing DEF Quiet, Noted
<1>5. \A v \in VNIs : vniToVnState[v].on => Known(v, k) = SeenIn(v, atts[k])
  BY <1>4 DEF MemInv, RemoteSynced, Follows, Synced, Known
<1> QED
  BY <1>1, <1>2, <1>3, <1>4, <1>5

\* A local attachment of the node holds its virtual network, at rest.
LEMMA HeldByLocal ==
    ASSUME Types, MemInv, LocalSynced, Quiet, NEW v \in VNIs, NEW j \in Keys, InLocal(v, j),
           ~Ambiguous(j)
    PROVE  IsLocal(j) /\ AddressVNI(atts[j]) = v
<1>1. KeyOK(j)
  BY DEF MemInv
<1>2. nsnToVNStateVNI[j] = v /\ ~InRemote(v, j)
  BY <1>1 DEF KeyOK, Placed
<1>3. LocalDone(v, j)
  BY <1>1, <1>2, QuietKey DEF KeyOK, Done, RemoteDone
<1>4. Seen(atts[j]) # NoAtt /\ AddressVNI(Seen(atts[j])) = v
  BY <1>3, QuietKey DEF LocalDone
<1> QED
  BY <1>4 DEF Seen, IsLocal

LEMMA QuietMembers ==
    ASSUME Types, Held, MemInv, LocalSynced, Quiet, NEW k \in Keys, ~Ambiguous(k),
           k \notin adopted, nsnToRemoteIfc[k] \notin twofold, nsnToLocalMainState[k] \notin lost
    PROVE  LET v == nsnToVNStateVNI[k] IN
           /\ v = NoVNI => ~HasLocalIfc(k) /\ ~HasRemoteIfc(k)
           /\ v # NoVNI => \/ UpToDate(k)
                           \/ /\ ~IsLocal(k) /\ k \in vniToVnState[v].remoteAtts
                              /\ IF InRemoteWatch(v, atts[k]) THEN HeldByAmbiguous(v)
                                                              ELSE k \in behind
<1>1. KeyOK(k) /\ ~Doubled(k)
  BY DEF MemInv, Doubled
<1>0. Recorded(k) => UpToDate(k)
  BY HeldInFabric DEF UpToDate
<1>2. /\ proc[k].pc = "idle" /\ ~Due(k) /\ ~Tells(localAtts.events, k)
      /\ localAtts.cache[k] = Seen(atts[k])
      /\ \A v \in VNIs : ~Noted(v, k)
      /\ \A v \in VNIs : vniToVnState[v].on => Known(v, k) = SeenIn(v, atts[k])
  BY QuietKey
<1>3. CASE nsnToVNStateVNI[k] = NoVNI
  BY <1>1, <1>2, <1>3 DEF KeyOK, Done
<1>4. CASE nsnToVNStateVNI[k] # NoVNI
  <2> DEFINE v == nsnToVNStateVNI[k]
  <2>1. v \in VNIs
    BY <1>4 DEF Types, VnOK
  <2>2. LocalDone(v, k) \/ RemoteDone(v, k)
    BY <1>1, <1>2, <2>1 DEF KeyOK, Done
  <2>3. atts[k] \in NetworkAttachment
    BY DEF Types, StoreOK
  <2>4. CASE LocalDone(v, k)
    <3>1. /\ Seen(atts[k]) # NoAtt /\ ~HasRemoteIfc(k)
          /\ Fits(k, Seen(atts[k]), nsnToLocalMainState[k], nsnToPostCreateExecReport[k])
      BY <1>1, <1>2, <2>4 DEF LocalDone
    <3>2. IsLocal(k) /\ Seen(atts[k]) = atts[k] /\ atts[k] # NoAtt
      BY <3>1 DEF Seen, IsLocal
    <3>3. atts[k].node = Here
      BY <2>3, <3>2, LocalSelected DEF IsLocal, LocalObjs
    <3>4. ~IsRemote(k)
      BY <2>3, <3>3, RemoteWatched DEF IsRemote
    <3>5. UpToDate(k)
      BY <1>0, <3>1, <3>2, <3>4 DEF Recorded, Fits, HasRemoteIfc
    <3> QED
      BY <1>4, <3>5
  <2>5. CASE RemoteDone(v, k)
    <3>1. k \in vniToVnState[v].remoteAtts /\ Seen(atts[k]) = NoAtt
      BY <1>2, <2>5 DEF RemoteDone, InRemote
    <3>2. ~IsLocal(k)
      BY <3>1 DEF Seen, IsLocal, InLocalWatch, MatchNetworkAttachment
    <3>3. vniToVnState[v].on /\ vniToVnState[v].localAtts # {}
      <4>1. Follows(v, vniToVnState[v], atts)
        BY <2>1 DEF MemInv, RemoteSynced
      <4> QED
        BY <3>1, <4>1, NoVnParts DEF Follows
    <3>4. ASSUME ~InRemoteWatch(v, atts[k]) PROVE k \in behind
      <4>1. Known(v, k) = NoAtt
        BY <1>2, <2>1, <3>3, <3>4 DEF SeenIn
      <4> QED
        BY <1>1, <1>2, <2>1, <2>5, <4>1 DEF RemoteDone
    <3>5. ASSUME InRemoteWatch(v, atts[k]), ~HeldByAmbiguous(v) PROVE UpToDate(k)
      <4>3. Known(v, k) = atts[k] /\ atts[k] # NoAtt
        BY <1>2, <2>1, <2>3, <3>5, <3>3, RemoteWatched DEF SeenIn
      <4>4. ~HasLocalIfc(k) /\ nsnToRemoteIfc[k] = IfcOf(atts[k])
        BY <1>1, <1>2, <2>1, <2>5, <4>3 DEF RemoteDone
      <4>5. PICK j \in vniToVnState[v].localAtts : TRUE
        BY <3>3
      <4>6. j \in Keys /\ InLocal(v, j) /\ ~Ambiguous(j)
        BY <2>1, <3>5, VnParts DEF HeldByAmbiguous, InLocal, Types, VnOK
      <4>7. Relevant(v)
        BY <2>1, <4>6, HeldByLocal DEF Relevant
      <4>8. IsRemote(k)
        BY <2>1, <3>5, <4>7 DEF IsRemote
      <4> QED
        BY <1>0, <3>2, <4>4, <4>8 DEF Recorded, IfcOf, HasLocalIfc
    <3> QED
      BY <1>4, <3>1, <3>2, <3>4, <3>5
  <2> QED
    BY <2>2, <2>4, <2>5
<1> QED
  BY <1>3, <1>4

\* If the MACs of different addresses differ, an attachment that the agent stored
\* in a vnState has, whenever the agent has nothing left to do, the interface and
\* the status that its object asks for, in the tables and in the fabric, and one
\* that is in no vnState has no interface, with the exceptions that MembersUpToDate names: whatever was read
\* before a lock was released and used after it, however vnStates came and went
\* in between, and through any number of failing calls and restarts.
THEOREM AgentSettlesMembers ==
    ASSUME DistinctMACs
    PROVE  Spec => []MembersUpToDate
<1> DEFINE Inv == IInv /\ Held /\ LocalSynced /\ Reported /\ MemInv
<1>1. Init => Inv
  <2>1. Init => Resting
    BY DEF Init, Resting
  <2> QED
    BY <2>1, InitTypes, InitOwned, StartsHeld, InitResidents, InitMembers DEF IInv, ResInv
<1>2. Inv /\ [Next]_vars => Inv'
  <2> SUFFICES ASSUME Inv, [Next]_vars PROVE Inv'
    OBVIOUS
  <2>1. IInv' /\ Held'
    BY StepTypes, StepResting, StepOwned, StepHeld DEF IInv
  <2>2. LocalSynced' /\ Reported'
    BY StepSynced, StepReported DEF IInv
  <2>3. MemInv'
    BY StepMembers
  <2> QED
    BY <2>1, <2>2, <2>3
<1>3. Inv => MembersUpToDate
  <2> SUFFICES ASSUME Inv, Quiet, NEW k \in Keys, ~Ambiguous(k), k \notin adopted,
                      nsnToRemoteIfc[k] \notin twofold, nsnToLocalMainState[k] \notin lost
               PROVE  LET v == nsnToVNStateVNI[k] IN
                      /\ v = NoVNI => ~HasLocalIfc(k) /\ ~HasRemoteIfc(k)
                      /\ v # NoVNI => \/ UpToDate(k)
                                      \/ /\ ~IsLocal(k) /\ k \in vniToVnState[v].remoteAtts
                                         /\ IF InRemoteWatch(v, atts[k]) THEN HeldByAmbiguous(v)
                                                                         ELSE k \in behind
    BY DEF MembersUpToDate
  <2> QED
    BY QuietMembers DEF IInv
<1> QED
  BY <1>1, <1>2, <1>3, PTL DEF Spec

-----------------------------------------------------------------------------
(* Strangers: the inductive invariant.  nsnToVNIs has what the pass over an *)
(* attachment, or its place in a vnState, relies on; and an attachment that *)
(* never was here gets into the vnState whose informer knows it.            *)

\* Which virtual network an attachment was seen in when it was read, and while
\* it is stored, or another pass is due.
PassSeen(k) ==
    proc[k].pc \notin {"idle", "remove"} /\ proc[k].att # NoAtt /\ proc[k].att.node # Here =>
       nsnToVNIs[k] = {AddressVNI(proc[k].att)} \/ Due(k)

RestSeen(k) ==
    proc[k].pc = "idle" /\ ~Due(k) /\ ~Ambiguous(k) =>
       \A v \in VNIs : InRemote(v, k) => nsnToVNIs[k] = {v}

\* An adopted attachment comes from elsewhere; once it was seen it has a pass.
AdoptedSeen(k) ==
    /\ k \in adopted => ~Stays(k)
    /\ (k \in adopted \/ phase # "run") /\ nsnToVNIs[k] # {} => k \in queue

SeenOK(k) == IsFiniteSet(nsnToVNIs[k]) /\ PassSeen(k) /\ RestSeen(k) /\ AdoptedSeen(k)

\* Nothing that the local informer shows is about the attachment.
Elsewhere(k) ==
    atts[k].node # Here /\ localAtts.cache[k] = NoAtt /\ ~Tells(localAtts.events, k)

\* Nor does the agent take it for a local one.
Absent(k) ==
    proc[k].att.node # Here /\ ~HasLocalIfc(k) /\ \A v \in VNIs : ~InLocal(v, k)

\* Seen in one virtual network whose informer knows it, it is stored there or
\* the pass over it will store it there, unless another pass is due.
Noticed(k) ==
    \A v \in VNIs :
       nsnToVNIs[k] = {v} /\ Known(v, k) # NoAtt /\ ~Due(k) /\ ~Noted(v, k) =>
          IF proc[k].pc = "idle" THEN nsnToVNStateVNI[k] = v
          ELSE /\ proc[k].pc # "remove" /\ proc[k].then # "remove"
               /\ AddressVNI(proc[k].att) = v

Stranger(k) == Here \notin homes[k] => Elsewhere(k) /\ Absent(k) /\ Noticed(k)

\* Only an attachment that was here and elsewhere is matched to two interfaces.
Wandered == twofold # {} => \E j \in Keys : Here \in homes[j] /\ homes[j] # {Here}

StrInv == Wandered /\ \A k \in Keys : SeenOK(k) /\ Stranger(k)

-----------------------------------------------------------------------------
(* Strangers: steps that leave an attachment alone, or queue it.            *)

LEMMA QueuedDue ==
    ASSUME NEW k
    PROVE  (k \in queue => Due(k)) /\ (k \in queue' => Due(k)')
BY DEF Due

LEMMA SeenKept ==
    ASSUME NEW k \in Keys, SeenOK(k), Untouched(k), k \in adopted' => k \in adopted,
           Stays(k)' => Stays(k), IsFiniteSet(nsnToVNIs'[k])
    PROVE  SeenOK(k)'
<1>1. (Due(k) => Due(k)') /\ (k \in queue' => Due(k)') /\ (k \in queue => k \in queue')
  BY QueuedDue DEF Untouched
<1>2. proc'[k] = proc[k] /\ (k \in queue' \/ nsnToVNIs'[k] = nsnToVNIs[k])
  BY DEF Untouched
<1>3. PassSeen(k)'
  BY <1>1, <1>2 DEF SeenOK, PassSeen, AddressVNI
<1>4. RestSeen(k)'
  <2>1. \A v \in VNIs : InRemote(v, k)' => InRemote(v, k)
    BY DEF Untouched, KeptIn, LostIn, Renewed, RenewedIn, InRemote
  <2> QED
    BY <1>1, <1>2, <2>1 DEF SeenOK, RestSeen, Ambiguous
<1>5. AdoptedSeen(k)'
  BY <1>1, <1>2 DEF SeenOK, AdoptedSeen, Untouched
<1> QED
  BY <1>3, <1>4, <1>5 DEF SeenOK

LEMMA StrangerKept ==
    ASSUME NEW k \in Keys, Absent(k), Noticed(k), Untouched(k)
    PROVE  Absent(k)' /\ Noticed(k)'
<1>1. proc'[k] = proc[k] /\ nsnToVNStateVNI'[k] = nsnToVNStateVNI[k]
  BY DEF Untouched
<1>2. Absent(k)'
  BY <1>1 DEF Absent, Untouched, HasLocalIfc, InLocal, KeptIn, LostIn, Renewed, RenewedIn
<1>3. ASSUME NEW v \in VNIs, (nsnToVNIs[k] = {v} /\ Known(v, k) # NoAtt /\ ~Due(k) /\ ~Noted(v, k))'
      PROVE  nsnToVNIs[k] = {v} /\ Known(v, k) # NoAtt /\ ~Due(k) /\ ~Noted(v, k)
  <2>1. k \notin queue' /\ ~Due(k)
    BY <1>3, QueuedDue DEF Untouched
  <2>2. Known(v, k)' = Known(v, k) /\ (Noted(v, k) => Noted(v, k)')
    BY <1>3 DEF Untouched, KeptIn, Renewed, RenewedIn, Known, Noted
  <2> QED
    BY <1>3, <2>1, <2>2 DEF Untouched
<1>4. Noticed(k)'
  BY <1>1, <1>3 DEF Noticed, AddressVNI
<1> QED
  BY <1>2, <1>4

-----------------------------------------------------------------------------
(* Strangers: history, and the sets of VNIs.                                *)

LEMMA HomesGrow ==
    ASSUME HomesTyped, [Next]_vars, NEW k \in Keys
    PROVE  homes[k] \subseteq homes'[k]
<1>1. ASSUME NEW m \in Keys, NEW n \in Hosts, NEW p \in Pairs, NEW h \in Hosts \cup {""},
             WriteAtt(m, n, p, h)
      PROVE  homes[k] \subseteq homes'[k]
  BY <1>1 DEF WriteAtt, HomesTyped
<1>2. CASE homes' = homes
  BY <1>2
<1>3. CASE InformerNext
  BY <1>2, <1>3, HomesStill, VnStill DEF InformerNext, onLocalAtt, IndexRemoteAtt,
     onRemoteAtt, onLateRemoteAtt, EndStoppedInformers, HandleRemoteNote, storeVars
<1>4. CASE StartNext
  BY <1>2, <1>4 DEF StartNext, syncPreExistingLocalIfc, startRemoteInformers,
     syncPreExistingRemoteIfc, startWorkers, storeVars
<1>5. CASE \E m \in Keys : Work(m)
  BY <1>2, <1>5, HomesStill, VnStill DEF Work
<1>6. CASE \E c \in commands : RunCommand(c)
  BY <1>2, <1>6 DEF RunCommand, storeVars
<1>7. CASE EnvironmentNext
  BY <1>1, <1>2, <1>7, HomesStill, VnStill DEF EnvironmentNext, Crash
<1>8. CASE UNCHANGED vars
  BY <1>2, <1>8 DEF vars, storeVars
<1> QED
  BY <1>3, <1>4, <1>5, <1>6, <1>7, <1>8 DEF Next

\* Only start-up adopts, and only it finds an attachment with two interfaces.
LEMMA AdoptedShrinks ==
    ASSUME [Next]_vars, ~syncPreExistingRemoteIfc
    PROVE  adopted' \subseteq adopted /\ (twofold' = twofold \/ twofold' = {})
<1>1. CASE InformerNext
  BY <1>1 DEF InformerNext, onLocalAtt, IndexRemoteAtt, onRemoteAtt, onLateRemoteAtt,
     EndStoppedInformers, HandleRemoteNote, startVars
<1>2. CASE StartNext
  BY <1>2 DEF StartNext, syncPreExistingLocalIfc, startRemoteInformers, startWorkers
<1>3. CASE \E m \in Keys : Work(m)
  BY <1>3 DEF Work, processNetworkAttachment, getAttachment, removeAttFromVNState,
     clearVNResources, updateVNStateForExistingAtt, updateIfc, createIfc, setAttStatus,
     processDeletedAtt, startVars
<1>4. CASE \E c \in commands : RunCommand(c)
  BY <1>4 DEF RunCommand, startVars
<1>5. CASE EnvironmentNext
  BY <1>5 DEF EnvironmentNext, WriteAtt, DeleteAtt, Crash, Fault, startVars
<1>6. CASE UNCHANGED vars
  BY <1>6 DEF vars, startVars
<1> QED
  BY <1>1, <1>2, <1>3, <1>4, <1>5, <1>6 DEF Next

LEMMA FiniteSeen ==
    ASSUME Types, NEW k \in Keys, IsFiniteSet(nsnToVNIs[k]), [Next]_vars
    PROVE  IsFiniteSet(nsnToVNIs'[k])
<1>1. nsnToVNIs \in [Keys -> SUBSET VNIs]
  BY DEF Types, VnOK
<1>2. ASSUME NEW v, nsnToVNIs'[k] \subseteq nsnToVNIs[k] \cup {v} PROVE IsFiniteSet(nsnToVNIs'[k])
  <2>1. IsFiniteSet(nsnToVNIs[k] \cup {v})
    BY FS_AddElement
  <2> QED
    BY <1>2, <2>1, FS_Subset
<1>3. CASE nsnToVNIs' = nsnToVNIs
  BY <1>3
<1>4. ASSUME NEW v \in VNIs, NEW ks, nsnToVNIs' = removeSeenInVNI(ks, v)
      PROVE  IsFiniteSet(nsnToVNIs'[k])
  BY <1>2, <1>4 DEF removeSeenInVNI
<1>5. ASSUME NEW v \in VNIs, NEW note \in Notes, HandleRemoteNote(v, note)
      PROVE  IsFiniteSet(nsnToVNIs'[k])
  <2>1. CASE nsnToVNIs' = addVNI(note.key, v)
    BY <1>1, <1>2, <2>1 DEF addVNI
  <2> QED
    BY <1>3, <1>4, <1>5, <2>1 DEF HandleRemoteNote, Notes
<1>6. CASE InformerNext
  <2>1. ASSUME NEW v \in VNIs, onRemoteAtt(v) \/ onLateRemoteAtt(v)
        PROVE  IsFiniteSet(nsnToVNIs'[k])
    <3>1. vniToVnState[v].notes \in Seq(Notes) /\ lateNotes[v] \in Seq(Notes)
      BY VnParts DEF Types, VnOK
    <3>2. vniToVnState[v].notes # <<>> => Head(vniToVnState[v].notes) \in Notes
      BY <3>1
    <3>3. lateNotes[v] # <<>> => Head(lateNotes[v]) \in Notes
      BY <3>1
    <3> QED
      BY <1>5, <2>1, <3>2, <3>3 DEF onRemoteAtt, onLateRemoteAtt
  <2> QED
    BY <1>3, <1>6, <2>1 DEF InformerNext, onLocalAtt, IndexRemoteAtt, EndStoppedInformers, vnVars
<1>7. CASE StartNext
  BY <1>3, <1>7 DEF StartNext, syncPreExistingLocalIfc, startRemoteInformers,
     syncPreExistingRemoteIfc, startWorkers, vnVars
<1>8. ASSUME NEW m \in Keys, Work(m) PROVE IsFiniteSet(nsnToVNIs'[k])
  <2>1. CASE clearVNResources(m)
    BY <1>2, <2>1 DEF clearVNResources, removeSeenInVNI
  <2>2. CASE updateVNStateForExistingAtt(m)
    BY <1>2, <1>3, <2>2 DEF updateVNStateForExistingAtt, joinLocal, joinRemote, leaveLast,
       joinNothing, removeSeenInVNI
  <2>3. CASE removeAttFromVNState(m) \/ setAttStatus(m)
    BY <1>3, <2>3 DEF removeAttFromVNState, setAttStatus
  <2>4. CASE processNetworkAttachment(m) \/ getAttachment(m) \/ updateIfc(m) \/ createIfc(m)
             \/ processDeletedAtt(m)
    BY <1>3, <2>4, VnStill DEF vnVars
  <2> QED
    BY <1>8, <2>1, <2>2, <2>3, <2>4 DEF Work
<1>9. CASE \E c \in commands : RunCommand(c)
  BY <1>3, <1>9 DEF RunCommand, vnVars
<1>10. CASE Crash
  BY <1>10, FS_EmptySet DEF Crash
<1>11. CASE EnvironmentNext
  BY <1>3, <1>10, <1>11, VnStill DEF EnvironmentNext, WriteAtt, DeleteAtt, vnVars
<1>12. CASE UNCHANGED vars
  BY <1>3, <1>12 DEF vars, vnVars
<1> QED
  BY <1>6, <1>7, <1>8, <1>9, <1>11, <1>12 DEF Next

-----------------------------------------------------------------------------
(* Strangers: the informer on local attachments.                            *)

LEMMA PutElsewhere ==
    ASSUME Types, NEW m \in Keys, NEW a \in NetworkAttachment, PutAtt(m, a),
           NEW k \in Keys, Elsewhere(k), k = m => a.node # Here
    PROVE  Elsewhere(k)'
<1>1. /\ localAtts'.cache = localAtts.cache
      /\ atts' = [atts EXCEPT ![m] = a]
      /\ \/ /\ localAtts'.events = localAtts.events
            /\ ~InLocalWatch(atts[m]) /\ ~InLocalWatch(a)
         \/ \E e \in LocalEvents :
               /\ e.key = m /\ e.obj = Seen(a)
               /\ localAtts'.events = Append(localAtts.events, e)
  BY PutEvents DEF Types
<1>2. atts'[k].node # Here
  BY <1>1 DEF Elsewhere, Types, StoreOK
<1>3. CASE localAtts'.events = localAtts.events
  BY <1>1, <1>2, <1>3 DEF Elsewhere
<1>4. ASSUME NEW e \in LocalEvents, e.key = m, localAtts'.events = Append(localAtts.events, e), m # k
      PROVE  Elsewhere(k)'
  <2>1. Tells(Append(localAtts.events, e), k) <=> Tells(localAtts.events, k) \/ e.key = k
    BY LocalParts, TellsAppend DEF Types
  <2> QED
    BY <1>1, <1>2, <1>4, <2>1 DEF Elsewhere
<1>5. CASE m = k
  <2>1. atts[k] \in NetworkAttachment /\ atts[k].node # Here
    BY DEF Elsewhere, Types, StoreOK
  <2>2. \A b \in NetworkAttachment : InLocalWatch(b) => b.node = Here
    BY LocalSelected DEF LocalObjs, InLocalWatch, MatchNetworkAttachment
  <2>3. ~InLocalWatch(atts[k]) /\ ~InLocalWatch(a)
    BY <1>5, <2>1, <2>2
  <2>4. localAtts'.events = localAtts.events
    BY <1>5, <2>3 DEF PutAtt, Change, Types, StoreOK, LocalInformer
  <2> QED
    BY <1>3, <2>4
<1> QED
  BY <1>1, <1>3, <1>4, <1>5

LEMMA StepElsewhere ==
    ASSUME Types, HomesTyped, [Next]_vars, NEW k \in Keys, Here \notin homes'[k], Elsewhere(k),
           Absent(k), \A m \in Keys : PassPlaced(m)
    PROVE  Elsewhere(k)'
<1>1. CASE UNCHANGED <<atts, localAtts>>
  BY <1>1 DEF Elsewhere, Tells
<1>2. CASE InformerNext
  <2>1. CASE onLocalAtt
    <3>1. localAtts.events \in Seq(LocalEvents) /\ localAtts.events # <<>> /\ atts' = atts
          /\ localAtts.cache \in [Keys -> LocalObjs]
      BY <2>1, LocalParts DEF Types, onLocalAtt, storeVars
    <3>2. Head(localAtts.events).key # k /\ ~Tells(Tail(localAtts.events), k)
      BY <3>1, TellsTail DEF Elsewhere
    <3>3. localAtts'.events = Tail(localAtts.events) /\ localAtts'.cache[k] = localAtts.cache[k]
      BY <2>1, <3>1, <3>2 DEF onLocalAtt
    <3> QED
      BY <3>1, <3>2, <3>3 DEF Elsewhere
  <2>2. CASE ~onLocalAtt
    BY <1>1, <1>2, <2>2 DEF InformerNext, IndexRemoteAtt, onRemoteAtt, onLateRemoteAtt,
       EndStoppedInformers, HandleRemoteNote, storeVars
  <2> QED
    BY <2>1, <2>2
<1>3. CASE StartNext
  BY <1>1, <1>3 DEF StartNext, syncPreExistingLocalIfc, startRemoteInformers,
     syncPreExistingRemoteIfc, startWorkers, storeVars
<1>4. ASSUME NEW m \in Keys, Work(m) PROVE Elsewhere(k)'
  <2>1. CASE setAttStatus(m)
    <3> DEFINE a == WithStatus(m, proc[m].att, proc[m].report)
    <3>1. proc[m].att.pair \in Pairs /\ proc[m] \in Pass /\ proc[m].pc = "status"
      BY <2>1 DEF setAttStatus, Types, PassesOK, PassOK, Usable
    <3>2. a \in NetworkAttachment
      BY <3>1, PassParts, StatusWritten
    <3>3. k # m
      BY <3>1 DEF PassPlaced, Absent
    <3>4. PutAtt(m, a) \/ UNCHANGED <<atts, localAtts>>
      BY <2>1 DEF setAttStatus
    <3> HIDE DEF a
    <3> QED
      BY <1>1, <3>2, <3>3, <3>4, PutElsewhere
  <2>2. CASE ~setAttStatus(m)
    BY <1>1, <1>4, <2>2, LocalStill DEF Work
  <2> QED
    BY <2>1, <2>2
<1>5. CASE \E c \in commands : RunCommand(c)
  BY <1>1, <1>5 DEF RunCommand, storeVars
<1>6. CASE EnvironmentNext
  <2>1. ASSUME NEW m \in Keys, NEW n \in Hosts, NEW p \in Pairs, NEW h \in Hosts \cup {""},
               WriteAtt(m, n, p, h)
        PROVE  Elsewhere(k)'
    <3> DEFINE a == [atts[m] EXCEPT !.node = n, !.pair = p, !.host = h]
    <3>1. a \in NetworkAttachment /\ a.node = n
      BY DEF Types, StoreOK, NetworkAttachment
    <3>2. PutAtt(m, a) /\ homes' = [homes EXCEPT ![m] = homes[m] \cup {n}]
      BY <2>1 DEF WriteAtt
    <3>3. k = m => n # Here
      BY <3>2 DEF HomesTyped
    <3> HIDE DEF a
    <3> QED
      BY <3>1, <3>2, <3>3, PutElsewhere
  <2>2. ASSUME NEW m \in Keys, DeleteAtt(m) PROVE Elsewhere(k)'
    <3>1. NoAtt.node # Here /\ NoAtt \in NetworkAttachment
      BY ConstantsTyped DEF NoAtt
    <3> QED
      BY <2>2, <3>1, PutElsewhere DEF DeleteAtt
  <2>3. CASE Crash
    <3>1. localAtts'.events = <<>> /\ atts' = atts /\ localAtts'.cache[k] = Seen(atts[k])
      BY <2>3, CrashParts
    <3>2. ~InLocalWatch(atts[k])
      BY LocalSelected DEF LocalObjs, InLocalWatch, MatchNetworkAttachment, Elsewhere, Types, StoreOK
    <3> QED
      BY <3>1, <3>2, TellsNothing DEF Elsewhere, Seen
  <2>4. ASSUME NEW m \in Keys, Fault(m) PROVE Elsewhere(k)'
    BY <1>1, <2>4, LocalStill
  <2> QED
    BY <1>6, <2>1, <2>2, <2>3, <2>4 DEF EnvironmentNext
<1>7. CASE UNCHANGED vars
  BY <1>1, <1>7 DEF vars, storeVars
<1> QED
  BY <1>2, <1>3, <1>4, <1>5, <1>6, <1>7 DEF Next

-----------------------------------------------------------------------------
(* Strangers: the steps of a pass.                                          *)

\* The pass over m goes on as q.
LEMMA SeenGoesOn ==
    ASSUME NEW m \in Keys, PassSeen(m), NEW q, proc'[m] = q, q.pc # "idle",
           proc[m].pc \notin {"idle", "remove"}, Due(m) => Due(m)',
           \/ q.pc = "remove"
           \/ /\ m \in queue' \/ nsnToVNIs'[m] = nsnToVNIs[m]
              /\ q.att = NoAtt \/ q.att.node = Here \/ q.att = proc[m].att
    PROVE  PassSeen(m)' /\ RestSeen(m)'
<1>1. m \in queue' => Due(m)'
  BY QueuedDue
<1>2. PassSeen(m)'
  BY <1>1 DEF PassSeen, AddressVNI
<1>3. RestSeen(m)'
  BY DEF RestSeen
<1> QED
  BY <1>2, <1>3

\* The pass over m ends.
LEMMA SeenEnds ==
    ASSUME NEW m \in Keys, proc'[m] = Idle,
           \/ m \in queue' \/ Ambiguous(m)'
           \/ \A v \in VNIs : InRemote(v, m)' => nsnToVNIs'[m] = {v}
    PROVE  PassSeen(m)' /\ RestSeen(m)'
<1>1. m \in queue' => Due(m)'
  BY QueuedDue
<1> QED
  BY <1>1, IdleParts DEF PassSeen, RestSeen

\* What the pass did not see before the step it did not see after.
LEMMA StillNoticed ==
    ASSUME NEW m \in Keys, Noticed(m), NEW q, proc'[m] = q, proc[m].pc # "idle",
           Due(m) => Due(m)', m \in queue' \/ nsnToVNIs'[m] = nsnToVNIs[m],
           \A u \in VNIs : \/ Known(u, m)' = NoAtt
                           \/ Noted(u, m)'
                           \/ Known(u, m)' = Known(u, m) /\ (Noted(u, m) => Noted(u, m)'),
           \/ m \in queue'
           \/ q.pc = "idle" /\ nsnToVNStateVNI'[m] = AddressVNI(proc[m].att)
           \/ q.pc \notin {"idle", "remove"} /\ q.then # "remove" /\ q.att = proc[m].att
           \/ proc[m].pc = "remove" \/ proc[m].then = "remove"
           \/ AddressVNI(proc[m].att) \notin VNIs
    PROVE  Noticed(m)'
<1>1. m \in queue' => Due(m)'
  BY QueuedDue
<1>2. ASSUME NEW v \in VNIs, (nsnToVNIs[m] = {v} /\ Known(v, m) # NoAtt /\ ~Due(m) /\ ~Noted(v, m))'
      PROVE  /\ proc[m].pc # "remove" /\ proc[m].then # "remove" /\ AddressVNI(proc[m].att) = v
             /\ m \notin queue'
  <2>1. m \notin queue' /\ ~Due(m)
    BY <1>1, <1>2
  <2>2. Known(v, m) # NoAtt /\ ~Noted(v, m)
    BY <1>2
  <2> QED
    BY <1>2, <2>1, <2>2 DEF Noticed
<1> QED
  BY <1>2 DEF Noticed, AddressVNI

Tracked(m) == PassSeen(m) /\ RestSeen(m)

StaysTracked(m) ==
    PassSeen(m)' /\ RestSeen(m)' /\ (Elsewhere(m) /\ Absent(m) /\ Noticed(m) => Noticed(m)')

\* Tracking of an attachment whose pass is moved to q by a step that changes no
\* vnState and no set of VNIs.
LEMMA TrackedGoesOn ==
    ASSUME NEW m \in Keys, Tracked(m), NEW q, proc'[m] = q, q.pc \notin {"idle", "remove"},
           q.then \in {"idle", proc[m].then}, q.att = proc[m].att,
           proc[m].pc \notin {"idle", "remove"}, Due(m) => Due(m)', UNCHANGED <<vniToVnState, nsnToVNIs>>
    PROVE  StaysTracked(m)
<1>1. PassSeen(m)' /\ RestSeen(m)'
  BY SeenGoesOn DEF Tracked
<1>2. \A u \in VNIs : Known(u, m)' = Known(u, m) /\ (Noted(u, m) => Noted(u, m)')
  BY DEF Known, Noted
<1>3. ASSUME Noticed(m) PROVE Noticed(m)'
  BY <1>2, <1>3, StillNoticed
<1> QED
  BY <1>1, <1>3 DEF Tracked, StaysTracked

\* The pass ends, with the attachment stored where it should be or to be queued.
LEMMA TrackedEnds ==
    ASSUME Types, NEW m \in Keys, KeyOK(m), Tracked(m), proc' = [proc EXCEPT ![m] = Idle],
           m \in queue => m \in queue', UNCHANGED <<nsnToVNStateVNI, nsnToVNIs>>,
           \A u \in VNIs : KeptIn(vniToVnState[u], vniToVnState'[u], m),
           \/ m \in queue'
           \/ proc[m].pc \in {"update", "create", "status", "remove"}
    PROVE  StaysTracked(m)
<1>1. proc'[m] = Idle /\ Idle.pc = "idle"
  BY IdleParts DEF Types, PassesOK
<1>2. \A u \in VNIs : InRemote(u, m)' <=> InRemote(u, m)
  BY DEF KeptIn, InRemote
<1>3. \A u \in VNIs : \/ Known(u, m)' = NoAtt
                      \/ Noted(u, m)'
                      \/ Known(u, m)' = Known(u, m) /\ (Noted(u, m) => Noted(u, m)')
  BY DEF KeptIn, Known, Noted
<1>4. CASE m \in queue'
  <2>1. Due(m)'
    BY <1>4, QueuedDue
  <2>2. Noticed(m)'
    BY <2>1 DEF Noticed
  <2> QED
    BY <1>1, <1>4, <2>2, SeenEnds DEF StaysTracked
<1>5. CASE proc[m].pc = "remove" /\ m \notin queue'
  <2>1. \A u \in VNIs : ~InRemote(u, m)
    BY <1>5, ConstantsTyped DEF KeyOK, PassPlaced, Placed
  <2>2. Due(m) => Due(m)'
    BY <1>5, DueMoves
  <2>3. ASSUME Noticed(m) PROVE Noticed(m)'
    BY <1>1, <1>3, <1>5, <2>2, <2>3, StillNoticed
  <2> QED
    BY <1>1, <1>2, <2>1, <2>3, SeenEnds DEF Tracked, StaysTracked
<1>6. CASE proc[m].pc \in {"update", "create", "status"} /\ m \notin queue'
  <2>1. Due(m) => Due(m)'
    BY <1>6, DueMoves
  <2>2. PICK v \in VNIs : /\ nsnToVNStateVNI[m] = v /\ AddressVNI(proc[m].att) = v
                          /\ proc[m].att.node = Here => InLocal(v, m)
                          /\ proc[m].att.node # Here => InRemote(v, m) \/ Due(m)
    BY <1>6, StoredAt
  <2>3. ASSUME Noticed(m) PROVE Noticed(m)'
    BY <1>1, <1>3, <1>6, <2>1, <2>2, <2>3, StillNoticed
  <2>4. \A u \in VNIs : InRemote(u, m) => u = v /\ ~InLocal(v, m)
    BY <2>2 DEF KeyOK, Placed
  <2>5. proc[m].att # NoAtt
    BY <1>6, StoredAt
  <2>6. Due(m)' \/ \A u \in VNIs : InRemote(u, m)' => nsnToVNIs'[m] = {u}
    BY <1>2, <1>6, <2>1, <2>2, <2>4, <2>5 DEF Tracked, PassSeen
  <2>7. PassSeen(m)' /\ RestSeen(m)'
    BY <1>1, <2>6, IdleParts DEF PassSeen, RestSeen
  <2> QED
    BY <2>3, <2>7 DEF Tracked, StaysTracked
<1> QED
  BY <1>4, <1>5, <1>6

LEMMA processNetworkAttachmentTracked ==
    ASSUME Types, RemoteSynced, NEW m \in Keys, IsFiniteSet(nsnToVNIs[m]),
           processNetworkAttachment(m)
    PROVE  StaysTracked(m)
<1> DEFINE u == getAttSeenInVNI(m)
           a == getRemoteAttListerForVNI(u)[m]
           q == [Idle EXCEPT !.pc = "lookup", !.att = a]
<1>1. UNCHANGED <<vniToVnState, nsnToVNIs>> /\ nsnToVNIs[m] \subseteq VNIs
  BY DEF processNetworkAttachment, vnVars, Types, VnOK
<1>2. \/ Cardinality(nsnToVNIs[m]) > 1 /\ proc'[m] = Idle
      \/ ~(Cardinality(nsnToVNIs[m]) > 1) /\ proc'[m] = q
  BY DEF processNetworkAttachment, Types, PassesOK
<1>3. \A v \in VNIs : Known(v, m)' = Known(v, m)
  BY <1>1 DEF Known
<1>4. \A v : Cardinality({v}) = 1
  BY FS_Singleton
<1>5. CASE Cardinality(nsnToVNIs[m]) > 1 /\ proc'[m] = Idle
  <2>1. Ambiguous(m)'
    BY <1>1, <1>5 DEF Ambiguous
  <2>2. ASSUME NEW v \in VNIs, nsnToVNIs[m] = {v} PROVE FALSE
    <3>1. Cardinality(nsnToVNIs[m]) = 1
      BY <1>4, <2>2
    <3> QED
      BY <1>5, <3>1
  <2> QED
    BY <1>1, <1>5, <2>1, <2>2, SeenEnds DEF StaysTracked, Noticed
<1>6. CASE proc'[m] = q
  <2>1. q.pc = "lookup" /\ q.att = a /\ q.then = "idle"
    BY DEF Idle
  <2>2. ASSUME NEW v \in VNIs, nsnToVNIs[m] = {v} PROVE a = Known(v, m)
    <3>1. u = v
      <4>1. u = CHOOSE w \in {v} : TRUE
        BY <1>4, <2>2 DEF getAttSeenInVNI
      <4> QED
        BY <4>1
    <3>2. ~vniToVnState[v].on => Known(v, m) = NoAtt
      BY <2>2, NoVnParts DEF RemoteSynced, Follows, Known
    <3>3. v # NoVNI
      BY ConstantsTyped
    <3> QED
      BY <3>1, <3>2, <3>3 DEF getRemoteAttListerForVNI, Known
  <2>3. ASSUME a # NoAtt PROVE \E v \in VNIs : nsnToVNIs[m] = {v}
    <3>1. u # NoVNI
      BY <2>3 DEF getRemoteAttListerForVNI
    <3>2. Cardinality(nsnToVNIs[m]) = 1
      BY <3>1 DEF getAttSeenInVNI
    <3>3. \E v : nsnToVNIs[m] = {v}
      BY <3>2, FS_Singleton
    <3> QED
      BY <1>1, <3>3
  <2>4. ASSUME NEW v \in VNIs, Known(v, m) # NoAtt PROVE AddressVNI(Known(v, m)) = v
    <3>1. Watched(v, Known(v, m)) /\ Known(v, m) \in NetworkAttachment
      BY VnParts, CachedUsable DEF RemoteSynced, Follows, Known, Types, VnOK
    <3> QED
      BY <2>4, <3>1, RemoteWatched DEF Watched
  <2> HIDE DEF q, a, u
  <2>5. PassSeen(m)'
    <3>1. a # NoAtt => nsnToVNIs[m] = {AddressVNI(a)}
      BY <2>2, <2>3, <2>4
    <3> QED
      BY <1>1, <1>6, <2>1, <3>1 DEF PassSeen, AddressVNI
  <2>6. RestSeen(m)'
    BY <1>6, <2>1 DEF RestSeen
  <2>7. Noticed(m)'
    BY <1>1, <1>3, <1>6, <2>1, <2>2, <2>4 DEF Noticed, AddressVNI
  <2> QED
    BY <2>5, <2>6, <2>7 DEF StaysTracked
<1> QED
  BY <1>2, <1>5, <1>6

LEMMA getAttachmentTracked ==
    ASSUME Types, NEW m \in Keys, Tracked(m), getAttachment(m)
    PROVE  StaysTracked(m)
<1> DEFINE rem == proc[m].att
           loc == localAtts.cache[m]
           deleted == (rem = NoAtt) = (loc = NoAtt)
           att == CASE deleted -> NoAtt
                    [] ~deleted /\ loc # NoAtt -> loc
                    [] OTHER -> rem
           next == IF deleted THEN "remove" ELSE "join"
           moved == nsnToVNStateVNI[m] \notin {NoVNI, AddressVNI(att)}
           q1 == [Idle EXCEPT !.pc = "depart", !.att = att, !.then = next]
           q2 == [Idle EXCEPT !.pc = next, !.att = att]
<1>1. proc[m].pc = "lookup" /\ UNCHANGED <<vniToVnState, nsnToVNIs>> /\ queue' = queue
  BY DEF getAttachment, vnVars, Continue
<1>2. loc \in LocalObjs
  BY LocalParts DEF Types
<1>3. proc' = [proc EXCEPT ![m] = IF moved THEN q1 ELSE q2]
  BY DEF getAttachment, Continue
<1>4. /\ next \in {"remove", "join"}
      /\ att = NoAtt \/ att.node = Here \/ att = rem
      /\ loc = NoAtt => rem = NoAtt \/ (next = "join" /\ att = rem)
  BY <1>2 DEF LocalObjs
<1>5. /\ q1.pc = "depart" /\ q1.att = att /\ q1.then = next
      /\ q2.pc = next /\ q2.att = att /\ q2.then = "idle"
  BY DEF Idle
<1> HIDE DEF q1, q2, next, att, deleted, moved
<1>6. PICK q : /\ proc' = [proc EXCEPT ![m] = q] /\ q.att = att
               /\ (q.pc = "depart" /\ q.then = next) \/ (q.pc = next /\ q.then = "idle")
  <2>1. CASE moved
    BY <1>3, <1>5, <2>1
  <2>2. CASE ~moved
    BY <1>3, <1>5, <2>2
  <2> QED
    BY <2>1, <2>2
<1>7. proc'[m] = q
  BY <1>6 DEF Types, PassesOK
<1>8. Due(m) => Due(m)'
  BY <1>1, <1>6, DueMoves
<1>9. q.pc # "idle" /\ (q.att = NoAtt \/ q.att.node = Here \/ q.att = proc[m].att)
  BY <1>4, <1>6
<1>10. PassSeen(m)' /\ RestSeen(m)'
  BY <1>1, <1>7, <1>8, <1>9, SeenGoesOn DEF Tracked
<1>11. ASSUME Elsewhere(m), Absent(m), Noticed(m) PROVE Noticed(m)'
  <2>1. Noticed(m)
    BY <1>11
  <2>2. \A v \in VNIs : Known(v, m)' = Known(v, m) /\ (Noted(v, m) => Noted(v, m)')
    BY <1>1 DEF Known, Noted
  <2>3. \/ q.pc \notin {"idle", "remove"} /\ q.then # "remove" /\ q.att = proc[m].att
        \/ AddressVNI(proc[m].att) \notin VNIs
    <3>1. AddressVNI(NoAtt) \notin VNIs
      BY ConstantsTyped DEF AddressVNI, NoAtt
    <3> QED
      BY <1>4, <1>6, <1>11, <3>1 DEF Elsewhere
  <2> QED
    BY <1>1, <1>7, <1>8, <2>1, <2>2, <2>3, StillNoticed
<1> QED
  BY <1>10, <1>11 DEF StaysTracked

LEMMA removeAttFromVNStateTracked ==
    ASSUME Types, RemoteSynced, NEW m \in Keys, KeyOK(m), Tracked(m), removeAttFromVNState(m)
    PROVE  StaysTracked(m)
<1>1. PICK v \in VNIs :
              /\ nsnToVNStateVNI[m] = v
              /\ nsnToVNStateVNI' = [nsnToVNStateVNI EXCEPT ![m] = NoVNI]
              /\ \/ /\ vniToVnState[v].localAtts \subseteq {m}
                    /\ DropVnState(v)
                    /\ Continue(m, Clearing(proc[m], v, vniToVnState[v].remoteAtts, proc[m].then))
                 \/ \E t : /\ vniToVnState' = [vniToVnState EXCEPT ![v] = t]
                           /\ Follows(v, t, atts)
                           /\ t.cache = vniToVnState[v].cache /\ t.notes = vniToVnState[v].notes
                           /\ t.on = vniToVnState[v].on
                           /\ t.localAtts = vniToVnState[v].localAtts \ {m}
                           /\ t.remoteAtts = vniToVnState[v].remoteAtts \ {m}
                           /\ Continue(m, GoOn(proc[m], proc[m].then))
  BY DepartureParts
<1>2. proc[m].pc = "depart" /\ proc[m] \in Pass /\ nsnToVNIs' = nsnToVNIs
  BY DEF removeAttFromVNState, Types, PassesOK
<1>3. proc[m].then \in {"join", "remove"}
  BY <1>2, PassParts DEF KeyOK, PassPlaced
<1>4. ASSUME NEW q, Continue(m, q), q.att = proc[m].att, q.pc \in {"clear", proc[m].then},
             q.then \in {"idle", proc[m].then},
             \A u \in VNIs : \/ Known(u, m)' = NoAtt
                             \/ Known(u, m)' = Known(u, m) /\ (Noted(u, m) => Noted(u, m)')
      PROVE  StaysTracked(m)
  <2>1. proc' = [proc EXCEPT ![m] = q] /\ queue' = queue
    BY <1>4 DEF Continue
  <2>2. proc'[m] = q
    BY <2>1 DEF Types, PassesOK
  <2>3. Due(m) => Due(m)'
    BY <1>2, <2>1, DueMoves
  <2>4. PassSeen(m)' /\ RestSeen(m)'
    BY <1>2, <1>3, <1>4, <2>2, <2>3, SeenGoesOn DEF Tracked
  <2>5. ASSUME Noticed(m) PROVE Noticed(m)'
    BY <1>2, <1>3, <1>4, <2>2, <2>3, <2>5, StillNoticed
  <2> QED
    BY <2>4, <2>5 DEF Tracked, StaysTracked
<1>5. CASE /\ DropVnState(v)
           /\ Continue(m, Clearing(proc[m], v, vniToVnState[v].remoteAtts, proc[m].then))
  <2> DEFINE q == Clearing(proc[m], v, vniToVnState[v].remoteAtts, proc[m].then)
  <2>1. q.pc = "clear" /\ q.then = proc[m].then /\ q.att = proc[m].att
    BY <1>2 DEF Clearing, Pass
  <2>2. \A u \in VNIs : \/ Known(u, m)' = NoAtt
                        \/ Known(u, m)' = Known(u, m) /\ (Noted(u, m) => Noted(u, m)')
    BY <1>1, <1>5, DroppedAt
  <2> HIDE DEF q
  <2> QED
    BY <1>4, <1>5, <2>1, <2>2 DEF q
<1>6. ASSUME NEW t, vniToVnState' = [vniToVnState EXCEPT ![v] = t],
             t.cache = vniToVnState[v].cache, t.notes = vniToVnState[v].notes,
             Continue(m, GoOn(proc[m], proc[m].then))
      PROVE  StaysTracked(m)
  <2> DEFINE q == GoOn(proc[m], proc[m].then)
  <2>1. q.pc = proc[m].then /\ q.att = proc[m].att /\ q.then = "idle"
    BY <1>2, <1>3, GoOnParts
  <2>2. \A u \in VNIs : Known(u, m)' = Known(u, m) /\ (Noted(u, m) => Noted(u, m)')
    <3>1. \A u \in VNIs : vniToVnState'[u] = IF u = v THEN t ELSE vniToVnState[u]
      <4>1. VnOK
        BY DEF Types
      <4>2. vniToVnState' = [vniToVnState EXCEPT ![v] = t]
        BY <1>6
      <4> QED
        BY <4>1, <4>2, VnReplacedAt
    <3> QED
      BY <1>6, <3>1 DEF Known, Noted
  <2> HIDE DEF q
  <2> QED
    BY <1>4, <1>6, <2>1, <2>2 DEF q
<1> QED
  BY <1>1, <1>5, <1>6

LEMMA clearVNResourcesTracked ==
    ASSUME Types, NEW m \in Keys, KeyOK(m), Tracked(m), clearVNResources(m)
    PROVE  StaysTracked(m)
<1> DEFINE q == GoOn(proc[m], proc[m].then)
<1>1. /\ proc[m].pc = "clear" /\ proc[m] \in Pass /\ proc' = [proc EXCEPT ![m] = q]
      /\ vniToVnState' = vniToVnState
  BY DEF clearVNResources, Types, PassesOK
<1>2. proc'[m] = q
  BY <1>1 DEF Types, PassesOK
<1>3. (Due(m) => Due(m)') /\ (m \in proc[m].names => m \in queue')
  BY DueClears
<1>4. m \in queue' \/ nsnToVNIs'[m] = nsnToVNIs[m]
  BY <1>3 DEF clearVNResources, removeSeenInVNI
<1>5. \A u \in VNIs : Known(u, m)' = Known(u, m) /\ (Noted(u, m) => Noted(u, m)')
  BY <1>1 DEF Known, Noted
<1>6. CASE proc[m].then = "idle"
  <2>1. m \in queue' /\ proc'[m] = Idle
    BY <1>1, <1>2, <1>3, <1>6 DEF KeyOK, PassPlaced, GoOn
  <2>2. Noticed(m)'
    BY <2>1, QueuedDue DEF Noticed
  <2> QED
    BY <2>1, <2>2, SeenEnds DEF StaysTracked
<1>7. CASE proc[m].then # "idle"
  <2>1. q.pc = proc[m].then /\ q.att = proc[m].att /\ q.then = "idle" /\ q.pc \in {"join", "remove"}
    BY <1>1, <1>7, GoOnParts, PassParts
  <2> HIDE DEF q
  <2>2. PassSeen(m)' /\ RestSeen(m)'
    BY <1>1, <1>2, <1>3, <1>4, <2>1, SeenGoesOn DEF Tracked
  <2>3. ASSUME Noticed(m) PROVE Noticed(m)'
    BY <1>1, <1>2, <1>3, <1>4, <1>5, <2>1, <2>3, StillNoticed
  <2> QED
    BY <2>2, <2>3 DEF Tracked, StaysTracked
<1> QED
  BY <1>6, <1>7

LEMMA updateVNStateForExistingAttTracked ==
    ASSUME Types, RemoteSynced, NEW m \in Keys, KeyOK(m), Tracked(m),
           updateVNStateForExistingAtt(m)
    PROVE  StaysTracked(m)
<1> DEFINE p == proc[m]
           v == AddressVNI(p.att)
<1>1. p.pc = "join" /\ p \in Pass
  BY DEF updateVNStateForExistingAtt, Types, PassesOK
<1>2. v \in VNIs /\ p.att # NoAtt
  BY <1>1, JoiningAt
<1>3. nsnToVNStateVNI[m] \in {NoVNI, v}
  BY <1>1 DEF KeyOK, PassPlaced
<1>4. ASSUME Continue(m, GoOn(p, "update")), nsnToVNIs' = nsnToVNIs,
             Absent(m) =>
                \A u \in VNIs : Known(u, m)' = Known(u, m) /\ (Noted(u, m) => Noted(u, m)')
      PROVE  StaysTracked(m)
  <2> DEFINE q == GoOn(p, "update")
  <2>1. q.pc = "update" /\ q.att = p.att /\ q.then = "idle"
    BY <1>1, GoOnParts
  <2> HIDE DEF q
  <2>2. proc' = [proc EXCEPT ![m] = q] /\ queue' = queue
    BY <1>4 DEF Continue, q
  <2>3. proc'[m] = q
    BY <2>2 DEF Types, PassesOK
  <2>4. Due(m) => Due(m)'
    BY <1>1, <2>2, DueMoves
  <2>5. PassSeen(m)' /\ RestSeen(m)'
    BY <1>1, <1>4, <2>1, <2>3, <2>4, SeenGoesOn DEF Tracked
  <2>6. ASSUME Noticed(m), Absent(m) PROVE Noticed(m)'
    BY <1>1, <1>4, <2>1, <2>3, <2>4, <2>6, StillNoticed
  <2> QED
    BY <2>5, <2>6 DEF Tracked, StaysTracked
<1>5. CASE p.att.node = Here /\ joinLocal(m, v)
  <2>1. Continue(m, GoOn(p, "update")) /\ nsnToVNIs' = nsnToVNIs /\ ~Absent(m)
    BY <1>5 DEF joinLocal, Absent
  <2> QED
    BY <1>4, <2>1
<1>6. CASE joinRemote(m, v)
  <2>1. PICK t : /\ vniToVnState' = [vniToVnState EXCEPT ![v] = t]
                 /\ t.cache = vniToVnState[v].cache /\ t.notes = vniToVnState[v].notes
    BY <1>2, <1>6, JoinRemoteParts
  <2> HIDE DEF v
  <2>2. \A u \in VNIs : vniToVnState'[u] = IF u = v THEN t ELSE vniToVnState[u]
    BY <1>2, <2>1, VnReplacedAt DEF Types
  <2>3. \A u \in VNIs : Known(u, m)' = Known(u, m) /\ (Noted(u, m) => Noted(u, m)')
    BY <2>1, <2>2 DEF Known, Noted
  <2>4. Continue(m, GoOn(p, "update")) /\ nsnToVNIs' = nsnToVNIs
    BY <1>6 DEF joinRemote
  <2> QED
    BY <1>4, <2>3, <2>4
<1>7. CASE leaveLast(m, v)
  <2> DEFINE q == Clearing(p, v, vniToVnState[v].remoteAtts \cup {m}, "idle")
  <2>1. q.pc = "clear" /\ m \in q.names /\ q.att = p.att /\ q.then = "idle"
    BY <1>1 DEF Clearing, Pass
  <2> HIDE DEF q
  <2>2. /\ proc' = [proc EXCEPT ![m] = q] /\ queue' = queue /\ nsnToVNIs' = nsnToVNIs
        /\ DropVnState(v)
    BY <1>7 DEF leaveLast, Continue, q
  <2>3. proc'[m] = q
    BY <2>2 DEF Types, PassesOK
  <2>4. Due(m)'
    BY <1>1, <2>1, <2>2, DueMoves
  <2>5. PassSeen(m)' /\ RestSeen(m)' /\ Noticed(m)'
    BY <2>1, <2>3, <2>4 DEF PassSeen, RestSeen, Noticed
  <2> QED
    BY <2>5 DEF StaysTracked
<1>8. CASE p.att.node # Here /\ joinNothing(m, v)
  <2> DEFINE q == GoOn(p, "remove")
  <2>1. q.pc = "remove" /\ q.att = p.att
    BY <1>1, GoOnParts
  <2> HIDE DEF q
  <2>2. proc' = [proc EXCEPT ![m] = q] /\ queue' = queue
        /\ nsnToVNIs'[m] = nsnToVNIs[m] \ {v}
    BY <1>8 DEF joinNothing, Continue, removeSeenInVNI, q
  <2>3. proc'[m] = q
    BY <2>2 DEF Types, PassesOK
  <2>4. Due(m) => Due(m)'
    BY <1>1, <2>2, DueMoves
  <2>5. PassSeen(m)' /\ RestSeen(m)'
    BY <2>1, <2>3 DEF PassSeen, RestSeen
  <2>6. nsnToVNIs[m] = {v} \/ Due(m)
    BY <1>1, <1>2, <1>8 DEF Tracked, PassSeen
  <2>7. Noticed(m)'
    BY <2>2, <2>4, <2>6 DEF Noticed
  <2> QED
    BY <2>5, <2>7 DEF StaysTracked
<1> QED
  BY <1>5, <1>6, <1>7, <1>8 DEF updateVNStateForExistingAtt, joinRemote, leaveLast

\* The steps of a pass on the interface and the status, and one that fails.
LEMMA IfcTracked ==
    ASSUME Types, NEW m \in Keys, KeyOK(m), Tracked(m),
           \/ updateIfc(m) \/ createIfc(m) \/ setAttStatus(m) \/ processDeletedAtt(m) \/ Fault(m)
    PROVE  StaysTracked(m)
<1>1. UNCHANGED <<nsnToVNStateVNI, nsnToVNIs>>
  BY DEF updateIfc, createIfc, setAttStatus, processDeletedAtt, Fault, vnVars
<1>2. \A u \in VNIs : KeptIn(vniToVnState[u], vniToVnState'[u], m)
  <2>1. CASE vniToVnState' = vniToVnState
    BY <2>1, StillKept
  <2>2. CASE setAttStatus(m)
    BY <2>1, <2>2, PutKept DEF setAttStatus
  <2> QED
    BY <2>1, <2>2 DEF updateIfc, createIfc, processDeletedAtt, Fault, vnVars
<1>3. proc[m].pc \in {"update", "create", "status", "remove"} /\ proc[m] \in Pass
  BY DEF updateIfc, createIfc, setAttStatus, processDeletedAtt, Fault, Types, PassesOK
<1>4. ASSUME proc' = [proc EXCEPT ![m] = Idle], m \in queue => m \in queue' PROVE StaysTracked(m)
  BY <1>1, <1>2, <1>3, <1>4, TrackedEnds
<1>5. CASE Retry(m) \/ Continue(m, Idle)
  BY <1>4, <1>5 DEF Retry, Continue
<1>6. ASSUME proc[m].pc \in {"update", "create"}, NEW q, Continue(m, q),
             q.pc \in {"create", "status"}, q.then \in {"idle", proc[m].then},
             q.att = proc[m].att, vniToVnState' = vniToVnState
      PROVE  StaysTracked(m)
  <2>1. proc' = [proc EXCEPT ![m] = q] /\ queue' = queue
    BY <1>6 DEF Continue
  <2>2. proc'[m] = q
    BY <2>1 DEF Types, PassesOK
  <2>3. Due(m) => Due(m)'
    BY <1>6, <2>1, DueMoves
  <2> QED
    BY <1>1, <1>6, <2>2, <2>3, TrackedGoesOn
<1>7. ASSUME NEW report, Continue(m, IfcDone(m, proc[m], report)),
             proc[m].pc \in {"update", "create"}, vniToVnState' = vniToVnState
      PROVE  StaysTracked(m)
  <2> DEFINE q == [proc[m] EXCEPT !.pc = "status", !.report = report]
  <2>1. q.pc = "status" /\ q.then = proc[m].then /\ q.att = proc[m].att
    BY <1>3 DEF Pass
  <2>2. IfcDone(m, proc[m], report) \in {Idle, q}
    BY DEF IfcDone
  <2> HIDE DEF q
  <2>3. CASE Continue(m, q)
    BY <1>6, <1>7, <2>1, <2>3
  <2> QED
    BY <1>5, <1>7, <2>2, <2>3
<1>8. CASE updateIfc(m)
  <2>1. proc[m].pc = "update" /\ vniToVnState' = vniToVnState
    BY <1>8 DEF updateIfc, vnVars
  <2>2. CASE Continue(m, GoOn(proc[m], "create"))
    BY <1>3, <1>6, <2>1, <2>2, GoOnParts
  <2>3. CASE Continue(m, IfcDone(m, proc[m], nsnToPostCreateExecReport[m]))
    BY <1>7, <2>1, <2>3
  <2> QED
    BY <1>8, <2>2, <2>3 DEF updateIfc
<1>9. CASE createIfc(m)
  <2>1. proc[m].pc = "create" /\ vniToVnState' = vniToVnState
    BY <1>9 DEF createIfc, vnVars
  <2>2. CASE Continue(m, IfcDone(m, proc[m], NoPair))
    BY <1>7, <2>1, <2>2
  <2> QED
    BY <1>5, <1>9, <2>2 DEF createIfc
<1> QED
  BY <1>5, <1>8, <1>9 DEF setAttStatus, processDeletedAtt, Fault

LEMMA WorkTracked ==
    ASSUME Types, RemoteSynced, NEW m \in Keys, KeyOK(m), SeenOK(m), Work(m) \/ Fault(m)
    PROVE  StaysTracked(m)
<1>1. Tracked(m) /\ IsFiniteSet(nsnToVNIs[m])
  BY DEF SeenOK, Tracked
<1> QED
  BY <1>1, processNetworkAttachmentTracked, getAttachmentTracked, removeAttFromVNStateTracked,
     clearVNResourcesTracked, updateVNStateForExistingAttTracked, IfcTracked DEF Work

\* The pass over an attachment that never was here does not read it as a local one.
LEMMA WorkReads ==
    ASSUME Types, NEW m \in Keys, Elsewhere(m), Absent(m), Work(m) \/ Fault(m)
    PROVE  proc'[m].att.node # Here
<1>1. NoAtt.node # Here /\ Idle.att = NoAtt /\ proc[m] \in Pass
  BY ConstantsTyped, IdleParts DEF NoAtt, Types, PassesOK
<1>2. ASSUME NEW q, proc' = [proc EXCEPT ![m] = q], q.att \in {NoAtt, proc[m].att}
      PROVE  proc'[m].att.node # Here
  BY <1>1, <1>2 DEF Absent, Types, PassesOK
<1>3. ASSUME NEW pc, Continue(m, GoOn(proc[m], pc)) PROVE proc'[m].att.node # Here
  <2>1. GoOn(proc[m], pc).att \in {NoAtt, proc[m].att}
    BY <1>1, GoOnParts DEF GoOn
  <2> QED
    BY <1>2, <1>3, <2>1 DEF Continue
<1>4. CASE Retry(m) \/ Continue(m, Idle)
  BY <1>1, <1>2, <1>4 DEF Retry, Continue
<1>5. ASSUME NEW v, NEW names, NEW then, Continue(m, Clearing(proc[m], v, names, then))
      PROVE  proc'[m].att.node # Here
  <2>1. Clearing(proc[m], v, names, then).att = proc[m].att
    BY <1>1 DEF Clearing, Pass
  <2> QED
    BY <1>2, <1>5, <2>1 DEF Continue
<1>6. ASSUME NEW report, Continue(m, IfcDone(m, proc[m], report))
      PROVE  proc'[m].att.node # Here
  <2>1. IfcDone(m, proc[m], report).att \in {NoAtt, proc[m].att}
    BY <1>1 DEF IfcDone, Pass
  <2> QED
    BY <1>2, <1>6, <2>1 DEF Continue
<1>7. CASE processNetworkAttachment(m)
  <2> DEFINE u == getAttSeenInVNI(m)
             a == getRemoteAttListerForVNI(u)[m]
             q == [Idle EXCEPT !.pc = "lookup", !.att = a]
  <2>1. proc'[m] \in {Idle, q}
    BY <1>7 DEF processNetworkAttachment, Types, PassesOK
  <2>2. q.att = a
    BY DEF Idle
  <2>3. a.node # Here
    BY <1>1, ListerTyped DEF RemoteObjs, Types
  <2> HIDE DEF q, a
  <2> QED
    BY <1>1, <2>1, <2>2, <2>3
<1>8. CASE getAttachment(m)
  <2> DEFINE rem == proc[m].att
             loc == localAtts.cache[m]
             deleted == (rem = NoAtt) = (loc = NoAtt)
             att == CASE deleted -> NoAtt
                      [] ~deleted /\ loc # NoAtt -> loc
                      [] OTHER -> rem
             next == IF deleted THEN "remove" ELSE "join"
             moved == nsnToVNStateVNI[m] \notin {NoVNI, AddressVNI(att)}
             q1 == [Idle EXCEPT !.pc = "depart", !.att = att, !.then = next]
             q2 == [Idle EXCEPT !.pc = next, !.att = att]
  <2>1. proc' = [proc EXCEPT ![m] = IF moved THEN q1 ELSE q2]
    BY <1>8 DEF getAttachment, Continue
  <2>2. att \in {NoAtt, rem}
    BY DEF Elsewhere
  <2>3. q1.att = att /\ q2.att = att
    BY DEF Idle
  <2> HIDE DEF q1, q2, att, moved
  <2> QED
    BY <1>2, <2>1, <2>2, <2>3
<1>9. CASE removeAttFromVNState(m)
  BY <1>3, <1>5, <1>9 DEF removeAttFromVNState
<1>10. CASE clearVNResources(m)
  <2>1. GoOn(proc[m], proc[m].then).att \in {NoAtt, proc[m].att}
    BY <1>1, GoOnParts DEF GoOn
  <2> QED
    BY <1>2, <1>10, <2>1 DEF clearVNResources
<1>11. CASE updateVNStateForExistingAtt(m)
  BY <1>3, <1>5, <1>11 DEF updateVNStateForExistingAtt, joinLocal, joinRemote, leaveLast, joinNothing
<1>12. CASE updateIfc(m)
  BY <1>3, <1>6, <1>12 DEF updateIfc
<1>13. CASE createIfc(m)
  BY <1>4, <1>6, <1>13 DEF createIfc
<1> QED
  BY <1>4, <1>7, <1>8, <1>9, <1>10, <1>11, <1>12, <1>13 DEF Work, setAttStatus,
     processDeletedAtt, Fault

LEMMA WorkAbsent ==
    ASSUME Types, RemoteSynced, NEW m \in Keys, KeyOK(m), Elsewhere(m), Absent(m),
           Work(m) \/ Fault(m)
    PROVE  Absent(m)'
<1>1. proc'[m].att.node # Here
  BY WorkReads
<1>2. ~HasLocalIfc(m)'
  <2>1. ASSUME UNCHANGED ifcVars \/ UNCHANGED nsnToLocalMainState PROVE ~HasLocalIfc(m)'
    BY <2>1 DEF ifcVars, HasLocalIfc, Absent
  <2>2. ASSUME deleteOldLocalIfc(m) \/ deleteOldRemoteIfc(m) PROVE ~HasLocalIfc(m)'
    BY <2>1, <2>2 DEF deleteOldLocalIfc, deleteOldRemoteIfc, unsetLocalAttState, HasLocalIfc,
       Types, IfcsOK
  <2>3. CASE createIfc(m)
    <3>1. proc[m].pc = "create"
      BY <2>3 DEF createIfc
    <3>2. attHostIP(proc[m].att) # Here
      BY <3>1, StoredAt DEF Absent
    <3>3. UNCHANGED nsnToLocalMainState
      BY <2>3, <3>2 DEF createIfc, ifcVars
    <3> QED
      BY <2>1, <3>3
  <2>4. CASE updateIfc(m) \/ processDeletedAtt(m)
    BY <2>1, <2>2, <2>4 DEF updateIfc, processDeletedAtt
  <2>5. CASE ~createIfc(m) /\ ~updateIfc(m) /\ ~processDeletedAtt(m)
    <3>1. UNCHANGED ifcVars
      BY <2>5 DEF Work, Fault, processNetworkAttachment, getAttachment, removeAttFromVNState,
         clearVNResources, updateVNStateForExistingAtt, setAttStatus
    <3> QED
      BY <2>1, <3>1
  <2> QED
    BY <2>3, <2>4, <2>5
<1>3. ASSUME NEW v \in VNIs PROVE ~InLocal(v, m)'
  <2>1. ~InLocal(v, m)
    BY DEF Absent
  <2>2. ASSUME vniToVnState' = vniToVnState PROVE ~InLocal(v, m)'
    BY <2>1, <2>2 DEF InLocal
  <2>3. ASSUME NEW u \in VNIs, NEW t, vniToVnState' = [vniToVnState EXCEPT ![u] = t],
               m \in t.localAtts => m \in vniToVnState[u].localAtts
        PROVE  ~InLocal(v, m)'
    <3>1. vniToVnState'[v] = IF v = u THEN t ELSE vniToVnState[v]
      BY <2>3, VnReplacedAt DEF Types
    <3> QED
      BY <2>1, <2>3, <3>1 DEF InLocal
  <2>4. ASSUME NEW u \in VNIs, DropVnState(u) PROVE ~InLocal(v, m)'
    BY <2>3, <2>4, NoVnParts DEF DropVnState
  <2>5. CASE removeAttFromVNState(m)
    <3>1. PICK u \in VNIs :
              \/ DropVnState(u)
              \/ \E t : /\ vniToVnState' = [vniToVnState EXCEPT ![u] = t]
                        /\ t.localAtts = vniToVnState[u].localAtts \ {m}
      BY <2>5, DepartureParts
    <3> QED
      BY <2>3, <2>4, <3>1
  <2>6. CASE updateVNStateForExistingAtt(m)
    <3> DEFINE u == AddressVNI(proc[m].att)
    <3>1. u \in VNIs
      BY <2>6, JoiningAt DEF updateVNStateForExistingAtt
    <3>2. joinRemote(m, u) \/ leaveLast(m, u) \/ joinNothing(m, u)
      BY <2>6 DEF updateVNStateForExistingAtt, Absent
    <3>3. CASE joinRemote(m, u)
      <4>1. PICK t : /\ vniToVnState' = [vniToVnState EXCEPT ![u] = t]
                     /\ t.localAtts = vniToVnState[u].localAtts \ {m}
        BY <3>1, <3>3, JoinRemoteParts
      <4> HIDE DEF u
      <4> QED
        BY <2>3, <3>1, <4>1
    <3>4. CASE leaveLast(m, u)
      BY <2>4, <3>1, <3>4 DEF leaveLast
    <3>5. CASE joinNothing(m, u)
      BY <2>2, <3>5 DEF joinNothing
    <3> QED
      BY <3>2, <3>3, <3>4, <3>5
  <2>7. CASE setAttStatus(m)
    <3>1. vniToVnState' = vniToVnState \/ KeptIn(vniToVnState[v], vniToVnState'[v], m)
      BY <2>7, PutKept DEF setAttStatus
    <3> QED
      BY <2>1, <2>2, <3>1 DEF KeptIn, InLocal
  <2>8. CASE ~removeAttFromVNState(m) /\ ~updateVNStateForExistingAtt(m) /\ ~setAttStatus(m)
    <3>1. vniToVnState' = vniToVnState
      BY <2>8 DEF Work, Fault, processNetworkAttachment, getAttachment, clearVNResources,
         updateIfc, createIfc, processDeletedAtt, vnVars
    <3> QED
      BY <2>2, <3>1
  <2> QED
    BY <2>5, <2>6, <2>7, <2>8
<1> QED
  BY <1>1, <1>2, <1>3 DEF Absent

-----------------------------------------------------------------------------
(* Strangers: start-up.                                                     *)

\* While start-up goes on, an attachment that was seen is queued.
LEMMA StartSeen ==
    ASSUME NEW k \in Keys, KeyOK(k)', phase' # "run", proc'[k] = Idle,
           IsFiniteSet(nsnToVNIs'[k]), k \in adopted' => ~Stays(k)',
           nsnToVNIs'[k] # {} => k \in queue'
    PROVE  SeenOK(k)' /\ Noticed(k)'
<1>1. k \in queue' => Due(k)'
  BY QueuedDue
<1>2. PassSeen(k)'
  BY IdleParts DEF PassSeen
<1>3. RestSeen(k)'
  BY <1>1, ConstantsTyped DEF KeyOK, Placed, Starting, RestSeen
<1>4. AdoptedSeen(k)'
  BY DEF AdoptedSeen
<1>5. Noticed(k)'
  BY <1>1 DEF Noticed
<1> QED
  BY <1>2, <1>3, <1>4, <1>5 DEF SeenOK

\* An interface that start-up adopts belongs to an attachment from elsewhere.
LEMMA OwnerFromElsewhere ==
    ASSUME Types, ResidentsHushed, phase = "syncRemote", NEW ifc \in todo,
           NEW k \in ifcOwnerAtts(getRemoteAttListerForVNI(ifc.pair[1]), ifc.pair)
    PROVE  k \in Keys /\ ~Stays(k)
<1>1. ifc.pair \in Pairs
  BY DEF Types, StartOK, RemoteNetIfc
<1> DEFINE v == ifc.pair[1]
<1>2. v \in VNIs
  BY <1>1, ConstantsTyped
<1>3. k \in Keys /\ getRemoteAttListerForVNI(v)[k].pair \in Pairs
  BY <1>1 DEF ifcOwnerAtts
<1> HIDE DEF v
<1>4. getRemoteAttListerForVNI(v)[k] # NoAtt
  BY <1>3, Addressed
<1>5. vniToVnState[v].cache[k] # NoAtt
  BY <1>3, <1>4 DEF getRemoteAttListerForVNI
<1> QED
  BY <1>2, <1>3, <1>5 DEF ResidentsHushed, Hushed, Silent

LEMMA StartStrangers ==
    ASSUME Types, Resting, HomesTyped, ResidentsHushed, NEW k \in Keys, SeenOK(k), KeyOK(k)',
           IsFiniteSet(nsnToVNIs'[k]), [Next]_vars,
           \/ syncPreExistingLocalIfc \/ startRemoteInformers \/ syncPreExistingRemoteIfc \/ Crash
    PROVE  SeenOK(k)' /\ Noticed(k)'
<1>1. Stays(k)' => Stays(k)
  BY StepHushed
<1>2. CASE Crash
  <2>1. phase' = "syncLocal" /\ nsnToVNIs'[k] = {} /\ adopted' = {} /\ proc'[k] = Idle
    BY <1>2 DEF Crash, StartAgent
  <2> QED
    BY <2>1, StartSeen
<1>3. CASE ~Crash
  <2>1. /\ phase # "run" /\ phase' # "run" /\ nsnToVNIs' = nsnToVNIs /\ queue' = queue
        /\ proc' = proc
    BY <1>3 DEF syncPreExistingLocalIfc, startRemoteInformers, syncPreExistingRemoteIfc, vnVars
  <2>2. proc'[k] = Idle
    BY <2>1 DEF Resting
  <2>3. nsnToVNIs'[k] # {} => k \in queue'
    BY <2>1 DEF SeenOK, AdoptedSeen
  <2>4. k \in adopted' => ~Stays(k)
    <3>1. CASE syncPreExistingRemoteIfc
      <4>1. PICK ifc \in todo :
               \/ \E m \in ifcOwnerAtts(getRemoteAttListerForVNI(ifc.pair[1]), ifc.pair) :
                     matchRemoteIfc(m, ifc)
               \/ adopted' = adopted
        BY <3>1 DEF syncPreExistingRemoteIfc
      <4>2. phase = "syncRemote"
        BY <3>1 DEF syncPreExistingRemoteIfc
      <4>3. ASSUME NEW m \in ifcOwnerAtts(getRemoteAttListerForVNI(ifc.pair[1]), ifc.pair),
                   matchRemoteIfc(m, ifc)
            PROVE  k \in adopted' => ~Stays(k)
        <5>1. adopted' = adopted \cup {m}
          BY <4>3 DEF matchRemoteIfc
        <5>2. ~Stays(m)
          BY <4>2, OwnerFromElsewhere
        <5> QED
          BY <5>1, <5>2 DEF SeenOK, AdoptedSeen
      <4> QED
        BY <4>1, <4>3 DEF SeenOK, AdoptedSeen
    <3>2. CASE ~syncPreExistingRemoteIfc
      BY <3>2, AdoptedShrinks DEF SeenOK, AdoptedSeen
    <3> QED
      BY <3>1, <3>2
  <2> QED
    BY <1>1, <2>1, <2>2, <2>3, <2>4, StartSeen
<1> QED
  BY <1>2, <1>3

LEMMA StartAbsent ==
    ASSUME Types, Resting, NEW k \in Keys, Elsewhere(k), Absent(k), KeyOK(k)',
           \/ syncPreExistingLocalIfc \/ startRemoteInformers \/ syncPreExistingRemoteIfc \/ Crash
    PROVE  Absent(k)'
<1>1. NoAtt.node # Here /\ Idle.att = NoAtt
  BY ConstantsTyped, IdleParts DEF NoAtt
<1>2. CASE Crash
  <2>1. proc'[k] = Idle /\ nsnToLocalMainState'[k] = NoPair /\ \A v \in VNIs : vniToVnState'[v] = NoVnState
    BY <1>2 DEF Crash
  <2> QED
    BY <1>1, <2>1, NoVnParts DEF Absent, HasLocalIfc, InLocal
<1>3. CASE syncPreExistingLocalIfc
  <2>1. proc' = proc /\ vniToVnState' = vniToVnState /\ phase = "syncLocal"
    BY <1>3 DEF syncPreExistingLocalIfc, vnVars
  <2>2. PICK ifc \in todo :
           \/ \E m \in ifcOwnerAtts(localAtts.cache, ifc) : matchLocalIfc(m, ifc)
           \/ UNCHANGED nsnToLocalMainState
    BY <1>3 DEF syncPreExistingLocalIfc
  <2>3. ASSUME NEW m \in ifcOwnerAtts(localAtts.cache, ifc), matchLocalIfc(m, ifc)
        PROVE  nsnToLocalMainState'[k] = nsnToLocalMainState[k]
    <3>1. m \in Keys /\ localAtts.cache[m].pair = ifc /\ ifc \in Pairs
      BY <2>1 DEF ifcOwnerAtts, Types, StartOK
    <3>2. localAtts.cache[m] # NoAtt
      BY <3>1, Addressed
    <3>3. m # k
      BY <3>2 DEF Elsewhere
    <3> QED
      BY <2>3, <3>3 DEF matchLocalIfc, setLocalAttMainState, Types, IfcsOK
  <2> QED
    BY <2>1, <2>2, <2>3 DEF Absent, HasLocalIfc, InLocal
<1>4. CASE syncPreExistingRemoteIfc
  BY <1>4 DEF syncPreExistingRemoteIfc, vnVars, Absent, HasLocalIfc, InLocal
<1>5. CASE startRemoteInformers
  <2>1. /\ proc' = proc /\ nsnToLocalMainState' = nsnToLocalMainState
        /\ nsnToVNStateVNI'[k] = AddressVNI(localAtts.cache[k])
    BY <1>5 DEF startRemoteInformers, ifcVars
  <2>2. nsnToVNStateVNI'[k] \notin VNIs
    <3>1. AddressVNI(NoAtt) = NoVNI
      BY DEF AddressVNI, NoAtt
    <3>2. localAtts.cache[k] = NoAtt
      BY DEF Elsewhere
    <3> QED
      BY <2>1, <3>1, <3>2, ConstantsTyped
  <2> QED
    BY <2>1, <2>2 DEF Absent, HasLocalIfc, KeyOK, Placed
<1> QED
  BY <1>2, <1>3, <1>4, <1>5

-----------------------------------------------------------------------------
(* Strangers: all steps.                                                    *)

LEMMA OwnAdopted ==
    ASSUME Types, Resting, NEW m \in Keys, AdoptedSeen(m), Work(m) \/ Fault(m),
           adopted' \subseteq adopted, Stays(m)' => Stays(m)
    PROVE  AdoptedSeen(m)'
<1>1. phase' = "run"
  BY WorkRuns
<1>2. m \in adopted' => ~Stays(m)'
  BY DEF AdoptedSeen
<1>3. CASE processNetworkAttachment(m)
  <2>1. m \notin adopted'
    BY <1>3 DEF processNetworkAttachment
  <2> QED
    BY <1>1, <2>1 DEF AdoptedSeen
<1>4. CASE ~processNetworkAttachment(m)
  <2>1. m \in queue => m \in queue'
    BY <1>4 DEF Work, Fault, getAttachment, removeAttFromVNState, clearVNResources,
       updateVNStateForExistingAtt, joinLocal, joinRemote, leaveLast, joinNothing, updateIfc,
       createIfc, setAttStatus, processDeletedAtt, Continue, Retry
  <2>2. nsnToVNIs'[m] \subseteq nsnToVNIs[m]
    <3>1. CASE clearVNResources(m)
      BY <3>1 DEF clearVNResources, removeSeenInVNI
    <3>2. CASE updateVNStateForExistingAtt(m)
      BY <3>2 DEF updateVNStateForExistingAtt, joinLocal, joinRemote, leaveLast, joinNothing,
         removeSeenInVNI
    <3>3. CASE ~clearVNResources(m) /\ ~updateVNStateForExistingAtt(m)
      <4>1. nsnToVNIs' = nsnToVNIs
        BY <1>4, <3>3 DEF Work, Fault, getAttachment, removeAttFromVNState, updateIfc, createIfc,
           setAttStatus, processDeletedAtt, vnVars
      <4> QED
        BY <4>1
    <3> QED
      BY <3>1, <3>2, <3>3
  <2>3. nsnToVNIs'[m] # {} => nsnToVNIs[m] # {}
    BY <2>2
  <2> QED
    BY <1>1, <1>2, <2>1, <2>3 DEF AdoptedSeen
<1> QED
  BY <1>3, <1>4

LEMMA StepWandered ==
    ASSUME Types, HomesTyped, ResidentsHushed, StrInv, [Next]_vars
    PROVE  Wandered'
<1>1. ASSUME NEW j \in Keys, Here \in homes[j], ~Stays(j)
      PROVE  \E i \in Keys : Here \in homes'[i] /\ homes'[i] # {Here}
  <2>1. homes[j] \subseteq homes'[j]
    BY HomesGrow
  <2>2. PICK h \in homes[j] : h # Here
    BY <1>1 DEF Stays
  <2> QED
    BY <1>1, <2>1, <2>2
<1>2. ASSUME twofold # {} PROVE \E j \in Keys : Here \in homes[j] /\ ~Stays(j)
  BY <1>2 DEF StrInv, Wandered, Stays
<1>3. CASE ~syncPreExistingRemoteIfc
  BY <1>1, <1>2, <1>3, AdoptedShrinks DEF Wandered
<1>4. CASE syncPreExistingRemoteIfc
  <2>1. PICK ifc \in todo :
           \/ \E m \in ifcOwnerAtts(getRemoteAttListerForVNI(ifc.pair[1]), ifc.pair) :
                 matchRemoteIfc(m, ifc)
           \/ twofold' = twofold
    BY <1>4 DEF syncPreExistingRemoteIfc
  <2>2. phase = "syncRemote"
    BY <1>4 DEF syncPreExistingRemoteIfc
  <2>3. CASE twofold' = twofold
    BY <1>1, <1>2, <2>3 DEF Wandered
  <2>4. ASSUME NEW m \in ifcOwnerAtts(getRemoteAttListerForVNI(ifc.pair[1]), ifc.pair),
               matchRemoteIfc(m, ifc)
        PROVE  Wandered'
    <3>1. m \in Keys /\ ~Stays(m)
      BY <2>2, OwnerFromElsewhere
    <3>2. CASE HasLocalIfc(m)
      <4>1. Here \in homes[m]
        BY <3>1, <3>2 DEF StrInv, Stranger, Absent
      <4> QED
        BY <1>1, <3>1, <4>1 DEF Wandered
    <3>3. CASE ~HasLocalIfc(m)
      <4>1. twofold' = twofold
        BY <2>4, <3>3 DEF matchRemoteIfc
      <4> QED
        BY <1>1, <1>2, <4>1 DEF Wandered
    <3> QED
      BY <3>2, <3>3
  <2> QED
    BY <2>1, <2>3, <2>4
<1> QED
  BY <1>3, <1>4

LEMMA StepStrangers ==
    ASSUME DistinctMACs, IInv, ResInv, MemInv, StrInv, [Next]_vars
    PROVE  StrInv'
<1>1. Types /\ Resting /\ HomesTyped /\ ResidentsHushed /\ RemoteSynced
  BY DEF IInv, ResInv, MemInv
<1>2. MemInv'
  BY StepMembers DEF ResInv
<1>3. Wandered'
  BY <1>1, StepWandered
<1>4. ASSUME NEW k \in Keys PROVE SeenOK(k)' /\ Stranger(k)'
  <2>1. SeenOK(k) /\ Stranger(k) /\ KeyOK(k) /\ KeyOK(k)'
    BY <1>2 DEF StrInv, MemInv
  <2>2. IsFiniteSet(nsnToVNIs'[k])
    BY <1>1, <2>1, FiniteSeen DEF SeenOK
  <2>3. Stays(k)' => Stays(k)
    BY <1>1, StepHushed
  <2>4. Here \notin homes'[k] => Elsewhere(k) /\ Absent(k) /\ Noticed(k) /\ Elsewhere(k)'
    <3>1. Here \notin homes'[k] => Here \notin homes[k]
      BY <1>1, HomesGrow
    <3>2. \A m \in Keys : PassPlaced(m)
      BY DEF MemInv, KeyOK
    <3> QED
      BY <1>1, <2>1, <3>1, <3>2, StepElsewhere DEF Stranger
  <2>5. ASSUME SeenOK(k)', Elsewhere(k) /\ Absent(k) /\ Noticed(k) => Absent(k)' /\ Noticed(k)'
        PROVE  SeenOK(k)' /\ Stranger(k)'
    BY <2>4, <2>5 DEF Stranger
  <2>6. ASSUME Untouched(k), ~syncPreExistingRemoteIfc PROVE SeenOK(k)' /\ Stranger(k)'
    <3>1. k \in adopted' => k \in adopted
      BY <2>6, AdoptedShrinks
    <3>2. SeenOK(k)'
      BY <2>1, <2>2, <2>3, <2>6, <3>1, SeenKept
    <3> QED
      BY <2>5, <2>6, <3>2, StrangerKept
  <2>7. CASE InformerNext \/ startWorkers \/ (\E c \in commands : RunCommand(c)) \/ UNCHANGED vars
    <3>1. Untouched(k)
      BY <1>1, <2>7, OutsideUntouched
    <3>2. CASE syncPreExistingRemoteIfc
      BY <1>1, <2>1, <2>2, <2>5, <3>2, StartStrangers, StartAbsent
    <3> QED
      BY <2>6, <3>1, <3>2
  <2>8. CASE syncPreExistingLocalIfc \/ startRemoteInformers \/ syncPreExistingRemoteIfc \/ Crash
    BY <1>1, <2>1, <2>2, <2>5, <2>8, StartStrangers, StartAbsent
  <2>9. ASSUME NEW m \in Keys, Work(m) \/ Fault(m) PROVE SeenOK(k)' /\ Stranger(k)'
    <3>1. phase = "run"
      BY <1>1, <2>9, WorkRuns
    <3>2. ~syncPreExistingRemoteIfc
      BY <3>1 DEF syncPreExistingRemoteIfc
    <3>3. CASE k # m
      BY <1>1, <2>6, <2>9, <3>2, <3>3, OtherUntouched
    <3>4. CASE k = m
      <4>1. adopted' \subseteq adopted
        BY <3>2, AdoptedShrinks
      <4>2. AdoptedSeen(k)'
        BY <1>1, <2>1, <2>3, <2>9, <3>4, <4>1, OwnAdopted DEF SeenOK
      <4>3. StaysTracked(k)
        BY <1>1, <2>1, <2>9, <3>4, WorkTracked
      <4>4. Elsewhere(k) /\ Absent(k) => Absent(k)'
        BY <1>1, <2>1, <2>9, <3>4, WorkAbsent
      <4>5. SeenOK(k)'
        BY <2>2, <4>2, <4>3 DEF StaysTracked, SeenOK
      <4> QED
        BY <2>5, <4>3, <4>4, <4>5 DEF StaysTracked
    <3> QED
      BY <3>3, <3>4
  <2>10. CASE EnvironmentNext
    <3>1. CASE (\E m \in Keys, n \in Hosts, p \in Pairs, h \in Hosts \cup {""} :
                   WriteAtt(m, n, p, h)) \/ (\E m \in Keys : DeleteAtt(m))
      <4>1. Untouched(k)
        BY <1>1, <3>1, OutsideUntouched
      <4> QED
        BY <2>6, <2>8, <4>1
    <3> QED
      BY <2>8, <2>9, <2>10, <3>1 DEF EnvironmentNext
  <2> QED
    BY <2>7, <2>8, <2>9, <2>10 DEF Next, StartNext
<1> QED
  BY <1>3, <1>4 DEF StrInv

LEMMA InitStrangers ==
    ASSUME Init
    PROVE  StrInv
<1>1. \A v \in VNIs : vniToVnState[v] = NoVnState
  BY DEF Init
<1>2. Wandered
  BY DEF Init, Wandered
<1>3. ASSUME NEW k \in Keys PROVE SeenOK(k) /\ Stranger(k)
  <2>1. /\ proc[k] = Idle /\ nsnToLocalMainState[k] = NoPair /\ nsnToVNIs[k] = {}
        /\ adopted = {} /\ atts[k] = NoAtt
    BY DEF Init
  <2>2. NoAtt.node # Here /\ Idle.att = NoAtt /\ Idle.pc = "idle"
    BY ConstantsTyped, IdleParts DEF NoAtt
  <2>3. localAtts.cache[k] = NoAtt /\ localAtts.events = <<>>
    <3> DEFINE list == [j \in Keys |-> Seen(atts[j])]
    <3>1. localAtts = [cache |-> list, events |-> <<>>]
      BY DEF Init, StartAgent, Seen
    <3>2. list[k] = NoAtt
      BY <2>1 DEF Seen
    <3> HIDE DEF list
    <3> QED
      BY <3>1, <3>2
  <2>4. SeenOK(k)
    <3>1. IsFiniteSet(nsnToVNIs[k])
      BY <2>1, FS_EmptySet
    <3>2. PassSeen(k) /\ AdoptedSeen(k)
      BY <2>1, <2>2 DEF PassSeen, AdoptedSeen
    <3>3. RestSeen(k)
      BY <1>1, NoVnParts DEF RestSeen, InRemote
    <3> QED
      BY <3>1, <3>2, <3>3 DEF SeenOK
  <2>5. Elsewhere(k)
    BY <2>1, <2>2, <2>3, TellsNothing DEF Elsewhere
  <2>6. Absent(k)
    BY <1>1, <2>1, <2>2, NoVnParts DEF Absent, HasLocalIfc, InLocal
  <2>7. Noticed(k)
    BY <1>1, NoVnParts DEF Noticed, Known
  <2> QED
    BY <2>4, <2>5, <2>6, <2>7 DEF Stranger
<1> QED
  BY <1>2, <1>3 DEF StrInv

-----------------------------------------------------------------------------
(* Strangers are served.                                                    *)

\* A virtual network of a resident has its vnState, at rest.
LEMMA HeldAtRest ==
    ASSUME Types, ResInv, MemInv, StrInv, Quiet, NEW v \in VNIs, NEW j \in Keys,
           homes[j] = {Here}, IsLocal(j), AddressVNI(atts[j]) = v, ~Doubled(j)
    PROVE  vniToVnState[v].on
<1>1. KeyOK(j) /\ SeenOK(j)
  BY DEF MemInv, StrInv
<1>2. Stays(j) /\ nsnToVNIs[j] = {}
  BY DEF Stays, ResInv, ResidentsHushed, Hushed
<1>3. j \notin adopted
  BY <1>1, <1>2 DEF SeenOK, AdoptedSeen
<1>4. ~Ambiguous(j)
  <2>1. Cardinality({}) = 0
    BY FS_EmptySet
  <2> QED
    BY <1>2, <2>1 DEF Ambiguous
<1>5. /\ proc[j].pc = "idle" /\ ~Due(j) /\ ~Tells(localAtts.events, j)
      /\ localAtts.cache[j] = atts[j] /\ atts[j] # NoAtt
  <2>1. LocalSynced
    BY DEF ResInv
  <2>2. Seen(atts[j]) = atts[j] /\ atts[j] # NoAtt
    BY DEF Seen, IsLocal, InLocalWatch, MatchNetworkAttachment
  <2> QED
    BY <2>1, <2>2, QuietKey
<1>6. HasLocalIfc(j)
  <2>1. nsnToLocalMainState[j] = atts[j].pair
    BY ResidentsRecorded DEF Recorded
  <2>2. atts[j].pair # NoPair
    BY ConstantsTyped DEF AddressVNI
  <2> QED
    BY <2>1, <2>2 DEF HasLocalIfc
<1>7. nsnToVNStateVNI[j] \in VNIs
  BY <1>1, <1>3, <1>4, <1>5, <1>6 DEF KeyOK, Done, Types, VnOK
<1>8. LocalDone(nsnToVNStateVNI[j], j)
  BY <1>1, <1>4, <1>5, <1>7 DEF KeyOK, Done, RemoteDone
<1>9. InLocal(v, j)
  BY <1>5, <1>8 DEF LocalDone
<1>10. Follows(v, vniToVnState[v], atts)
  BY DEF MemInv, RemoteSynced
<1> QED
  BY <1>9, <1>10, NoVnParts DEF Follows, InLocal

LEMMA QuietStrangers ==
    ASSUME Types, Held, ResInv, MemInv, StrInv, Quiet,
           \A j \in Keys : Here \in homes[j] => homes[j] = {Here},
           NEW k \in Keys, NEW v, v = AddressVNI(atts[k]), Here \notin homes[k],
           nsnToVNIs[k] = {v}, InRemoteWatch(v, atts[k])
    PROVE  UpToDate(k)
<1>1. KeyOK(k) /\ SeenOK(k) /\ Elsewhere(k) /\ Absent(k) /\ Noticed(k)
  BY DEF MemInv, StrInv, Stranger
<1>2. LocalSynced /\ atts[k] \in NetworkAttachment
  BY DEF ResInv, Types, StoreOK
<1>3. v \in VNIs /\ atts[k] # NoAtt /\ atts[k].node # Here
  BY <1>2, RemoteWatched, ConstantsTyped DEF AddressVNI
<1>4. twofold = {}
  BY DEF StrInv, Wandered
<1>5. ~Ambiguous(k)
  <2>1. Cardinality({v}) = 1
    BY FS_Singleton
  <2> QED
    BY <2>1 DEF Ambiguous
<1>6. k \notin adopted
  BY <1>1 DEF SeenOK, AdoptedSeen, Quiet
<1>7. /\ proc[k].pc = "idle" /\ ~Due(k)
      /\ \A u \in VNIs : ~Noted(u, k)
      /\ \A u \in VNIs : vniToVnState[u].on => Known(u, k) = SeenIn(u, atts[k])
  BY <1>2, QuietKey
<1>8. vniToVnState[v].on => Known(v, k) = atts[k]
  BY <1>3, <1>7 DEF SeenIn
<1>9. ~IsLocal(k) /\ ~HasLocalIfc(k)
  BY <1>1, <1>2, <1>3, LocalSelected DEF IsLocal, LocalObjs, Absent
<1>0. Recorded(k) => UpToDate(k)
  BY <1>9, HeldInFabric DEF UpToDate
<1>10. IsRemote(k) => Relevant(v)
  BY <1>2, RemoteWatched DEF IsRemote
<1>11. CASE nsnToVNStateVNI[k] = NoVNI
  <2>1. ~HasRemoteIfc(k)
    BY <1>1, <1>4, <1>5, <1>6, <1>7, <1>11 DEF KeyOK, Done, Doubled
  <2>2. ASSUME Relevant(v) PROVE FALSE
    <3>1. PICK j \in Keys : IsLocal(j) /\ AddressVNI(atts[j]) = v
      BY <2>2 DEF Relevant
    <3>2. atts[j].node = Here
      <4>1. atts[j] \in NetworkAttachment
        BY DEF Types, StoreOK
      <4>2. atts[j] # NoAtt
        BY <3>1 DEF IsLocal, InLocalWatch, MatchNetworkAttachment
      <4> QED
        BY <3>1, <4>1, <4>2, LocalSelected DEF IsLocal, LocalObjs
    <3>3. homes[j] = {Here}
      BY <3>2 DEF StrInv, Stranger, Elsewhere
    <3>4. vniToVnState[v].on
      BY <1>3, <1>4, <3>1, <3>3, HeldAtRest DEF Doubled
    <3>5. nsnToVNStateVNI[k] = v
      BY <1>1, <1>3, <1>7, <1>8, <3>4 DEF Noticed
    <3> QED
      BY <1>3, <1>11, <3>5, ConstantsTyped
  <2> QED
    BY <1>0, <1>9, <1>10, <2>1, <2>2 DEF Recorded, HasLocalIfc, HasRemoteIfc
<1>12. CASE nsnToVNStateVNI[k] # NoVNI
  <2> DEFINE w == nsnToVNStateVNI[k]
  <2>1. w \in VNIs
    BY <1>12 DEF Types, VnOK
  <2>2. RemoteDone(w, k)
    BY <1>1, <1>5, <1>7, <2>1 DEF KeyOK, Done, LocalDone, Absent
  <2>3. w = v
    <3>1. InRemote(w, k)
      BY <2>2 DEF RemoteDone
    <3>2. nsnToVNIs[k] = {w}
      BY <1>1, <1>5, <1>7, <2>1, <3>1 DEF SeenOK, RestSeen
    <3> QED
      BY <3>2
  <2> HIDE DEF w
  <2>4. k \in vniToVnState[v].remoteAtts
    BY <2>2, <2>3 DEF RemoteDone, InRemote
  <2>5. vniToVnState[v].on /\ vniToVnState[v].localAtts # {}
    BY <1>3, <2>4, NoVnParts DEF MemInv, RemoteSynced, Follows
  <2>6. nsnToRemoteIfc[k] = IfcOf(atts[k])
    BY <1>3, <1>4, <1>7, <1>8, <2>2, <2>3, <2>5 DEF RemoteDone, Doubled
  <2>7. PICK j \in vniToVnState[v].localAtts : TRUE
    BY <2>5
  <2>8. j \in Keys /\ InLocal(v, j)
    BY <1>3, VnParts DEF InLocal, Types, VnOK
  <2>9. homes[j] = {Here}
    BY <1>3, <2>8 DEF StrInv, Stranger, Absent
  <2>10. ~Ambiguous(j)
    <3>1. nsnToVNIs[j] = {}
      BY <2>8, <2>9 DEF Stays, ResInv, ResidentsHushed, Hushed
    <3>2. Cardinality({}) = 0
      BY FS_EmptySet
    <3> QED
      BY <3>1, <3>2 DEF Ambiguous
  <2>11. Relevant(v)
    BY <1>2, <1>3, <2>8, <2>10, HeldByLocal DEF Relevant
  <2>12. IsRemote(k)
    BY <1>3, <2>11 DEF IsRemote
  <2> QED
    BY <1>0, <1>9, <2>6, <2>12 DEF Recorded, IfcOf, HasLocalIfc
<1> QED
  BY <1>11, <1>12

\* If the MACs of different addresses differ, an attachment elsewhere that never
\* was on the node and that the informer of its virtual network has reported
\* has, whenever the agent has nothing left to do, the remote interface of its
\* last address and host while the network is present on the node, and none when
\* it is not, provided that no attachment wandered to or from the node: however
\* the network came and went while passes were under way, and through any number
\* of failing calls and restarts.
THEOREM AgentServesStrangers ==
    ASSUME DistinctMACs
    PROVE  Spec => []StrangersServed
<1> DEFINE Inv == IInv /\ Held /\ ResInv /\ MemInv /\ StrInv
<1>1. Init => Inv
  <2>1. Init => Resting
    BY DEF Init, Resting
  <2> QED
    BY <2>1, InitTypes, InitOwned, StartsHeld, InitResidents, InitMembers, InitStrangers
       DEF IInv
<1>2. Inv /\ [Next]_vars => Inv'
  <2> SUFFICES ASSUME Inv, [Next]_vars PROVE Inv'
    OBVIOUS
  <2>1. IInv' /\ Held'
    BY StepTypes, StepResting, StepOwned, StepHeld DEF IInv
  <2>2. HomesTyped' /\ ResidentsHushed'
    BY StepHushed DEF IInv, ResInv
  <2>3. LocalSynced' /\ Reported'
    BY StepSynced, StepReported DEF IInv, ResInv
  <2>4. ResidentsTended'
    BY StepTended DEF IInv, ResInv
  <2>5. ResInv'
    BY <2>2, <2>3, <2>4 DEF ResInv
  <2>6. MemInv'
    BY StepMembers DEF ResInv
  <2>7. StrInv'
    BY StepStrangers
  <2> QED
    BY <2>1, <2>5, <2>6, <2>7
<1>3. Inv => StrangersServed
  <2> SUFFICES ASSUME Inv, Quiet, \A j \in Keys : Here \in homes[j] => homes[j] = {Here},
                      NEW k \in Keys, Here \notin homes[k],
                      nsnToVNIs[k] = {AddressVNI(atts[k])},
                      InRemoteWatch(AddressVNI(atts[k]), atts[k])
               PROVE  UpToDate(k)
    BY DEF StrangersServed
  <2> QED
    BY QuietStrangers DEF IInv
<1> QED
  BY <1>1, <1>2, <1>3, PTL DEF Spec
=============================================================================
