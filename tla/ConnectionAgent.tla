--------------------------- MODULE ConnectionAgent ---------------------------
(***************************************************************************)
(* The connection agent of one node (pkg/controllers/connectionagent): it   *)
(* gives every NetworkAttachment of its node a local interface, every       *)
(* attachment elsewhere in the virtual networks present on its node a       *)
(* remote interface, runs the post-create commands of local interfaces and  *)
(* writes the status of the node's attachments.                             *)
(*                                                                          *)
(* One informer follows the node's attachments; for each virtual network    *)
(* with an attachment on the node (vnState) another follows the attachments *)
(* of that network on other nodes.  Both select objects by their fields, so *)
(* an update can make an attachment appear in a cache or vanish from it.    *)
(* The pass over a key is a sequence of steps (proc); each critical section *)
(* and each call to the fabric or to the API server is a step of its own.   *)
(* The fabric is the one of NetFabric.  All attachments are in one          *)
(* namespace.  A node and its host IP have the same name.                   *)
(***************************************************************************)
EXTENDS NetFabric, SequencesExt

CONSTANTS
    Keys,           \* namespaced names of NetworkAttachments
    Here,           \* the agent's node, and its host IP
    PostCreateExec, \* key -> kind of its post-create command
    Budgets         \* how often each kind of environment event may happen

Commands == {"none", "allowed", "forbidden"}

Events == {"write", "crash", "fault"}

ASSUME AgentAssumption ==
    /\ Here \in Hosts
    /\ "" \notin Hosts
    /\ PostCreateExec \in [Keys -> Commands]
    /\ Budgets \subseteq [Events -> Nat]
    /\ IsFiniteSet(Keys)

VARIABLES
    atts,                      \* key -> NetworkAttachment, in the API server
    localAtts,                 \* the informer on local attachments
    vniToVnState,              \* VNI -> vnState, with its informer
    lateNotes,                 \* VNI -> notifications of stopped informers
    nsnToVNStateVNI,           \* key -> VNI of the vnState it is stored in
    nsnToLocalMainState,       \* key -> pair of its local interface
    nsnToPostCreateExecReport, \* key -> the report of its post-create command
    nsnToRemoteIfc,            \* key -> its remote interface
    nsnToVNIs,                 \* key -> VNIs of the remote caches it was seen in
    queue,                     \* keys in the work queue
    proc,                      \* key -> the pass over it
    commands,                  \* post-create commands that are running
    phase,                     \* of Run
    todo,                      \* interfaces yet to be synced at start-up
    adopted,                   \* keys matched to a remote interface at start-up
                               \* that had no pass since (history)
    twofold,                   \* remote interfaces matched at start-up to a key
                               \* that had a local one (history)
    lost,                      \* pairs of local interfaces deleted at start-up
                               \* that the agent still has in its table (history)
    behind,                    \* keys whose pass read them as remote ones from a
                               \* vnState replaced by one that lacks them (history)
    homes,                     \* key -> nodes it was ever on (history)
    budget                     \* kind of environment event -> how many are left

storeVars == <<atts, homes, budget>>
vnVars == <<vniToVnState, lateNotes, nsnToVNStateVNI, nsnToVNIs>>
ifcVars == <<nsnToLocalMainState, nsnToPostCreateExecReport, nsnToRemoteIfc,
             commands, fabricVars>>
startVars == <<phase, todo, adopted, twofold, lost>>
vars == <<storeVars, localAtts, vnVars, ifcVars, queue, proc, startVars, behind>>

-----------------------------------------------------------------------------
(* Objects.                                                                 *)

VNIs == {p[1] : p \in Pairs}
NoVNI == -1
NoPair == <<>>
NoIfc == [pair |-> NoPair, host |-> ""]

\* node "": no such object; host "": Status.HostIP is not set.  mac stands for
\* Status.MACAddress and Status.IfcName; report is the pair of the interface
\* for which the command of Status.PostCreateExecReport ran.
NetworkAttachment ==
    [node : Hosts \cup {""}, pair : Pairs \cup {NoPair}, host : Hosts \cup {""},
     mac : {generateMACAddr(p) : p \in Pairs} \cup {<<>>},
     report : Pairs \cup {NoPair}, errs : BOOLEAN]

NoAtt == [node |-> "", pair |-> NoPair, host |-> "", mac |-> <<>>,
          report |-> NoPair, errs |-> FALSE]

AddressVNI(att) == IF att.pair = NoPair THEN NoVNI ELSE att.pair[1]

IPv4(att) == IF att.pair = NoPair THEN <<>> ELSE att.pair[2]

-----------------------------------------------------------------------------
(* Informers.                                                               *)

\* The fields of an attachment that the API server lets a watch select by.
SelectableFields(att) ==
    [node |-> att.node, ipv4 |-> IPv4(att), hostIP |-> att.host,
     addressVNI |-> AddressVNI(att)]

\* A selector is a set of terms: a field and the value it has, or has not.
Holds(term, fields) == (fields[term.field] = term.value) = term.equal

Equals(field, value) == [field |-> field, value |-> value, equal |-> TRUE]
Differs(field, value) == [field |-> field, value |-> value, equal |-> FALSE]

MatchNetworkAttachment(selector, att) ==
    att # NoAtt /\ \A term \in selector : Holds(term, SelectableFields(att))

localAttWithAnIPSelector == {Equals("node", Here), Differs("ipv4", <<>>)}

remoteAttInVNWithVirtualIPHostIPSelector(v) ==
    {Differs("node", Here), Differs("hostIP", Here), Differs("ipv4", <<>>),
     Differs("hostIP", ""), Equals("addressVNI", v)}

\* The watch on local attachments selects the attachment.
InLocalWatch(att) == MatchNetworkAttachment(localAttWithAnIPSelector, att)

\* The watch on the remote attachments of a virtual network does.
InRemoteWatch(v, att) ==
    MatchNetworkAttachment(remoteAttInVNWithVirtualIPHostIPSelector(v), att)

\* What a watch sends when old becomes new, given which of them it selects.
Change(events, k, old, new, seesOld, seesNew) ==
    IF ~seesOld /\ ~seesNew THEN events
    ELSE Append(events, [key |-> k, obj |-> IF seesNew THEN new ELSE NoAtt])

Note(k, old, new) ==
    [key |-> k, op |-> CASE new = NoAtt -> "removed"
                         [] old = NoAtt -> "added"
                         [] OTHER       -> "updated"]

NoVnState ==
    [on |-> FALSE, localAtts |-> {}, remoteAtts |-> {},
     cache |-> [k \in Keys |-> NoAtt], events |-> <<>>, notes |-> <<>>]

\* A new vnState; its informer has listed the attachments it selects.
initVNState(v) ==
    LET seen == {k \in Keys : InRemoteWatch(v, atts[k])}
    IN [NoVnState EXCEPT
          !.on = TRUE,
          !.cache = [k \in Keys |-> IF k \in seen THEN atts[k] ELSE NoAtt],
          !.notes = SetToSeq({[key |-> k, op |-> "added"] : k \in seen})]

\* A write of the API server and the watch events it causes.
PutAtt(k, att) ==
    /\ atts' = [atts EXCEPT ![k] = att]
    /\ localAtts' = [localAtts EXCEPT !.events =
          Change(@, k, atts[k], att, InLocalWatch(atts[k]), InLocalWatch(att))]
    /\ vniToVnState' = [v \in VNIs |->
          IF ~vniToVnState[v].on THEN vniToVnState[v]
          ELSE [vniToVnState[v] EXCEPT !.events =
                  Change(@, k, atts[k], att, InRemoteWatch(v, atts[k]),
                                             InRemoteWatch(v, att))]]

\* onLocalAttAdded, onLocalAttUpdated, onLocalAttRemoved.
onLocalAtt ==
    /\ localAtts.events # <<>>
    /\ LET e == Head(localAtts.events) IN
       /\ localAtts' = [cache |-> [localAtts.cache EXCEPT ![e.key] = e.obj],
                        events |-> Tail(localAtts.events)]
       /\ queue' = queue \cup {e.key}
    /\ UNCHANGED <<storeVars, vnVars, ifcVars, proc, startVars, behind>>

\* A remote informer updates its cache first ...
IndexRemoteAtt(v) ==
    /\ vniToVnState[v].events # <<>>
    /\ LET e == Head(vniToVnState[v].events)
           old == vniToVnState[v].cache[e.key]
       IN vniToVnState' = [vniToVnState EXCEPT
             ![v].cache[e.key] = e.obj,
             ![v].events = Tail(@),
             ![v].notes = IF old = NoAtt /\ e.obj = NoAtt THEN @
                          ELSE Append(@, Note(e.key, old, e.obj))]
    /\ UNCHANGED <<storeVars, localAtts, lateNotes, nsnToVNStateVNI, nsnToVNIs,
                   ifcVars, queue, proc, startVars, behind>>

addVNI(k, v) == [nsnToVNIs EXCEPT ![k] = @ \cup {v}]

removeSeenInVNI(ks, v) ==
    [k \in Keys |-> IF k \in ks THEN nsnToVNIs[k] \ {v} ELSE nsnToVNIs[k]]

\* Mutant: onRemoteAttRemoved does not queue the attachment.
MutHandleRemoteNote(v, note) ==
    /\ nsnToVNIs' = CASE note.op = "added"   -> addVNI(note.key, v)
                      [] note.op = "removed" -> removeSeenInVNI({note.key}, v)
                      [] note.op = "updated" -> nsnToVNIs
    /\ queue' = IF note.op = "removed" THEN queue ELSE queue \cup {note.key}
    /\ UNCHANGED <<storeVars, localAtts, nsnToVNStateVNI, ifcVars, proc, startVars, behind>>

\* ... and calls onRemoteAttAdded, onRemoteAttUpdated or onRemoteAttRemoved
\* later, on another goroutine.
HandleRemoteNote(v, note) ==
    /\ nsnToVNIs' = CASE note.op = "added"   -> addVNI(note.key, v)
                      [] note.op = "removed" -> removeSeenInVNI({note.key}, v)
                      [] note.op = "updated" -> nsnToVNIs
    /\ queue' = queue \cup {note.key}
    /\ UNCHANGED <<storeVars, localAtts, nsnToVNStateVNI, ifcVars, proc, startVars, behind>>

onRemoteAtt(v) ==
    /\ vniToVnState[v].notes # <<>>
    /\ HandleRemoteNote(v, Head(vniToVnState[v].notes))
    /\ vniToVnState' = [vniToVnState EXCEPT ![v].notes = Tail(@)]
    /\ UNCHANGED lateNotes

\* A handler that was under way, or about to be called, when its informer was
\* stopped.
onLateRemoteAtt(v) ==
    /\ lateNotes[v] # <<>>
    /\ HandleRemoteNote(v, Head(lateNotes[v]))
    /\ lateNotes' = [lateNotes EXCEPT ![v] = Tail(@)]
    /\ UNCHANGED vniToVnState

\* The goroutines of stopped informers end.
EndStoppedInformers(v) ==
    /\ lateNotes[v] # <<>>
    /\ lateNotes' = [lateNotes EXCEPT ![v] = <<>>]
    /\ UNCHANGED <<storeVars, localAtts, vniToVnState, nsnToVNStateVNI, nsnToVNIs,
                   ifcVars, queue, proc, startVars, behind>>

-----------------------------------------------------------------------------
(* The start of a pass.                                                     *)

\* A pass: the attachment found (NoAtt: deleted), the vnState being cleared
\* (its VNI and the names of its remote attachments), where the pass goes after
\* that, and the report for the status.
Pass == [pc : {"idle", "lookup", "depart", "clear", "join", "update", "create", "status",
               "remove"},
         att : NetworkAttachment, vni : VNIs \cup {NoVNI}, names : SUBSET Keys,
         then : {"idle", "join", "remove"}, report : Pairs \cup {NoPair}]

Idle == [pc |-> "idle", att |-> NoAtt, vni |-> NoVNI, names |-> {},
         then |-> "idle", report |-> NoPair]

GoOn(p, pc) == IF pc = "idle" THEN Idle
               ELSE [p EXCEPT !.pc = pc, !.vni = NoVNI, !.names = {}, !.then = "idle"]

Continue(k, p) == proc' = [proc EXCEPT ![k] = p] /\ UNCHANGED queue

\* Mutant: a failed pass is not repeated.
MutRetry(k) == proc' = [proc EXCEPT ![k] = Idle] /\ UNCHANGED queue

\* processQueueItem after an error: AddRateLimited.
Retry(k) == proc' = [proc EXCEPT ![k] = Idle] /\ queue' = queue \cup {k}

\* The only VNI in whose remote cache the attachment was seen, if any.
getAttSeenInVNI(k) ==
    IF Cardinality(nsnToVNIs[k]) = 1 THEN CHOOSE v \in nsnToVNIs[k] : TRUE ELSE NoVNI

getRemoteAttListerForVNI(v) ==
    IF v # NoVNI /\ vniToVnState[v].on THEN vniToVnState[v].cache ELSE [k \in Keys |-> NoAtt]

\* The start of a pass, up to the first half of getAttachment: the attachment as
\* a remote one.  Nothing is done for one seen in several virtual networks.
processNetworkAttachment(k) ==
    /\ phase = "run"
    /\ k \in queue /\ proc[k].pc = "idle"
    /\ queue' = queue \ {k}
    /\ proc' = [proc EXCEPT ![k] =
          IF Cardinality(nsnToVNIs[k]) > 1 THEN Idle
          ELSE [Idle EXCEPT !.pc = "lookup",
                            !.att = getRemoteAttListerForVNI(getAttSeenInVNI(k))[k]]]
    /\ adopted' = adopted \ {k}
    /\ behind' = behind \ {k}
    /\ UNCHANGED <<storeVars, localAtts, vnVars, ifcVars, phase, todo, twofold, lost>>

\* The second half of getAttachment: the attachment as a local one.  One found in
\* both caches is taken for deleted, like one found in neither.
getAttachment(k) ==
    /\ proc[k].pc = "lookup"
    /\ LET attAsRemote == proc[k].att
           attAsLocal == localAtts.cache[k]
           deleted == (attAsRemote = NoAtt) = (attAsLocal = NoAtt)
           att == CASE deleted -> NoAtt
                    [] ~deleted /\ attAsLocal # NoAtt -> attAsLocal
                    [] OTHER -> attAsRemote
           next == IF deleted THEN "remove" ELSE "join"
           moved == nsnToVNStateVNI[k] \notin {NoVNI, AddressVNI(att)}
       IN Continue(k, IF moved THEN [Idle EXCEPT !.pc = "depart", !.att = att, !.then = next]
                               ELSE [Idle EXCEPT !.pc = next, !.att = att])
    /\ UNCHANGED <<storeVars, localAtts, vnVars, ifcVars, startVars, behind>>

-----------------------------------------------------------------------------
(* The vnStates.                                                            *)

\* The vnState leaves the table; its informer is about to be stopped.  Late
\* notifications are kept of the last informer stopped in each VNI.
DropVnState(v) ==
    /\ vniToVnState' = [vniToVnState EXCEPT ![v] = NoVnState]
    /\ lateNotes' = [lateNotes EXCEPT ![v] = vniToVnState[v].notes]

unsetVNStateVNI(k) == nsnToVNStateVNI' = [nsnToVNStateVNI EXCEPT ![k] = NoVNI]

setVNStateVNI(k, v) == nsnToVNStateVNI' = [nsnToVNStateVNI EXCEPT ![k] = v]

Clearing(p, v, names, then) ==
    [p EXCEPT !.pc = "clear", !.vni = v, !.names = names, !.then = then]

\* updateVNStateAfterAttDeparture, up to clearVNResources.
removeAttFromVNState(k) ==
    /\ proc[k].pc = "depart"
    /\ LET v == nsnToVNStateVNI[k]
           state == vniToVnState[v]
       IN \/ /\ state.on /\ state.localAtts \subseteq {k}
             /\ DropVnState(v)
             /\ Continue(k, Clearing(proc[k], v, state.remoteAtts, proc[k].then))
          \/ /\ ~(state.on /\ state.localAtts \subseteq {k})
             /\ vniToVnState' = [vniToVnState EXCEPT ![v].localAtts = @ \ {k},
                                                     ![v].remoteAtts = @ \ {k}]
             /\ Continue(k, GoOn(proc[k], proc[k].then))
             /\ UNCHANGED lateNotes
    /\ unsetVNStateVNI(k)
    /\ UNCHANGED <<storeVars, localAtts, nsnToVNIs, ifcVars, startVars, behind>>

clearVNResources(k) ==
    /\ proc[k].pc = "clear"
    /\ nsnToVNIs' = removeSeenInVNI(proc[k].names, proc[k].vni)
    /\ queue' = queue \cup proc[k].names
    /\ proc' = [proc EXCEPT ![k] = GoOn(proc[k], proc[k].then)]
    /\ UNCHANGED <<storeVars, localAtts, vniToVnState, lateNotes, nsnToVNStateVNI,
                   ifcVars, startVars, behind>>

\* Under way, with the attachment as the remote informer of the VNI had it, over
\* keys that the informer of a new vnState does not find.
ReadTooEarly(v) ==
    {j \in Keys : /\ proc[j].att.node # Here /\ AddressVNI(proc[j].att) = v
                  /\ ~InRemoteWatch(v, atts[j])}

joinLocal(k, v) ==
    LET state == IF vniToVnState[v].on THEN vniToVnState[v] ELSE initVNState(v)
    IN /\ vniToVnState' = [vniToVnState EXCEPT ![v] =
             [state EXCEPT !.localAtts = @ \cup {k}, !.remoteAtts = @ \ {k}]]
       /\ setVNStateVNI(k, v)
       /\ Continue(k, GoOn(proc[k], "update"))
       /\ behind' = IF vniToVnState[v].on THEN behind ELSE behind \cup ReadTooEarly(v)
       /\ UNCHANGED <<lateNotes, nsnToVNIs>>

joinRemote(k, v) ==
    /\ vniToVnState[v].on /\ vniToVnState[v].localAtts \ {k} # {}
    /\ vniToVnState' = [vniToVnState EXCEPT ![v].localAtts = @ \ {k},
                                            ![v].remoteAtts = @ \cup {k}]
    /\ setVNStateVNI(k, v)
    /\ Continue(k, GoOn(proc[k], "update"))
    /\ UNCHANGED <<lateNotes, nsnToVNIs, behind>>

\* It was the last local attachment of its virtual network.
leaveLast(k, v) ==
    /\ vniToVnState[v].on /\ vniToVnState[v].localAtts \subseteq {k}
    /\ DropVnState(v)
    /\ unsetVNStateVNI(k)
    /\ Continue(k, Clearing(proc[k], v, vniToVnState[v].remoteAtts \cup {k}, "idle"))
    /\ UNCHANGED <<nsnToVNIs, behind>>

\* The virtual network became irrelevant since the attachment was looked up.
joinNothing(k, v) ==
    /\ ~vniToVnState[v].on
    /\ unsetVNStateVNI(k)
    /\ nsnToVNIs' = removeSeenInVNI({k}, v)
    /\ Continue(k, GoOn(proc[k], "remove"))
    /\ UNCHANGED <<vniToVnState, lateNotes, behind>>

updateVNStateForExistingAtt(k) ==
    /\ proc[k].pc = "join"
    /\ LET v == AddressVNI(proc[k].att) IN
       \/ proc[k].att.node = Here /\ joinLocal(k, v)
       \/ proc[k].att.node # Here /\ joinRemote(k, v)
       \/ proc[k].att.node # Here /\ leaveLast(k, v)
       \/ proc[k].att.node # Here /\ joinNothing(k, v)
    /\ UNCHANGED <<storeVars, localAtts, ifcVars, startVars>>

-----------------------------------------------------------------------------
(* Interfaces, commands and status.                                         *)

HasLocalIfc(k) == nsnToLocalMainState[k] # NoPair
HasRemoteIfc(k) == nsnToRemoteIfc[k] # NoIfc

setLocalAttMainState(k, pair) ==
    nsnToLocalMainState' = [nsnToLocalMainState EXCEPT ![k] = pair]

\* The report is kept if the attachment has a local interface, whichever.
setExecReport(k, report) ==
    nsnToPostCreateExecReport' =
        [nsnToPostCreateExecReport EXCEPT ![k] = IF HasLocalIfc(k) THEN report ELSE @]

unsetLocalAttState(k) ==
    /\ nsnToLocalMainState' = [nsnToLocalMainState EXCEPT ![k] = NoPair]
    /\ nsnToPostCreateExecReport' = [nsnToPostCreateExecReport EXCEPT ![k] = NoPair]

assignRemoteIfc(k, ifc) == nsnToRemoteIfc' = [nsnToRemoteIfc EXCEPT ![k] = ifc]

unsetRemoteIfc(k) == assignRemoteIfc(k, NoIfc)

\* Mutant: the status of the attachment is trusted on its own node too.
MutAttHostIP(att) == att.host

attHostIP(att) == IF att.node = Here THEN Here ELSE att.host

\* Mutant: only the hosts are compared.
MutIfcNeedsUpdate(ifcHost, ifcPair, host, pair) == ifcHost # host

ifcNeedsUpdate(ifcHost, ifcPair, host, pair) ==
    ifcHost # host \/ generateMACAddr(ifcPair) # generateMACAddr(pair)

newIfcNeedsToBeCreated(k, att) ==
    LET remote == nsnToRemoteIfc[k] IN
    \/ ~HasLocalIfc(k) /\ ~HasRemoteIfc(k)
    \/ /\ HasLocalIfc(k)
       /\ ifcNeedsUpdate(Here, nsnToLocalMainState[k], attHostIP(att), att.pair)
    \/ /\ HasRemoteIfc(k)
       /\ ifcNeedsUpdate(remote.host, remote.pair, attHostIP(att), att.pair)

\* The attachment as setAttStatus writes it; a forbidden post-create command is
\* reported among its errors.
WithStatus(k, att, report) ==
    [att EXCEPT !.host = Here, !.mac = generateMACAddr(att.pair),
                !.report = report, !.errs = (PostCreateExec[k] = "forbidden")]

\* The interface is in place: compare the status of a local attachment.
IfcDone(k, p, report) ==
    IF p.att.node # Here \/ WithStatus(k, p.att, report) = p.att THEN Idle
    ELSE [p EXCEPT !.pc = "status", !.report = report]

\* Mutant: the old local interface stays in the fabric.
MutDeleteOldLocalIfc(k) ==
    unsetLocalAttState(k) /\ UNCHANGED <<fabricVars, nsnToRemoteIfc, commands>>

\* The post-delete command of the old interface changes no state of the agent.
\* The call to the fabric and the update of the table that follows it are one
\* step, here and in createIfc: no other goroutine reads the entry in between,
\* since the key has one pass at a time, and a crash discards the table.
deleteOldLocalIfc(k) ==
    /\ DeleteLocalIfc(nsnToLocalMainState[k])
    /\ unsetLocalAttState(k)
    /\ UNCHANGED <<nsnToRemoteIfc, commands>>

deleteOldRemoteIfc(k) ==
    /\ DeleteRemoteIfc(nsnToRemoteIfc[k])
    /\ unsetRemoteIfc(k)
    /\ UNCHANGED <<nsnToLocalMainState, nsnToPostCreateExecReport, commands>>

\* createOrUpdateIfc, up to the creation of the new interface.
updateIfc(k) ==
    /\ proc[k].pc = "update"
    /\ LET p == proc[k]
           need == newIfcNeedsToBeCreated(k, p.att)
       IN \/ need /\ HasLocalIfc(k) /\ deleteOldLocalIfc(k) /\ Continue(k, GoOn(p, "create"))
          \/ /\ need /\ ~HasLocalIfc(k) /\ HasRemoteIfc(k)
             /\ deleteOldRemoteIfc(k) /\ Continue(k, GoOn(p, "create"))
          \/ /\ need /\ ~HasLocalIfc(k) /\ ~HasRemoteIfc(k)
             /\ Continue(k, GoOn(p, "create")) /\ UNCHANGED ifcVars
          \/ /\ ~need
             /\ Continue(k, IfcDone(k, p, nsnToPostCreateExecReport[k]))
             /\ UNCHANGED ifcVars
    /\ UNCHANGED <<storeVars, localAtts, vnVars, startVars, behind>>

LaunchCommand(k, pair) ==
    commands' = IF PostCreateExec[k] = "allowed"
                THEN commands \cup {[key |-> k, pair |-> pair]} ELSE commands

createIfc(k) ==
    /\ proc[k].pc = "create"
    /\ LET att == proc[k].att
           ifc == [pair |-> att.pair, host |-> attHostIP(att)]
       IN \/ /\ ifc.host = Here
             /\ CreateLocalIfc(att.pair)
             /\ setLocalAttMainState(k, att.pair)
             /\ LaunchCommand(k, att.pair)
             /\ Continue(k, IfcDone(k, proc[k], NoPair))
             /\ UNCHANGED <<nsnToRemoteIfc, nsnToPostCreateExecReport>>
          \/ /\ ifc.host # Here
             /\ CreateRemoteIfc(ifc)
             /\ assignRemoteIfc(k, ifc)
             /\ Continue(k, IfcDone(k, proc[k], NoPair))
             /\ UNCHANGED <<nsnToLocalMainState, nsnToPostCreateExecReport, commands>>
          \/ InUse(att.pair) /\ Retry(k) /\ UNCHANGED ifcVars
    /\ UNCHANGED <<storeVars, localAtts, vnVars, startVars, behind>>

\* The update carries the ResourceVersion of the attachment in the cache.  Objects
\* stand for their versions: an object that was changed and changed back since
\* is taken for the one in the cache, where the code gets a conflict and retries.
setAttStatus(k) ==
    /\ proc[k].pc = "status"
    /\ LET p == proc[k] IN
       \/ /\ atts[k] = p.att
          /\ PutAtt(k, WithStatus(k, p.att, p.report))
          /\ Continue(k, Idle)
       \/ atts[k] # p.att /\ Retry(k) /\ UNCHANGED <<atts, localAtts, vniToVnState>>
    /\ UNCHANGED <<homes, budget, lateNotes, nsnToVNStateVNI, nsnToVNIs, ifcVars,
                   startVars, behind>>

\* processDeletedAtt, after the departure from the vnState.
processDeletedAtt(k) ==
    /\ proc[k].pc = "remove"
    /\ \/ HasLocalIfc(k) /\ deleteOldLocalIfc(k)
       \/ ~HasLocalIfc(k) /\ HasRemoteIfc(k) /\ deleteOldRemoteIfc(k)
       \/ ~HasLocalIfc(k) /\ ~HasRemoteIfc(k) /\ UNCHANGED ifcVars
    /\ Continue(k, Idle)
    /\ UNCHANGED <<storeVars, localAtts, vnVars, startVars, behind>>

\* A post-create command ends (RunCommand).
RunCommand(c) ==
    /\ commands' = commands \ {c}
    /\ setExecReport(c.key, c.pair)
    /\ queue' = queue \cup {c.key}
    /\ UNCHANGED <<storeVars, localAtts, vnVars, nsnToLocalMainState, nsnToRemoteIfc,
                   fabricVars, proc, startVars, behind>>

-----------------------------------------------------------------------------
(* Start-up: the interfaces the fabric has are matched with attachments.    *)

\* The attachments in a cache with the VNI and the IP of an interface.
ifcOwnerAtts(cache, pair) == {k \in Keys : cache[k].pair = pair}

\* A second interface found for an attachment replaces the first.
matchLocalIfc(k, ifc) ==
    /\ setLocalAttMainState(k, ifc)
    /\ nsnToPostCreateExecReport' =
          [nsnToPostCreateExecReport EXCEPT ![k] = localAtts.cache[k].report]
    /\ IF HasLocalIfc(k) THEN DeleteLocalIfc(nsnToLocalMainState[k])
                         ELSE UNCHANGED fabricVars

syncPreExistingLocalIfc ==
    /\ phase = "syncLocal"
    /\ \E ifc \in todo :
         LET owners == ifcOwnerAtts(localAtts.cache, ifc) IN
         /\ \/ \E k \in owners : owners = {k} /\ matchLocalIfc(k, ifc)
            \/ /\ Cardinality(owners) # 1
               /\ DeleteLocalIfc(ifc)
               /\ UNCHANGED <<nsnToLocalMainState, nsnToPostCreateExecReport>>
         /\ todo' = todo \ {ifc}
    /\ UNCHANGED <<storeVars, localAtts, vnVars, nsnToRemoteIfc, commands, queue,
                   proc, phase, adopted, twofold, lost, behind>>

\* Every virtual network of a local attachment gets its vnState.
startRemoteInformers ==
    /\ phase = "syncLocal" /\ todo = {}
    /\ LET locals(v) == {k \in Keys : AddressVNI(localAtts.cache[k]) = v} IN
       /\ vniToVnState' = [v \in VNIs |->
             IF locals(v) = {} THEN NoVnState
             ELSE [initVNState(v) EXCEPT !.localAtts = locals(v)]]
       /\ nsnToVNStateVNI' = [k \in Keys |-> AddressVNI(localAtts.cache[k])]
    /\ phase' = "syncRemote"
    /\ todo' = remoteIfcs
    /\ UNCHANGED <<storeVars, localAtts, lateNotes, nsnToVNIs, ifcVars, queue, proc,
                   adopted, twofold, lost, behind>>

\* An attachment that has a local interface too loses it in the fabric, not in
\* the agent's table.
matchRemoteIfc(k, ifc) ==
    /\ assignRemoteIfc(k, ifc)
    /\ adopted' = adopted \cup {k}
    /\ twofold' = IF HasLocalIfc(k) THEN twofold \cup {ifc} ELSE twofold
    /\ lost' = IF ~HasRemoteIfc(k) /\ HasLocalIfc(k)
               THEN lost \cup {nsnToLocalMainState[k]} ELSE lost
    /\ CASE HasRemoteIfc(k) -> DeleteRemoteIfc(nsnToRemoteIfc[k])
         [] ~HasRemoteIfc(k) /\ HasLocalIfc(k) -> DeleteLocalIfc(nsnToLocalMainState[k])
         [] OTHER -> UNCHANGED fabricVars

syncPreExistingRemoteIfc ==
    /\ phase = "syncRemote"
    /\ \E ifc \in todo :
         LET owners == ifcOwnerAtts(getRemoteAttListerForVNI(ifc.pair[1]), ifc.pair)
         IN /\ \/ \E k \in owners : owners = {k} /\ matchRemoteIfc(k, ifc)
               \/ /\ Cardinality(owners) # 1
                  /\ DeleteRemoteIfc(ifc)
                  /\ UNCHANGED <<nsnToRemoteIfc, adopted, twofold, lost>>
            /\ todo' = todo \ {ifc}
    /\ UNCHANGED <<storeVars, localAtts, vnVars, nsnToLocalMainState,
                   nsnToPostCreateExecReport, commands, queue, proc, phase, behind>>

\* The end of syncPreExistingIfcs: Run launches the workers.
startWorkers ==
    /\ phase = "syncRemote" /\ todo = {}
    /\ phase' = "run"
    /\ UNCHANGED <<storeVars, localAtts, vnVars, ifcVars, queue, proc, todo, adopted,
                   twofold, lost, behind>>

-----------------------------------------------------------------------------
(* The environment.                                                         *)

Spend(event) ==
    /\ budget[event] > 0
    /\ budget' = [budget EXCEPT ![event] = @ - 1]

\* Users create attachments and move them between nodes, the IPAM controller
\* gives each its own address, agents elsewhere write their host IP.  A new
\* attachment is written once it has its address: before that no agent sees it.
WriteAtt(k, node, pair, host) ==
    /\ Spend("write")
    /\ \A j \in Keys \ {k} : atts[j].pair # pair
    /\ host \in {atts[k].host} \cup ({node} \ {Here})
    /\ [atts[k] EXCEPT !.node = node, !.pair = pair, !.host = host] # atts[k]
    /\ PutAtt(k, [atts[k] EXCEPT !.node = node, !.pair = pair, !.host = host])
    /\ homes' = [homes EXCEPT ![k] = @ \cup {node}]
    /\ UNCHANGED <<lateNotes, nsnToVNStateVNI, nsnToVNIs, ifcVars, queue, proc, startVars, behind>>

DeleteAtt(k) ==
    /\ Spend("write")
    /\ atts[k] # NoAtt
    /\ PutAtt(k, NoAtt)
    /\ UNCHANGED <<homes, lateNotes, nsnToVNStateVNI, nsnToVNIs, ifcVars, queue, proc,
                   startVars, behind>>

\* The agent starts with empty tables and a list of the local attachments.
StartAgent(store, pairs) ==
    LET list == [k \in Keys |-> IF InLocalWatch(store[k]) THEN store[k] ELSE NoAtt]
    IN [localAtts |-> [cache |-> list, events |-> <<>>],
        queue |-> {k \in Keys : list[k] # NoAtt}, phase |-> "syncLocal", todo |-> pairs]

\* The agent dies and is started again; the fabric keeps its interfaces.
Crash ==
    /\ Spend("crash")
    /\ LET s == StartAgent(atts, localIfcs) IN
       /\ localAtts' = s.localAtts /\ queue' = s.queue
       /\ phase' = s.phase /\ todo' = s.todo
    /\ vniToVnState' = [v \in VNIs |-> NoVnState]
    /\ lateNotes' = [v \in VNIs |-> <<>>]
    /\ nsnToVNStateVNI' = [k \in Keys |-> NoVNI]
    /\ nsnToLocalMainState' = [k \in Keys |-> NoPair]
    /\ nsnToPostCreateExecReport' = [k \in Keys |-> NoPair]
    /\ nsnToRemoteIfc' = [k \in Keys |-> NoIfc]
    /\ nsnToVNIs' = [k \in Keys |-> {}]
    /\ proc' = [k \in Keys |-> Idle]
    /\ commands' = {}
    /\ adopted' = {}
    /\ twofold' = {}
    /\ lost' = {}
    /\ behind' = {}
    /\ UNCHANGED <<atts, homes, fabricVars>>

\* A call to the fabric or to the API server fails, without effect.
Fault(k) ==
    /\ \/ proc[k].pc \in {"create", "status"}
       \/ /\ proc[k].pc = "update" /\ newIfcNeedsToBeCreated(k, proc[k].att)
          /\ HasLocalIfc(k) \/ HasRemoteIfc(k)
       \/ proc[k].pc = "remove" /\ (HasLocalIfc(k) \/ HasRemoteIfc(k))
    /\ Spend("fault")
    /\ Retry(k)
    /\ UNCHANGED <<atts, homes, localAtts, vnVars, ifcVars, startVars, behind>>

-----------------------------------------------------------------------------

Init ==
    /\ atts = [k \in Keys |-> NoAtt]
    /\ homes = [k \in Keys |-> {}]
    /\ FabricInit
    /\ LET s == StartAgent(atts, {}) IN
       /\ localAtts = s.localAtts /\ queue = s.queue
       /\ phase = s.phase /\ todo = s.todo
    /\ vniToVnState = [v \in VNIs |-> NoVnState]
    /\ lateNotes = [v \in VNIs |-> <<>>]
    /\ nsnToVNStateVNI = [k \in Keys |-> NoVNI]
    /\ nsnToLocalMainState = [k \in Keys |-> NoPair]
    /\ nsnToPostCreateExecReport = [k \in Keys |-> NoPair]
    /\ nsnToRemoteIfc = [k \in Keys |-> NoIfc]
    /\ nsnToVNIs = [k \in Keys |-> {}]
    /\ proc = [k \in Keys |-> Idle]
    /\ commands = {}
    /\ adopted = {}
    /\ twofold = {}
    /\ lost = {}
    /\ behind = {}
    /\ budget \in Budgets

InformerNext ==
    \/ onLocalAtt
    \/ \E v \in VNIs : IndexRemoteAtt(v)
    \/ \E v \in VNIs : onRemoteAtt(v)
    \/ \E v \in VNIs : onLateRemoteAtt(v)
    \/ \E v \in VNIs : EndStoppedInformers(v)

StartNext ==
    \/ syncPreExistingLocalIfc
    \/ startRemoteInformers
    \/ syncPreExistingRemoteIfc
    \/ startWorkers

\* One step of the pass over the key.
Work(k) ==
    \/ processNetworkAttachment(k)
    \/ getAttachment(k)
    \/ removeAttFromVNState(k)
    \/ clearVNResources(k)
    \/ updateVNStateForExistingAtt(k)
    \/ updateIfc(k)
    \/ createIfc(k)
    \/ setAttStatus(k)
    \/ processDeletedAtt(k)

EnvironmentNext ==
    \/ \E k \in Keys, n \in Hosts, p \in Pairs, h \in Hosts \cup {""} : WriteAtt(k, n, p, h)
    \/ \E k \in Keys : DeleteAtt(k)
    \/ Crash
    \/ \E k \in Keys : Fault(k)

Next ==
    \/ InformerNext
    \/ StartNext
    \/ \E k \in Keys : Work(k)
    \/ \E c \in commands : RunCommand(c)
    \/ EnvironmentNext

Spec == Init /\ [][Next]_vars

-----------------------------------------------------------------------------
(* Properties.                                                              *)

\* Nothing is left to do for the agent.
Quiet ==
    /\ phase = "run" /\ queue = {} /\ commands = {}
    /\ \A k \in Keys : proc[k].pc = "idle"
    /\ localAtts.events = <<>>
    /\ \A v \in VNIs : /\ vniToVnState[v].events = <<>> /\ vniToVnState[v].notes = <<>>
                       /\ lateNotes[v] = <<>>

IsLocal(k) == InLocalWatch(atts[k])

Relevant(v) == \E k \in Keys : IsLocal(k) /\ AddressVNI(atts[k]) = v

\* The attachment is remote, in a virtual network that is present on the node.
IsRemote(k) ==
    \E v \in VNIs : Relevant(v) /\ InRemoteWatch(v, atts[k])

Ambiguous(k) == Cardinality(nsnToVNIs[k]) > 1

\* The agent's tables have the interface the attachment should have, and no
\* other, and the status of a local one says so.
Recorded(k) ==
    /\ nsnToLocalMainState[k] = IF IsLocal(k) THEN atts[k].pair ELSE NoPair
    /\ nsnToRemoteIfc[k] = IF IsRemote(k) THEN [pair |-> atts[k].pair, host |-> atts[k].host]
                                          ELSE NoIfc
    /\ IsLocal(k) => atts[k] = WithStatus(k, atts[k], nsnToPostCreateExecReport[k])

\* The interfaces that the tables have for the attachment are in the fabric.
InFabric(k) ==
    /\ HasLocalIfc(k) => nsnToLocalMainState[k] \in localIfcs
    /\ HasRemoteIfc(k) => nsnToRemoteIfc[k] \in remoteIfcs

\* The attachment has the interface it should have, in the tables and in the
\* fabric, and no other, and the status of a local one says so.
UpToDate(k) == Recorded(k) /\ InFabric(k)

\* The agent's tables hold addresses and interfaces of attachments only: above
\* all, an interface is never made towards a host that a status does not name.
TypeOK ==
    /\ atts \in [Keys -> NetworkAttachment]
    /\ localIfcs \subseteq Pairs /\ remoteIfcs \subseteq RemoteNetIfc
    /\ nsnToVNStateVNI \in [Keys -> VNIs \cup {NoVNI}]
    /\ nsnToLocalMainState \in [Keys -> Pairs \cup {NoPair}]
    /\ nsnToPostCreateExecReport \in [Keys -> Pairs \cup {NoPair}]
    /\ nsnToRemoteIfc \in [Keys -> RemoteNetIfc \cup {NoIfc}]
    /\ nsnToVNIs \in [Keys -> SUBSET VNIs]
    /\ queue \subseteq Keys
    /\ proc \in [Keys -> Pass]
    /\ commands \subseteq [key : Keys, pair : Pairs]
    /\ phase \in {"syncLocal", "syncRemote", "run"}

\* Once the workers run, every interface of the fabric is in the agent's
\* tables, where it can be found when it has to be deleted.  The exception is a
\* remote interface matched at start-up to an attachment that had been matched to
\* a local one before: the tables keep both, and when the attachment needs a new
\* interface the agent deletes the local one only and forgets the other.
FabricOwned ==
    phase = "run" =>
       /\ localIfcs \subseteq {nsnToLocalMainState[k] : k \in Keys}
       /\ remoteIfcs \ twofold \subseteq {nsnToRemoteIfc[k] : k \in Keys}

\* A virtual network that an attachment seen in two remote caches holds on the
\* node: getAttachment gives up on it, so it is never taken out of localAtts.
HeldByAmbiguous(v) == \E j \in vniToVnState[v].localAtts : Ambiguous(j)

\* When the agent has nothing left to do, an attachment it stored in a vnState
\* has the interface and the status that its object in the API server asks for,
\* in the agent's tables and in the fabric, whatever was read before a lock was
\* released and used after, and an attachment in no vnState has no interface.
\* What is left out is what the agent does not settle: an attachment seen in two
\* remote caches, and the remote attachments of a virtual network that such a one
\* holds; a remote attachment that a pass read from the vnState of its VNI before
\* that one was replaced and stored in the new one, whose informer never had it
\* and so will never report that it is gone (behind); a remote interface adopted
\* at start-up whose virtual network left the node before its attachment had a
\* pass (adopted), and one adopted by an attachment that had a local interface too
\* (twofold), with the pair of that local interface (lost).
MembersUpToDate ==
    Quiet => \A k \in Keys :
       ~Ambiguous(k) /\ k \notin adopted /\ nsnToRemoteIfc[k] \notin twofold
          /\ nsnToLocalMainState[k] \notin lost =>
       LET v == nsnToVNStateVNI[k] IN
       /\ v = NoVNI => ~HasLocalIfc(k) /\ ~HasRemoteIfc(k)
       /\ v # NoVNI => \/ UpToDate(k)
                       \/ /\ ~IsLocal(k) /\ k \in vniToVnState[v].remoteAtts
                          /\ IF InRemoteWatch(v, atts[k]) THEN HeldByAmbiguous(v)
                                                          ELSE k \in behind

\* When the agent has nothing left to do, an attachment that never was on
\* another node has its local interface, with the address it was given last, no
\* remote interface, and the status of that interface: neither a change of
\* address, nor a deletion and a re-creation, nor a restart loses it.  The agent's
\* table has that interface in any case.  The fabric has it too, unless start-up
\* deleted a local interface with that address for the sake of a remote one of
\* the same attachment: the table keeps the entry, and a later pass over that
\* attachment deletes the address once more, whoever has it by then.
ResidentsServed ==
    Quiet => \A k \in Keys : homes[k] = {Here} =>
                Recorded(k) /\ (atts[k].pair \notin lost => InFabric(k))

\* When the agent has nothing left to do, an attachment elsewhere that never was
\* on this node, with an address and a host, and that the remote informer of its
\* virtual network has reported, has its remote interface, with its last address
\* and host, in the table and in the fabric, as long as the network is present on
\* this node, and none otherwise.
\* The attachments that were on this node must never have been elsewhere: one
\* that wandered may be forgotten (LocalServed), and its virtual network with it,
\* or may hold a virtual network that has left the node.
StrangersServed ==
    Quiet /\ (\A j \in Keys : Here \in homes[j] => homes[j] = {Here}) =>
       \A k \in Keys : LET v == AddressVNI(atts[k]) IN
          Here \notin homes[k] /\ nsnToVNIs[k] = {v} /\ InRemoteWatch(v, atts[k])
             => UpToDate(k)

\* getAttachment (connectionagent.go:695-699) gives up on an attachment found in
\* more than one cache because "It will be deleted by one of the caches soon,
\* and this will cause a reference to be enqueued, so it will be processed
\* again": when the agent has nothing left to do, each attachment of the node
\* has a local interface.
LocalServed == Quiet => \A k \in Keys : IsLocal(k) => HasLocalIfc(k)
=============================================================================
