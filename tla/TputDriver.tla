----------------------------- MODULE TputDriver ------------------------------
(***************************************************************************)
(* The attachment throughput driver (cmd/attachment-tput-driver/main.go):   *)
(* threads create and delete NetworkAttachments in the slots of some        *)
(* virtual networks, notifications tell what became of them, and the        *)
(* driver keeps track of addresses, readiness and test results.             *)
(*                                                                          *)
(* Each critical section and each call to the API server is a step.  The    *)
(* schedule in time is left out: a thread may act at any time.  So are the  *)
(* histograms, and which subnet of its virtual network and which peer an    *)
(* attachment gets.                                                         *)
(***************************************************************************)
EXTENDS Integers, Sequences, FiniteSetsExt

CONSTANTS
    Flags,   \* the command lines
    Nodes,   \* names of the nodes
    IPs,     \* addresses that attachments get
    Budgets  \* how often each kind of environment event may happen

NoNode == ""

FlagNames == [num_nets : Nat, top_net_size : Nat \ {0}, law_bias : Nat,
              singleNetwork : BOOLEAN, just_count : BOOLEAN, justCreate : BOOLEAN,
              threads : Nat \ {0}, num_attachments : Nat]

ASSUME DriverAssumption ==
    /\ Flags \subseteq FlagNames
    /\ NoNode \notin Nodes
    /\ Budgets \subseteq [{"status", "fault", "signal"} -> Nat]

VARIABLES
    flags,          \* the command line
    virtNets,       \* the virtual networks
    vnAttachments,  \* the slots in the order the threads take them
    slots,          \* <<vnIndex, slotIndex>> -> Slot
    cds,            \* vnIndex -> ConnectivityDomain
    addrs,          \* vnIndex -> address -> names of the attachments that have it
    nodeMap,        \* vnIndex -> node -> address -> name, if any
    warned,         \* multiOwnerWarnings > 0
    stoppers,       \* stoppers > 0
    stopped,        \* stopCh is closed
    thread,         \* thread -> its state
    phase,          \* of main
    subnets,        \* the Subnets that main has created
    initializedSubnets, \* the Subnets of which main was notified
    atts,           \* the NetworkAttachments of this run in the API server
    events,         \* notifications on their way to the informer
    lost,           \* attachments the driver cannot know of, or gave up (history)
    budget          \* kind of environment event -> how many are left

bookVars == <<slots, cds, addrs, nodeMap, warned>>
setupVars == <<flags, virtNets, vnAttachments, subnets, initializedSubnets>>
apiVars == <<atts, events>>
vars == <<setupVars, bookVars, stoppers, stopped, thread, phase, apiVars, lost, budget>>

-----------------------------------------------------------------------------
(* The virtual networks.                                                    *)

CeilDiv(a, b) == (a + b - 1) \div b

\* The power law, with its default exponent 1.
NetSize(fl, i) == CeilDiv((1 + fl.law_bias) * fl.top_net_size, i + fl.law_bias)

\* Slots of the first subnet; the second has the others.
FirstSubnetSize(fl, i) ==
    NetSize(fl, i) - IF fl.singleNetwork THEN 0 ELSE NetSize(fl, i) \div 2

NumSubnets(fl, i) == IF FirstSubnetSize(fl, i) = NetSize(fl, i) THEN 1 ELSE 2

\* An estimate makes no subnets; it counts the first block of addresses only.
NumBlocks(fl, i) == IF fl.just_count THEN 1 ELSE NumSubnets(fl, i)

\* Ceil(Log2(n + 3)), for a subnetSizeFactor of 1.
suffixBits(n) == Min({b \in 0 .. 24 : 2^b >= n + 3})

\* The addresses are counted from the base address.
VirtNet(fl, i, addr0) ==
    LET bits == suffixBits(FirstSubnetSize(fl, i))
    IN [addr0 |-> addr0, addrF |-> addr0 + NumBlocks(fl, i) * 2^bits - 1,
        suffixBits |-> bits, size |-> NetSize(fl, i),
        subnets |-> IF fl.just_count THEN 0 ELSE NumSubnets(fl, i)]

\* Mutant: the second subnet's addresses are given to the next network too.
MutMakeVirtNets(fl) ==
    LET addr0[i \in 1 .. fl.num_nets] ==
          IF i = 1 THEN 0
          ELSE addr0[i - 1] + 2^VirtNet(fl, i - 1, addr0[i - 1]).suffixBits
    IN [i \in 1 .. fl.num_nets |-> VirtNet(fl, i, addr0[i])]

\* Each network begins where the one before ended.
MakeVirtNets(fl) ==
    LET addr0[i \in 1 .. fl.num_nets] ==
          IF i = 1 THEN 0 ELSE VirtNet(fl, i - 1, addr0[i - 1]).addrF + 1
    IN [i \in 1 .. fl.num_nets |-> VirtNet(fl, i, addr0[i])]

SlotsOf(nets) == UNION {{<<i, j>> : j \in 1 .. nets[i].size} : i \in DOMAIN nets}

SubnetsOf(nets) == UNION {{<<i, n>> : n \in 1 .. nets[i].subnets} : i \in DOMAIN nets}

\* main goes on to drive: it is not only an estimate, and there are enough slots
\* if nothing is to be deleted.
Drives(fl, nets) ==
    /\ ~fl.just_count
    /\ ~(fl.justCreate /\ fl.num_attachments > Cardinality(SlotsOf(nets)))

numThreads == Min({flags.threads, Cardinality(DOMAIN slots)})

Threads == 0 .. numThreads - 1

-----------------------------------------------------------------------------
(* Connectivity domains.                                                    *)

NoIndex == -1

NoteTested(cd, j) ==
    [cd EXCEPT !.pendingIndices = @ \ {j}, !.latestIndex = j]

NotePending(cd, j) == [cd EXCEPT !.pendingIndices = @ \cup {j}]

NoteNoTest(cd, j) ==
    [cd EXCEPT !.pendingIndices = @ \ {j},
               !.latestIndex = IF @ = j THEN NoIndex ELSE @]

NothingToWaitFor(cd) == cd.latestIndex # NoIndex \/ cd.pendingIndices = {}

\* selectWork: thread t takes every numThreads-th slot.
WorkLen(t) == (Len(vnAttachments) + numThreads - 1 - t) \div numThreads

Work(t, i) == vnAttachments[t + (i % WorkLen(t)) * numThreads + 1]

NumHere(t) == (flags.num_attachments + numThreads - 1 - t) \div numThreads

\* cd.change.Broadcast(): every waiter of the domain looks again.
Broadcast(threads, i) ==
    [t \in DOMAIN threads |->
        IF threads[t].pc = "asleep" /\ Work(t, threads[t].iCreate)[1] = i
        THEN [threads[t] EXCEPT !.pc = "awake"] ELSE threads[t]]

-----------------------------------------------------------------------------
(* Slots and notifications.                                                 *)

NoName == <<>>
NoAtt == [name |-> NoName, ip |-> 0, ifc |-> FALSE, report |-> "none", errs |-> FALSE]

EmptySlot(j) ==
    [name |-> NoName, node |-> NoNode, natt |-> NoAtt, preCreate |-> FALSE, ready |-> FALSE,
     tested |-> FALSE, broken |-> FALSE, nextIndex |-> j]

\* An address changes from old to new; 0 is no address.
Moved(owners, old, new, name) ==
    [ip \in IPs |-> (owners[ip] \ (IF ip = old THEN {name} ELSE {}))
                      \cup (IF ip = new THEN {name} ELSE {})]

\* Mutant: the new owner of an address replaces the old ones.
MutIpAddressChangedInNS(i, old, new, name) ==
    /\ addrs' = [addrs EXCEPT ![i] =
          [ip \in IPs |-> IF ip = new THEN {name} ELSE @[ip] \ (IF ip = old THEN {name} ELSE {})]]
    /\ warned' = (warned \/ (new # 0 /\ Cardinality(addrs'[i][new]) > 1))

ipAddressChangedInNS(i, old, new, name) ==
    /\ addrs' = [addrs EXCEPT ![i] = Moved(@, old, new, name)]
    /\ warned' = (warned \/ (new # 0 /\ Cardinality(addrs'[i][new]) > 1))

ipAddressChangedAtNode(i, node, old, new, name) ==
    nodeMap' = [nodeMap EXCEPT ![i][node] =
        [ip \in IPs |-> CASE ip = new -> name
                          [] ip # new /\ ip = old /\ @[ip] = name -> NoName
                          [] OTHER -> @[ip]]]

ipAddressChanged(i, node, old, new, name) ==
    /\ ipAddressChangedAtNode(i, node, old, new, name)
    /\ ipAddressChangedInNS(i, old, new, name)

\* observeState.  natt is of the slot's current attachment.
Observed(slot, natt) ==
    [slot EXCEPT !.natt = natt,
                 !.ready = @ \/ natt.ifc,
                 !.tested = @ \/ (natt.ifc /\ natt.report # "none"),
                 !.broken = @ \/ (~natt.ifc /\ natt.errs)]

\* What the notification tells the connectivity domain, once per attachment.
Verdict(slot, natt) ==
    CASE natt.ifc /\ ~slot.tested -> natt.report
      [] ~natt.ifc /\ natt.errs /\ ~slot.broken -> "broken"
      [] OTHER -> "none"

observeState(s, natt) ==
    LET slot == slots[s]
        i == s[1]
        verdict == Verdict(slot, natt)
    IN /\ slots' = [slots EXCEPT ![s] = Observed(slot, natt)]
       /\ IF slot.natt.ip # natt.ip
          THEN ipAddressChanged(i, slot.node, slot.natt.ip, natt.ip, slot.name)
          ELSE UNCHANGED <<addrs, nodeMap, warned>>
       /\ cds' = CASE verdict = "none" -> cds
                   [] verdict = "pass" -> [cds EXCEPT ![i] = NoteTested(@, s[2])]
                   [] verdict \in {"fail", "broken"} -> [cds EXCEPT ![i] = NoteNoTest(@, s[2])]
       /\ thread' = IF verdict # "none" /\ (verdict = "pass" \/ cds'[i].pendingIndices = {})
                    THEN Broadcast(thread, i) ELSE thread
       /\ stoppers' = (stoppers \/ verdict \in {"fail", "broken"})

\* attachmentEventHandler: OnAdd and OnUpdate; a tardy notification is dropped.
OnAttachmentEvent ==
    /\ events # <<>>
    /\ LET e == Head(events) IN
       \/ slots[e.slot].name = e.natt.name /\ observeState(e.slot, e.natt)
       \/ /\ slots[e.slot].name # e.natt.name
          /\ UNCHANGED <<bookVars, thread, stoppers>>
    /\ events' = Tail(events)
    /\ UNCHANGED <<setupVars, stopped, phase, atts, lost, budget>>

\* Mutant: the name of the node stays.
MutClosed(slot) ==
    [slot EXCEPT !.name = NoName, !.natt = NoAtt, !.preCreate = FALSE]

\* Slot.close.  The connectivity domain is not told.
Closed(slot) ==
    [slot EXCEPT !.name = NoName, !.node = NoNode, !.natt = NoAtt, !.preCreate = FALSE]

CloseSlot(s, slot) ==
    IF slot.preCreate /\ slot.natt.ip # 0
    THEN ipAddressChanged(s[1], slot.node, slot.natt.ip, 0, slot.name)
    ELSE UNCHANGED <<addrs, nodeMap, warned>>

-----------------------------------------------------------------------------
(* RunThread.                                                               *)

NewThread ==
    [pc |-> "loop", iCreate |-> 0, iDelete |-> 0, createAllowed |-> TRUE,
     timer |-> "off", natt |-> NoName, early |-> FALSE]

Step(t, pc) == [thread EXCEPT ![t].pc = pc]

\* createAllowed, after the look at stopCh.
MayCreate(t) ==
    LET th == thread[t]
    IN /\ th.createAllowed /\ ~stopped
       /\ th.iCreate < th.iDelete + WorkLen(t)
       /\ th.iCreate < NumHere(t)

At(t, pc) == phase = "drive" /\ thread[t].pc = pc

\* The thread has done its work, or somebody asked to stop driving.
EndThread(t) ==
    /\ At(t, "loop")
    /\ thread[t].iDelete >= NumHere(t) \/ stoppers \/ (flags.justCreate /\ ~MayCreate(t))
    /\ thread' = [thread EXCEPT ![t].pc = "done",
                                ![t].early = thread[t].iDelete < NumHere(t)]
    /\ UNCHANGED <<setupVars, bookVars, stoppers, stopped, phase, apiVars, lost, budget>>

Going(t) == At(t, "loop") /\ thread[t].iDelete < NumHere(t) /\ ~stoppers

\* TimeLimitedWait: the timer is set before the thread is registered as a
\* waiter; when it goes off before that nobody hears it.
FallAsleep(t) ==
    \E timer \in {"set", "off"} :
        thread' = [thread EXCEPT ![t].pc = "asleep", ![t].timer = timer]

\* GetReadyAttachment, until it waits.
GetReadyAttachment(t) ==
    /\ Going(t) /\ MayCreate(t)
    /\ LET cd == cds[Work(t, thread[t].iCreate)[1]] IN
       \/ NothingToWaitFor(cd) /\ thread' = Step(t, "name")
       \/ ~NothingToWaitFor(cd) /\ FallAsleep(t)
    /\ UNCHANGED <<setupVars, bookVars, stoppers, stopped, phase, apiVars, lost, budget>>

\* The timer of a waiting thread broadcasts.
TimerGoesOff(t) ==
    /\ At(t, "asleep") /\ thread[t].timer = "set"
    /\ thread' = [Broadcast(thread, Work(t, thread[t].iCreate)[1]) EXCEPT ![t].timer = "off"]
    /\ UNCHANGED <<setupVars, bookVars, stoppers, stopped, phase, apiVars, lost, budget>>

\* The loop around the wait.
LookAgain(t) ==
    /\ At(t, "awake")
    /\ LET cd == cds[Work(t, thread[t].iCreate)[1]] IN
       \/ /\ NothingToWaitFor(cd) \/ thread[t].timer = "off"
          /\ thread' = [thread EXCEPT ![t].pc = "name", ![t].timer = "off"]
       \/ ~NothingToWaitFor(cd) /\ thread[t].timer = "set" /\ FallAsleep(t)
    /\ UNCHANGED <<setupVars, bookVars, stoppers, stopped, phase, apiVars, lost, budget>>

\* Mutant: nextIndex is not taken from the slot.
MutObjName(s) == <<s[1], s[2]>>

objname(s) == <<s[1], slots[s].nextIndex>>

\* Mutant: the connectivity domain is told nothing.
MutSetCurrentName(s, name, node, base) ==
    /\ slots' = [slots EXCEPT ![s] =
          [EmptySlot(slots[s].nextIndex) EXCEPT !.name = name, !.node = node]]
    /\ thread' = base
    /\ UNCHANGED <<cds, addrs, nodeMap, warned>>

\* base is the state of the threads but for the broadcast.
setCurrentName(s, name, node, base) ==
    /\ slots' = [slots EXCEPT ![s] =
          [EmptySlot(slots[s].nextIndex) EXCEPT !.name = name, !.node = node]]
    /\ cds' = [cds EXCEPT ![s[1]] =
          IF name = NoName THEN NoteNoTest(@, s[2]) ELSE NotePending(@, s[2])]
    /\ thread' = IF name = NoName /\ cds'[s[1]].pendingIndices = {}
                 THEN Broadcast(base, s[1]) ELSE base
    /\ UNCHANGED <<addrs, nodeMap, warned>>

NameSlot(t) ==
    /\ At(t, "name")
    /\ LET s == Work(t, thread[t].iCreate) IN
       \E node \in Nodes : setCurrentName(s, objname(s), node, Step(t, "create"))
    /\ UNCHANGED <<setupVars, stoppers, stopped, phase, apiVars, lost, budget>>

Spend(event) ==
    /\ budget[event] > 0
    /\ budget' = [budget EXCEPT ![event] = @ - 1]

\* The call to create the attachment: it is created, it is refused, or it is
\* created and the answer is lost.
CreateAttachment(t) ==
    /\ At(t, "create")
    /\ LET s == Work(t, thread[t].iCreate)
           name == slots[s].name
           new == [NoAtt EXCEPT !.name = name]
       IN \/ /\ name \notin DOMAIN atts
             /\ atts' = [n \in DOMAIN atts \cup {name} |-> IF n = name THEN new ELSE atts[n]]
             /\ events' = Append(events, [slot |-> s, natt |-> new])
             /\ \/ thread' = Step(t, "created") /\ UNCHANGED <<lost, budget>>
                \/ /\ Spend("fault") /\ thread' = Step(t, "failed")
                   /\ lost' = lost \cup {name}
          \/ /\ IF name \in DOMAIN atts THEN UNCHANGED budget ELSE Spend("fault")
             /\ thread' = Step(t, "failed")
             /\ UNCHANGED <<apiVars, lost>>
    /\ UNCHANGED <<setupVars, bookVars, stoppers, stopped, phase>>

NextCreate(t) == [thread EXCEPT ![t].pc = "loop", ![t].iCreate = @ + 1]

\* The slot gets the attachment as it was created, whatever was notified since.
setNetAtt(t) ==
    /\ At(t, "created")
    /\ LET s == Work(t, thread[t].iCreate) IN
       slots' = [slots EXCEPT ![s].preCreate = TRUE,
                              ![s].natt = [NoAtt EXCEPT !.name = slots[s].name]]
    /\ thread' = NextCreate(t)
    /\ UNCHANGED <<setupVars, cds, addrs, nodeMap, warned, stoppers, stopped, phase, apiVars,
                   lost, budget>>

CreateFailed(t) ==
    /\ At(t, "failed")
    /\ setCurrentName(Work(t, thread[t].iCreate), NoName, NoNode, NextCreate(t))
    /\ UNCHANGED <<setupVars, stoppers, stopped, phase, apiVars, lost, budget>>

\* Slot.close before a deletion.
CloseForDelete(t) ==
    /\ Going(t) /\ ~MayCreate(t) /\ ~flags.justCreate
    /\ LET s == Work(t, thread[t].iDelete) IN
       /\ CloseSlot(s, slots[s])
       /\ slots' = [slots EXCEPT ![s] = Closed(slots[s])]
       /\ thread' = [thread EXCEPT
             ![t].natt = slots[s].natt.name,
             ![t].createAllowed = @ /\ ~stopped,
             ![t].pc = IF slots[s].natt = NoAtt THEN "advance" ELSE "delete"]
    /\ UNCHANGED <<setupVars, cds, stoppers, stopped, phase, apiVars, lost, budget>>

\* Mutant: a deletion that failed is not repeated.
MutTryDelete(t) ==
    /\ At(t, "delete")
    /\ \/ /\ atts' = [n \in DOMAIN atts \ {thread[t].natt} |-> atts[n]]
          /\ UNCHANGED <<lost, budget>>
       \/ Spend("fault") /\ UNCHANGED <<atts, lost>>
    /\ thread' = Step(t, "advance")
    /\ UNCHANGED <<setupVars, bookVars, stoppers, stopped, phase, events>>

\* What failed is repeated until the driver is told to stop.
withRetries(t) ==
    \/ stopped /\ thread' = Step(t, "advance") /\ lost' = lost \cup {thread[t].natt}
    \/ ~stopped /\ UNCHANGED <<thread, lost>>

\* An attachment that does not exist is deleted, so that a call that failed after
\* it took effect can be repeated.
tryDelete(t) ==
    /\ At(t, "delete")
    /\ \/ /\ atts' = [n \in DOMAIN atts \ {thread[t].natt} |-> atts[n]]
          /\ thread' = Step(t, "advance")
          /\ UNCHANGED <<lost, budget>>
       \/ /\ Spend("fault") /\ withRetries(t)
          /\ \/ UNCHANGED atts
             \/ atts' = [n \in DOMAIN atts \ {thread[t].natt} |-> atts[n]]
    /\ UNCHANGED <<setupVars, bookVars, stoppers, stopped, phase, events>>

Advance(t) ==
    /\ At(t, "advance")
    /\ LET s == Work(t, thread[t].iDelete) IN
       slots' = [slots EXCEPT ![s].nextIndex = @ + virtNets[s[1]].size]
    /\ thread' = [thread EXCEPT ![t].pc = "loop", ![t].iDelete = @ + 1, ![t].natt = NoName]
    /\ UNCHANGED <<setupVars, cds, addrs, nodeMap, warned, stoppers, stopped, phase, apiVars,
                   lost, budget>>

-----------------------------------------------------------------------------
(* main, and the environment.                                               *)

\* A call of main's preparations fails and the driver exits.
Exit == Spend("fault") /\ phase' = "end"

createNamespace ==
    /\ phase = "namespace"
    /\ \/ phase' = "subnets" /\ UNCHANGED budget
       \/ Exit
    /\ UNCHANGED <<setupVars, bookVars, stoppers, stopped, thread, apiVars, lost>>

\* The Subnets of a virtual network are created one after the other, and after
\* those of the networks before it.
createSubnet(n) ==
    /\ phase = "subnets" /\ n \notin subnets
    /\ \A m \in SubnetsOf(virtNets) \ subnets :
          n[1] < m[1] \/ (n[1] = m[1] /\ n[2] <= m[2])
    /\ \/ subnets' = subnets \cup {n} /\ UNCHANGED <<phase, budget>>
       \/ Exit /\ UNCHANGED subnets
    /\ UNCHANGED <<flags, virtNets, vnAttachments, initializedSubnets, bookVars, stoppers,
                   stopped, thread, apiVars, lost>>

\* All Subnets are there.  If main goes on, it lists the nodes and starts the
\* informers.
listNodes ==
    /\ phase = "subnets" /\ subnets = SubnetsOf(virtNets)
    /\ \/ /\ phase' = IF Drives(flags, virtNets) THEN "wait" ELSE "end"
          /\ UNCHANGED budget
       \/ Drives(flags, virtNets) /\ Exit
    /\ UNCHANGED <<setupVars, bookVars, stoppers, stopped, thread, apiVars, lost>>

\* subnetEventHandler: OnAdd and OnUpdate.
OnSubnetEvent(n) ==
    /\ phase = "wait"
    /\ n \in subnets \ initializedSubnets
    /\ initializedSubnets' = initializedSubnets \cup {n}
    /\ UNCHANGED <<flags, virtNets, vnAttachments, subnets, bookVars, stoppers, stopped,
                   thread, phase, apiVars, lost, budget>>

waitForInitializedSubnets ==
    /\ phase = "wait"
    /\ Cardinality(initializedSubnets) >= Cardinality(subnets)
    /\ phase' = "drive"
    /\ UNCHANGED <<setupVars, bookVars, stoppers, stopped, thread, apiVars, lost, budget>>

\* After wg.Wait main closes the slots, one after the other.
CloseAtEnd ==
    /\ phase = "drive" /\ \A t \in DOMAIN thread : thread[t].pc = "done"
    /\ \E s \in DOMAIN slots :
         /\ slots[s].name # NoName
         /\ CloseSlot(s, slots[s])
         /\ slots' = [slots EXCEPT ![s] = Closed(slots[s])]
    /\ UNCHANGED <<setupVars, cds, stoppers, stopped, thread, phase, apiVars, lost, budget>>

EndOfMain ==
    /\ phase = "drive" /\ \A t \in DOMAIN thread : thread[t].pc = "done"
    /\ \A s \in DOMAIN slots : slots[s].name = NoName
    /\ phase' = "end"
    /\ UNCHANGED <<setupVars, bookVars, stoppers, stopped, thread, apiVars, lost, budget>>

\* The slot that the attachment is annotated with.
SlotOfName(name) ==
    CHOOSE s \in DOMAIN slots :
        s[1] = name[1] /\ (s[2] - name[2]) % virtNets[s[1]].size = 0

\* The controllers write the status of an attachment.
WriteStatus(name) ==
    /\ Spend("status")
    /\ \E ip \in IPs \cup {0}, ifc \in BOOLEAN, report \in {"none", "pass", "fail"},
          errs \in BOOLEAN :
         LET natt == [name |-> name, ip |-> ip, ifc |-> ifc, report |-> report, errs |-> errs]
         IN /\ (ifc => ip # 0) /\ (report # "none" => ifc) /\ (errs => ~ifc)
            /\ atts[name].ifc => ifc /\ ip = atts[name].ip
            /\ atts[name].report # "none" => report = atts[name].report
            /\ natt # atts[name]
            /\ atts' = [atts EXCEPT ![name] = natt]
            /\ events' = Append(events, [slot |-> SlotOfName(name), natt |-> natt])
    /\ UNCHANGED <<setupVars, bookVars, stoppers, stopped, thread, phase, lost>>

\* setupSignalHandler: the first signal.  The informers stop, so that a
\* notification may come or not.
Signal ==
    /\ phase \in {"wait", "drive"} /\ ~stopped /\ Spend("signal")
    /\ stopped' = TRUE
    /\ UNCHANGED <<setupVars, bookVars, stoppers, thread, phase, apiVars, lost>>

-----------------------------------------------------------------------------

\* shuffle: any order.
Orders(S) ==
    {f \in [1 .. Cardinality(S) -> S] : \A s \in S : \E n \in DOMAIN f : f[n] = s}

Init ==
    /\ flags \in Flags
    /\ virtNets = MakeVirtNets(flags)
    /\ LET all == IF Drives(flags, virtNets) THEN SlotsOf(virtNets) ELSE {} IN
       /\ slots = [s \in all |-> EmptySlot(s[2])]
       /\ vnAttachments \in Orders(all)
    /\ cds = [i \in DOMAIN virtNets |-> [pendingIndices |-> {}, latestIndex |-> NoIndex]]
    /\ addrs = [i \in DOMAIN virtNets |-> [ip \in IPs |-> {}]]
    /\ nodeMap = [i \in DOMAIN virtNets |-> [n \in Nodes |-> [ip \in IPs |-> NoName]]]
    /\ warned = FALSE /\ stoppers = FALSE /\ stopped = FALSE
    /\ thread = [t \in Threads |-> NewThread]
    /\ phase = IF flags.just_count THEN "end" ELSE "namespace"
    /\ subnets = {} /\ initializedSubnets = {}
    /\ atts = [n \in {} |-> NoAtt] /\ events = <<>> /\ lost = {}
    /\ budget \in Budgets

ThreadNext(t) ==
    \/ EndThread(t)
    \/ GetReadyAttachment(t)
    \/ TimerGoesOff(t)
    \/ LookAgain(t)
    \/ NameSlot(t)
    \/ CreateAttachment(t)
    \/ setNetAtt(t)
    \/ CreateFailed(t)
    \/ CloseForDelete(t)
    \/ tryDelete(t)
    \/ Advance(t)

Next ==
    \/ \E t \in DOMAIN thread : ThreadNext(t)
    \/ OnAttachmentEvent
    \/ createNamespace
    \/ \E n \in SubnetsOf(virtNets) : createSubnet(n)
    \/ listNodes
    \/ \E n \in subnets : OnSubnetEvent(n)
    \/ waitForInitializedSubnets
    \/ CloseAtEnd
    \/ EndOfMain
    \/ \E name \in DOMAIN atts : WriteStatus(name)
    \/ Signal

Spec == Init /\ [][Next]_vars

-----------------------------------------------------------------------------
(* Properties.                                                              *)

\* Indices stay within their network's slots and counters within a thread's
\* share of the attachments, and a slot has a node as long as it has a name.
TypeOK ==
    /\ \A i \in DOMAIN cds : /\ cds[i].pendingIndices \subseteq 1 .. virtNets[i].size
                             /\ cds[i].latestIndex \in {NoIndex} \cup 1 .. virtNets[i].size
    /\ \A s \in DOMAIN slots : /\ slots[s].node \in Nodes \cup {NoNode}
                               /\ (slots[s].name = NoName) = (slots[s].node = NoNode)
    /\ \A t \in DOMAIN thread : /\ thread[t].iDelete \in 0 .. NumHere(t)
                                /\ thread[t].iCreate \in 0 .. NumHere(t)
    /\ phase \in {"namespace", "subnets", "wait", "drive", "end"}
    /\ initializedSubnets \subseteq subnets /\ subnets \subseteq SubnetsOf(virtNets)

\* The subnets that main creates (main.go:707-808) are what their CIDRs say,
\* whatever the sizes of the virtual networks: each begins at a multiple of its
\* size, has an address for each of its slots and three to spare, and the
\* virtual networks do not overlap.
LayoutSound ==
    ~flags.just_count => \A i \in DOMAIN virtNets :
       LET net == virtNets[i]
           block == 2^net.suffixBits
       IN /\ net.addr0 % block = 0
          /\ net.addrF = net.addr0 + net.subnets * block - 1
          /\ net.subnets * (block - 3) >= net.size
          /\ \A k \in DOMAIN virtNets : k > i => virtNets[k].addr0 > net.addrF

\* No attachment is forgotten: as long as a thread works, each attachment in the
\* API server is the one of its slot or is being deleted, and when all threads
\* did all their work none is left, except for those whose creation reported an
\* error and those whose deletion was given up after a signal.
NothingForgotten ==
    /\ (\E t \in DOMAIN thread : thread[t].pc # "done") =>
          \A name \in DOMAIN atts \ lost :
             \/ slots[SlotOfName(name)].name = name
             \/ \E t \in DOMAIN thread : thread[t].natt = name
    /\ phase = "end" /\ (\A t \in DOMAIN thread : ~thread[t].early) =>
          DOMAIN atts \subseteq lost

\* What a slot records of its attachment is true of that attachment, and not of
\* one that was in the slot before: tardy notifications are told apart.
SlotsTellTruth ==
    \A s \in DOMAIN slots : slots[s].name \in DOMAIN atts =>
       LET natt == atts[slots[s].name]
       IN /\ slots[s].ready => natt.ifc
          /\ slots[s].tested => natt.report # "none"

\* When two current attachments of a virtual network were notified with one
\* address, in whatever order, the driver has counted a warning.
DuplicatesNoticed ==
    \A s \in DOMAIN slots, u \in DOMAIN slots :
       s # u /\ s[1] = u[1] /\ slots[s].natt.ip = slots[u].natt.ip /\ slots[s].natt.ip # 0
          => warned

\* An attachment that still might pass its test is pending, so that a thread
\* that wants a peer waits for it.
PendingCovers ==
    \A s \in DOMAIN slots :
       slots[s].name # NoName /\ ~slots[s].tested /\ ~slots[s].broken
          => s[2] \in cds[s[1]].pendingIndices
=============================================================================
