----------------------------- MODULE Processes -----------------------------
(***************************************************************************)
(* How a KOS process comes up and goes down: the main programs of the IPAM  *)
(* controller, the connection agent and the network-apiserver               *)
(* (cmd/.../main.go, pkg/cmd/server/start.go), the Run functions  *)
(* of the controllers, and the factories of informers and network fabrics   *)
(* that they use.  A main program is a sequence of steps; informers, the    *)
(* API server's PostStartHook and the signal handler are goroutines beside  *)
(* it.                                                                      *)
(***************************************************************************)
EXTENDS Naturals, Sequences

CONSTANTS
    VNIs,     \* VNIs that the agent's node may have attachments on
    Fabrics,  \* values of the agent's flag -netfabric
    Faults,   \* bound on the calls that fail
    Signals   \* bound on the signals that the process gets

\* Informers are named by a VNI, by "main" or by "local".
ASSUME ProcessesAssumption ==
    /\ Faults \in Nat /\ Signals \in Nat
    /\ "main" \notin VNIs /\ "local" \notin VNIs

VARIABLES
    prog,      \* the program
    pc,        \* main's place in its steps; 0 after the end of the process
    factories, \* informers that the factories have: those asked for (.informers),
               \* those started by a factory (.startedInformers)
    informers, \* informer -> its state
    fabric,    \* the agent's network fabric
    localVNIs, \* VNIs of the attachments that the agent finds on its node
    ifcs,      \* pre-existing interfaces that the agent has still to sync
    hook,      \* "due" while the PostStartHook has still to run
    working,   \* workers run, or the server serves
    trapped,   \* signals are handled
    stopCh,    \* the stop channel is closed
    faults,    \* failures left
    signals    \* signals left

\* What most steps of main leave alone.
process == <<prog, hook, working, trapped, stopCh, signals>>
node == <<fabric, localVNIs, ifcs>>

vars == <<process, node, pc, factories, informers, faults>>

-----------------------------------------------------------------------------
(* The programs.                                                            *)

MutInformersFirst ==  \* mutant: the factory starts what Run will start again
    <<"client", "trap", "informers", "start", "index", "run", "sync", "work", "wait">>

MutRunBeforeIndex ==  \* mutant: the informers run before they get their indexers
    <<"client", "trap", "start", "informers", "run", "index", "sync", "work", "wait">>

\* The factory is started before it has been asked for an informer; the
\* controller's Run runs the informers.
ipamMain ==
    <<"client", "trap", "start", "informers", "index", "run", "sync", "work", "wait">>

agentMain ==
    <<"fabric", "client", "service", "client", "trap", "informers", "index", "run",
      "sync", "localIfcs", "remotes", "remoteIfcs", "work", "wait">>

serverMain == <<"trap", "client", "informers", "serve", "wait">>

Mains == [ipam |-> ipamMain, agent |-> agentMain, server |-> serverMain]

At(step) == pc > 0 /\ Mains[prog][pc] = step

Advance == pc' = pc + 1

\* The process ends, and its goroutines with it.
End ==
    /\ pc' = 0
    /\ working' = FALSE
    /\ UNCHANGED <<prog, hook, trapped, stopCh, node, factories, informers>>

Fault == faults > 0 /\ faults' = faults - 1

\* A call fails, and main exits or returns.
FailingCall == Fault /\ End /\ UNCHANGED signals

-----------------------------------------------------------------------------
(* Informers.  One is known by its factory and by the type of its objects.  *)

Types == {"Subnet", "NetworkAttachment", "IPLock"}

Informer == ({"main", "local"} \cup VNIs) \X Types

NewInformer == [runs |-> 0, indexed |-> FALSE, handled |-> FALSE, synced |-> FALSE]

\* The agent makes a factory, with its own list options, for every informer.
FactoryFor(reader) == reader

\* The agent's informer of its node's attachments ("local"), or of those of a VNI.
Attachments(reader) == <<FactoryFor(reader), "NetworkAttachment">>

MutAsked(is) ==  \* mutant: a factory does not note the informer it makes
    factories

Asked(is) == [factories EXCEPT !.informers = @ \cup is]

\* A factory makes an informer of a type when it is first asked for one, by
\* Informer() or Lister(), and returns the same one ever after.  The API server's
\* factory (informers/internalversion) is the same generated code.
InformerFor(is) ==
    /\ informers' = [i \in DOMAIN informers \cup is |->
                        IF i \in factories.informers THEN informers[i] ELSE NewInformer]
    /\ factories' = Asked(is)

\* AddIndexers fails once the informer runs; the error is ignored.
AddIndexers(inf) == [inf EXCEPT !.indexed = @ \/ inf.runs = 0]

AddEventHandler(inf) == [inf EXCEPT !.handled = TRUE]

Run(inf) == [inf EXCEPT !.runs = @ + 1]

\* The factory runs the informers it was asked for and has not yet started.
Start ==
    LET due == factories.informers \ factories.startedInformers
    IN /\ informers' = [i \in DOMAIN informers |->
                           IF i \in due THEN Run(informers[i]) ELSE informers[i]]
       /\ factories' = [factories EXCEPT !.startedInformers = @ \cup due]

\* The informers that main asks for.
Used ==
    CASE prog = "ipam" -> {"main"} \X Types
      [] prog = "agent" -> {Attachments("local")}
      [] prog = "server" -> {<<"main", "Subnet">>}

\* Subnets are never looked up by an index.
NeedsIndex(i) == i[2] # "Subnet"

HasSynced(i) == informers[i].synced

\* A running informer has listed its objects.  Once it is told to stop it may
\* or may not come to that.
Sync(i) ==
    /\ pc > 0
    /\ informers[i].runs > 0 /\ ~HasSynced(i)
    /\ informers' = [informers EXCEPT ![i].synced = TRUE]
    /\ UNCHANGED <<process, node, pc, factories, faults>>

-----------------------------------------------------------------------------
(* Steps of the main programs.                                              *)

\* Options are completed and checked, a client or the server is configured.
buildClient ==
    /\ At("client")
    /\ \/ Advance /\ UNCHANGED <<process, node, factories, informers, faults>>
       \/ FailingCall

\* Fabrics register when their package is imported: the agent imports ovs.
factoryRegistry == {"ovs"}

MutNewNetFabricForName(name) ==  \* mutant: an unknown name is not refused
    /\ fabric' = name
    /\ Advance
    /\ UNCHANGED <<process, localVNIs, ifcs, factories, informers, faults>>

NewNetFabricForName(name) ==
    \/ /\ name \in factoryRegistry
       /\ fabric' = name
       /\ Advance
       /\ UNCHANGED <<process, localVNIs, ifcs, factories, informers, faults>>
    \/ name \in factoryRegistry /\ FailingCall
    \/ name \notin factoryRegistry /\ End /\ UNCHANGED <<faults, signals>>

\* Flags that are no good end the process, as a fabric that cannot be made does.
newNetFabric == At("fabric") /\ \E name \in Fabrics : NewNetFabricForName(name)

\* The agent asks for the API server's service until it gets a usable address.
findService ==
    /\ At("service")
    /\ (Advance /\ UNCHANGED faults) \/ (Fault /\ UNCHANGED pc)
    /\ UNCHANGED <<process, node, factories, informers>>

StopOnSignals ==
    /\ At("trap")
    /\ trapped' = TRUE
    /\ Advance
    /\ UNCHANGED <<prog, hook, working, stopCh, signals, node, factories, informers, faults>>

startFactory ==
    /\ At("start")
    /\ Start
    /\ Advance
    /\ UNCHANGED <<process, node, faults>>

newInformers ==
    /\ At("informers")
    /\ InformerFor(Used)
    /\ Advance
    /\ UNCHANGED <<process, node, faults>>

addIndexersAndHandlers ==
    /\ At("index")
    /\ informers' = [i \in DOMAIN informers |->
                        AddEventHandler(IF NeedsIndex(i) THEN AddIndexers(informers[i])
                                                         ELSE informers[i])]
    /\ Advance
    /\ UNCHANGED <<process, node, factories, faults>>

runInformers ==
    /\ At("run")
    /\ informers' = [i \in DOMAIN informers |-> Run(informers[i])]
    /\ Advance
    /\ UNCHANGED <<process, node, factories, faults>>

MutWaitForCacheSync ==  \* mutant: the stop channel is not heeded
    /\ At("sync")
    /\ \A i \in Used : HasSynced(i)
    /\ Advance
    /\ UNCHANGED <<process, node, factories, informers, faults>>

WaitForCacheSync ==
    /\ At("sync")
    /\ \/ /\ \A i \in Used : HasSynced(i)
          /\ Advance
          /\ UNCHANGED <<process, node, factories, informers, faults>>
       \/ stopCh /\ End /\ UNCHANGED <<faults, signals>>

\* Interfaces are listed; one that has no owner is deleted, and that again and
\* again until it succeeds.
syncPreExistingLocalIfcs ==
    /\ At("localIfcs")
    /\ \/ Advance /\ ifcs' = ifcs \ {"local"} /\ UNCHANGED faults
       \/ "local" \in ifcs /\ Fault /\ UNCHANGED <<pc, ifcs>>
    /\ UNCHANGED <<process, fabric, localVNIs, factories, informers>>

\* An informer per VNI of the node's attachments is made and run.
startRemoteInformers ==
    /\ At("remotes")
    /\ LET new == {Attachments(v) : v \in localVNIs}
           old(i) == IF i \in factories.informers THEN informers[i] ELSE NewInformer
       IN /\ informers' = [i \in DOMAIN informers \cup new |->
                              IF i \in new THEN Run(AddEventHandler(AddIndexers(old(i))))
                                           ELSE informers[i]]
          /\ factories' = Asked(new)
    /\ Advance
    /\ UNCHANGED <<process, node, faults>>

\* An interface of a VNI that has an informer is matched once that has synced;
\* the wait heeds the informer's own stop channel, which nobody closes now.
syncPreExistingRemoteIfcs ==
    /\ At("remoteIfcs")
    /\ \/ /\ \E v \in ifcs : /\ v \in localVNIs => HasSynced(Attachments(v))
                             /\ \/ ifcs' = ifcs \ {v} /\ UNCHANGED faults
                                \/ Fault /\ UNCHANGED ifcs
          /\ UNCHANGED pc
       \/ ifcs = {} /\ Advance /\ UNCHANGED <<ifcs, faults>>
    /\ UNCHANGED <<process, fabric, localVNIs, factories, informers>>

listIfcsFails == (At("localIfcs") \/ At("remoteIfcs")) /\ FailingCall

startWorkers ==
    /\ At("work")
    /\ working' = TRUE
    /\ Advance
    /\ UNCHANGED <<prog, hook, trapped, stopCh, signals, node, factories, informers, faults>>

\* The API server serves; its PostStartHook is to run in a goroutine of its own.
PrepareRunAndRun ==
    /\ At("serve")
    /\ working' = TRUE
    /\ hook' = "due"
    /\ Advance
    /\ UNCHANGED <<prog, trapped, stopCh, signals, node, factories, informers, faults>>

PostStartHook ==
    /\ hook = "due" /\ pc > 0
    /\ Start
    /\ hook' = "done"
    /\ UNCHANGED <<prog, working, trapped, stopCh, signals, node, pc, faults>>

\* An error of the server's construction or of its listener is fatal.
serverFails ==
    prog = "server" /\ (At("informers") \/ At("serve")) /\ FailingCall

awaitStop ==
    /\ At("wait")
    /\ stopCh
    /\ End
    /\ UNCHANGED <<faults, signals>>

\* Until signals are handled one ends the process.  Then the first closes the
\* stop channel and the second ends the process.
Signal ==
    /\ pc > 0 /\ signals > 0
    /\ signals' = signals - 1
    /\ \/ trapped /\ ~stopCh
          /\ stopCh' = TRUE
          /\ UNCHANGED <<prog, hook, working, trapped, node, pc, factories, informers>>
       \/ (trapped => stopCh) /\ End
    /\ UNCHANGED faults

-----------------------------------------------------------------------------

Init ==
    /\ prog \in DOMAIN Mains
    /\ pc = 1
    /\ factories = [informers |-> {}, startedInformers |-> {}]
    /\ informers = <<>>
    /\ fabric = "none"
    /\ localVNIs \in SUBSET VNIs
    /\ ifcs \in SUBSET ({"local"} \cup VNIs)
    /\ prog # "agent" => localVNIs = {} /\ ifcs = {}
    /\ hook = "none"
    /\ working = FALSE /\ trapped = FALSE /\ stopCh = FALSE
    /\ faults = Faults /\ signals = Signals

Main ==
    \/ buildClient \/ newNetFabric \/ findService \/ StopOnSignals
    \/ startFactory \/ newInformers \/ addIndexersAndHandlers \/ runInformers
    \/ WaitForCacheSync
    \/ syncPreExistingLocalIfcs \/ startRemoteInformers \/ syncPreExistingRemoteIfcs
    \/ listIfcsFails
    \/ startWorkers \/ PrepareRunAndRun \/ serverFails \/ awaitStop

Next ==
    \/ Main
    \/ PostStartHook
    \/ \E i \in DOMAIN informers : Sync(i)
    \/ Signal

Spec == Init /\ [][Next]_vars

\* Every goroutine is scheduled; an informer that is not told to stop comes to
\* list its objects.
Fairness ==
    /\ WF_vars(Main)
    /\ WF_vars(PostStartHook)
    /\ WF_vars(\E i \in DOMAIN informers : ~stopCh /\ Sync(i))

FairSpec == Spec /\ Fairness

-----------------------------------------------------------------------------
(* Properties.                                                              *)

\* The variables have their types: in particular a fabric in use is one that is
\* registered, and what a factory has started it was asked for.
TypeOK ==
    /\ prog \in DOMAIN Mains
    /\ pc \in 0 .. Len(Mains[prog])
    /\ factories.startedInformers \subseteq factories.informers
    /\ DOMAIN informers \subseteq Informer
    /\ \A i \in DOMAIN informers :
          informers[i] \in [runs : Nat, indexed : BOOLEAN, handled : BOOLEAN,
                            synced : BOOLEAN]
    /\ fabric \in factoryRegistry \cup {"none"}
    /\ localVNIs \subseteq VNIs
    /\ ifcs \subseteq {"local"} \cup VNIs
    /\ hook \in {"none", "due", "done"}
    /\ {working, trapped, stopCh} \subseteq BOOLEAN
    /\ faults \in 0 .. Faults /\ signals \in 0 .. Signals

\* No informer is run twice, although factories and controllers both run
\* informers and the agent makes them for several purposes.
RunOnce == \A i \in DOMAIN informers : informers[i].runs <= 1

\* While a controller's workers run, every cache they look things up in was
\* listed before, has the index they look them up by and tells them of changes;
\* the agent's cache of a VNI need not be listed, but has its index.
WorkersReady ==
    working /\ prog # "server" =>
       /\ \A i \in Used : HasSynced(i)
       /\ \A i \in DOMAIN informers : /\ informers[i].runs > 0 /\ informers[i].handled
                                      /\ NeedsIndex(i) => informers[i].indexed

\* A process that is not told to stop and does not give up comes to work with
\* caches that have been listed: nothing it waits for is left unstarted.
ComesUp ==
    <>(\/ pc = 0 \/ stopCh
       \/ working /\ informers # <<>> /\ \A i \in DOMAIN informers : HasSynced(i))

\* The agent waits for the cache of a VNI, whose informer was told to stop.
AwaitsRemote == At("remoteIfcs") /\ \E v \in ifcs \cap localVNIs : ~HasSynced(Attachments(v))

\* The first signal ends every process in the end, but for an agent that is
\* still waiting for the cache of a VNI.  Calls fail a bounded number of times:
\* the loops of start-up that repeat a failing call of the fabric do not look at
\* the stop channel, and a fabric that always fails would keep the agent there.
StopEnds == stopCh ~> (pc = 0 \/ AwaitsRemote)
=============================================================================
