-------------------------- MODULE Processes_proofs ---------------------------
(***************************************************************************)
(* Types, RunOnce and WorkersReady of Processes, for any number of VNIs,    *)
(* failing calls and signals.  What holds depends on which steps of its     *)
(* main program a process has behind it (Past).                             *)
(***************************************************************************)
EXTENDS Processes, TLAPS

Steps == {"fabric", "client", "service", "trap", "start", "informers", "index", "run",
          "sync", "localIfcs", "remotes", "remoteIfcs", "work", "serve", "wait"}

\* Main has taken the step.
Past(step) == \E n \in 1 .. pc - 1 : Mains[prog][n] = step

\* The informers that main has made.
Made ==
    {i \in Informer : \/ Past("informers") /\ i \in Used
                      \/ Past("remotes") /\ \E v \in localVNIs : i = Attachments(v)}

\* A process that has not ended: who was started by whom.
Order ==
    pc > 0 =>
       /\ DOMAIN informers = Made
       /\ factories.informers = Made
       /\ factories.startedInformers = IF hook = "done" THEN Made ELSE {}
       /\ hook # "none" => prog = "server" /\ Past("serve")
       /\ \A i \in Made : informers[i].runs = IF Past("run") \/ hook = "done" THEN 1 ELSE 0

\* A process that has not ended: what the workers rely on.
Ready ==
    pc > 0 =>
       /\ Past("index") => \A i \in Made : /\ informers[i].handled
                                           /\ NeedsIndex(i) => informers[i].indexed
       /\ Past("sync") => \A i \in Used : HasSynced(i)
       /\ working => Past(IF prog = "server" THEN "serve" ELSE "work")

Ended == pc = 0 => ~working

IInv == TypeOK /\ RunOnce /\ Order /\ Ready /\ Ended

-----------------------------------------------------------------------------
(* The programs.                                                            *)

LEMMA Lengths ==
    /\ DOMAIN Mains = {"ipam", "agent", "server"}
    /\ Len(ipamMain) = 9 /\ Len(agentMain) = 14 /\ Len(serverMain) = 5
    /\ Mains["ipam"] = ipamMain /\ Mains["agent"] = agentMain /\ Mains["server"] = serverMain
BY DEF Mains, ipamMain, agentMain, serverMain

LEMMA LengthsPositive ==
    ASSUME NEW p \in DOMAIN Mains
    PROVE  Len(Mains[p]) \in Nat \ {0}
<1>1. p = "ipam" \/ p = "agent" \/ p = "server"
  BY Lengths
<1>2. Mains[p] = ipamMain \/ Mains[p] = agentMain \/ Mains[p] = serverMain
  BY <1>1, Lengths
<1>3. Len(Mains[p]) \in {9, 14, 5}
  BY <1>2, Lengths, Zenon
<1>4. \A n \in {9, 14, 5} : n \in Nat \ {0}
  OBVIOUS
<1> QED
  BY <1>3, <1>4, Zenon

LEMMA Scripts ==
    ASSUME prog \in DOMAIN Mains, pc \in 1 .. Len(Mains[prog])
    PROVE  /\ At("start") => ~Past("informers") /\ ~Past("remotes") /\ ~Past("sync")
           /\ At("informers") => ~Past("informers") /\ ~Past("run") /\ ~Past("index")
                                  /\ ~Past("sync") /\ ~Past("remotes")
           /\ At("index") => ~Past("run") /\ ~Past("sync") /\ Past("informers") /\ ~Past("remotes")
           /\ At("run") => /\ ~Past("run") /\ ~Past("sync") /\ prog # "server" /\ ~Past("remotes")
           /\ At("remotes") => /\ prog = "agent" /\ Past("run") /\ Past("index")
                               /\ Past("informers") /\ ~Past("remotes")
           /\ At("informers") \/ At("index") => ~Past("serve")
           /\ At("work") => prog # "server"
           /\ At("serve") => prog = "server" /\ ~Past("serve")
           /\ prog # "server" /\ Past("work") =>
                 /\ Past("run") /\ Past("index") /\ Past("sync") /\ Past("informers")
           /\ prog = "server" => ~Past("run")
           /\ prog = "server" /\ Past("serve") => Past("informers")
           /\ At("wait") <=> pc = Len(Mains[prog])
<1>1. CASE prog = "ipam"
  BY <1>1, Lengths DEF Past, At, ipamMain
<1>2. CASE prog = "agent"
  BY <1>2, Lengths DEF Past, At, agentMain
<1>3. CASE prog = "server"
  BY <1>3, Lengths DEF Past, At, serverMain
<1> QED
  BY <1>1, <1>2, <1>3, Lengths

\* A step of main puts itself behind it, and nothing else.
LEMMA PastAdvance ==
    ASSUME prog \in DOMAIN Mains, pc \in Nat \ {0}, Advance, UNCHANGED prog, NEW step
    PROVE  Past(step)' <=> Past(step) \/ At(step)
BY DEF Past, At, Advance, Mains

\* Steps of others leave main where it is.
LEMMA PastStays ==
    ASSUME UNCHANGED <<prog, pc>>, NEW step
    PROVE  Past(step)' <=> Past(step)
BY DEF Past, Mains

LEMMA UsedInformers ==
    ASSUME prog \in DOMAIN Mains
    PROVE  /\ Used \subseteq Informer
           /\ \A v \in VNIs : Attachments(v) \in Informer \ Used
           /\ \A v \in VNIs : NeedsIndex(Attachments(v))
BY ProcessesAssumption, Lengths DEF Used, Informer, Attachments, FactoryFor, Types, NeedsIndex

-----------------------------------------------------------------------------
(* The invariant.                                                           *)

LEMMA InitIInv == Init => IInv
<1> SUFFICES ASSUME Init PROVE IInv
  OBVIOUS
<1>1. \A step : ~Past(step)
  BY DEF Init, Past
<1>2. DOMAIN informers = {}
  BY DEF Init
<1>3. TypeOK
  <2>1. pc \in 0 .. Len(Mains[prog])
    BY LengthsPositive DEF Init
  <2>2. {working, trapped, stopCh} \subseteq BOOLEAN
    BY DEF Init
  <2>3. /\ factories.startedInformers \subseteq factories.informers
        /\ fabric \in factoryRegistry \cup {"none"} /\ hook \in {"none", "due", "done"}
    BY DEF Init
  <2>4. localVNIs \subseteq VNIs /\ ifcs \subseteq {"local"} \cup VNIs
    BY DEF Init
  <2> QED
    BY <1>2, <2>1, <2>2, <2>3, <2>4, ProcessesAssumption DEF Init, TypeOK
<1>4. Made = {}
  BY <1>1 DEF Made
<1>5. RunOnce
  BY <1>2 DEF RunOnce
<1>6. Order
  BY <1>1, <1>2, <1>4 DEF Order, Init
<1>7. Ready /\ Ended
  BY <1>1, <1>4 DEF Ready, Ended, Init
<1> QED
  BY <1>3, <1>5, <1>6, <1>7 DEF IInv

\* The end of the process.
LEMMA EndIInv ==
    ASSUME IInv, End, faults' \in 0 .. Faults, signals' \in 0 .. Signals
    PROVE  IInv'
<1>1. TypeOK'
  <2>1. pc' \in 0 .. Len(Mains[prog'])
    BY LengthsPositive DEF IInv, TypeOK, End
  <2>2. {working, trapped, stopCh}' \subseteq BOOLEAN
    BY DEF IInv, TypeOK, End
  <2> QED
    BY <2>1, <2>2 DEF IInv, TypeOK, End, node
<1>2. RunOnce'
  BY DEF IInv, RunOnce, End
<1>3. Order' /\ Ready' /\ Ended'
  BY DEF End, Order, Ready, Ended
<1> QED
  BY <1>1, <1>2, <1>3 DEF IInv

LEMMA FailingCallIInv ==
    ASSUME IInv, FailingCall
    PROVE  IInv'
BY EndIInv, ProcessesAssumption DEF FailingCall, Fault, IInv, TypeOK

\* Main goes on to its next step.
LEMMA Advanced ==
    ASSUME TypeOK, NEW step, At(step), step # "wait", Advance, UNCHANGED prog
    PROVE  /\ pc \in 1 .. Len(Mains[prog]) /\ pc' \in 1 .. Len(Mains[prog])
           /\ \A s : Past(s)' <=> Past(s) \/ s = step
<1>1. prog \in DOMAIN Mains /\ pc \in 1 .. Len(Mains[prog])
  BY LengthsPositive DEF At, TypeOK
<1>2. pc # Len(Mains[prog])
  BY <1>1, Scripts DEF At
<1>3. pc' \in 1 .. Len(Mains[prog])
  BY <1>1, <1>2, LengthsPositive DEF Advance
<1>4. ASSUME NEW s PROVE Past(s)' <=> Past(s) \/ s = step
  BY <1>1, PastAdvance, LengthsPositive DEF At
<1> QED
  BY <1>1, <1>3, <1>4

\* The variables that the types of the informers are about.
LEMMA InformerTypes ==
    ASSUME IInv, NEW step, At(step), step # "wait", Advance,
           UNCHANGED <<process, node, faults>>,
           factories'.startedInformers \subseteq factories'.informers,
           DOMAIN informers' \subseteq Informer,
           \A i \in DOMAIN informers' :
              informers'[i] \in [runs : Nat, indexed : BOOLEAN, handled : BOOLEAN,
                                 synced : BOOLEAN]
    PROVE  TypeOK'
<1>1. UNCHANGED <<prog, hook, working, trapped, stopCh, signals, fabric, localVNIs, ifcs>>
  BY DEF process, node
<1>2. pc' \in 0 .. Len(Mains[prog'])
  BY <1>1, Advanced, LengthsPositive DEF IInv, TypeOK
<1>3. {working, trapped, stopCh}' \subseteq BOOLEAN
  BY <1>1 DEF IInv, TypeOK
<1> QED
  BY <1>1, <1>2, <1>3 DEF IInv, TypeOK

\* Steps of main that no informer notices.
LEMMA Passing ==
    ASSUME IInv, NEW step, At(step), Advance,
           step \in {"client", "fabric", "service", "trap", "localIfcs", "remoteIfcs"},
           UNCHANGED <<prog, factories, informers, hook, localVNIs, working>>
    PROVE  RunOnce' /\ Order' /\ Ready' /\ Ended'
<1>1. /\ pc > 0 /\ pc' > 0
      /\ \A s \in Steps \ {step} : Past(s)' <=> Past(s)
  BY Advanced, LengthsPositive DEF IInv, TypeOK
<1>2. Used' = Used
  BY DEF Used, Attachments, FactoryFor
<1>3. Made' = Made
  BY <1>1, <1>2 DEF Made, Steps
<1>4. RunOnce'
  BY DEF IInv, RunOnce
<1>5. Order'
  BY <1>1, <1>3 DEF IInv, Order, Steps
<1>6. Ready' /\ Ended'
  BY <1>1, <1>2, <1>3 DEF IInv, Ready, Ended, Steps, HasSynced
<1> QED
  BY <1>4, <1>5, <1>6

\* Steps of main that change nothing of the informers keep their types.
LEMMA PassingTypes ==
    ASSUME IInv, NEW step, At(step), step # "wait", Advance,
           UNCHANGED <<prog, factories, informers, hook, localVNIs, signals>>,
           fabric' \in factoryRegistry \cup {"none"}, ifcs' \subseteq ifcs,
           faults' \in 0 .. Faults, {working, trapped, stopCh}' \subseteq BOOLEAN
    PROVE  TypeOK'
<1>1. pc' \in 0 .. Len(Mains[prog'])
  BY Advanced, LengthsPositive DEF IInv, TypeOK
<1> QED
  BY <1>1 DEF IInv, TypeOK

LEMMA PassingStep ==
    ASSUME IInv, NEW step, At(step), Advance,
           step \in {"client", "fabric", "service", "trap", "localIfcs", "remoteIfcs"},
           UNCHANGED <<prog, factories, informers, hook, localVNIs, working, stopCh, signals>>,
           trapped' \in BOOLEAN, fabric' \in factoryRegistry \cup {"none"},
           ifcs' \subseteq ifcs, faults' \in 0 .. Faults
    PROVE  IInv'
<1>1. {working, trapped, stopCh}' \subseteq BOOLEAN
  BY DEF IInv, TypeOK
<1>2. TypeOK'
  BY <1>1, PassingTypes
<1>3. RunOnce' /\ Order' /\ Ready' /\ Ended'
  BY Passing
<1> QED
  BY <1>2, <1>3 DEF IInv

\* Steps that leave main where it is and change only the variables listed.
LEMMA StayingStep ==
    ASSUME IInv, UNCHANGED <<prog, pc, factories, informers, hook, localVNIs, working,
                             fabric, trapped>>,
           stopCh' \in BOOLEAN, ifcs' \subseteq ifcs, faults' \in 0 .. Faults,
           signals' \in 0 .. Signals
    PROVE  IInv'
<1>1. TypeOK'
  <2>1. {working, trapped, stopCh}' \subseteq BOOLEAN
    BY DEF IInv, TypeOK
  <2> QED
    BY <2>1 DEF IInv, TypeOK
<1>2. \A s : Past(s)' <=> Past(s)
  BY PastStays
<1>3. Used' = Used
  BY DEF Used, Attachments, FactoryFor
<1>4. Made' = Made
  BY <1>2, <1>3 DEF Made
<1>5. RunOnce' /\ Order'
  BY <1>2, <1>4 DEF IInv, RunOnce, Order
<1>6. Ready' /\ Ended'
  BY <1>2, <1>3, <1>4 DEF IInv, Ready, Ended, HasSynced
<1> QED
  BY <1>1, <1>5, <1>6 DEF IInv

LEMMA buildClientIInv == ASSUME IInv, buildClient PROVE IInv'
<1>1. CASE Advance /\ UNCHANGED <<process, node, factories, informers, faults>>
  BY <1>1, PassingStep DEF buildClient, process, node, IInv, TypeOK
<1> QED
  BY <1>1, FailingCallIInv DEF buildClient

LEMMA newNetFabricIInv == ASSUME IInv, newNetFabric PROVE IInv'
<1> PICK name \in Fabrics : NewNetFabricForName(name)
  BY DEF newNetFabric
<1>1. CASE /\ name \in factoryRegistry
           /\ fabric' = name
           /\ Advance
           /\ UNCHANGED <<process, localVNIs, ifcs, factories, informers, faults>>
  BY <1>1, PassingStep DEF newNetFabric, process, IInv, TypeOK
<1>2. CASE End /\ UNCHANGED <<faults, signals>>
  BY <1>2, EndIInv DEF IInv, TypeOK
<1> QED
  BY <1>1, <1>2, FailingCallIInv DEF NewNetFabricForName

LEMMA findServiceIInv == ASSUME IInv, findService PROVE IInv'
<1>1. CASE Advance /\ UNCHANGED faults
  BY <1>1, PassingStep DEF findService, process, node, IInv, TypeOK
<1>2. CASE Fault /\ UNCHANGED pc
  <2>1. faults' \in 0 .. Faults
    BY <1>2, ProcessesAssumption DEF Fault, IInv, TypeOK
  <2> QED
    BY <1>2, <2>1, StayingStep DEF findService, process, node, IInv, TypeOK
<1> QED
  BY <1>1, <1>2 DEF findService

LEMMA StopOnSignalsIInv == ASSUME IInv, StopOnSignals PROVE IInv'
BY PassingStep DEF StopOnSignals, node, IInv, TypeOK

LEMMA syncLocalIfcsIInv == ASSUME IInv, syncPreExistingLocalIfcs PROVE IInv'
<1>1. CASE Advance /\ ifcs' = ifcs \ {"local"} /\ UNCHANGED faults
  BY <1>1, PassingStep DEF syncPreExistingLocalIfcs, process, IInv, TypeOK
<1>2. CASE Fault /\ UNCHANGED <<pc, ifcs>>
  <2>1. faults' \in 0 .. Faults
    BY <1>2, ProcessesAssumption DEF Fault, IInv, TypeOK
  <2> QED
    BY <1>2, <2>1, StayingStep DEF syncPreExistingLocalIfcs, process, IInv, TypeOK
<1> QED
  BY <1>1, <1>2 DEF syncPreExistingLocalIfcs

LEMMA syncRemoteIfcsIInv == ASSUME IInv, syncPreExistingRemoteIfcs PROVE IInv'
<1>1. CASE ifcs = {} /\ Advance /\ UNCHANGED <<ifcs, faults>>
  BY <1>1, PassingStep DEF syncPreExistingRemoteIfcs, process, IInv, TypeOK
<1>2. CASE /\ \E v \in ifcs : /\ v \in localVNIs => HasSynced(Attachments(v))
                              /\ \/ ifcs' = ifcs \ {v} /\ UNCHANGED faults
                                 \/ Fault /\ UNCHANGED ifcs
           /\ UNCHANGED pc
  <2>1. faults' \in 0 .. Faults /\ ifcs' \subseteq ifcs
    BY <1>2, ProcessesAssumption DEF Fault, IInv, TypeOK
  <2> QED
    BY <1>2, <2>1, StayingStep DEF syncPreExistingRemoteIfcs, process, IInv, TypeOK
<1> QED
  BY <1>1, <1>2, Zenon DEF syncPreExistingRemoteIfcs

LEMMA WaitForCacheSyncIInv == ASSUME IInv, WaitForCacheSync PROVE IInv'
<1>1. CASE stopCh /\ End /\ UNCHANGED <<faults, signals>>
  BY <1>1, EndIInv DEF IInv, TypeOK
<1>2. CASE /\ \A i \in Used : HasSynced(i)
           /\ Advance
           /\ UNCHANGED <<process, node, factories, informers, faults>>
  <2>1. /\ At("sync") /\ Advance
        /\ UNCHANGED <<prog, hook, working, trapped, stopCh, signals, fabric, localVNIs,
                       ifcs, factories, informers, faults>>
    BY <1>2 DEF WaitForCacheSync, process, node
  <2>2. TypeOK'
    BY <1>2, <2>1, InformerTypes DEF IInv, TypeOK
  <2>3. /\ pc > 0 /\ pc' > 0
        /\ \A s \in Steps \ {"sync"} : Past(s)' <=> Past(s)
    BY <2>1, Advanced, LengthsPositive DEF IInv, TypeOK
  <2>4. Used' = Used
    BY <2>1 DEF Used, Attachments, FactoryFor
  <2>5. Made' = Made
    BY <2>1, <2>3, <2>4 DEF Made, Steps
  <2>6. RunOnce' /\ Order'
    BY <2>1, <2>3, <2>5 DEF IInv, RunOnce, Order, Steps
  <2>7. Ready' /\ Ended'
    BY <1>2, <2>1, <2>3, <2>4, <2>5 DEF IInv, Ready, Ended, Steps, HasSynced
  <2> QED
    BY <2>2, <2>6, <2>7 DEF IInv
<1> QED
  BY <1>1, <1>2 DEF WaitForCacheSync

LEMMA startFactoryIInv == ASSUME IInv, startFactory PROVE IInv'
<1>1. /\ At("start") /\ Advance /\ Start
      /\ UNCHANGED <<prog, hook, working, trapped, stopCh, signals, fabric, localVNIs,
                     ifcs, faults>>
  BY DEF startFactory, process, node
<1>2. /\ pc > 0 /\ pc' > 0 /\ pc \in 1 .. Len(Mains[prog]) /\ prog \in DOMAIN Mains
      /\ \A s \in Steps \ {"start"} : Past(s)' <=> Past(s)
  BY <1>1, Advanced, LengthsPositive DEF IInv, TypeOK
<1>3. Made = {} /\ hook # "done"
  BY <1>1, <1>2, Scripts DEF Made, IInv, Order
<1>4. factories'.informers = {} /\ factories'.startedInformers = {} /\ DOMAIN informers' = {}
  BY <1>1, <1>2, <1>3 DEF Start, IInv, Order
<1>5. Used' = Used
  BY <1>1 DEF Used, Attachments, FactoryFor
<1>6. Made' = {}
  BY <1>1, <1>2, <1>3, <1>5 DEF Made, Steps
<1>7. TypeOK'
  BY <1>1, <1>4, InformerTypes DEF startFactory
<1>8. RunOnce' /\ Order'
  BY <1>1, <1>2, <1>3, <1>4, <1>6 DEF IInv, RunOnce, Order, Steps
<1>9. Ready' /\ Ended'
  <2>1. Past("sync")' => \A i \in Used' : HasSynced(i)'
    BY <1>1, <1>2, Scripts DEF Steps
  <2> QED
    BY <1>1, <1>2, <1>5, <1>6, <2>1 DEF IInv, Ready, Ended, Steps
<1> QED
  BY <1>7, <1>8, <1>9 DEF IInv

LEMMA newInformersIInv == ASSUME IInv, newInformers PROVE IInv'
<1>1. /\ At("informers") /\ Advance /\ InformerFor(Used)
      /\ UNCHANGED <<prog, hook, working, trapped, stopCh, signals, fabric, localVNIs,
                     ifcs, faults>>
  BY DEF newInformers, process, node
<1>2. /\ pc > 0 /\ pc' > 0 /\ pc \in 1 .. Len(Mains[prog]) /\ prog \in DOMAIN Mains
      /\ \A s \in Steps \ {"informers"} : Past(s)' <=> Past(s)
      /\ Past("informers")'
  BY <1>1, Advanced, LengthsPositive DEF IInv, TypeOK
<1>3. /\ ~Past("informers") /\ ~Past("run") /\ ~Past("index") /\ ~Past("sync")
      /\ ~Past("remotes")
  BY <1>1, <1>2, Scripts
<1>4. Made = {} /\ hook = "none"
  BY <1>2, <1>3, Scripts DEF Made, IInv, Order
<1>5. Used' = Used
  BY <1>1 DEF Used, Attachments, FactoryFor
<1>6. Made' = Used
  BY <1>1, <1>2, <1>3, <1>5, UsedInformers DEF Made, Steps
<1>7. /\ factories'.informers = Used /\ factories'.startedInformers = {}
      /\ informers' = [i \in Used |-> NewInformer]
  BY <1>1, <1>2, <1>4 DEF InformerFor, Asked, IInv, Order
<1>8. TypeOK'
  <2>1. NewInformer \in [runs : Nat, indexed : BOOLEAN, handled : BOOLEAN, synced : BOOLEAN]
    BY DEF NewInformer
  <2> QED
    BY <1>1, <1>2, <1>7, <2>1, UsedInformers, InformerTypes DEF newInformers
<1>9. \A i \in Used : informers'[i].runs = 0
  BY <1>7 DEF NewInformer
<1>10. RunOnce' /\ Order'
  BY <1>1, <1>2, <1>3, <1>4, <1>6, <1>7, <1>9 DEF IInv, RunOnce, Order, Steps
<1>11. Ready' /\ Ended'
  BY <1>1, <1>2, <1>3, <1>5, <1>6 DEF IInv, Ready, Ended, Steps
<1> QED
  BY <1>8, <1>10, <1>11 DEF IInv

LEMMA addIndexersIInv == ASSUME IInv, addIndexersAndHandlers PROVE IInv'
<1>1. /\ At("index") /\ Advance
      /\ UNCHANGED <<prog, hook, working, trapped, stopCh, signals, fabric, localVNIs,
                     ifcs, factories, faults>>
  BY DEF addIndexersAndHandlers, process, node
<1>2. /\ pc > 0 /\ pc' > 0 /\ pc \in 1 .. Len(Mains[prog]) /\ prog \in DOMAIN Mains
      /\ \A s \in Steps \ {"index"} : Past(s)' <=> Past(s)
      /\ Past("index")'
  BY <1>1, Advanced, LengthsPositive DEF IInv, TypeOK
<1>3. ~Past("run") /\ hook # "done" /\ ~Past("sync")
  BY <1>1, <1>2, Scripts DEF IInv, Order
<1>4. Used' = Used
  BY <1>1 DEF Used, Attachments, FactoryFor
<1>5. Made' = Made
  BY <1>1, <1>2, <1>4 DEF Made, Steps
<1>6. DOMAIN informers = Made /\ DOMAIN informers' = Made
  BY <1>2 DEF addIndexersAndHandlers, IInv, Order
<1>7. ASSUME NEW i \in Made
      PROVE  /\ informers[i].runs = 0 /\ informers'[i].runs = 0 /\ informers'[i].handled
             /\ NeedsIndex(i) => informers'[i].indexed
             /\ informers'[i] \in [runs : Nat, indexed : BOOLEAN, handled : BOOLEAN,
                                   synced : BOOLEAN]
  <2>1. informers[i].runs = 0
    BY <1>2, <1>3, <1>6 DEF IInv, Order
  <2>2. informers[i] \in [runs : Nat, indexed : BOOLEAN, handled : BOOLEAN, synced : BOOLEAN]
    BY <1>6 DEF IInv, TypeOK
  <2>3. informers'[i] = AddEventHandler(IF NeedsIndex(i) THEN AddIndexers(informers[i])
                                                        ELSE informers[i])
    BY <1>6 DEF addIndexersAndHandlers
  <2> QED
    BY <2>1, <2>2, <2>3 DEF AddEventHandler, AddIndexers
<1>8. TypeOK'
  BY <1>1, <1>6, <1>7, InformerTypes DEF addIndexersAndHandlers, IInv, TypeOK
<1>9. RunOnce' /\ Order'
  BY <1>1, <1>2, <1>3, <1>5, <1>6, <1>7 DEF IInv, RunOnce, Order, Steps
<1>10. Ready' /\ Ended'
  BY <1>1, <1>2, <1>3, <1>4, <1>5, <1>7 DEF IInv, Ready, Ended, Steps
<1> QED
  BY <1>8, <1>9, <1>10 DEF IInv

LEMMA runInformersIInv == ASSUME IInv, runInformers PROVE IInv'
<1>1. /\ At("run") /\ Advance
      /\ UNCHANGED <<prog, hook, working, trapped, stopCh, signals, fabric, localVNIs,
                     ifcs, factories, faults>>
  BY DEF runInformers, process, node
<1>2. /\ pc > 0 /\ pc' > 0 /\ pc \in 1 .. Len(Mains[prog]) /\ prog \in DOMAIN Mains
      /\ \A s \in Steps \ {"run"} : Past(s)' <=> Past(s)
      /\ Past("run")'
  BY <1>1, Advanced, LengthsPositive DEF IInv, TypeOK
<1>3. ~Past("run") /\ hook # "done" /\ ~Past("sync")
  BY <1>1, <1>2, Scripts DEF IInv, Order
<1>4. Used' = Used
  BY <1>1 DEF Used, Attachments, FactoryFor
<1>5. Made' = Made
  BY <1>1, <1>2, <1>4 DEF Made, Steps
<1>6. DOMAIN informers = Made /\ DOMAIN informers' = Made
  BY <1>2 DEF runInformers, IInv, Order
<1>7. ASSUME NEW i \in Made
      PROVE  /\ informers'[i].runs = 1
             /\ informers'[i].handled = informers[i].handled
             /\ informers'[i].indexed = informers[i].indexed
             /\ informers'[i] \in [runs : Nat, indexed : BOOLEAN, handled : BOOLEAN,
                                   synced : BOOLEAN]
  <2>1. informers[i].runs = 0
    BY <1>2, <1>3, <1>6 DEF IInv, Order
  <2>2. informers[i] \in [runs : Nat, indexed : BOOLEAN, handled : BOOLEAN, synced : BOOLEAN]
    BY <1>6 DEF IInv, TypeOK
  <2>3. informers'[i] = Run(informers[i])
    BY <1>6 DEF runInformers
  <2> QED
    BY <2>1, <2>2, <2>3 DEF Run
<1>8. TypeOK'
  BY <1>1, <1>6, <1>7, InformerTypes DEF runInformers, IInv, TypeOK
<1>9. RunOnce' /\ Order'
  BY <1>1, <1>2, <1>3, <1>5, <1>6, <1>7 DEF IInv, RunOnce, Order, Steps
<1>10. Ready' /\ Ended'
  BY <1>1, <1>2, <1>3, <1>4, <1>5, <1>7 DEF IInv, Ready, Ended, Steps
<1> QED
  BY <1>8, <1>9, <1>10 DEF IInv

LEMMA startRemoteIInv == ASSUME IInv, startRemoteInformers PROVE IInv'
<1> DEFINE new == {Attachments(v) : v \in localVNIs}
           ran == Run(AddEventHandler(AddIndexers(NewInformer)))
<1>1. /\ At("remotes") /\ Advance
      /\ UNCHANGED <<prog, hook, working, trapped, stopCh, signals, fabric, localVNIs,
                     ifcs, faults>>
  BY DEF startRemoteInformers, process, node
<1>2. /\ pc > 0 /\ pc' > 0 /\ pc \in 1 .. Len(Mains[prog]) /\ prog \in DOMAIN Mains
      /\ \A s \in Steps \ {"remotes"} : Past(s)' <=> Past(s)
      /\ Past("remotes")'
  BY <1>1, Advanced, LengthsPositive DEF IInv, TypeOK
<1>3. /\ prog = "agent" /\ hook = "none" /\ Past("informers") /\ Past("run") /\ Past("index")
      /\ ~Past("remotes")
  BY <1>1, <1>2, Scripts DEF IInv, Order
<1>4. Used' = Used
  BY <1>1 DEF Used, Attachments, FactoryFor
<1>5. Used \subseteq Informer /\ new \subseteq Informer /\ new \cap Used = {}
      /\ \A v \in VNIs : NeedsIndex(Attachments(v))
  BY <1>2, UsedInformers DEF IInv, TypeOK
<1>6. Made = Used /\ Made' = Used \cup new
  <2>1. Made = Used
    BY <1>3, <1>5 DEF Made
  <2>2. Past("informers")' /\ Past("remotes")'
    BY <1>2, <1>3 DEF Steps
  <2>3. Made' = {i \in Informer : i \in Used \/ \E v \in localVNIs : i = Attachments(v)}
    BY <1>1, <1>4, <2>2 DEF Made, Attachments, FactoryFor
  <2> QED
    BY <1>5, <2>1, <2>3
<1>7. DOMAIN informers = Used /\ factories.informers = Used
      /\ factories.startedInformers = {}
  BY <1>2, <1>3, <1>6 DEF IInv, Order
<1>8. \A i \in new : i \notin factories.informers
  BY <1>5, <1>7
<1>9. /\ ran \in [runs : Nat, indexed : BOOLEAN, handled : BOOLEAN, synced : BOOLEAN]
      /\ ran.runs = 1 /\ ran.handled /\ ran.indexed
  <2>1. NewInformer \in [runs : Nat, indexed : BOOLEAN, handled : BOOLEAN, synced : BOOLEAN]
        /\ NewInformer.runs = 0
    BY DEF NewInformer
  <2> DEFINE made == AddIndexers(NewInformer)
             told == AddEventHandler(made)
  <2>2. /\ made \in [runs : Nat, indexed : BOOLEAN, handled : BOOLEAN, synced : BOOLEAN]
        /\ made.runs = 0 /\ made.indexed
    BY <2>1 DEF AddIndexers
  <2>3. ran = Run(told)
    OBVIOUS
  <2> HIDE DEF made, ran
  <2>4. /\ told \in [runs : Nat, indexed : BOOLEAN, handled : BOOLEAN, synced : BOOLEAN]
        /\ told.runs = 0 /\ told.indexed /\ told.handled
    BY <2>2 DEF AddEventHandler
  <2> HIDE DEF told
  <2> QED
    BY <2>3, <2>4 DEF Run
<1>10. informers' = [i \in Used \cup new |-> IF i \in new THEN ran ELSE informers[i]]
  BY <1>7, <1>8 DEF startRemoteInformers
<1>11. factories'.informers = Used \cup new /\ factories'.startedInformers = {}
  BY <1>7 DEF startRemoteInformers, Asked, IInv, TypeOK
<1> HIDE DEF new, ran
<1>12. TypeOK'
  <2>2. \A i \in Used : informers[i] \in [runs : Nat, indexed : BOOLEAN, handled : BOOLEAN,
                                          synced : BOOLEAN]
    BY <1>7 DEF IInv, TypeOK
  <2>3. \A i \in DOMAIN informers' :
           informers'[i] \in [runs : Nat, indexed : BOOLEAN, handled : BOOLEAN, synced : BOOLEAN]
    BY <1>9, <1>10, <2>2
  <2>4. DOMAIN informers' \subseteq Informer
    BY <1>5, <1>10
  <2> QED
    BY <1>1, <1>11, <2>3, <2>4, InformerTypes DEF startRemoteInformers
<1>13. RunOnce' /\ Order'
  <2>1. \A i \in Used : informers[i].runs = 1
    BY <1>2, <1>3, <1>6 DEF IInv, Order
  <2>2. \A i \in Used \cup new : informers'[i].runs = 1
    BY <1>9, <1>10, <2>1
  <2>3. Past("run")'
    BY <1>2, <1>3 DEF Steps
  <2> QED
    BY <1>1, <1>3, <1>6, <1>10, <1>11, <2>2, <2>3 DEF RunOnce, Order
<1>14. Ready' /\ Ended'
  <2>1. \A i \in Used : informers[i].handled /\ (NeedsIndex(i) => informers[i].indexed)
    BY <1>2, <1>3, <1>6, Zenon DEF IInv, Ready
  <2>2. \A i \in Used \cup new : informers'[i].handled /\ (NeedsIndex(i) => informers'[i].indexed)
    BY <1>9, <1>10, <2>1
  <2>3. \A i \in Used : informers'[i] = informers[i]
    BY <1>5, <1>10
  <2>4. Past("sync")' => \A i \in Used : informers'[i].synced
    BY <1>2, <2>3 DEF IInv, Ready, HasSynced, Steps
  <2>5. working' => Past(IF prog = "server" THEN "serve" ELSE "work")'
    BY <1>1, <1>2 DEF IInv, Ready, Steps
  <2> QED
    BY <1>1, <1>2, <1>4, <1>6, <2>2, <2>4, <2>5 DEF IInv, Ready, Ended, HasSynced
<1> QED
  BY <1>12, <1>13, <1>14 DEF IInv

LEMMA startWorkersIInv == ASSUME IInv, startWorkers PROVE IInv'
<1>1. /\ At("work") /\ Advance /\ working' = TRUE
      /\ UNCHANGED <<prog, hook, trapped, stopCh, signals, fabric, localVNIs, ifcs,
                     factories, informers, faults>>
  BY DEF startWorkers, node
<1>2. /\ pc > 0 /\ pc' > 0 /\ pc \in 1 .. Len(Mains[prog]) /\ prog \in DOMAIN Mains
      /\ \A s \in Steps \ {"work"} : Past(s)' <=> Past(s)
      /\ Past("work")'
  BY <1>1, Advanced, LengthsPositive DEF IInv, TypeOK
<1>3. prog # "server"
  BY <1>1, <1>2, Scripts
<1>4. Used' = Used
  BY <1>1 DEF Used, Attachments, FactoryFor
<1>5. Made' = Made
  BY <1>1, <1>2, <1>4 DEF Made, Steps
<1>6. TypeOK'
  <2>1. {working, trapped, stopCh}' \subseteq BOOLEAN
    BY <1>1 DEF IInv, TypeOK
  <2> QED
    BY <1>1, <2>1, PassingTypes DEF IInv, TypeOK
<1>7. RunOnce' /\ Order'
  BY <1>1, <1>2, <1>5 DEF IInv, RunOnce, Order, Steps
<1>8. Ready' /\ Ended'
  BY <1>1, <1>2, <1>3, <1>4, <1>5 DEF IInv, Ready, Ended, Steps, HasSynced
<1> QED
  BY <1>6, <1>7, <1>8 DEF IInv

LEMMA PrepareRunAndRunIInv == ASSUME IInv, PrepareRunAndRun PROVE IInv'
<1>1. /\ At("serve") /\ Advance /\ working' = TRUE /\ hook' = "due"
      /\ UNCHANGED <<prog, trapped, stopCh, signals, fabric, localVNIs, ifcs,
                     factories, informers, faults>>
  BY DEF PrepareRunAndRun, node
<1>2. /\ pc > 0 /\ pc' > 0 /\ pc \in 1 .. Len(Mains[prog]) /\ prog \in DOMAIN Mains
      /\ \A s \in Steps \ {"serve"} : Past(s)' <=> Past(s)
      /\ Past("serve")'
  BY <1>1, Advanced, LengthsPositive DEF IInv, TypeOK
<1>3. prog = "server" /\ ~Past("run") /\ ~Past("serve")
  BY <1>1, <1>2, Scripts
<1>4. Used' = Used
  BY <1>1 DEF Used, Attachments, FactoryFor
<1>5. Made' = Made
  BY <1>1, <1>2, <1>4 DEF Made, Steps
<1>6. hook = "none"
  BY <1>2, <1>3 DEF IInv, Order
<1>7. TypeOK'
  <2>1. {working, trapped, stopCh}' \subseteq BOOLEAN
    BY <1>1 DEF IInv, TypeOK
  <2>2. pc' \in 0 .. Len(Mains[prog'])
    BY <1>1, Advanced, LengthsPositive DEF IInv, TypeOK
  <2> QED
    BY <1>1, <2>1, <2>2 DEF IInv, TypeOK
<1>8. RunOnce' /\ Order'
  BY <1>1, <1>2, <1>3, <1>5, <1>6 DEF IInv, RunOnce, Order, Steps
<1>9. Ready' /\ Ended'
  BY <1>1, <1>2, <1>3, <1>4, <1>5 DEF IInv, Ready, Ended, Steps, HasSynced
<1> QED
  BY <1>7, <1>8, <1>9 DEF IInv

LEMMA PostStartHookIInv == ASSUME IInv, PostStartHook PROVE IInv'
<1>1. /\ hook = "due" /\ pc > 0 /\ Start /\ hook' = "done"
      /\ UNCHANGED <<prog, working, trapped, stopCh, signals, fabric, localVNIs, ifcs,
                     pc, faults>>
  BY DEF PostStartHook, node
<1>2. /\ \A s : Past(s)' <=> Past(s)
      /\ pc \in 1 .. Len(Mains[prog]) /\ prog \in DOMAIN Mains
  BY <1>1, PastStays, LengthsPositive DEF IInv, TypeOK
<1>3. prog = "server" /\ Past("serve") /\ ~Past("run")
  BY <1>1, <1>2, Scripts DEF IInv, Order
<1>4. Used' = Used
  BY <1>1 DEF Used, Attachments, FactoryFor
<1>5. Made' = Made
  BY <1>1, <1>2, <1>4 DEF Made
<1>6. /\ DOMAIN informers = Made /\ factories.informers = Made
      /\ factories.startedInformers = {}
      /\ \A i \in Made : informers[i].runs = 0
  BY <1>1, <1>3 DEF IInv, Order
<1>7. informers' = [i \in Made |-> Run(informers[i])]
  BY <1>1, <1>6 DEF Start
<1>8. factories'.informers = Made /\ factories'.startedInformers = Made
  BY <1>1, <1>6 DEF Start
<1>9. ASSUME NEW i \in Made
      PROVE  /\ informers'[i].runs = 1
             /\ informers'[i].handled = informers[i].handled
             /\ informers'[i].indexed = informers[i].indexed
             /\ informers'[i].synced = informers[i].synced
             /\ informers'[i] \in [runs : Nat, indexed : BOOLEAN, handled : BOOLEAN,
                                   synced : BOOLEAN]
  <2>1. informers[i] \in [runs : Nat, indexed : BOOLEAN, handled : BOOLEAN, synced : BOOLEAN]
    BY <1>6 DEF IInv, TypeOK
  <2> QED
    BY <1>6, <1>7, <2>1 DEF Run
<1>10. TypeOK'
  <2>1. {working, trapped, stopCh}' \subseteq BOOLEAN
    BY <1>1 DEF IInv, TypeOK
  <2>2. Made \subseteq Informer
    BY DEF Made
  <2> QED
    BY <1>1, <1>7, <1>8, <1>9, <2>1, <2>2 DEF IInv, TypeOK
<1>11. RunOnce' /\ Order'
  BY <1>1, <1>2, <1>3, <1>5, <1>7, <1>8, <1>9 DEF RunOnce, Order
<1>12. Ready' /\ Ended'
  <2>1. Past("informers") => Used \subseteq Made
    BY <1>2, UsedInformers DEF Made
  <2>2. Past("informers")
    BY <1>2, <1>3, Scripts
  <2> QED
    BY <1>1, <1>2, <1>4, <1>5, <1>9, <2>1, <2>2 DEF IInv, Ready, Ended, HasSynced
<1> QED
  BY <1>10, <1>11, <1>12 DEF IInv

LEMMA SyncIInv == ASSUME IInv, NEW i \in DOMAIN informers, Sync(i) PROVE IInv'
<1>1. /\ pc > 0 /\ informers' = [informers EXCEPT ![i].synced = TRUE]
      /\ UNCHANGED <<prog, hook, working, trapped, stopCh, signals, fabric, localVNIs, ifcs,
                     pc, factories, faults>>
  BY DEF Sync, process, node
<1>2. \A s : Past(s)' <=> Past(s)
  BY <1>1, PastStays
<1>3. Used' = Used
  BY <1>1 DEF Used, Attachments, FactoryFor
<1>4. Made' = Made
  BY <1>1, <1>2, <1>3 DEF Made
<1>5. DOMAIN informers' = DOMAIN informers
  BY <1>1
<1>6. ASSUME NEW j \in DOMAIN informers
      PROVE  /\ informers'[j].runs = informers[j].runs
             /\ informers'[j].handled = informers[j].handled
             /\ informers'[j].indexed = informers[j].indexed
             /\ informers[j].synced => informers'[j].synced
             /\ informers'[j] \in [runs : Nat, indexed : BOOLEAN, handled : BOOLEAN,
                                   synced : BOOLEAN]
  <2>1. informers[j] \in [runs : Nat, indexed : BOOLEAN, handled : BOOLEAN, synced : BOOLEAN]
    BY DEF IInv, TypeOK
  <2> QED
    BY <1>1, <2>1
<1>7. TypeOK'
  <2>1. {working, trapped, stopCh}' \subseteq BOOLEAN
    BY <1>1 DEF IInv, TypeOK
  <2> QED
    BY <1>1, <1>5, <1>6, <2>1 DEF IInv, TypeOK
<1>8. RunOnce' /\ Order'
  BY <1>1, <1>2, <1>4, <1>5, <1>6 DEF IInv, RunOnce, Order
<1>9. Ready' /\ Ended'
  <2>1. \A j \in Made : j \in DOMAIN informers
    BY <1>1 DEF IInv, Order
  <2>2. Past("sync") => \A j \in Used : HasSynced(j)'
    <3> SUFFICES ASSUME Past("sync"), NEW j \in Used PROVE HasSynced(j)'
      OBVIOUS
    <3>1. informers[j].synced
      BY <1>1 DEF IInv, Ready, HasSynced
    <3>2. informers'[j].synced
      BY <1>1, <1>6, <3>1
    <3> QED
      BY <3>2 DEF HasSynced
  <2> QED
    BY <1>1, <1>2, <1>3, <1>4, <1>6, <2>1, <2>2 DEF IInv, Ready, Ended
<1> QED
  BY <1>7, <1>8, <1>9 DEF IInv

LEMMA SignalIInv == ASSUME IInv, Signal PROVE IInv'
<1>1. signals' \in 0 .. Signals /\ faults' = faults
  BY ProcessesAssumption DEF Signal, IInv, TypeOK
<1>2. CASE End
  BY <1>1, <1>2, EndIInv DEF IInv, TypeOK
<1>3. CASE /\ stopCh' = TRUE
           /\ UNCHANGED <<prog, hook, working, trapped, node, pc, factories, informers>>
  BY <1>1, <1>3, StayingStep DEF node, IInv, TypeOK
<1> QED
  BY <1>2, <1>3 DEF Signal

LEMMA awaitStopIInv == ASSUME IInv, awaitStop PROVE IInv'
BY EndIInv DEF awaitStop, IInv, TypeOK

LEMMA StutterIInv == ASSUME IInv, UNCHANGED vars PROVE IInv'
<1>1. UNCHANGED <<prog, pc, factories, informers, hook, localVNIs, working, fabric, trapped,
                  stopCh, ifcs, faults, signals>>
  BY DEF vars, process, node
<1> QED
  BY <1>1, StayingStep DEF IInv, TypeOK

LEMMA NextIInv == IInv /\ [Next]_vars => IInv'
<1> SUFFICES ASSUME IInv, [Next]_vars PROVE IInv'
  OBVIOUS
<1>1. CASE Main
  BY <1>1, buildClientIInv, newNetFabricIInv, findServiceIInv, StopOnSignalsIInv,
     startFactoryIInv, newInformersIInv, addIndexersIInv, runInformersIInv,
     WaitForCacheSyncIInv, syncLocalIfcsIInv, startRemoteIInv, syncRemoteIfcsIInv,
     startWorkersIInv, PrepareRunAndRunIInv, awaitStopIInv, FailingCallIInv, Zenon
     DEF Main, listIfcsFails, serverFails
<1>2. CASE PostStartHook
  BY <1>2, PostStartHookIInv
<1>3. CASE \E i \in DOMAIN informers : Sync(i)
  BY <1>3, SyncIInv, Zenon
<1>4. CASE Signal
  BY <1>4, SignalIInv
<1>5. CASE UNCHANGED vars
  BY <1>5, StutterIInv
<1> QED
  BY <1>1, <1>2, <1>3, <1>4, <1>5, Zenon DEF Next

LEMMA Invariant == Spec => []IInv
BY InitIInv, NextIInv, PTL DEF Spec

-----------------------------------------------------------------------------
(* What is proved.                                                          *)

\* The variables of a process have their types: an agent that goes on has a
\* registered fabric, and a factory starts no informer that it was not asked for.
THEOREM Typed == Spec => []TypeOK
<1>1. IInv => TypeOK
  BY DEF IInv
<1> QED
  BY <1>1, Invariant, PTL

\* No informer is run twice, by the factories' Start (in main or in the API
\* server's PostStartHook), by the controllers' Run and by the agent's
\* startRemoteAttsInformer together.
THEOREM InformersRunOnce == Spec => []RunOnce
<1>1. IInv => RunOnce
  BY DEF IInv
<1> QED
  BY <1>1, Invariant, PTL

\* The workers of the IPAM controller and of the connection agent run only with
\* caches that are indexed, have their handlers and have been listed.
THEOREM WorkersFindCachesReady == Spec => []WorkersReady
<1>1. ASSUME IInv PROVE WorkersReady
  <2> SUFFICES ASSUME working, prog # "server"
               PROVE  /\ \A i \in Used : HasSynced(i)
                      /\ \A i \in DOMAIN informers :
                            /\ informers[i].runs > 0 /\ informers[i].handled
                            /\ NeedsIndex(i) => informers[i].indexed
    BY DEF WorkersReady
  <2>1. /\ pc > 0 /\ pc \in 1 .. Len(Mains[prog]) /\ prog \in DOMAIN Mains
    BY <1>1, LengthsPositive DEF IInv, TypeOK, Ended
  <2>2. Past("work")
    BY <1>1, <2>1 DEF IInv, Ready
  <2>3. Past("run") /\ Past("index") /\ Past("sync")
    BY <2>1, <2>2, Scripts
  <2>4. \A i \in Used : HasSynced(i)
    BY <1>1, <2>1, <2>3 DEF IInv, Ready
  <2>5. DOMAIN informers = Made /\ \A i \in Made : informers[i].runs = 1
    BY <1>1, <2>1, <2>3 DEF IInv, Order
  <2>6. \A i \in Made : informers[i].handled /\ (NeedsIndex(i) => informers[i].indexed)
    BY <1>1, <2>1, <2>3, Zenon DEF IInv, Ready
  <2> QED
    BY <2>4, <2>5, <2>6
<1> QED
  BY <1>1, Invariant, PTL
=============================================================================
