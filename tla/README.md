# TLA+ models of KOS, the Kubernetes SDN example

The repository is a collection of kube examples. All of them but one are
deployment recipes; the program is `staging/kos` (KOS), an SDN control plane
built as a Kubernetes aggregated API server and two controllers. The models
are of KOS. Paths below are relative to `src/staging/kos`.

## Inventory

| part | state | operations | source |
|---|---|---|---|
| API objects | NetworkAttachment, Subnet, IPLock; UID, ResourceVersion | create, update, delete, watch | `pkg/apis/network/v1alpha1/types.go`, `pkg/registry/network` |
| Subnet admission | a lister cache per API server | validate a Subnet: VNI range, CIDR, one namespace per VNI, disjoint ranges per VNI | `pkg/registry/network/subnet/strategy.go` |
| IPAM controller | three informer caches, address cache, in-flight records, work queue | notification handlers; pass over an attachment: analyze and release locks, pick and lock an address, update the status | `pkg/controllers/ipam/ipam.go` |
| address sets | a sorted list of runs of uint32 | Add, Remove, AddOneInRange, Export | `pkg/uint32set` |
| connection agent | local and per-VNI remote informers, VN states, interface tables, work queue | handlers, start-up synchronisation, pass over an attachment, interface create/delete, commands | `pkg/controllers/connectionagent` |
| network fabric | OVS bridge, ports, flows, VNI/IP locks | create, delete, list local and remote interfaces | `pkg/networkfabric` |
| throughput driver | slots, connectivity domains, owners of addresses | lay out networks; create, test and delete attachments | `cmd/attachment-tput-driver` |
| main programs | informers asked for and started, stop channel, PostStartHook | start the parts in order, stop them on a signal | `cmd/controllers`, `cmd/network-apiserver`, `pkg/cmd/server`, `pkg/client/informers`, `pkg/networkfabric/factory` |

How they interact. Clients create Subnets and NetworkAttachments. The IPAM
controller sees them through informers, takes an address by creating an IPLock
whose *name* is a function of VNI and address (so that the API server lets one
lock exist per address), and writes the address, the VNI and the lock's UID in
the attachment's status. The connection agent of each node sees the attachments
of its node and those of every VNI that its node has an attachment on, and
tells the fabric which interfaces to make. There is no transaction over two
objects and nothing stops a client from deleting or replacing an object at any
time; every controller works from caches that lag the store.

What is hard, and what makes each part correct:

* **IPAM controller.** The attachment, its Subnet and its locks are read from
  three caches that lag independently. A pass makes several API calls, each of
  which can fail before or after it took effect, and other workers, handlers,
  clients, the garbage collector and even a second controller act in between.
  Correct means: an address of a VNI is in the status of at most one
  attachment; a status names its own lock; no address is lost from the pool; an
  in-flight record is believed only while a lock supports it; everyone is
  served in the end.
* **Subnet admission.** Validation reads a cache, the write comes later: two
  writers race, and a cache lags. Correct means one namespace and disjoint
  ranges per VNI.
* **Address sets.** Runs are split and merged, with arithmetic that could wrap.
  Correct means the run list represents the set, with gaps between the runs.
* **Connection agent.** Informers are started and stopped as VNIs become and
  cease to be relevant; an attachment can be local, remote in several VNIs, or
  both for a while. Correct means that no interface outlives its attachment,
  each attachment has the interface that its status calls for, and reports
  belong to the interface they are about.
* **Fabric.** Operations of several commands that can fail half way, on several
  goroutines, and a process that can die in between. Correct means that the
  bridge looks to its client like a set of interfaces that appear and disappear
  whole, that a failed deletion can be repeated, and that listing returns what
  was created.
* **Throughput driver.** Slots are used again while notifications about their
  former attachments, and answers to calls that may have taken effect, are on
  their way. Correct means that no attachment is forgotten and that what a slot
  records is about the attachment in it.
* **Main programs.** Factories and controllers both run informers, indexers can
  only be added before, and workers must wait for what was started. Correct
  means that each informer runs once, workers find their caches ready, and a
  signal ends the process.

## Modules

| module | models |
|---|---|
| `KosApi` | the store, its clients, the watch streams, the garbage collector |
| `IPAM` | the IPAM controller over `KosApi`; its properties |
| `AddressAllocation` | the abstract allocation that the controller promises |
| `MCIPAM` | instances of `IPAM` for TLC |
| `IPAM_proofs` | type correctness of `IPAM`; a status names its own lock; in a calm environment the controller implements the abstract allocation |
| `AddressAllocation_proofs` | the abstract allocation is exclusive |
| `SubnetRegistry` | admission of Subnets by several API servers |
| `MCSubnetRegistry` | its instances for TLC |
| `SubnetRegistry_proofs` | type correctness; conflicts come only from what was not seen |
| `UInt32Set` | the run list of the address cache, next to a simple set |
| `IPLockNames` | addresses as numbers and bytes, names of locks, lists of parsed locks |
| `AddressLocks` | the address cache with the locks on its members |
| `AddressLocks_proofs` | the run list represents the set; names and addresses correspond one to one |
| `NetIfc` | interfaces: VNI/IP pairs, MACs, hosts |
| `NetFabric` | the fabric that a connection agent may expect |
| `ConnectionAgent` | the connection agent of one node over `NetFabric` |
| `MCConnectionAgent` | its instances for TLC |
| `ConnectionAgent_proofs` | type correctness; the agent knows the interfaces of the fabric |
| `OVSFabric` | the fabric on Open vSwitch, shown to implement `NetFabric` |
| `MCOVSFabric` | its instances for TLC |
| `OVSFabric_proofs` | flows, client and bridge agree; the bridge implements `NetFabric` |
| `TputDriver` | the throughput driver |
| `MCTputDriver` | its instances for TLC |
| `TputDriver_proofs` | what a slot and the driver's tables say of the attachments |
| `Processes` | the main programs, informer factories, fabric registry, signals |
| `Processes_proofs` | informers run once, workers find their caches ready |

`IPAM` extends `KosApi` and instantiates `AddressAllocation`. `SubnetRegistry`
looks closer at what `KosApi.WriteSubnet` takes as one step, and `UInt32Set` and
`IPLockNames`, put together in `AddressLocks`, justify the plain set and the
slots that `IPAM` uses. `NetFabric` is what the agent and the fabric agree on:
`ConnectionAgent` extends it and calls its operations, `OVSFabric` instantiates
it with a mapping from the bridge's devices and flows. `TputDriver` and
`Processes` stand on their own.

### KosApi

An attachment key is a namespaced name (`NameOf` drops the namespace). A record
whose `uid` (attachments) or `rv` (Subnets) is 0 is an object that does not
exist. A slot is a pair of VNI and address, the name of an IPLock; `locks` is
the set of existing locks. Every write appends to the watch streams
(`attEvents`, `lockEvents`, `subnetEvents`) of every controller, so that each
stream is in the order of the writes and the three are delivered independently.
`ClientNext` has the clients' operations. An update by somebody else, such as a
connection agent writing its part of the status, is `UpdateAttachment`: it
changes the ResourceVersion and perhaps the Subnet named by the spec.
`CollectGarbage` removes a lock whose owner's UID is gone.

### IPAM

The variables are the controller's: the informer caches (`attCache`,
`lockCache`, `subnetCache`), the lock notifications between the informer's
indexer and the handler (`lockNotes`), the work queue, `nadat` (the map
`atts` of in-flight records), `addrCache`, and `proc`, the pass under way over
each key with its local variables. A work queue never hands one key to two
workers, so a pass is kept per key; at most `Workers` are under way.

| action | code |
|---|---|
| `OnAttachmentNotify`, `OnSubnetNotify`, `IndexLock`, `OnLockNotify` | the handlers; for locks the indexer and the handler are two steps, since the address cache is fed by the handler and the analysis reads the indexer |
| `processNetworkAttachment` | a worker takes a key; the caches are read, `analyzeAndRelease` decides which locks to release and what comes after, including the live query for the lock of the address in the status |
| `deleteIPLockObject` | one deletion with its UID precondition: done, already gone, precondition failed, or error |
| `PickAddress`, `LockAddress`, `RecoverLock` | the three steps of `pickAndLockAddress`: pick from the cache, create the lock, fetch the lock that is in the way |
| `updateNAStatus` | the status write, with the ResourceVersion as precondition, and the in-flight record |
| `Restart` | the process dies and a new one starts: the caches are listed, the locks are notified in any order, everything else is empty |

A failing call (`Spend("fault")`) may or may not have taken effect. A creation
refused as invalid (`Spend("invalid")`) is a permanent error in the code.

Abstractions: addresses are numbers; the texts of errors, metrics and logs are
left out; the reads at the start of a pass are one step (each cache is read
once, and what could change between the reads is covered by the caches lagging
independently); a malformed CIDR in a Subnet is treated as a missing Subnet,
which the code does too except for the text; a VNI is in one namespace, so a
slot determines its lock's namespace.

### SubnetRegistry

An API server validates a Subnet (`Admit`, the checks under the names they have
in `strategy.go`) against the Subnets in its own informer's cache (`lister`);
the write comes later (`Write`) and only has the precondition of the storage
layer: no such Subnet yet for a creation, the validated ResourceVersion for an
update. A refused request changes nothing and is no step. `Restart` and `Sync`
are the server's start: it serves requests before its informer, started by a
PostStartHook that nothing waits for, has listed anything. Clients want certain
specs (`goals`), retry, and may change their mind. `seen` is a history variable:
the cache that the stored revision of a Subnet was validated against. A spec has
a VNI, whether its CIDR block parses, and the first and last address of the
block. A block that parses but is not IPv4 is left out.

### UInt32Set

`runs` is the content of the sorted set in a `SortedUInt32Set`: nodes with the
first and last number of a run. `members`, `low` and `high` are the
`HashUInt32Set` on which the unit test performs the same operations. Numbers
end at `Last` and wrap there (`Inc`, `Dec`, `Span`). The temporary insertion by
which `Find`, `Add` and `innerRemove` find the neighbours of a number is
abstracted to `Before` and `After`. `AddOneInRange` is random in the code: every
choice of gap and number is a step.

`RExport`, `Export` and `Has` of both sets are operators, compared by
`ReadersAgree`.

### IPLockNames, AddressLocks

A `net.IP` is a sequence of 4 or 16 bytes, a lock's name the sequence of its
parts between dashes, so that `makeIPLockName2` and `parseIPLockName` are
modelled by what they compute, with the widths that `ParseUint` enforces; digits
are not. `ParsedLock` and the list operations (`Best`, `RemFunc`, `AddListFunc`)
are those of `analyzeAndRelease`. `AddressLocks` lets the value 0 of the set
stand for an address just below a boundary of two bytes.

### NetIfc, NetFabric, ConnectionAgent

An interface is known by its VNI/IP pair. Its MAC is computed as in
`generateMACAddr`; its device name, which is a rewriting of the MAC, is the MAC.
`NetFabric` has what `networkfabric.Interface` promises the agent: creation that
is refused while the pair is in use, deletion, and sets that outlive the agent.

`ConnectionAgent` keeps the names of the agent's tables. `vniToVnState` also
holds the informer of each virtual network: its cache, the watch events not yet
indexed and the notifications not yet handled.

| action | code |
|---|---|
| `onLocalAtt` | the local informer and its three handlers |
| `IndexRemoteAtt`, `onRemoteAtt` | a remote informer's indexer and, on another goroutine, its handlers |
| `onLateRemoteAtt`, `EndStoppedInformers` | handlers still called after the informer was stopped, or no longer |
| `processNetworkAttachment`, `getAttachment` | the start of a pass; the remote and the local cache are read in two steps |
| `removeAttFromVNState`, `clearVNResources` | the departure from a vnState; the last local attachment stops the informer and queues the remote ones |
| `updateVNStateForExistingAtt` | joining a vnState as local or remote, leaving it as its last local one, or finding none |
| `updateIfc`, `createIfc` | deletion of an interface that does not fit and creation of the new one; the post-create command is launched |
| `RunCommand` | a post-create command ends and its report is stored |
| `setAttStatus` | the status write, with the ResourceVersion as precondition |
| `processDeletedAtt` | the interface of a deleted or irrelevant attachment goes |
| `syncPreExistingLocalIfc`, `startRemoteInformers`, `syncPreExistingRemoteIfc`, `startWorkers` | start-up |
| `Crash`, `Fault` | restart of the agent; a failing call |

Abstractions: attachments are in one namespace; a node and its host IP are one
name; a failing call has no effect; an informer lists what it selects at the
moment its vnState is made (a watch then tells of every change, so a list that
comes later only merges events); late notifications are kept of the last
informer stopped in each VNI; one field stands for the MAC and the interface
name in a status, and a report is the pair of the interface whose command it is
of. Post-delete commands change no state of the agent and are left out.

A call of the fabric and the update of the table that follows it are one step
(`createIfc`, `deleteOldLocalIfc`): no other pass works on the same attachment,
and a restart forgets the table anyway. `setAttStatus` compares the object where
the code compares its ResourceVersion.

Five variables are history: `homes` (the nodes an attachment was ever on),
`adopted` (attachments matched to a remote interface at start-up that had no pass
since), `twofold` (remote interfaces matched at start-up to an attachment that
had been matched to a local one), `lost` (the pairs of the local interfaces that
start-up then deleted and left in the table) and `behind` (attachments that a
pass read as remote ones from a vnState which was replaced, while the pass was
under way, by one that does not have them). They state what the agent does not
settle:

* `FabricOwned` excepts interfaces in `twofold`;
* `MembersUpToDate` excepts attachments with an interface in `twofold` or `lost`,
  adopted and ambiguous ones, the remote attachments of networks that ambiguous
  ones hold on the node, and remote attachments in `behind` that have left the
  watch of their vnState. A remote attachment that was deleted in the ordinary
  way is no exception: its interface must be gone;
* `ResidentsServed` asks for the interface in the agent's table in any case, and
  in the fabric unless its pair is in `lost`: a later pass over the attachment
  that lost it deletes that pair once more, whoever has it then;
* `StrangersServed` asks that the attachments that were on this node never were
  elsewhere, since those may be forgotten (`agent_forgotten`) and their network
  with them, or hold a network that has left the node.

`UpToDate`, which these properties share, is about the tables (`Recorded`) and
about the fabric (`InFabric`).

### OVSFabric

The bridge is a set of devices with their ports and a set of flows, each with
its match and its action in place of the text of a command. Every `ovs-vsctl`
or `ovs-ofctl` command is a step that can fail without effect; flows are added
and deleted in bundles, which Open vSwitch applies as a whole. A call is kept per
goroutine with its place and the port it found. The lists of start-up group
flows as the code does: local ones by output port, remote ones by the cookie
that `binary.Uvarint` makes of the MAC. `leaked` is a history variable: devices
whose clean-up failed; so is `mixed`: a start-up took the flows of two remote
interfaces with one cookie for one interface. Crashes are unlimited, so are
failures; the state space is finite without bounds on them.

The client, which is the agent, deletes local interfaces that it has and ones
that do not exist (`Absent`), since it does both: after a twofold match at
start-up its table has an interface that is gone. `DeleteLocalIfc` then fails at
the port of the device and changes nothing. `DeleteRemoteIfc` of what does not
exist deletes no flow and succeeds; it is no step. Supposed of the client is that
no two of its goroutines work on one pair while an interface that does not exist
is being deleted; for interfaces that exist the pair is locked. A port is
supposed to be printed as a number: `parseOFport` takes anything else for port 0.

### TputDriver

`MakeVirtNets` is the loop of `main` that lays out networks and subnets, for
the default exponent and size factor. Then `createNamespace`, `createSubnet`,
`listNodes`, `waitForInitializedSubnets` prepare, and threads take their slots in
turn: `GetReadyAttachment` waits on a connectivity domain with a timer
(`FallAsleep`, `TimerGoesOff`, `LookAgain`), `NameSlot`, `CreateAttachment`,
`setNetAtt` and `CreateFailed` make an attachment, `CloseForDelete`, `tryDelete`,
`Advance` delete it. `OnAttachmentEvent` is the informer's handler. A creation
can take effect and be reported as failed, and so can a deletion, whose repetition
then finds nothing, which counts as success; a deletion that failed is repeated
unless the driver was told to stop. The pace of the threads, the histograms and
the choice of peers are left out. Clocks are left out too: a thread may act at
any time.

### Processes

Each of the three programs is a sequence of steps that `pc` points into
(`ipamMain`, `agentMain`, `serverMain`): what the actions of the other modules
take for granted at their `Init`. `InformerFor` and `Start` are the generated
factory's; an informer has been run so many times, has or has not its index,
its handlers, and its list. `NewNetFabricForName` looks a name up in the registry
that the imported packages filled. The API server's factory is
`informers/internalversion`, the same generated code as the one that is mapped.
The PostStartHook, the informers and the
signal handler run beside main.

## Runs

Every bound is in the instance: `Budgets` gives how often each kind of
environment event happens, `MaxLocks` how many locks are ever created.

| run | instance | checks |
|---|---|---|
| `ipam_calm` | 2 attachments, 2 addresses, 2 workers; three creations and a deletion, or two creations, a deletion and a restart; no failures | `TypeOK`, `AddressExclusive`, `AnticipationSupported`, `QuiescentSettled`, `ImplementsAllocation` |
| `ipam_rough` | the same with a failed call combined with a deletion, an update by others, or a restart and a refused call; and one attachment whose Subnet is written or deleted twice, moving between two VNIs | `StatusNamesItsLock`, `NoAddressLeaks` |
| `ipam_live` | 2 attachments, 1 address, a deletion, a restart | `EventuallySettled` |
| `ipam_duplicate` | as `ipam_calm`, but one update of an attachment by another client | `AddressExclusive` is violated |
| `subnet_moves` | 2 API servers, 3 Subnets in 2 namespaces, 2 requests in flight, a restart or a passing deletion; four scenarios of changing goals | `TypeOK`, `ConflictsUnseen`, `GoalsReached` |
| `addresses` | words of 3 bits: all 256 sets; the least and the greatest VNI | `Represents`, `PicksRight`, `ReadersAgree`, `NamesFaithful`, `ListsKeepOne` |
| `agent` | 2 attachments, 2 nodes, 2 virtual networks with 2 and 1 addresses; three writes, or two writes, a restart and a failing call | `TypeOK`, `FabricOwned`, `MembersUpToDate`, `ResidentsServed`, `StrangersServed` |
| `agent_forgotten` | 1 attachment, 1 address; it moves away and back | `LocalServed` is violated |
| `ovs` | 2 goroutines, 2 pairs, 2 hosts, 2 ports | `TypeOK`, `FlowsLeadHome`, `ClientKnows`, `ImplementsFabric` |
| `ovs_cookie` | the same, with pairs whose MACs begin with one byte | `RemoteIfcsListed` is violated |
| `driver` | 2 threads, 2 slots, 3 attachments, so that a slot is used twice; two status writes, or one and a failure or a signal; and 960 layouts of up to 6 networks of up to 20 slots | `TypeOK`, `LayoutSound`, `NothingForgotten`, `SlotsTellTruth`, `DuplicatesNoticed`, `PendingCovers` |
| `processes` | 3 programs, 2 VNIs, 2 failing calls, 2 signals | `TypeOK`, `RunOnce`, `WorkersReady`, `ComesUp`, `StopEnds` |

The bounds. For IPAM two attachments and two addresses are the least with which
an address can be given to the wrong one while another is free; a deletion and
a third creation give a key a second incarnation; one failure, update or restart
is enough for every retry path to be taken once. For Subnets two API servers and
two requests in flight are the least with which both kinds of race exist, a
write after the validation and a lagging cache; the scenarios have a Subnet grow
over a range that another leaves, a VNI change hands between namespaces, goals
that cannot be had together and goals that are invalid. Three bits are enough
for the run list: eight numbers hold up to four runs, with gaps of one and more,
at both ends of the range of numbers and away from them; the eight addresses lie
across a boundary of bytes. For the agent two attachments let one be the last
local one of a virtual network while the other is remote in it, and three writes
let a network become relevant, irrelevant and relevant again, an attachment be
in two remote caches, or in a remote and the local one. For the bridge two
goroutines on two pairs meet on one pair and on two, and two ports make a port
pass from one device to another. For the driver a slot that is used twice has
tardy notifications.

Deadlock is not checked where the system may rest: when the budget is spent and
everyone is served, or when a process has ended. In `addresses`, `ovs` and the
registry there is always a next operation.

What the violations show.

* `ipam_calm` needs its restriction that no client other than the controller
  updates an attachment (`ipam_duplicate`). One such update, before the
  controller's first status write, suffices. The controller has locked an address
  and its write is refused by conflict: the address is in no status, and no
  in-flight record is made, since only a write that succeeds makes one. The retry
  sees the updated attachment but not yet its lock, locks a second address and
  shows it. Before the notification of that write comes, one more pass is made on
  the cached attachment. Now both locks are in the cache and no address is in the
  cached status: `analyzeAndRelease` keeps the older lock, whatever the in-flight
  record says, and deletes the one whose address the store's status shows.
  Another attachment locks and shows that address.
* `agent_forgotten`: `getAttachment` means to leave alone an attachment that is
  in the local and in a remote cache, since its removal from one of them will
  queue it again. It falls through to the return for a deleted attachment. The
  pass then drops the vnState, and the informer that would have told of the
  removal stops: an attachment that moved away and back has no interface, with
  nothing left to do.
* `ovs_cookie`: the cookie that pairs the two flows of a remote interface is
  made by `binary.Uvarint` from the MAC; that stops at the first byte below 128.
  Interfaces of one virtual network mostly share their first byte. A restarted
  process takes the flows of all such interfaces for one and does not know the
  others. `ovs` therefore uses pairs with different cookies.

Met while modelling, without a run of its own:

* an address can stay in the status with no lock, with nothing left to do: the
  anticipated address equals the one chosen from the caches and the pass ends
  without an update;
* the comment in `analyzeAndRelease` says that the newest usable lock is kept,
  `IsBetterThan` keeps the oldest;
* a Subnet can conflict with one whose creation was acknowledged before, because
  the informer has not delivered it: the TODOs in `Validate` concede this for
  concurrent creations only;
* `CouldAddInRange` accepts the refusal `(0, false)` for a range that has room
  but does not contain 0, so the random tests could not notice an
  `AddOneInRange` that gives up too early; `PicksRight` shows that it does not;
* the report of a post-create command is stored for whatever interface the
  attachment has when the command ends;
* the first signal does not end an agent that waits for the cache of a VNI at
  start-up: the informer was told to stop, and nobody closes the channel that
  the wait heeds (`StopEnds` has it as its exception);
* `setNetAtt` of the driver replaces what a notification has already recorded by
  the older answer of the creation; the next notification then counts the same
  address again;
* an attachment in two remote caches one of which is stopped stays ambiguous,
  and an interface adopted at start-up is not known to its vnState until its
  attachment has a pass: two exceptions of `MembersUpToDate`;
* such an ambiguous attachment can also be in the `localAtts` of a vnState that
  nobody else is in: the virtual network then stays on the node, and remote
  attachments keep their interfaces in it, although no attachment of the node is
  in that network. It takes seven writes and three attachments; the attempt to
  prove `MembersUpToDate` found it, and TLC confirmed it on an instance that
  makes just those writes (`HeldByAmbiguous` is the exception);
* the same attempt found that a pass stopped just before it joins a vnState
  carries an attachment from the cache of the old vnState into a new one of the
  same VNI. If the attachment was deleted in between, the old informer's
  notification is lost with it and the new one never has anything to report: the
  remote interface is made and stays. It takes five writes and three attachments;
  TLC confirmed it in the same way. `MembersUpToDate` leaves out just these
  attachments (`behind`). The three writes of the run `agent` do not get there;
  the theorem has no such bound;
* an attachment that moves while the agent restarts can be matched to a local
  interface, from the local cache, and then to a remote one, from the remote
  cache. `syncPreExistingRemoteIfcs` deletes the local one in the fabric and
  leaves it in the table (its comment reads `?? unsetLocalAttMainState`). When the
  attachment changes or goes, the agent deletes the local interface again and
  never the remote one, which stays in the fabric, in no table or under an
  attachment it does not belong to. It takes four writes and a restart, more than
  the run `agent` has; the attempt to prove `FabricOwned` without an exception
  found it and TLC confirmed it on a larger instance. `twofold` is the exception.
  If the address was given to another attachment of the node meanwhile, the second
  deletion takes that one's interface away, with nothing left to do: six writes
  and a restart, confirmed in the same way; `lost` is the exception;
* `interfaces.go:21-24` asks an implementer to return nil when an interface that
  does not exist is deleted; `DeleteLocalIfc` of the OVS fabric returns an error,
  because the device has no port (`ovs.go:180-183`). The agent makes such calls
  after a twofold match and, on this fabric, repeats them in vain.
  `ConnectionAgent` is on the fabric of `interfaces.go`, where the call succeeds.
  `ImplementsFabric` compares the interfaces that exist and not the results of
  calls, so it does not see the difference;
* the loops of the agent's start-up that repeat a failing call of the fabric do
  not look at the stop channel: a fabric that always fails keeps the agent from
  stopping. In `processes` calls fail a bounded number of times, and `StopEnds`
  is about those.

### Fairness

`FairSpec` assumes weak fairness of each informer's delivery and of the garbage
collector (each runs in a goroutine or process of its own that nothing blocks)
and strong fairness of each key's worker steps: the work queue is FIFO and a
failed key goes back with a delay, so a key that is queued again and again is
taken again and again although the workers may be busy with other keys in
between. Nothing is assumed about clients, failures or restarts.

`SubnetRegistry` assumes that informers deliver and list, that a server ends the
requests it has taken, and, of the clients, that one who wants a Subnet created,
updated or deleted tries again until it is (as `kubectl apply` in a loop or a
controller would): `GoalsReached` asks whether trying again helps. Restarts,
passing deletions and changes of goals are not fair.

`Processes` assumes weak fairness of main and of the PostStartHook, which are
goroutines that nobody blocks for good other than by what their guards say, and
that an informer that was not told to stop lists its objects in the end. After
the stop channel is closed nothing is assumed of informers, and nothing ever of
signals. The agent, the bridge and the driver are checked for safety only: their
properties of rest (`Quiet`, no call in progress, the end of main) say what must
hold when nothing is left to do.

## Proofs

Every theorem is of the form `Spec => []P` or `Spec => Abstract!Spec`, for every
value of the constants that satisfies the named assumptions; hypotheses beyond
those are part of the theorem. Each proof has an inductive invariant, a lemma per
action, and a last step that puts them together.

| component | theorem | states | beyond the assumptions |
|---|---|---|---|
| IPAM | `TypeCorrect` | `TypeOK` | |
| | `StatusCorrect` | `StatusNamesItsLock` | |
| | `PoolCorrect` | `NoAddressLeaks` | |
| | `CalmExclusive` | `AddressExclusive` | `Calm` |
| | `CalmAnticipation` | `AnticipationSupported` | `Calm` |
| | `CalmAllocation` | `ImplementsAllocation` | `Calm` |
| | `CalmSettled` | `QuiescentSettled` | `Calm`, `Controllers # {}` |
| allocation | `AllocationExclusive` | `Exclusive` | |
| Subnets | `RegistryTypeCorrect` | `TypeOK` | |
| | `OnlyUnseenConflicts` | `ConflictsUnseen` | |
| addresses | `RunsRepresentSet` | `Represents` | |
| | `RangePicksRight` | `PicksRight` | |
| | `SetsReadAlike` | `ReadersAgree` | |
| | `MembersNamedFaithfully` | `NamesFaithful` | |
| | `NamesRoundTrip`, `NamesDistinct` | names of locks | |
| | `OneLockKept` | `ListsKeepOne` | |
| | `KeepsBestReleasesRest` | lists of locks of any length | |
| agent | `AgentTyped` | `TypeOK` | |
| | `AgentOwnsFabric` | `FabricOwned` | |
| | `AgentHoldsInterfaces` | what the tables have is in the fabric | |
| | `AgentServesResidents` | `ResidentsServed` | `DistinctMACs` |
| | `AgentSettlesMembers` | `MembersUpToDate` | `DistinctMACs` |
| | `AgentServesStrangers` | `StrangersServed` | `DistinctMACs` |
| bridge | `OVSTyped` | `TypeOK`, or `mixed` | `DistinctMACs` |
| | `FlowsBelong` | `FlowsLeadHome`, or `mixed` | `DistinctMACs` |
| | `ClientAgrees` | `ClientKnows`, or `mixed` | `DistinctMACs` |
| | `BridgeIsFabric` | `ImplementsFabric` | `DistinctMACs`, `[]~mixed` |
| driver | `DriverTyped` | `TypeOK` | |
| | `DriverForgetsNothing` | `NothingForgotten` | |
| | `DriverTellsTruth` | `SlotsTellTruth` | |
| | `DriverNoticesDuplicates` | `DuplicatesNoticed` | |
| | `DriverWaitsForPending` | `PendingCovers` | |
| | `DriverLaysOutSubnets` | `LayoutSound` | `SizesFit` |
| programs | `Typed` | `TypeOK` | |
| | `InformersRunOnce` | `RunOnce` | |
| | `WorkersFindCachesReady` | `WorkersReady` | |

### IPAM: types and statuses (`IPAM_proofs`)

The invariant of `TypeCorrect` adds `PassesOK`: a pass has a real attachment and
a Subnet whenever it is about to pick, lock or write, and the address it has
picked is an address of that Subnet; without it the slot it locks need not be a
slot.

`StatusCorrect` holds with any number of controllers, failures and restarts. The
strengthening `IInv` says that lock UIDs and attachment ResourceVersions identify
what they were given to, everywhere a copy is found: in the store, the streams,
the caches and the passes (`UIDsIdentify`, `RevisionsIdentify`), and that every
status and every status about to be written is truthful about its lock if the
lock is one ever seen (`Truthful`, `StatusesTruthful`). The status write is safe
because its ResourceVersion precondition makes the attachment of the pass the
attachment of the store.

### IPAM: the pool of addresses (`IPAM_proofs`)

`PoolCorrect` needs no restriction: any number of controllers, failing calls,
updates by others and restarts. `NoAddressLeaks` is not inductive, because a
creation that is still on its way to the handler adds its address to the cache
when nobody remembers it any more. `PoolInv` adds that the address of such a
creation is still locked or that a deletion of it follows in the same stream or
one behind it (`EventsFollowed`, `NotesFollowed`), so that an address is in the
cache only if something will take it out again (`Accounted`). A pass that
recovers a lock needs no case of its own: it came there because the address was
locked.

### IPAM: exclusive addresses (`IPAM_proofs`, second half)

`Calm` is the environment of the run `ipam_calm`: at most one controller,
attachments with different names, Subnets that stay, no updates by others, and
calls that succeed. Creations, deletions, restarts, workers, attachments, Subnets
and addresses are not limited. With a failed call, a refused one, an update by
others or a Subnet that moves TLC finds the refinement broken; `ipam_duplicate`
keeps the shortest story, an update by another client. So the theorems say under
which conditions the in-flight records and the locks do their work, and the run
what happens outside of them.

The argument (`CalmInv`). An incarnation has at most two revisions, the one it was
created with and the one with its address (`TwoRevisions`); a status that shows
an address is backed by the lock of that incarnation (`StatusBacked`). An
incarnation has at most one lock, and a lock is deleted only after its owner
(`OneLock`). What makes this so is `LockKnown`: for the lock of a present
incarnation, the controller has the lock in its cache, or is about to write the
status in the pass that made it, or has an in-flight record that anticipates
exactly the present revision; in each case no pass picks a second address.
Records are true of the present incarnation or about one that is gone
(`RecordsTrue`), no pass releases a lock of the present incarnation
(`PassesCalm`), and once the cache has the present incarnation no event of an
earlier one follows (`Streams`). `CalmExclusive` and `CalmAnticipation` follow
from the invariant, and `CalmAllocation` shows that each action is a step of
`AddressAllocation` under the mapping or leaves it unchanged. `AllocationExclusive`
(`AddressAllocation_proofs`) says that the abstract allocation never shows one
slot twice.

`CalmSettled` speaks of the states of rest of the same environment. It needs,
beyond `CalmInv`, that each cache is what the store will be once the events on
their way are applied (`Synced`), that a controller which remembers writing the
present revision gave it an address (`Written`), and above all `Owed`: an attachment without its
address is queued, in a pass, or the subject of a notification to come. At rest
nothing is owed, so everything is settled. `Controllers # {}` is there because
with no controller the system rests at once.

### Subnets (`SubnetRegistry_proofs`)

`OnlyUnseenConflicts` holds for any number of servers, Subnets, requests in flight
and restarts. The invariant needs that a request in flight passed its checks
against the cache it carries (`RequestsValid`) and that a stored Subnet is
compatible with its own `seen` (`StoreCompatible`). What makes it hard is that a
Subnet in a cache with the UID of the one under validation is skipped: stored
Subnets must have different UIDs (`UIDsUnique`), for which the precondition of
the write must make the Subnet that was validated the one that is replaced
(`RequestsCurrent`, `VersionsBounded`). `RegistryTypeCorrect` is its typing part.

### Address sets and names of locks (`AddressLocks_proofs`)

`Represents` with the types is inductive, for every `Last`. `Joined` is the lemma
under `Add`: runs that, together with the number added, make up an interval which
keeps its distance from all others can be replaced by that interval; the four
cases of `Add` are instances of it. That `Inc` and `Dec` never wrap where it
matters follows from the neighbours' being in range. `RangePicksRight` is about
the gaps that `AddOneInRange` finds by rank: the numbers of a range that are not
in the set are those of the gaps between consecutive runs, cut to the range, and
there is no gap exactly when one run covers the range. `SetsReadAlike` compares
the readers.

`NamesRoundTrip` and `NamesDistinct`: for every VNI and every IPv4 address the
name of a lock parses back to the two, and different slots have different names.
The argument is the uniqueness of the representation of a number by four bytes.
With it the API server's rule of one object per name is the rule of one lock per
slot that `KosApi` states. `MembersNamedFaithfully` applies it to the members of
the cache.

`KeepsBestReleasesRest` is about lists of any length. `Best` and `AddListFunc` are
folds; `FoldExists`, `FoldBegins` and `FoldSteps` say that a fold is a function of
the number of elements it has looked at, with one step per element. What holds of
every prefix is then shown by the least prefix for which it fails (`Least`, from
the well-foundedness of `<`), since the library's induction theorems cannot be
used here. `IsBetterThan` is a total order on locks with different UIDs, so the
fold keeps the one best lock, and `RemFunc` takes out exactly that one.
`OneLockKept` applies it to the lists that the locks of the cache can make.

### The agent (`ConnectionAgent_proofs`)

The first two theorems are from one invariant, `IInv`, for any number of
attachments, virtual networks, nodes, writes, failing calls and restarts. `Types` types the
caches by what their watches select: an object in a remote cache has an address
and a host, one in the local cache an address (`LocalObjs`, `RemoteObjs`), also
while it is an event or the argument of a notification. So a pass that goes on to
an interface has an attachment to make it of (`PassOK`), although the cache it
was read from may have changed or be gone; `TypeOK` alone is not inductive
because `createIfc` would take an attachment without a host from its pass.

For `FabricOwned` the invariant covers start-up: an interface of the fabric is in
a table or among those that start-up has yet to look at (`LocalOwned`,
`RemoteOwned`). A table entry may be overwritten only if its interface was deleted
before: `CreatorsBare` says that a pass about to create an interface has none in
the tables, for which `updateIfc` and `processDeletedAtt`, which delete one
interface, need that an attachment has no more than one (`OneIfc`). Start-up
breaks that, and the interfaces in `twofold` are those it breaks it for. No pass
is under way before the workers run (`Resting`), so start-up overwrites no entry
that a pass relies on.

`AgentHoldsInterfaces` is the converse: what the tables have is in the fabric, at
every moment. `Held` says that each table entry is in the fabric and that no two
attachments have the same one (`LocalHeld`, `RemoteHeld`), so that a pass which
deletes its interface takes nothing from another; what start-up has yet to look
at is in the fabric and in no table (`TodoHeld`). The local interfaces that
start-up deleted and left in the table are the exception (`lost`), and there are
none unless a remote interface was matched twofold (`Losses`). The three theorems
below take the fabric from it.

`AgentServesResidents` adds `ResInv`. The local cache is what the store will be
once the events on their way are applied (`LocalSynced`). Attachments that were
only ever here are in no remote cache, event, notification or set of VNIs
(`ResidentsHushed`), so no pass over them ends in doubt, and each has the right
interface and status unless something is still to come for it: its key is
queued, an event of it is on its way, or the pass over it is before the step that
puts it right (`ResidentsTended`), with what that pass carries being the
attachment of the store or an event of the attachment on its way. Start-up is
part of it: an interface that it matches is the attachment's or will be replaced
by the pass that start-up has queued. `DistinctMACs` is needed because
`ifcNeedsUpdate` compares MACs in place of addresses.

`AgentSettlesMembers` is about attachments that move between nodes and networks
or live elsewhere, and adds `MemInv` to `LocalSynced`. The cache of each remote
informer is what the store will be once its events are applied (`RemoteSynced`).
An attachment is stored in one vnState, as local or as remote (`Placed`), and so is
one that a pass is working on (`PassPlaced`). What a pass carries is what a cache
still shows, or another pass is due: the key is queued, a notification of it is on
its way, or a pass that drops a vnState is about to queue it (`FromLocal`,
`FromRemote`); this is what settles values read before the lock was released and
used after. An attachment at rest, with nothing due, has what its cache shows
(`Done`), and until the workers run everything that start-up found is queued or
adopted (`Starting`). The step that decides that no new interface is needed looks
at one of the two tables; that the other has nothing needs that a remote interface
never leads to this node (`Outbound`). At rest, the caches show the store, which
gives `MembersUpToDate`; a remote attachment that its watch selects and that has no
interface is in a vnState without an attachment of the node, which only an
ambiguous one can hold (`HeldByLocal`). One that its watch does not select is
stored there only if a pass carried it over from a vnState that was replaced while
the pass was under way: whenever a new vnState is made, the passes that have read
an attachment it lacks are those added to `behind`, and every other attachment of
a vnState is known to its informer or due.

`AgentServesStrangers` adds `StrInv` to all of these, because `MemInv` says what an
attachment in a vnState has and not that an attachment elsewhere gets into one.
While a pass carries an attachment as a remote one, and while the attachment is in
the `remoteAtts` of a vnState, `nsnToVNIs` has that VNI and no other, or another pass
is due (`PassSeen`, `RestSeen`). An attachment that never was on the node is nowhere
in what the local informer shows (`Elsewhere`) and is not taken for a local one by
any table (`Absent`). Seen in one virtual network whose informer knows it, it is
stored there, or the pass over it will store it there, or another pass is due
(`Noticed`): this is what a network that leaves the node and comes back while a pass
is under way could break. Start-up adopts only interfaces of attachments that were
elsewhere (`AdoptedSeen`), and a remote interface is matched to an attachment with a
local one only if that attachment wandered (`Wandered`). If nothing wandered, then
at rest every network of a resident has its vnState (`HeldAtRest`) and every vnState
is held by a resident, so the networks that have a vnState are those present on the
node, and `Noticed` and `Done` give `StrangersServed`.

### The bridge (`OVSFabric_proofs`)

`DistinctMACs` says that different VNI/IP pairs have different MACs. The code
relies on it (device names are made of the MAC) and does not establish it: 53 bits
do not fit into a MAC. Failures, crashes, goroutines, ports and pairs are not
limited, nor is what the remote interfaces of the bridge have for cookies. The
theorems hold up to the first start-up that takes two remote interfaces with one
cookie for one (`mixed`), and crashes and restarts before that are included; what
that start-up lists is no interface of the bridge, and nothing is claimed from
there on. `ovs_cookie` shows that it is a common event: two remote interfaces
whose MACs begin with the same byte, as they mostly do in one network, and a
restart lead to it. `Unambiguous` says that a start-up
which does not mix anything up finds all cookies different (`Listable`), and
`ListRemoteIfcs` then returns just what is on the bridge.

The invariant has a part about the bridge alone: names and ports of devices are
unique, one flow per match, and the flows of an interface are there as a whole,
with the device of a local one (`DevicesOK`, `FlowTable`, `Whole`); and a part that
ties it to the client: who has a pair and who may have a call on it (`Exclusive`),
what is locked (`Locks`), what is complete (`UpToClient`), to whom each device
belongs (`DeviceOwners`), and how far start-up has come (`Phases`). `Whole` is what
lets a port number be used again: a device is removed only after its flows.
`BridgeIsFabric` then needs that exactly one command of each call changes the set
of complete interfaces, and that a deletion of what does not exist changes none:
it stops at the port of the device, or finds only a device whose clean-up failed,
which has no flows.

### The driver (`TputDriver_proofs`)

All theorems hold for every command line, any number of threads and nodes, and
any number of faults, signals and status writes. The i-th attachment of thread t
is put in slot `Work(t, i)` under the name `NameFor(t, i)`; both are injective
where it matters (`SlotsInTurn`, `OwnNames`), so that a name is never used twice,
and a notification or an answer that comes late is about an attachment whose name
the slot no longer has. `Counts` bounds how far creation may be ahead of deletion
by the number of slots of the thread, `AllIssued` and `AllKept` account for every
attachment in the store, `Truth` says that nothing that was notified is taken
back, and `Owners` that every address recorded in a slot has that slot's name
among its owners. Of `MakeVirtNets` only the number of
networks and the sizes, which no step of the loop depends on, are used.

`DriverLaysOutSubnets` is about the rest of `MakeVirtNets`. The sizes of the
virtual networks fall from one to the next (`SizesFall`), so their blocks do not
grow, each block is a power of two that divides the blocks before it
(`PowerDivides`), and the sum of what came before is a multiple of it
(`BaseAddresses`, `Blocks`); that is why no gap is needed to align a subnet.
`AddressesRise` puts the networks one after the other. What holds of every network
is shown by the least one for which it fails, as for lists of locks. `SizesFit`
says that the largest network, with three addresses to spare, fits into the 24
bits that `suffixBits` knows.

### The programs (`Processes_proofs`)

The invariant relates `pc` to the informers: which exist (`Order`: those of the
steps that main is past, no others), that each has run once exactly if the step
that runs it, or the PostStartHook, is done, and what has been waited for
(`Ready`). `Past` turns the position in the program into "this step is done".

### Assumptions, and what is only model-checked

The assumptions, all evaluated by TLC, are `ApiAssumption` and `WorkersAssumption`
(the types of the constants), `RegistryAssumption`, `LastAssumption`,
`AddressLocksAssumption` (addresses fit in 32 bits, VNIs are valid),
`PairsAssumption`, `AgentAssumption` (the node is a host; finitely many
attachments) and `OVSAssumption`, `DriverAssumption` and
`ProcessesAssumption` (budgets are numbers, placeholders are no members).

Only model-checked:

* the calm properties in less calm environments;
* `EventuallySettled`, `GoalsReached`, `ComesUp`, `StopEnds`: liveness under
  fairness is out of the prover's reach.

## Plan

Done: the store and the IPAM controller with its abstract specification, Subnet
admission, the address sets and the names of locks, the connection agent, the
fabric that it expects and the one on Open vSwitch that implements it, the
throughput driver, the main programs, and the proofs above. Next:

* IPAM: `CalmExclusive` with calls that fail before they take effect; instances
  with two controllers, and with namesakes in two namespaces.
* The agent: relists of its informers after a broken watch.

## Not modelled

Relists after a broken watch, in which the informer misses events
(`OnSubnetDelete` and `OnLockDelete` do not unwrap `DeletedFinalStateUnknown`),
and periodic resyncs; locks made by hand by an operator; the logger fabric,
which the agent does not import; post-delete commands and the processes that
commands run in; metrics and their work queue provider; generated clients,
listers, conversions, deep copies and schemas, which have no control of their
own and are modelled from their use; `String` and the runtime cost of the
address sets; a Subnet whose CIDR block is IPv6; the pace, the latencies and the
choice of peers of the driver; the configuration of the generic API server and
its storage; the other examples of the repository.
