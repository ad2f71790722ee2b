-------------------------------- MODULE IPAM --------------------------------
(***************************************************************************)
(* The IPAM controller (pkg/controllers/ipam/ipam.go): it gives every       *)
(* NetworkAttachment an address of its Subnet by creating an IPLock and     *)
(* writing the locked address into the attachment's status.                 *)
(*                                                                          *)
(* A controller sees the API objects through three informers that lag the   *)
(* store independently of each other, keeps a cache of the addresses taken  *)
(* (addrCache) and, for each attachment, a record of the status update in   *)
(* flight (nadat).  Workers take keys from a work queue; the queue never    *)
(* hands one key to two workers, so the state of a pass is kept per key     *)
(* (proc).  Each call to the API server is a step of its own, which the     *)
(* environment can make fail, before or after it took effect.               *)
(***************************************************************************)
EXTENDS KosApi

CONSTANT Workers  \* number of worker threads of a controller

ASSUME WorkersAssumption == Workers \in Nat \ {0}

VARIABLES
    attCache,    \* controller -> key -> attachment in the informer's cache
    lockCache,   \* controller -> locks in the informer's indexer
    lockNotes,   \* controller -> lock notifications the handler has yet to take
    subnetCache, \* controller -> Subnet name -> Subnet in the informer's cache
    queue,       \* controller -> keys in the work queue
    nadat,       \* controller -> key -> NetworkAttachmentData
    addrCache,   \* controller -> slots taken, as far as it knows
    proc         \* controller -> key -> the pass over the key under way

localVars == <<attCache, lockCache, lockNotes, subnetCache, queue, nadat,
               addrCache, proc>>
vars == <<apiVars, localVars>>

-----------------------------------------------------------------------------

\* anticipatedIPv4, anticipatingResourceVersion, anticipatedResourceVersion
\* and anticipationSubnetRV; rv 0 is the empty string.
NetworkAttachmentData ==
    [ip : Addresses \cup {NoIP}, anticipating : Nat, anticipated : Nat,
     subnetRV : Nat]

NoAnticipation == [ip |-> NoIP, anticipating |-> 0, anticipated |-> 0,
                   subnetRV |-> 0]

\* What updateNAStatus writes.
Status == [ip : Addresses \cup {NoIP}, vni : Nat, lock : Nat, err : BOOLEAN]

NoStatus == [ip |-> NoIP, vni |-> 0, lock |-> 0, err |-> FALSE]

\* A pass: the attachment and the Subnet as the caches had them, the locks
\* still to release, where the pass goes after that, the status to write.
Pass == [pc : {"idle", "release", "pick", "create", "recover", "update"},
         att : NetworkAttachment, want : Subnet, release : SUBSET IPLock,
         then : {"idle", "pick", "update"}, st : Status]

Idle == [pc |-> "idle", att |-> NoAtt, want |-> NoSubnet, release |-> {},
         then |-> "idle", st |-> NoStatus]

Busy(c) == {k \in Keys : proc[c][k].pc # "idle"}

Done(c, k) ==
    /\ proc' = [proc EXCEPT ![c][k] = Idle]
    /\ UNCHANGED queue

\* processQueueItem after an error: AddRateLimited.
Retry(c, k) ==
    /\ proc' = [proc EXCEPT ![c][k] = Idle]
    /\ queue' = [queue EXCEPT ![c] = @ \cup {k}]

Continue(c, k, p) ==
    /\ proc' = [proc EXCEPT ![c][k] = p]
    /\ UNCHANGED queue

\* Release what there is to release, then go on.
Proceed(p) ==
    CASE p.release # {}                      -> [p EXCEPT !.pc = "release"]
      [] p.release = {} /\ p.then = "idle" -> Idle
      [] OTHER                               -> [p EXCEPT !.pc = p.then]

-----------------------------------------------------------------------------
(* Informer notifications.                                                  *)

OnAttachmentNotify(c) ==
    /\ attEvents[c] # <<>>
    /\ LET e == Head(attEvents[c]) IN
       /\ attCache' = [attCache EXCEPT ![c][e.key] = e.obj]
       /\ queue' = [queue EXCEPT ![c] = @ \cup {e.key}]
    /\ attEvents' = [attEvents EXCEPT ![c] = Tail(@)]
    /\ UNCHANGED <<storeVars, lockEvents, subnetEvents, budget, lockCache,
                   lockNotes, subnetCache, nadat, addrCache, proc>>

\* The code looks the attachments up by the bare name of their Subnet, so that it
\* also queues those of a namesake in another namespace; these further
\* passes, which no change of their own Subnet calls for, are left out.
OnSubnetNotify(c) ==
    /\ subnetEvents[c] # <<>>
    /\ LET e == Head(subnetEvents[c])
           subnetAttachments == {k \in Keys : attCache[c][k].subnet = e.key}
       IN /\ subnetCache' = [subnetCache EXCEPT ![c][e.key] = e.obj]
          /\ queue' = [queue EXCEPT ![c] = @ \cup subnetAttachments]
    /\ subnetEvents' = [subnetEvents EXCEPT ![c] = Tail(@)]
    /\ UNCHANGED <<storeVars, attEvents, lockEvents, budget, attCache,
                   lockCache, lockNotes, nadat, addrCache, proc>>

\* The lock informer updates its indexer first ...
IndexLock(c) ==
    /\ lockEvents[c] # <<>>
    /\ LET e == Head(lockEvents[c]) IN
       /\ lockCache' = [lockCache EXCEPT ![c] =
                           IF e.op = "create" THEN @ \cup {e.lock}
                                              ELSE @ \ {e.lock}]
       /\ lockNotes' = [lockNotes EXCEPT ![c] = Append(@, e)]
    /\ lockEvents' = [lockEvents EXCEPT ![c] = Tail(@)]
    /\ UNCHANGED <<storeVars, attEvents, subnetEvents, budget, attCache,
                   subnetCache, queue, nadat, addrCache, proc>>

TakeAddress(taken, slot) == taken \cup {slot}

MutReleaseAddress(taken, slot) == taken  \* mutant: the bit stays set

ReleaseAddress(taken, slot) == taken \ {slot}

\* ... and runs the handler later, on another goroutine.
OnLockNotify(c) ==
    /\ lockNotes[c] # <<>>
    /\ LET e == Head(lockNotes[c]) IN
       /\ addrCache' = [addrCache EXCEPT ![c] =
                           IF e.op = "create" THEN TakeAddress(@, e.lock.slot)
                                              ELSE ReleaseAddress(@, e.lock.slot)]
       /\ queue' = [queue EXCEPT ![c] = @ \cup {e.lock.owner}]
    /\ lockNotes' = [lockNotes EXCEPT ![c] = Tail(@)]
    /\ UNCHANGED <<apiVars, attCache, lockCache, subnetCache, nadat, proc>>

-----------------------------------------------------------------------------
(* analyzeAndRelease, up to the first lock deletion.                        *)

InSubnet(slot, subnet) ==
    slot[1] = subnet.vni /\ slot[2] \in subnet.base .. subnet.last

IsBetterThan(x, y) ==
    IF x.ctime # y.ctime THEN x.ctime < y.ctime ELSE x.uid > y.uid

\* The best lock of the list, in a set; the empty set if the list is empty.
Best(list) == {x \in list : \A y \in list \ {x} : IsBetterThan(x, y)}

\* The Subnet the cached attachment refers to, none when the attachment is gone.
DesiredSubnet(c, k) ==
    LET att == attCache[c][k]
    IN IF Exists(att) THEN subnetCache[c][att.subnet] ELSE NoSubnet

\* The index of locks is by the owner's name, without its namespace.
OwnedObjs(c, k) == {l \in lockCache[c] : NameOf[l.owner] = NameOf[k]}

\* The lock on the address in the status, when the indexer has no lock on that
\* address, is read from the API server and kept if it has the right owner.
Fetched(c, k) ==
    LET att == attCache[c][k]
    IN {l \in LocksAt(<<DesiredSubnet(c, k).vni, att.ip>>) :
           /\ l.owner = k
           /\ Exists(att) /\ att.ip # NoIP
           /\ \A o \in OwnedObjs(c, k) : o.slot[2] # att.ip}

MutStillAnticipated(c, k) == nadat[c][k]  \* mutant: the record never lapses

MutNothingAnticipated(c, k) == NoAnticipation  \* mutant: updates are not remembered

\* What remains of the record of the update in flight.
StillAnticipated(c, k) ==
    LET att == attCache[c][k]
        na  == nadat[c][k]
    IN IF /\ Exists(att)
          /\ att.rv \in {na.anticipating, na.anticipated}
          /\ na.subnetRV = DesiredSubnet(c, k).rv
       THEN na ELSE NoAnticipation

\* The pass over k of controller c, given the lock it fetched, if any.
analyzeAndRelease(c, k, fetched) ==
    LET att          == attCache[c][k]
        subnet       == DesiredSubnet(c, k)
        considered   == {l \in OwnedObjs(c, k) \cup fetched :
                            Exists(att) => OwnedBy(l, k, att)}
        usable       == {l \in considered : InSubnet(l.slot, subnet)}
        lockInStatus == {l \in usable : l.uid = att.lock /\ l.slot[2] = att.ip}
        keep         == IF lockInStatus # {} THEN lockInStatus ELSE Best(usable)
        anticipated  == StillAnticipated(c, k).ip
        pass         == [pc |-> "release", att |-> att, want |-> subnet,
                         release |-> considered \ keep, then |-> "idle",
                         st |-> NoStatus]
    IN CASE ~Exists(att) \/ lockInStatus # {} -> pass
         [] Exists(att) /\ lockInStatus = {} /\ keep # {} ->
              LET lockForStatus == CHOOSE l \in keep : TRUE
              IN IF lockForStatus.slot[2] = anticipated THEN pass
                 ELSE [pass EXCEPT !.then = "update",
                                   !.st = [ip |-> lockForStatus.slot[2],
                                           vni |-> lockForStatus.slot[1],
                                           lock |-> lockForStatus.uid,
                                           err |-> FALSE]]
         [] OTHER -> IF anticipated # NoIP THEN pass
                                           ELSE [pass EXCEPT !.then = "pick"]

\* An attachment whose Subnet is missing gets an error in its status; its
\* locks and its record of the update in flight are left alone.
SubnetMissing(c, k) ==
    Exists(attCache[c][k]) /\ DesiredSubnet(c, k).rv = 0

\* A worker takes k and analyzes it.
processNetworkAttachment(c, k) ==
    /\ k \in queue[c]
    /\ proc[c][k].pc = "idle"
    /\ Cardinality(Busy(c)) < Workers
    /\ queue' = [queue EXCEPT ![c] = @ \ {k}]
    /\ \/ /\ SubnetMissing(c, k)
          /\ proc' = [proc EXCEPT ![c][k] =
                         [Idle EXCEPT !.pc = "update", !.att = attCache[c][k],
                                      !.st = [NoStatus EXCEPT !.err = TRUE]]]
          /\ UNCHANGED <<nadat, budget>>
       \/ /\ ~SubnetMissing(c, k)
          /\ nadat' = [nadat EXCEPT ![c][k] = StillAnticipated(c, k)]
          /\ \E fetched \in {{}, Fetched(c, k)} :
                /\ IF fetched = Fetched(c, k) THEN UNCHANGED budget
                                              ELSE Spend("fault")
                /\ proc' = [proc EXCEPT ![c][k] =
                               Proceed(analyzeAndRelease(c, k, fetched))]
    /\ UNCHANGED <<storeVars, watchVars, attCache, lockCache, lockNotes,
                   subnetCache, addrCache>>

-----------------------------------------------------------------------------
(* The calls to the API server.                                             *)

\* Undesired locks are released before the usable ones.
NextToRelease(p) ==
    LET undesired == {l \in p.release : ~InSubnet(l.slot, p.want)}
    IN IF undesired # {} THEN undesired ELSE p.release

\* The deletion has the lock's UID as a precondition: when another lock has
\* its name the call fails; when there is none, so much the better.
deleteIPLockObject(c, k) ==
    /\ proc[c][k].pc = "release"
    /\ \E l \in NextToRelease(proc[c][k]) :
          \/ /\ \/ DeleteLock(l)
                \/ LocksAt(l.slot) = {} /\ UNCHANGED <<locks, lockEvents>>
             /\ LET p == proc[c][k]
                IN Continue(c, k, Proceed([p EXCEPT !.release = @ \ {l}]))
             /\ UNCHANGED budget
          \/ /\ LocksAt(l.slot) \ {l} # {}
             /\ Retry(c, k)
             /\ UNCHANGED <<locks, lockEvents, budget>>
          \/ /\ Spend("fault")
             /\ DeleteLock(l) \/ UNCHANGED <<locks, lockEvents>>
             /\ Retry(c, k)
    /\ UNCHANGED <<atts, attRV, lockUID, lockTime, subnets, subnetRV,
                   attEvents, subnetEvents, attCache, lockCache, lockNotes,
                   subnetCache, nadat, addrCache>>

MutPickRange(subnet) == subnet.base .. subnet.last + 1  \* mutant: off by one

\* The first two and the last address of a Subnet that is large enough are not
\* given out.
PickRange(subnet) ==
    IF subnet.last - subnet.base >= 4 THEN subnet.base + 2 .. subnet.last - 1
                                      ELSE subnet.base .. subnet.last

\* AddOneInRange picks any address that is not in the cache.
PickAddress(c, k) ==
    /\ proc[c][k].pc = "pick"
    /\ LET p    == proc[c][k]
           free == {a \in PickRange(p.want) : <<p.want.vni, a>> \notin addrCache[c]}
       IN \/ \E a \in free :
                /\ addrCache' = [addrCache EXCEPT ![c] =
                                    TakeAddress(@, <<p.want.vni, a>>)]
                /\ Continue(c, k, [p EXCEPT !.pc = "create",
                                            !.st.ip = a,
                                            !.st.vni = p.want.vni])
          \/ /\ free = {}
             /\ Retry(c, k)
             /\ UNCHANGED addrCache
    /\ UNCHANGED <<apiVars, attCache, lockCache, lockNotes, subnetCache, nadat>>

PickedSlot(p) == <<p.st.vni, p.st.ip>>

\* The second half of pickAndLockAddress: create the lock on the picked address.
LockAddress(c, k) ==
    /\ proc[c][k].pc = "create"
    /\ LET p     == proc[c][k]
           freed == [addrCache EXCEPT ![c] = ReleaseAddress(@, PickedSlot(p))]
       IN \/ /\ CreateLock(PickedSlot(p), k, p.att)
             /\ Continue(c, k, [p EXCEPT !.pc = "update", !.st.lock = lockUID'])
             /\ UNCHANGED <<addrCache, budget>>
          \/ /\ LocksAt(PickedSlot(p)) # {}
             /\ Continue(c, k, [p EXCEPT !.pc = "recover"])
             /\ UNCHANGED <<addrCache, locks, lockUID, lockTime, lockEvents,
                            budget>>
          \/ /\ Spend("fault")
             /\ \/ CreateLock(PickedSlot(p), k, p.att)
                \/ UNCHANGED <<locks, lockUID, lockTime, lockEvents>>
             /\ addrCache' = freed
             /\ Retry(c, k)
          \/ /\ Spend("invalid")
             /\ addrCache' = freed
             /\ Continue(c, k, [p EXCEPT !.pc = "update"])
             /\ UNCHANGED <<locks, lockUID, lockTime, lockEvents>>
    /\ UNCHANGED <<atts, attRV, subnets, subnetRV, attEvents, subnetEvents,
                   attCache, lockCache, lockNotes, subnetCache, nadat>>

MutRecoverAnyOwner(c, k) ==  \* mutant: takes the lock without looking at its owner
    /\ proc[c][k].pc = "recover"
    /\ LET p     == proc[c][k]
           found == LocksAt(PickedSlot(p))
       IN \/ found = {} /\ Continue(c, k, [p EXCEPT !.pc = "create"])
          \/ \E l \in found :
                Continue(c, k, [p EXCEPT !.pc = "update", !.st.lock = l.uid])
    /\ UNCHANGED <<apiVars, attCache, lockCache, lockNotes, subnetCache, nadat,
                   addrCache>>

\* The lock exists already: fetch it, it may be ours.
RecoverLock(c, k) ==
    /\ proc[c][k].pc = "recover"
    /\ LET p     == proc[c][k]
           found == LocksAt(PickedSlot(p))
       IN \/ /\ found = {}
             /\ Continue(c, k, [p EXCEPT !.pc = "create"])
             /\ UNCHANGED budget
          \/ \E l \in found :
                /\ OwnedBy(l, k, p.att)
                /\ Continue(c, k, [p EXCEPT !.pc = "update", !.st.lock = l.uid])
                /\ UNCHANGED budget
          \/ /\ \E l \in found : ~OwnedBy(l, k, p.att)
             /\ Retry(c, k)
             /\ UNCHANGED budget
          \/ /\ Spend("fault")
             /\ Retry(c, k)
    /\ UNCHANGED <<storeVars, watchVars, attCache, lockCache, lockNotes,
                   subnetCache, nadat, addrCache>>

\* An update that changes nothing gets no new ResourceVersion.
WriteStatus(k, st) ==
    LET att     == atts[k]
        updated == [att EXCEPT !.ip = st.ip, !.vni = st.vni, !.lock = st.lock,
                               !.err = st.err]
    IN IF updated = att THEN UNCHANGED <<atts, attRV, attEvents>>
       ELSE /\ attRV' = [attRV EXCEPT ![k] = @ + 1]
            /\ PutAtt(k, [updated EXCEPT !.rv = attRV[k] + 1])

\* The update has the attachment's ResourceVersion as a precondition.
updateNAStatus(c, k) ==
    /\ proc[c][k].pc = "update"
    /\ LET p == proc[c][k]
           current == Exists(atts[k]) /\ atts[k].rv = p.att.rv
       IN \/ /\ current
             /\ WriteStatus(k, p.st)
             /\ nadat' = IF p.st.err THEN nadat
                         ELSE [nadat EXCEPT ![c][k] =
                                 [ip |-> p.st.ip, anticipating |-> p.att.rv,
                                  anticipated |-> atts'[k].rv,
                                  subnetRV |-> p.want.rv]]
             /\ Done(c, k)
             /\ UNCHANGED budget
          \/ /\ ~Exists(atts[k])
             /\ Done(c, k)
             /\ UNCHANGED <<atts, attRV, attEvents, nadat, budget>>
          \/ /\ Exists(atts[k]) /\ ~current
             /\ Retry(c, k)
             /\ UNCHANGED <<atts, attRV, attEvents, nadat, budget>>
          \/ /\ Spend("fault")
             /\ \/ current /\ WriteStatus(k, p.st)
                \/ UNCHANGED <<atts, attRV, attEvents>>
             /\ Retry(c, k)
             /\ UNCHANGED nadat
    /\ UNCHANGED <<locks, lockUID, lockTime, subnets, subnetRV, lockEvents,
                   subnetEvents, attCache, lockCache, lockNotes, subnetCache,
                   addrCache>>

-----------------------------------------------------------------------------
(* A controller starts: the informers list the objects, every attachment    *)
(* and every lock found is notified to the handlers.                        *)

\* The creation notifications of the locks listed, in any order.
Listings ==
    {notes \in [1 .. Cardinality(locks) -> {[op |-> "create", lock |-> l] : l \in locks}] :
        \A l \in locks : \E i \in DOMAIN notes : notes[i].lock = l}

\* A controller crashes and its Deployment starts another one.
Restart(c) ==
    /\ Spend("crash")
    /\ attCache' = [attCache EXCEPT ![c] = atts]
    /\ subnetCache' = [subnetCache EXCEPT ![c] = subnets]
    /\ lockCache' = [lockCache EXCEPT ![c] = locks]
    /\ \E notes \in Listings : lockNotes' = [lockNotes EXCEPT ![c] = notes]
    /\ attEvents' = [attEvents EXCEPT ![c] = <<>>]
    /\ lockEvents' = [lockEvents EXCEPT ![c] = <<>>]
    /\ subnetEvents' = [subnetEvents EXCEPT ![c] = <<>>]
    /\ queue' = [queue EXCEPT ![c] = {k \in Keys : Exists(atts[k])}]
    /\ nadat' = [nadat EXCEPT ![c] = [k \in Keys |-> NoAnticipation]]
    /\ addrCache' = [addrCache EXCEPT ![c] = {}]
    /\ proc' = [proc EXCEPT ![c] = [k \in Keys |-> Idle]]
    /\ UNCHANGED storeVars

-----------------------------------------------------------------------------

Init ==
    /\ ApiInit
    /\ attCache = [c \in Controllers |-> atts]
    /\ lockCache = [c \in Controllers |-> {}]
    /\ lockNotes = [c \in Controllers |-> <<>>]
    /\ subnetCache = [c \in Controllers |-> subnets]
    /\ queue = [c \in Controllers |-> {}]
    /\ nadat = [c \in Controllers |-> [k \in Keys |-> NoAnticipation]]
    /\ addrCache = [c \in Controllers |-> {}]
    /\ proc = [c \in Controllers |-> [k \in Keys |-> Idle]]

\* One call of a worker of c that processes k.
WorkerStep(c, k) ==
    \/ processNetworkAttachment(c, k)
    \/ deleteIPLockObject(c, k)
    \/ PickAddress(c, k)
    \/ LockAddress(c, k)
    \/ RecoverLock(c, k)
    \/ updateNAStatus(c, k)

InformerStep(c) ==
    \/ OnAttachmentNotify(c)
    \/ OnSubnetNotify(c)
    \/ IndexLock(c)
    \/ OnLockNotify(c)

Next ==
    \/ ClientNext /\ UNCHANGED localVars
    \/ \E l \in locks : CollectGarbage(l) /\ UNCHANGED localVars
    \/ \E c \in Controllers : InformerStep(c)
    \/ \E c \in Controllers, k \in Keys : WorkerStep(c, k)
    \/ \E c \in Controllers : Restart(c)

Spec == Init /\ [][Next]_vars

Fairness ==
    /\ \A c \in Controllers : /\ WF_vars(OnAttachmentNotify(c))
                              /\ WF_vars(OnSubnetNotify(c))
                              /\ WF_vars(IndexLock(c))
                              /\ WF_vars(OnLockNotify(c))
    /\ \A c \in Controllers, k \in Keys : SF_vars(WorkerStep(c, k))
    /\ WF_vars(\E l \in locks : CollectGarbage(l) /\ UNCHANGED localVars)

FairSpec == Spec /\ Fairness

-----------------------------------------------------------------------------
(* Properties.                                                              *)

\* The variables have their types.
TypeOK ==
    /\ ApiTypeOK
    /\ attCache \in [Controllers -> [Keys -> NetworkAttachment]]
    /\ lockCache \in [Controllers -> SUBSET IPLock]
    /\ lockNotes \in [Controllers -> Seq(LockEvent)]
    /\ subnetCache \in [Controllers -> [Subnets -> Subnet]]
    /\ queue \in [Controllers -> SUBSET Keys]
    /\ nadat \in [Controllers -> [Keys -> NetworkAttachmentData]]
    /\ addrCache \in [Controllers -> SUBSET Slots]
    /\ proc \in [Controllers -> [Keys -> Pass]]

\* "For a given VNI, a given IP address can be assigned to at most one
\* NetworkAttachment at a time" (README.md): no two attachments' statuses
\* show the same address of the same VNI.
AddressExclusive ==
    \A k, m \in Keys :
       k # m /\ atts[k].ip # NoIP => <<atts[k].vni, atts[k].ip>> # <<atts[m].vni, atts[m].ip>>

\* The lock whose UID an attachment's status carries, while that lock exists,
\* is the lock on the address in that status and its owner is that incarnation
\* of the attachment: no recovery, retry, restart or reuse of a name makes
\* updateNAStatus record somebody else's lock.
StatusNamesItsLock ==
    \A k \in Keys : \A l \in locks :
       Exists(atts[k]) /\ atts[k].lock = l.uid =>
          OwnedBy(l, k, atts[k]) /\ l.slot = <<atts[k].vni, atts[k].ip>>

\* The lock that backs the address in the status of an attachment.
Backed(k) ==
    \E l \in locks : /\ l.uid = atts[k].lock
                     /\ OwnedBy(l, k, atts[k])
                     /\ l.slot = <<atts[k].vni, atts[k].ip>>

Nobody == "nobody"
NoSlot == <<0, NoIP>>

\* The abstract view: a slot is held by the owner of its lock, an attachment
\* shows the slot in its status.
Alloc == INSTANCE AddressAllocation WITH
    holder <- [slot \in Slots |->
                 IF LocksAt(slot) = {} THEN Nobody
                 ELSE (CHOOSE l \in LocksAt(slot) : TRUE).owner],
    shown <- [k \in Keys |->
                IF atts[k].ip = NoIP THEN NoSlot ELSE <<atts[k].vni, atts[k].ip>>]

\* The controller implements the abstract allocation: a status shows an address
\* only while a lock of that attachment holds it, and no pass over a stale cache
\* deletes the lock of an address that a status still shows.
ImplementsAllocation == Alloc!Spec

PendingRelease(c, slot) ==
    \/ \E i \in DOMAIN lockEvents[c] :
          lockEvents[c][i].op = "delete" /\ lockEvents[c][i].lock.slot = slot
    \/ \E i \in DOMAIN lockNotes[c] :
          lockNotes[c][i].op = "delete" /\ lockNotes[c][i].lock.slot = slot

\* Every address in the cache of taken addresses is locked, about to be locked
\* by a worker, or will be released by a notification on its way: no error path
\* of pickAndLockAddress takes an address out of circulation for good.
NoAddressLeaks ==
    \A c \in Controllers : \A slot \in addrCache[c] :
       \/ LocksAt(slot) # {}
       \/ PendingRelease(c, slot)
       \/ \E k \in Keys : /\ proc[c][k].pc \in {"create", "recover"}
                          /\ PickedSlot(proc[c][k]) = slot

\* The comment on NetworkAttachmentData: while the record of an update in
\* flight applies to the cached attachment, and that incarnation of the
\* attachment still exists, a lock supports the anticipated address.
AnticipationSupported ==
    \A c \in Controllers, k \in Keys :
       LET na == StillAnticipated(c, k) IN
       na.ip # NoIP /\ atts[k].uid = attCache[c][k].uid =>
          \E l \in locks : /\ OwnedBy(l, k, atts[k])
                           /\ l.slot = <<DesiredSubnet(c, k).vni, na.ip>>

Garbage == {l \in locks : ~OwnedBy(l, l.owner, atts[l.owner])}

\* No notification is on its way, no key is queued, no worker is busy.
Quiescent ==
    /\ Garbage = {}
    /\ \A c \in Controllers :
          /\ attEvents[c] = <<>> /\ subnetEvents[c] = <<>>
          /\ lockEvents[c] = <<>> /\ lockNotes[c] = <<>>
          /\ queue[c] = {} /\ Busy(c) = {}

\* The attachment's status is what its Subnet calls for.
Settled(k) ==
    LET subnet == subnets[atts[k].subnet] IN
    IF subnet.rv = 0 THEN atts[k].ip = NoIP /\ atts[k].err
    ELSE Backed(k) /\ ~atts[k].err /\ InSubnet(<<atts[k].vni, atts[k].ip>>, subnet)

\* When there is nothing left to do every attachment is settled, and every
\* lock that an attachment with a Subnet holds backs its address.
QuiescentSettled ==
    Quiescent =>
       /\ \A k \in Keys : Exists(atts[k]) => Settled(k)
       /\ \A l \in locks : subnets[atts[l.owner].subnet].rv # 0
                              => atts[l.owner].lock = l.uid

\* Addresses that can be given out of the Subnet of an attachment.
Room(k) == Cardinality(PickRange(subnets[atts[k].subnet]))

\* Once the environment leaves the objects alone, every attachment comes to be
\* settled for good, provided its Subnet has an address for everyone: an address
\* released by one attachment is found and given to another that waits for it.
\* (Behaviours that use up the bound MaxLocks are left out.)
EventuallySettled ==
    <>[](\A k \in Keys :
            lockUID < MaxLocks /\ Exists(atts[k]) /\ Cardinality({m \in Keys : Exists(atts[m])}) <= Room(k)
               => Settled(k))
=============================================================================
