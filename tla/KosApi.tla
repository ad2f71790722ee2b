------------------------------- MODULE KosApi -------------------------------
(***************************************************************************)
(* The API objects that the KOS controllers share, as the network-apiserver *)
(* keeps them: NetworkAttachments, Subnets and IPLocks, the ResourceVersion *)
(* and UID that identify their revisions and incarnations, the watch        *)
(* streams that feed the controllers' informers, the clients that create,   *)
(* update and delete objects, and the kube garbage collector.               *)
(*                                                                          *)
(* An attachment key stands for a namespaced name, NameOf gives its name    *)
(* without the namespace.  An IPLock is named after a slot <<VNI, address>> *)
(* (makeIPLockName2); a VNI lives in one namespace, so a slot determines    *)
(* the namespace of its lock.  Addresses are numbers (IPv4ToUint32).        *)
(* The zero record of a type stands for an object that does not exist.      *)
(***************************************************************************)
EXTENDS Integers, Sequences, FiniteSets

CONSTANTS
    Keys,        \* namespaced names of NetworkAttachments
    NameOf,      \* the name of each key, namespace dropped
    Subnets,     \* namespaced names of Subnets
    SubnetsOf,   \* the Subnets in the namespace of each key
    SubnetDefs,  \* the Subnet specs clients use: [vni, base, last]
    Controllers, \* running IPAM controllers, the clients of the watches
    Budgets,     \* how often each kind of environment event may happen
    Ticks,       \* seconds that may pass between two IPLock creations
    MaxLocks     \* bound on the number of IPLocks ever created

Events == {"create", "delete", "touch", "subnet", "crash", "fault", "invalid"}

ASSUME ApiAssumption ==
    /\ NameOf \in [Keys -> STRING]
    /\ SubnetsOf \in [Keys -> SUBSET Subnets]
    /\ \A d \in SubnetDefs : /\ d \in [vni : Nat \ {0}, base : Nat, last : Nat]
                             /\ d.base <= d.last
    /\ Budgets \subseteq [Events -> Nat]
    /\ Ticks \subseteq Nat
    /\ MaxLocks \in Nat

VARIABLES
    atts,         \* key -> NetworkAttachment
    attRV,        \* key -> last ResourceVersion given to it
    locks,        \* the IPLocks
    lockUID,      \* UID of the newest IPLock
    lockTime,     \* CreationTimestamp of the newest IPLock, in seconds
    subnets,      \* Subnet name -> Subnet
    subnetRV,     \* Subnet name -> last ResourceVersion given to it
    attEvents,    \* controller -> attachment events not yet delivered
    lockEvents,   \* controller -> lock events not yet delivered
    subnetEvents, \* controller -> Subnet events not yet delivered
    budget        \* kind of environment event -> how many are left

storeVars == <<atts, attRV, locks, lockUID, lockTime, subnets, subnetRV>>
watchVars == <<attEvents, lockEvents, subnetEvents>>
apiVars == <<storeVars, watchVars, budget>>

-----------------------------------------------------------------------------
(* Objects.                                                                 *)

NoIP == -1  \* Status.IPv4 = ""

Slots == UNION {{d.vni} \X (d.base .. d.last) : d \in SubnetDefs}

Addresses == {s[2] : s \in Slots}

\* uid = 0: no such object.  lock = 0: Status.LockUID = "".  An attachment's
\* UID is the ResourceVersion of its creation.
NetworkAttachment ==
    {att \in [uid : Nat, rv : Nat, subnet : Subnets \cup {""},
              ip : Addresses \cup {NoIP}, vni : Nat, lock : Nat, err : BOOLEAN] :
        att.uid # 0 => att.subnet \in Subnets}

NoAtt == [uid |-> 0, rv |-> 0, subnet |-> "", ip |-> NoIP, vni |-> 0,
          lock |-> 0, err |-> FALSE]

IPLock == [slot : Slots, owner : Keys, ouid : Nat, uid : Nat, ctime : Nat]

NoSubnet == [rv |-> 0, vni |-> 0, base |-> 0, last |-> 0]

Revision(d, rv) == [rv |-> rv, vni |-> d.vni, base |-> d.base, last |-> d.last]

Subnet == {s \in [rv : Nat, vni : Nat, base : Nat, last : Nat] :
             s = NoSubnet \/ \E d \in SubnetDefs : s = Revision(d, s.rv)}

Exists(att) == att.uid # 0

\* The lock is owned by this incarnation of the attachment (GetOwner).
OwnedBy(l, k, att) == l.owner = k /\ l.ouid = att.uid

LocksAt(slot) == {l \in locks : l.slot = slot}

-----------------------------------------------------------------------------
(* Every write reaches every watch, in the order of the writes.             *)

Broadcast(streams, e) == [c \in Controllers |-> Append(streams[c], e)]

PutAtt(k, att) ==
    /\ atts' = [atts EXCEPT ![k] = att]
    /\ attEvents' = Broadcast(attEvents, [key |-> k, obj |-> att])

PutSubnet(s, subnet) ==
    /\ subnets' = [subnets EXCEPT ![s] = subnet]
    /\ subnetEvents' = Broadcast(subnetEvents, [key |-> s, obj |-> subnet])

\* CreationTimestamp has a resolution of one second: with 0 in Ticks a lock can
\* be as old as the lock created before it.
CreateLock(slot, k, att) ==
    \E tick \in Ticks :
       LET t == lockTime + tick
           l == [slot |-> slot, owner |-> k, ouid |-> att.uid,
                 uid |-> lockUID + 1, ctime |-> t]
       IN /\ lockUID < MaxLocks
          /\ LocksAt(slot) = {}
          /\ locks' = locks \cup {l}
          /\ lockUID' = lockUID + 1
          /\ lockTime' = t
          /\ lockEvents' = Broadcast(lockEvents, [op |-> "create", lock |-> l])

DeleteLock(l) ==
    /\ l \in locks
    /\ locks' = locks \ {l}
    /\ lockEvents' = Broadcast(lockEvents, [op |-> "delete", lock |-> l])

Spend(event) ==
    /\ budget[event] > 0
    /\ budget' = [budget EXCEPT ![event] = @ - 1]

-----------------------------------------------------------------------------
(* Clients: users, and the connection agents for status fields other than   *)
(* the ones the IPAM controller writes.                                     *)

CreateAttachment(k, s) ==
    /\ ~Exists(atts[k])
    /\ Spend("create")
    /\ attRV' = [attRV EXCEPT ![k] = @ + 1]
    /\ PutAtt(k, [NoAtt EXCEPT !.uid = attRV[k] + 1, !.rv = attRV[k] + 1,
                               !.subnet = s])
    /\ UNCHANGED <<locks, lockUID, lockTime, subnets, subnetRV, lockEvents,
                   subnetEvents>>

DeleteAttachment(k) ==
    /\ Exists(atts[k])
    /\ Spend("delete")
    /\ PutAtt(k, NoAtt)
    /\ UNCHANGED <<attRV, locks, lockUID, lockTime, subnets, subnetRV,
                   lockEvents, subnetEvents>>

\* An update of fields that are not the IPAM controller's, perhaps of
\* spec.subnet: it gives the object a new ResourceVersion.
UpdateAttachment(k, s) ==
    /\ Exists(atts[k])
    /\ Spend("touch")
    /\ attRV' = [attRV EXCEPT ![k] = @ + 1]
    /\ PutAtt(k, [atts[k] EXCEPT !.rv = attRV[k] + 1, !.subnet = s])
    /\ UNCHANGED <<locks, lockUID, lockTime, subnets, subnetRV, lockEvents,
                   subnetEvents>>

Overlap(d, e) == d.vni = e.vni /\ d.base <= e.last /\ e.base <= d.last

\* Create or update a Subnet; the apiserver refuses one that overlaps another.
WriteSubnet(s, d) ==
    /\ Spend("subnet")
    /\ \A t \in Subnets \ {s} : subnets[t].rv # 0 => ~Overlap(subnets[t], d)
    /\ subnetRV' = [subnetRV EXCEPT ![s] = @ + 1]
    /\ PutSubnet(s, Revision(d, subnetRV[s] + 1))
    /\ UNCHANGED <<atts, attRV, locks, lockUID, lockTime, attEvents, lockEvents>>

DeleteSubnet(s) ==
    /\ subnets[s].rv # 0
    /\ Spend("subnet")
    /\ PutSubnet(s, NoSubnet)
    /\ UNCHANGED <<atts, attRV, locks, lockUID, lockTime, subnetRV, attEvents,
                   lockEvents>>

\* The kube garbage collector removes a lock whose owner is gone.
CollectGarbage(l) ==
    /\ ~OwnedBy(l, l.owner, atts[l.owner])
    /\ DeleteLock(l)
    /\ UNCHANGED <<atts, attRV, lockUID, lockTime, subnets, subnetRV,
                   attEvents, subnetEvents, budget>>

ClientNext ==
    \/ \E k \in Keys, s \in Subnets : s \in SubnetsOf[k] /\ CreateAttachment(k, s)
    \/ \E k \in Keys : DeleteAttachment(k)
    \/ \E k \in Keys, s \in Subnets : s \in SubnetsOf[k] /\ UpdateAttachment(k, s)
    \/ \E s \in Subnets, d \in SubnetDefs : WriteSubnet(s, d)
    \/ \E s \in Subnets : DeleteSubnet(s)

-----------------------------------------------------------------------------

\* Every Subnet exists at first, with one of the definitions.
ApiInit ==
    /\ atts = [k \in Keys |-> NoAtt]
    /\ attRV = [k \in Keys |-> 0]
    /\ locks = {}
    /\ lockUID = 0
    /\ lockTime = 0
    /\ \E d \in [Subnets -> SubnetDefs] :
          /\ \A s, t \in Subnets : s # t => ~Overlap(d[s], d[t])
          /\ subnets = [s \in Subnets |-> Revision(d[s], 1)]
    /\ subnetRV = [s \in Subnets |-> 1]
    /\ attEvents = [c \in Controllers |-> <<>>]
    /\ lockEvents = [c \in Controllers |-> <<>>]
    /\ subnetEvents = [c \in Controllers |-> <<>>]
    /\ budget \in Budgets

AttEvent == [key : Keys, obj : NetworkAttachment]
LockEvent == [op : {"create", "delete"}, lock : IPLock]
SubnetEvent == [key : Subnets, obj : Subnet]

ApiTypeOK ==
    /\ atts \in [Keys -> NetworkAttachment]
    /\ attRV \in [Keys -> Nat]
    /\ locks \subseteq IPLock /\ IsFiniteSet(locks)
    /\ lockUID \in Nat
    /\ lockTime \in Nat
    /\ subnets \in [Subnets -> Subnet]
    /\ subnetRV \in [Subnets -> Nat]
    /\ attEvents \in [Controllers -> Seq(AttEvent)]
    /\ lockEvents \in [Controllers -> Seq(LockEvent)]
    /\ subnetEvents \in [Controllers -> Seq(SubnetEvent)]
    /\ budget \in [Events -> Nat]
=============================================================================
