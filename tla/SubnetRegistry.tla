--------------------------- MODULE SubnetRegistry ---------------------------
(***************************************************************************)
(* Admission of Subnets by the network-apiserver                            *)
(* (pkg/registry/network/subnet/strategy.go).  An API server validates a    *)
(* Subnet against the other Subnets as its own informer's cache has them,   *)
(* and the storage layer writes it later: other writes may come in between, *)
(* and the cache lags the store.  A server that starts serves requests at   *)
(* once, while its cache is still empty (pkg/cmd/server/start.go).          *)
(*                                                                          *)
(* Clients want each Subnet to have a certain spec, its goal, and try again *)
(* until it has.  They may change their goals.  A refused request changes   *)
(* nothing.                                                                 *)
(***************************************************************************)
EXTENDS Integers, Sequences, FiniteSets

CONSTANTS
    Servers,     \* API servers that share the store
    Subnets,     \* namespaced names of Subnets
    NamespaceOf, \* the namespace of each name
    Specs,       \* Subnet specs: [vni, cidr, base, last]
    Scenarios,   \* sequences of goals that clients have one after the other
    MinVNI,
    MaxVNI,
    MaxInFlight, \* bound on requests validated and not yet written
    Upsets       \* bound on restarts of API servers and on deletions of
                 \* Subnets that are wanted again

\* cidr tells whether the CIDR block parses; if it does not, it has no range.
\* NoSpec is the goal that a Subnet does not exist.
NoSpec == [vni |-> 0, cidr |-> FALSE, base |-> 0, last |-> 0]

Goals == [Subnets -> Specs \cup {NoSpec}]

ASSUME RegistryAssumption ==
    /\ Specs \subseteq [vni : Nat, cidr : BOOLEAN, base : Nat, last : Nat]
    /\ Scenarios \subseteq Seq(Goals) \ {<<>>}
    /\ MinVNI \in Nat /\ MaxVNI \in Nat
    /\ MaxInFlight \in Nat /\ Upsets \in Nat

VARIABLES
    store,     \* name -> the stored Subnet
    seen,      \* name -> the cache the stored Subnet was validated against (history)
    lastRV,    \* the last ResourceVersion given out
    lister,    \* server -> name -> Subnet in the informer's cache
    watch,     \* server -> Subnet events not yet delivered
    synced,    \* servers whose informers have listed the Subnets
    requests,  \* requests validated and not yet written
    goals,     \* the goals the clients have now, and those they will have
    upsets     \* restarts and deletions left

vars == <<store, seen, lastRV, lister, watch, synced, requests, goals, upsets>>

-----------------------------------------------------------------------------

\* uid = 0: there is no such Subnet.  A UID is the ResourceVersion of the creation.
Subnet == [uid : Nat, rv : Nat, spec : Specs \cup {NoSpec}]

NoSubnet == [uid |-> 0, rv |-> 0, spec |-> NoSpec]

Nothing == [s \in Subnets |-> NoSubnet]

\* A creation has the uid and rv of NoSubnet.  The UID that a creation gets
\* before validation is new, so it is not the UID of a Subnet in a cache.
Request == [server : Servers, name : Subnets, uid : Nat, rv : Nat, spec : Specs,
            seen : [Subnets -> Subnet]]

Event == [key : Subnets, obj : Subnet]

goal == Head(goals)

Overlaps(d, e) == d.base <= e.last /\ d.last >= e.base

checkVNIRange(d) == d.vni \in MinVNI .. MaxVNI

checkCIDRFormat(d) == d.cidr

allSubnetsWithVNI(cache, vni) ==
    {t \in Subnets : cache[t].uid # 0 /\ cache[t].spec.vni = vni}

checkSameVNISameNs(s, others) == \A t \in others : NamespaceOf[t] = NamespaceOf[s]

MutOverlapSelf(r, others) ==  \* mutant: a Subnet is compared with itself too
    \A t \in others : ~Overlaps(r.spec, r.seen[t].spec)

MutOverlapReturn(r, others) ==  \* mutant: stops at itself, where it should go on
    \/ \E t \in others : r.seen[t].uid = r.uid
    \/ \A t \in others : ~Overlaps(r.spec, r.seen[t].spec)

\* The Subnet under validation is not compared with itself.
checkCIDRDoesNotOverlap(r, others) ==
    \A t \in others : r.seen[t].uid = r.uid \/ ~Overlaps(r.spec, r.seen[t].spec)

MutValidate(r) ==  \* mutant: a wrong VNI is noted, the checks go on
    LET others == allSubnetsWithVNI(r.seen, r.spec.vni)
    IN checkSameVNISameNs(r.name, others) /\ checkCIDRDoesNotOverlap(r, others)

Validate(r) ==
    /\ checkVNIRange(r.spec)
    /\ checkCIDRFormat(r.spec)
    /\ LET others == allSubnetsWithVNI(r.seen, r.spec.vni)
       IN /\ checkSameVNISameNs(r.name, others)
          /\ checkCIDRDoesNotOverlap(r, others)

-----------------------------------------------------------------------------

\* A server takes a client's request to create or update s, and validates it.
Admit(v, s) ==
    /\ Cardinality(requests) < MaxInFlight
    /\ goal[s] \notin {NoSpec, store[s].spec}
    /\ LET r == [server |-> v, name |-> s, uid |-> store[s].uid,
                 rv |-> store[s].rv, spec |-> goal[s], seen |-> lister[v]]
       IN Validate(r) /\ requests' = requests \cup {r}
    /\ UNCHANGED <<store, seen, lastRV, lister, watch, synced, goals, upsets>>

Broadcast(s, subnet) ==
    watch' = [v \in Servers |-> IF v \in synced
                                THEN Append(watch[v], [key |-> s, obj |-> subnet])
                                ELSE watch[v]]

\* The storage layer creates a Subnet only if there is none of that name, and
\* updates it only if it is the revision that was validated; else the request
\* fails.
Write(r) ==
    /\ requests' = requests \ {r}
    /\ \/ /\ store[r.name].rv = r.rv
          /\ LET new == [uid |-> IF r.uid = 0 THEN lastRV + 1 ELSE r.uid,
                         rv |-> lastRV + 1, spec |-> r.spec]
             IN /\ store' = [store EXCEPT ![r.name] = new]
                /\ Broadcast(r.name, new)
          /\ seen' = [seen EXCEPT ![r.name] = r.seen]
          /\ lastRV' = lastRV + 1
       \/ /\ store[r.name].rv # r.rv
          /\ UNCHANGED <<store, seen, lastRV, watch>>
    /\ UNCHANGED <<lister, synced, goals, upsets>>

\* A client deletes a Subnet, for good or for a while.
Delete(s) ==
    /\ store[s].uid # 0
    /\ \/ goal[s] = NoSpec /\ UNCHANGED upsets
       \/ /\ goal[s] # NoSpec /\ upsets > 0
          /\ upsets' = upsets - 1
    /\ store' = [store EXCEPT ![s] = NoSubnet]
    /\ seen' = [seen EXCEPT ![s] = Nothing]
    /\ Broadcast(s, NoSubnet)
    /\ UNCHANGED <<lastRV, lister, synced, requests, goals>>

ChangeGoals ==
    /\ Len(goals) > 1
    /\ goals' = Tail(goals)
    /\ UNCHANGED <<store, seen, lastRV, lister, watch, synced, requests,
                   upsets>>

\* The informer of a server takes an event into its cache.
Notify(v) ==
    /\ watch[v] # <<>>
    /\ LET e == Head(watch[v])
       IN lister' = [lister EXCEPT ![v][e.key] = e.obj]
    /\ watch' = [watch EXCEPT ![v] = Tail(@)]
    /\ UNCHANGED <<store, seen, lastRV, synced, requests, goals, upsets>>

\* A server restarts; what it was doing is lost and its informer has nothing.
Restart(v) ==
    /\ upsets > 0
    /\ upsets' = upsets - 1
    /\ synced' = synced \ {v}
    /\ lister' = [lister EXCEPT ![v] = Nothing]
    /\ watch' = [watch EXCEPT ![v] = <<>>]
    /\ requests' = {r \in requests : r.server # v}
    /\ UNCHANGED <<store, seen, lastRV, goals>>

\* The informer started by the PostStartHook lists the Subnets.
Sync(v) ==
    /\ v \notin synced
    /\ synced' = synced \cup {v}
    /\ lister' = [lister EXCEPT ![v] = store]
    /\ UNCHANGED <<store, seen, lastRV, watch, requests, goals, upsets>>

-----------------------------------------------------------------------------

Init ==
    /\ store = Nothing
    /\ seen = [s \in Subnets |-> Nothing]
    /\ lastRV = 0
    /\ lister = [v \in Servers |-> Nothing]
    /\ watch = [v \in Servers |-> <<>>]
    /\ synced = Servers
    /\ requests = {}
    /\ goals \in Scenarios
    /\ upsets = Upsets

Next ==
    \/ \E v \in Servers, s \in Subnets : Admit(v, s)
    \/ \E r \in requests : Write(r)
    \/ \E s \in Subnets : Delete(s)
    \/ ChangeGoals
    \/ \E v \in Servers : Notify(v)
    \/ \E v \in Servers : Restart(v)
    \/ \E v \in Servers : Sync(v)

Spec == Init /\ [][Next]_vars

\* Informers and servers keep working; clients try again until they have what
\* they want.
Fairness ==
    /\ \A v \in Servers : WF_vars(Notify(v)) /\ WF_vars(Sync(v))
    /\ WF_vars(\E r \in requests : Write(r))
    /\ \A s \in Subnets : /\ WF_vars(\E v \in Servers : Admit(v, s))
                          /\ WF_vars(goal[s] = NoSpec /\ Delete(s))

FairSpec == Spec /\ Fairness

-----------------------------------------------------------------------------
(* Properties.                                                              *)

\* The variables have their types, and what is stored has a VNI in range and a
\* CIDR block that parses.
TypeOK ==
    /\ store \in [Subnets -> Subnet]
    /\ \A s \in Subnets : store[s].uid # 0 => /\ store[s].spec.vni \in MinVNI .. MaxVNI
                                              /\ store[s].spec.cidr
    /\ seen \in [Subnets -> [Subnets -> Subnet]]
    /\ lastRV \in Nat
    /\ lister \in [Servers -> [Subnets -> Subnet]]
    /\ watch \in [Servers -> Seq(Event)]
    /\ synced \subseteq Servers
    /\ requests \subseteq Request
    /\ goals \in Seq(Goals) \ {<<>>}
    /\ upsets \in Nat

\* "For a given VNI, all the subnets having that VNI: have disjoint IP ranges,
\* and are in the same Kubernetes API namespace" (types.go).
InConflict(s, t, d, e) ==
    d.vni = e.vni /\ (NamespaceOf[s] # NamespaceOf[t] \/ Overlaps(d, e))

\* Two Subnets that break the rule were each admitted by a server whose cache
\* did not hold the other as it is now: a conflict comes from a cache that
\* lagged or was empty, or from a write after the validation, and from nothing
\* else (not from updates, deletions and recreations, or changes of VNI).
ConflictsUnseen ==
    \A s, t \in Subnets :
       s # t /\ store[s].uid # 0 /\ store[t].uid # 0 /\ seen[s][t] = store[t]
          => ~InConflict(s, t, store[s].spec, store[t].spec)

\* The goals can be had together.
Attainable ==
    /\ \A s \in Subnets : goal[s] # NoSpec => checkVNIRange(goal[s]) /\ checkCIDRFormat(goal[s])
    /\ \A s, t \in Subnets : s # t /\ goal[s] # NoSpec /\ goal[t] # NoSpec
                                => ~InConflict(s, t, goal[s], goal[t])

\* Refusals on account of a stale cache, of conflicts let in earlier or of the
\* Subnet's own older revision do not last: goals that can be had together come
\* to be stored, and stay so.
GoalsReached ==
    <>[](Attainable => \A s \in Subnets : store[s].spec = goal[s])
=============================================================================
