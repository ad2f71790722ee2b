------------------------------ MODULE UInt32Set ------------------------------
(***************************************************************************)
(* Sets of uint32 (pkg/uint32set): the sorted list of runs that the IPAM    *)
(* controller uses as its address cache (SortedUInt32Set), operated side by *)
(* side with the simple set that the unit test compares it with             *)
(* (HashUInt32Set).  Values end at Last, arithmetic wraps there.            *)
(*                                                                          *)
(* The sorted set that holds the runs is external: a set of nodes, at most  *)
(* one for a key (the first number of a run), ranked by the key.            *)
(***************************************************************************)
EXTENDS Integers, FiniteSets

CONSTANT Last  \* the greatest value, 2^32 - 1 in the code

ASSUME LastAssumption == Last \in Nat

VARIABLES
    runs,     \* the runs of the SortedUInt32Set
    members,  \* the members of the HashUInt32Set
    low,      \* its low-water mark
    high      \* its high-water mark

vars == <<runs, members, low, high>>

-----------------------------------------------------------------------------

Values == 0 .. Last

Inc(x) == IF x = Last THEN 0 ELSE x + 1

Dec(x) == IF x = 0 THEN Last ELSE x - 1

\* The values from a on, up to b, as unsigned arithmetic has them.
Span(a, b) == IF a <= b THEN a .. b ELSE (a .. Last) \cup (0 .. b)

Run == [first : Values, last : Values]

RemoveNode(rs, first) == {r \in rs : r.first # first}

AddOrUpdate(rs, first, last) ==
    RemoveNode(rs, first) \cup {[first |-> first, last |-> last]}

GetByRank(rs, n) == {r \in rs : Cardinality({q \in rs : q.first < r.first}) = n - 1}

\* The node before and the node after the key x, in a set.
Before(rs, x) ==
    {r \in rs : r.first < x /\ \A q \in rs : q.first < x => q.first <= r.first}

After(rs, x) ==
    {r \in rs : r.first > x /\ \A q \in rs : q.first > x => r.first <= q.first}

\* The run that x is in, in a set.
Find(rs, x) ==
    IF \E r \in rs : r.first = x THEN {r \in rs : r.first = x}
                                 ELSE {r \in Before(rs, x) : x <= r.last}

\* The rank of that run, or of a run of x alone.
FindRank(rs, x) ==
    LET first == IF Find(rs, x) = {} THEN x ELSE (CHOOSE r \in Find(rs, x) : TRUE).first
    IN 1 + Cardinality({r \in rs : r.first < first})

\* Whether Check, at the exhaustive level, returns: runs are not inverted and
\* there is a gap after every run but the last.
Check(rs) ==
    /\ \A r \in rs : r.first <= r.last
    /\ \A r \in rs : \A q \in After(rs, r.first) : q.first > Inc(r.last)

-----------------------------------------------------------------------------

MutAdded(rs, x) ==  \* mutant: joined with one neighbour only
    LET prev == {r \in Before(rs, x) : Inc(r.last) = x}
        next == {r \in After(rs, x) : Inc(x) = r.first}
    IN CASE prev # {} -> {[first |-> r.first, last |-> x] : r \in prev} \cup (rs \ prev)
         [] prev = {} /\ next # {} ->
              (rs \ next) \cup {[first |-> x, last |-> r.last] : r \in next}
         [] OTHER -> AddOrUpdate(rs, x, x)

\* What Add makes of the runs when x is not in the set: x is merged with the
\* run that ends before it, with the run that starts after it, or both.
Added(rs, x) ==
    LET prev == {r \in Before(rs, x) : Inc(r.last) = x}
        next == {r \in After(rs, x) : Inc(x) = r.first}
    IN CASE prev # {} /\ next # {} ->
              LET p == CHOOSE r \in prev : TRUE
                  n == CHOOSE r \in next : TRUE
              IN AddOrUpdate(RemoveNode(rs, n.first), p.first, n.last)
         [] prev # {} /\ next = {} ->
              AddOrUpdate(rs, (CHOOSE r \in prev : TRUE).first, x)
         [] prev = {} /\ next # {} ->
              LET n == CHOOSE r \in next : TRUE
              IN AddOrUpdate(RemoveNode(rs, n.first), x, n.last)
         [] OTHER -> AddOrUpdate(rs, x, x)

\* What innerRemove makes of the runs when x is in the set: its run is
\* shortened or split in two.
Removed(rs, x) ==
    LET r    == CHOOSE q \in Find(rs, x) : TRUE
        head == IF r.first = x THEN RemoveNode(rs, x)
                               ELSE AddOrUpdate(rs, r.first, Dec(x))
    IN IF x = r.last THEN head ELSE AddOrUpdate(head, Inc(x), r.last)

\* The operations of the HashUInt32Set.
HashAdd(x) ==
    /\ members' = members \cup {x}
    /\ low' = IF x < low THEN x ELSE low
    /\ high' = IF x > high THEN x ELSE high

HashRemove(x) ==
    /\ members' = members \ {x}
    /\ IF members \ {x} = {} THEN low' = Last /\ high' = 0
                             ELSE UNCHANGED <<low, high>>

-----------------------------------------------------------------------------

\* Add of a number that is in the set, and Remove of one that is not, return
\* false and change nothing.
Add(x) ==
    /\ Find(runs, x) = {}
    /\ runs' = Added(runs, x)
    /\ HashAdd(x)

Remove(x) ==
    /\ Find(runs, x) # {}
    /\ runs' = Removed(runs, x)
    /\ HashRemove(x)

\* The gaps in a range that is not inside one run, numbered from 0.  The first
\* is empty if the range begins in a run, the last if it ends in one.
Gaps(min, max) ==
    LET onMin == Find(runs, min)
        onMax == Find(runs, max)
        nGaps == 1 + FindRank(runs, max) - FindRank(runs, min)
                   + (IF onMax # {} THEN 1 ELSE 0)
        bias  == IF onMin # {} THEN 1 ELSE 0
        saib  == IF onMax # {} THEN 1 ELSE 0
    IN [count |-> nGaps, choice |-> bias .. nGaps - saib - 1]

MutGapMembers(min, max, g) ==  \* mutant: the gap begins with the end of a run
    LET prev  == GetByRank(runs, FindRank(runs, min) + g - 1)
        next  == GetByRank(runs, FindRank(runs, min) + g)
    IN IF (g > 0 /\ prev = {}) \/ (g < Gaps(min, max).count - 1 /\ next = {}) THEN {}
       ELSE Span(IF g > 0 THEN (CHOOSE r \in prev : TRUE).last ELSE min,
                 IF g < Gaps(min, max).count - 1
                 THEN Dec((CHOOSE r \in next : TRUE).first) ELSE max)

\* The numbers to choose from in gap g; none if an expected run is missing.
GapMembers(min, max, g) ==
    LET prev  == GetByRank(runs, FindRank(runs, min) + g - 1)
        next  == GetByRank(runs, FindRank(runs, min) + g)
    IN IF (g > 0 /\ prev = {}) \/ (g < Gaps(min, max).count - 1 /\ next = {}) THEN {}
       ELSE Span(IF g > 0 THEN Inc((CHOOSE r \in prev : TRUE).last) ELSE min,
                 IF g < Gaps(min, max).count - 1
                 THEN Dec((CHOOSE r \in next : TRUE).first) ELSE max)

\* AddOneInRange finds that the range is empty or inside one run, and gives up.
Full(min, max) ==
    max < min \/ (Find(runs, min) = Find(runs, max) /\ Find(runs, min) # {})

\* The numbers that AddOneInRange may pick.
Picks(min, max) == UNION {GapMembers(min, max, g) : g \in Gaps(min, max).choice}

AddOneInRange(min, max) ==
    /\ ~Full(min, max)
    /\ \E x \in Picks(min, max) : Add(x)

-----------------------------------------------------------------------------

Init ==
    /\ runs = {}
    /\ members = {}
    /\ low = Last
    /\ high = 0

Next ==
    \/ \E x \in Values : Add(x)
    \/ \E x \in Values : Remove(x)
    \/ \E min, max \in Values : AddOneInRange(min, max)

Spec == Init /\ [][Next]_vars

-----------------------------------------------------------------------------
(* Properties.                                                              *)

\* The variables have their types.
TypeOK ==
    /\ runs \subseteq Run
    /\ members \subseteq Values
    /\ low \in Values /\ high \in Values

\* The membership as Export lists it.
Export(rs) == UNION {r.first .. r.last : r \in rs}

\* What the HashUInt32Set's Export lists: the members between its marks.
HashExport == {x \in members : low <= x /\ x <= high}

\* IsEmpty and Has of the two sets.
IsEmpty(rs) == rs = {}

HashIsEmpty == members = {}

Has(rs, x) == Find(rs, x) # {}

HashHas(x) == x \in members

\* The runs as RExport lists them, from the nodes ...
RExport(rs) == {<<r.first, r.last>> : r \in rs}

\* Mutant: a run is ended by the first number after it.
MutHashRExport ==
    {run \in HashExport \X (low .. high) :
        /\ run[1] <= run[2] /\ run[1] .. run[2] - 1 \subseteq members
        /\ run[2] = high \/ run[2] \notin members
        /\ run[1] = low \/ run[1] - 1 \notin members}

\* ... and from a walk between the marks: a run begins with a member whose
\* predecessor is none, and ends before the first number that is none or at the
\* high mark.
HashRExport ==
    {run \in HashExport \X HashExport :
        /\ run[1] <= run[2] /\ run[1] .. run[2] \subseteq members
        /\ run[2] = high \/ run[2] + 1 \notin members
        /\ run[1] = low \/ run[1] - 1 \notin members}

\* "Between any two consecutive runs there is a gap containing at least one
\* number not in the set" (SortedUInt32Set).
Canonical(rs) ==
    /\ \A r \in rs : r.first <= r.last
    /\ \A q, r \in rs : q # r => q.last + 1 < r.first \/ r.last + 1 < q.first

\* The check that the unit test makes of an answer (x, could) of AddOneInRange.
CouldAddInRange(min, max, x, could) ==
    could = (x \in min .. max /\ x \notin members)

\* After any sequence of operations the runs are those of the set, in canonical
\* form, also where a run ends at the greatest value: Check does not panic, and
\* both sets export the same members.
Represents ==
    /\ Canonical(runs)
    /\ Check(runs)
    /\ Export(runs) = members
    /\ HashExport = members

\* The readers of the two sets agree after any sequence of operations: on
\* emptiness, on every membership and on the runs, although the marks of the
\* HashUInt32Set are not moved back when the lowest or the highest member goes.
ReadersAgree ==
    /\ IsEmpty(runs) = HashIsEmpty
    /\ \A x \in Values : Has(runs, x) = HashHas(x)
    /\ RExport(runs) = HashRExport

\* AddOneInRange gives up iff every number of the range is in the set; if it
\* goes on there is a gap to choose, it finds the runs around the gap, and
\* every number it may pick is in the range and not in the set: none of its
\* panics can be reached, and what it returns is what the interface promises.
\* The test's check accepts each of these answers, the refusal (0, false) too.
PicksRight ==
    \A min, max \in Values :
       /\ Full(min, max) <=> min .. max \subseteq members
       /\ ~Full(min, max) =>
             /\ Gaps(min, max).choice # {}
             /\ \A g \in Gaps(min, max).choice : GapMembers(min, max, g) # {}
             /\ Picks(min, max) = (min .. max) \ members
       /\ \A x \in Picks(min, max) : ~Full(min, max) => CouldAddInRange(min, max, x, TRUE)
       /\ Full(min, max) => CouldAddInRange(min, max, 0, FALSE)
=============================================================================
