-------------------------- MODULE TputDriver_proofs ---------------------------
(***************************************************************************)
(* The throughput driver, for every command line, any number of nodes and   *)
(* addresses and any budget of events: what a slot records is true of its   *)
(* attachment, whoever may still pass the test is pending, duplicates are   *)
(* noticed, and no attachment is forgotten.                                 *)
(*                                                                          *)
(* The argument is about names.  Thread t uses the slots of its share in    *)
(* turn; its i-th attachment is in slot Work(t, i) and has the name         *)
(* NameFor(t, i), and no name is used twice: no two threads share a slot,   *)
(* and a slot's index goes up by the number of slots of its network.        *)
(*                                                                          *)
(* Last, the subnets that main lays out for every size of the networks:     *)
(* their blocks shrink, so that each begins at a multiple of its own.       *)
(***************************************************************************)
EXTENDS TputDriver, FiniteSetTheorems, WellFoundedInduction, TLAPS

\* The name of the i-th attachment of thread t.
NameFor(t, i) ==
    <<Work(t, i)[1],
      Work(t, i)[2] + (i \div WorkLen(t)) * virtNets[Work(t, i)[1]].size>>

-----------------------------------------------------------------------------
(* The inductive invariant.                                                 *)

Name == {NoName} \cup (Int \X Int)

AttRec == [name : Name, ip : IPs \cup {0}, ifc : BOOLEAN,
           report : {"none", "pass", "fail"}, errs : BOOLEAN]

SlotRec == [name : Name, node : Nodes \cup {NoNode}, natt : AttRec, preCreate : BOOLEAN,
            ready : BOOLEAN, tested : BOOLEAN, broken : BOOLEAN, nextIndex : Int]

\* Where a thread is about to create, has named the slot, or deletes.
Naming == {"create", "created", "failed"}
Creating == {"asleep", "awake", "name"} \cup Naming
Deleting == {"delete", "advance"}

ThreadRec == [pc : {"loop", "done"} \cup Creating \cup Deleting, iCreate : Nat, iDelete : Nat,
              createAllowed : BOOLEAN, timer : {"set", "off"}, natt : Name, early : BOOLEAN]

\* What Init sets up and no step changes.
Setup ==
    /\ flags \in Flags
    /\ virtNets = MakeVirtNets(flags)
    /\ DOMAIN slots = IF Drives(flags, virtNets) THEN SlotsOf(virtNets) ELSE {}
    /\ vnAttachments \in Orders(DOMAIN slots)
    /\ DOMAIN thread = Threads

Types ==
    /\ slots \in [DOMAIN slots -> SlotRec]
    /\ thread \in [DOMAIN thread -> ThreadRec]
    /\ addrs \in [DOMAIN virtNets -> [IPs -> SUBSET Name]]
    /\ DOMAIN atts \subseteq Name /\ atts \in [DOMAIN atts -> AttRec]
    /\ events \in Seq([slot : DOMAIN slots, natt : AttRec])
    /\ stopped \in BOOLEAN

\* The indices in a connectivity domain are those of its network's slots.
CDsOK ==
    /\ cds \in [DOMAIN virtNets -> [pendingIndices : SUBSET Int, latestIndex : Int]]
    /\ \A i \in DOMAIN virtNets :
          /\ cds[i].pendingIndices \subseteq 1 .. virtNets[i].size
          /\ cds[i].latestIndex \in {NoIndex} \cup 1 .. virtNets[i].size

MainOK ==
    /\ phase \in {"namespace", "subnets", "wait", "drive", "end"}
    /\ initializedSubnets \subseteq subnets /\ subnets \subseteq SubnetsOf(virtNets)

\* How far a thread has come with creating and deleting.  Only a thread that was
\* told to stop deletes what it has not created.
CountsAt(t) ==
    LET th == thread[t]
    IN /\ th.iDelete <= NumHere(t) /\ th.iCreate <= NumHere(t)
       /\ th.iCreate <= th.iDelete + WorkLen(t)
       /\ ~stopped => th.createAllowed /\ th.iDelete <= th.iCreate
       /\ th.pc \in Creating => /\ th.iCreate < NumHere(t)
                                /\ th.iDelete <= th.iCreate
                                /\ th.iCreate < th.iDelete + WorkLen(t)
       /\ th.pc \in Deleting => /\ th.iDelete < NumHere(t)
                                /\ ~stopped => th.iDelete < th.iCreate
       /\ th.pc = "done" /\ ~th.early => th.iDelete >= NumHere(t)

Counts == \A t \in DOMAIN thread : CountsAt(t)

\* What is in the slot that thread t uses for its i-th attachment, from the next
\* one to delete on.
SlotAt(t, i) ==
    LET th == thread[t]
        slot == slots[Work(t, i)]
        name == NameFor(t, i)
    IN /\ slot.nextIndex = name[2]
       /\ slot.name \in {NoName, name}
       /\ i > th.iCreate \/ (i = th.iCreate /\ th.pc \notin Naming) => slot.name = NoName
       /\ i = th.iCreate /\ th.pc \in Naming => slot.name = name
       /\ i = th.iCreate /\ th.pc = "create" => ~slot.ready /\ ~slot.tested
       /\ i < th.iCreate /\ slot.name # NoName => slot.natt.name = slot.name
       /\ i = th.iDelete /\ th.pc \in Deleting => slot.name = NoName

SlotsInTurn ==
    \A t \in DOMAIN thread :
       \A i \in thread[t].iDelete .. thread[t].iDelete + WorkLen(t) - 1 : SlotAt(t, i)

\* Every slot has a name of its own or none, a node with it, and an address only
\* with a name.
OwnName(s) ==
    /\ slots[s].name # NoName =>
          \E q \in Nat : slots[s].name = <<s[1], s[2] + q * virtNets[s[1]].size>>
    /\ (slots[s].name = NoName) = (slots[s].node = NoNode)
    /\ slots[s].natt.ip # 0 => slots[s].name # NoName

OwnNames == \A s \in DOMAIN slots : OwnName(s)

\* A name for the slot s that a thread has asked the API server to create.
Issued(name, s) ==
    \E t \in DOMAIN thread : \E i \in 0 .. thread[t].iCreate :
       /\ name = NameFor(t, i) /\ s = Work(t, i)
       /\ i = thread[t].iCreate => thread[t].pc \in {"created", "failed"}

AllIssued ==
    /\ \A name \in DOMAIN atts : \E s \in DOMAIN slots : Issued(name, s)
    /\ \A n \in DOMAIN events : Issued(events[n].natt.name, events[n].slot)

Busy == \E t \in DOMAIN thread : thread[t].pc # "done"

\* The i-th attachment of thread t is in its slot or being deleted.
Kept(name, t, i) ==
    /\ name = NameFor(t, i)
    /\ thread[t].iDelete <= i
    /\ i = thread[t].iCreate => thread[t].pc = "created"
    /\ Busy => \/ slots[Work(t, i)].name = name
               \/ /\ i = thread[t].iDelete /\ thread[t].pc = "delete"
                  /\ thread[t].natt = name

AllKept ==
    \A name \in DOMAIN atts \ lost :
       \E t \in DOMAIN thread : \E i \in 0 .. thread[t].iCreate : Kept(name, t, i)

\* Nothing that was notified or recorded is taken back.
Truth ==
    /\ \A n \in DOMAIN events : events[n].natt.name \in DOMAIN atts =>
          LET natt == atts[events[n].natt.name]
          IN /\ events[n].natt.ifc => natt.ifc
             /\ events[n].natt.report # "none" => natt.report # "none"
    /\ SlotsTellTruth

Owners ==
    /\ \A i \in DOMAIN addrs, ip \in IPs : IsFiniteSet(addrs[i][ip])
    /\ \A s \in DOMAIN slots :
          slots[s].natt.ip # 0 => slots[s].name \in addrs[s[1]][slots[s].natt.ip]

\* Before it drives main has made nothing, after it nobody works.
Phases ==
    /\ phase \in {"namespace", "subnets", "wait"} => DOMAIN atts = {}
    /\ phase = "end" /\ (\A t \in DOMAIN thread : ~thread[t].early) => DOMAIN atts \subseteq lost

IInv ==
    /\ Setup /\ Types /\ CDsOK /\ MainOK /\ Counts /\ SlotsInTurn /\ OwnNames /\ AllIssued
    /\ AllKept /\ Truth /\ PendingCovers /\ Owners /\ DuplicatesNoticed /\ Phases

-----------------------------------------------------------------------------
(* Arithmetic.                                                              *)

LEMMA Multiples ==
    ASSUME NEW a \in Int, NEW b \in Int, NEW n \in Nat, a < b
    PROVE  a * n + n <= b * n
<1>1. (b - a - 1) * n >= 0
  BY SMT
<1> QED
  BY <1>1, SMT

LEMMA Quotient ==
    ASSUME NEW i \in Nat, NEW w \in Nat \ {0}
    PROVE  /\ i % w \in Nat /\ i % w < w
           /\ i \div w \in Nat
           /\ i = (i \div w) * w + (i % w)
BY SMT

\* The quotient and the remainder are determined.
LEMMA Digits ==
    ASSUME NEW n \in Nat, NEW p \in Int, NEW q \in Int, NEW t \in Int, NEW u \in Int,
           t - u < n, u - t < n, t + p * n = u + q * n
    PROVE  t = u /\ p = q
<1>1. ~(p < q)
  BY Multiples, SMT
<1>2. ~(q < p)
  BY Multiples, SMT
<1> QED
  BY <1>1, <1>2, SMT

LEMMA Remainder ==
    ASSUME NEW n \in Nat \ {0}, NEW x \in Int
    PROVE  x % n \in Nat /\ x % n < n /\ x = (x \div n) * n + (x % n) /\ x \div n \in Int
BY SMT

LEMMA MultipleOf ==
    ASSUME NEW n \in Nat \ {0}, NEW x \in Int
    PROVE  x % n = 0 <=> \E q \in Int : x = q * n
<1>1. /\ x % n \in Int /\ 0 <= x % n /\ x % n < n /\ x \div n \in Int
      /\ x = (x \div n) * n + (x % n)
  BY Remainder
<1>2. ASSUME NEW q \in Int, x = q * n PROVE x % n = 0
  <2> DEFINE d == x \div n
             r == x % n
  <2>1. d \in Int /\ r \in Int /\ 0 <= r /\ r < n
    BY <1>1
  <2>2. r + d * n = 0 + q * n
    BY <1>1, <1>2, SMT
  <2> HIDE DEF d, r
  <2>3. r - 0 < n /\ 0 - r < n
    BY <2>1, SMT
  <2>4. r = 0
    BY <2>1, <2>2, <2>3, Digits
  <2> QED
    BY <2>4 DEF r
<1>3. x % n = 0 => x = (x \div n) * n
  <2> DEFINE d == x \div n
             r == x % n
  <2>1. d * n \in Int /\ x = d * n + r
    BY <1>1, SMT
  <2> HIDE DEF d, r
  <2>2. r = 0 => x = d * n
    BY <2>1, SMT
  <2> QED
    BY <2>2 DEF d, r
<1> QED
  BY <1>1, <1>2, <1>3

\* A share of every n-th of L elements, beginning with the t-th.
LEMMA Share ==
    ASSUME NEW L \in Nat, NEW n \in Nat, NEW t \in Nat, t < n, n <= L,
           NEW w, w = (L + n - 1 - t) \div n
    PROVE  w \in Nat \ {0} /\ \A q \in 0 .. w - 1 : t + q * n + 1 \in 1 .. L
<1> DEFINE x == L + n - 1 - t
<1>1. x \in Nat /\ n \in Nat \ {0} /\ n <= x
  BY SMT
<1>2. w \in Nat /\ x % n \in Nat /\ x % n < n /\ x = w * n + (x % n)
  BY <1>1, Quotient
<1>3. w # 0
  <2>1. ASSUME w = 0 PROVE FALSE
    <3>1. w * n = 0
      BY <1>1, <2>1, SMT
    <3> HIDE DEF x
    <3> QED
      BY <1>1, <1>2, <3>1, SMT
  <2> QED
    BY <2>1
<1>4. ASSUME NEW q \in 0 .. w - 1 PROVE t + q * n + 1 \in 1 .. L
  <2>1. q \in Nat /\ q < w
    BY <1>2, SMT
  <2>2. q * n + n <= w * n
    BY <1>2, <2>1, Multiples
  <2>3. q * n \in Nat /\ w * n \in Nat
    BY <1>2, <2>1, SMT
  <2> QED
    BY <1>1, <1>2, <2>2, <2>3, SMT
<1> QED
  BY <1>2, <1>3, <1>4

-----------------------------------------------------------------------------
(* What Init sets up.                                                       *)

LEMMA Sizes ==
    ASSUME NEW fl \in FlagNames, NEW i \in Nat \ {0}
    PROVE  NetSize(fl, i) \in Nat \ {0}
<1> DEFINE a == (1 + fl.law_bias) * fl.top_net_size
           b == i + fl.law_bias
<1>1. fl.law_bias \in Nat /\ fl.top_net_size \in Nat \ {0}
  BY DEF FlagNames
<1>2. b \in Nat \ {0}
  BY <1>1, SMT
<1>3. a \in Nat \ {0}
  <2>1. (0 * fl.top_net_size) + fl.top_net_size <= (1 + fl.law_bias) * fl.top_net_size
    BY <1>1, Multiples, SMT
  <2> QED
    BY <1>1, <2>1, SMT
<1>4. NetSize(fl, i) = (a + b - 1) \div b
  BY DEF NetSize, CeilDiv
<1> HIDE DEF a, b
<1>5. a + b - 1 \in Nat /\ b <= a + b - 1
  BY <1>2, <1>3, SMT
<1> DEFINE x == a + b - 1
           d == x \div b
<1>6. d \in Nat /\ x % b \in Nat /\ x % b < b /\ x = d * b + (x % b)
  BY <1>2, <1>5, Quotient
<1>7. d # 0
  <2>1. ASSUME d = 0 PROVE FALSE
    <3>1. d * b = 0
      BY <1>2, <2>1, SMT
    <3> HIDE DEF d, x
    <3>2. b <= x
      BY <1>5 DEF x
    <3> QED
      BY <1>2, <1>6, <3>1, <3>2, SMT
  <2> QED
    BY <2>1
<1> QED
  BY <1>4, <1>6, <1>7

\* The networks, as far as the slots are concerned.
LEMMA Networks ==
    ASSUME NEW fl \in FlagNames, NEW nets, nets = MakeVirtNets(fl)
    PROVE  /\ fl.num_nets \in Nat
           /\ DOMAIN nets = 1 .. fl.num_nets
           /\ \A i \in DOMAIN nets : nets[i].size \in Nat \ {0}
<1>1. fl.num_nets \in Nat
  BY DEF FlagNames
<1> DEFINE addr0 ==
             CHOOSE f : f = [i \in 1 .. fl.num_nets |->
                IF i = 1 THEN 0 ELSE VirtNet(fl, i - 1, f[i - 1]).addrF + 1]
<1>2. nets = [i \in 1 .. fl.num_nets |-> VirtNet(fl, i, addr0[i])]
  BY Zenon DEF MakeVirtNets
<1> HIDE DEF addr0
<1>3. DOMAIN nets = 1 .. fl.num_nets
  BY <1>2
<1>4. ASSUME NEW i \in DOMAIN nets PROVE nets[i].size \in Nat \ {0}
  <2>1. i \in 1 .. fl.num_nets /\ i \in Nat \ {0}
    BY <1>1, <1>3
  <2>2. nets[i] = VirtNet(fl, i, addr0[i])
    BY <1>2, <2>1
  <2>3. VirtNet(fl, i, addr0[i]).size = NetSize(fl, i)
    BY DEF VirtNet
  <2> QED
    BY <2>1, <2>2, <2>3, Sizes
<1> QED
  BY <1>1, <1>3, <1>4

LEMMA SlotPairs ==
    ASSUME NEW nets, NEW s \in SlotsOf(nets),
           \A i \in DOMAIN nets : nets[i].size \in Nat \ {0}
    PROVE  /\ s = <<s[1], s[2]>> /\ s[1] \in DOMAIN nets
           /\ s[2] \in 1 .. nets[s[1]].size
<1>1. PICK i \in DOMAIN nets : s \in {<<i, j>> : j \in 1 .. nets[i].size}
  BY DEF SlotsOf
<1>2. PICK j \in 1 .. nets[i].size : s = <<i, j>>
  BY <1>1
<1> QED
  BY <1>2

LEMMA FiniteSlots ==
    ASSUME NEW nets, NEW n \in Nat, DOMAIN nets = 1 .. n,
           \A i \in DOMAIN nets : nets[i].size \in Nat \ {0}
    PROVE  IsFiniteSet(SlotsOf(nets))
<1> DEFINE row(i) == {<<i, j>> : j \in 1 .. nets[i].size}
           rows == {row(i) : i \in DOMAIN nets}
<1>1. ASSUME NEW i \in DOMAIN nets PROVE IsFiniteSet(row(i))
  <2> DEFINE f == [j \in 1 .. nets[i].size |-> <<i, j>>]
  <2>1. nets[i].size \in Nat
    OBVIOUS
  <2>2. IsFiniteSet(1 .. nets[i].size)
    BY <2>1, FS_Interval
  <2>3. f \in Surjection(1 .. nets[i].size, row(i))
    BY DEF Surjection
  <2> QED
    BY <2>2, <2>3, FS_Surjection
<1>2. IsFiniteSet(rows)
  <2> DEFINE f == [i \in DOMAIN nets |-> row(i)]
  <2>1. IsFiniteSet(DOMAIN nets)
    BY FS_Interval
  <2>2. f \in Surjection(DOMAIN nets, rows)
    BY DEF Surjection
  <2> HIDE DEF f, row
  <2> QED
    BY <2>1, <2>2, FS_Surjection
<1>3. \A T \in rows : IsFiniteSet(T)
  BY <1>1
<1>4. SlotsOf(nets) = UNION rows
  BY DEF SlotsOf
<1> HIDE DEF rows
<1> QED
  BY <1>2, <1>3, <1>4, FS_UNION

\* The order in which the threads take the slots has each slot once.
LEMMA OrderOnce ==
    ASSUME NEW S, IsFiniteSet(S), NEW f \in Orders(S)
    PROVE  /\ f \in [1 .. Cardinality(S) -> S]
           /\ \A m, n \in 1 .. Cardinality(S) : f[m] = f[n] => m = n
<1> DEFINE c == Cardinality(S)
<1>1. c \in Nat /\ IsFiniteSet(1 .. c) /\ Cardinality(1 .. c) = c
  BY FS_CardinalityType, FS_Interval
<1>2. f \in [1 .. c -> S] /\ \A s \in S : \E n \in 1 .. c : f[n] = s
  BY DEF Orders
<1>3. f \in Surjection(1 .. c, S)
  BY <1>2 DEF Surjection
<1>4. f \in Injection(1 .. c, S)
  BY <1>1, <1>3, FS_SurjSameCardinalityImpliesInj
<1> QED
  BY <1>2, <1>4 DEF Injection, IsInjective

\* What the threads and their shares are.
SetupFacts ==
    /\ flags.num_attachments \in Nat
    /\ numThreads \in Nat
    /\ \A i \in DOMAIN virtNets : virtNets[i].size \in Nat \ {0}
    /\ DOMAIN virtNets \subseteq Int
    /\ \A s \in DOMAIN slots : /\ s = <<s[1], s[2]>> /\ s[1] \in DOMAIN virtNets
                               /\ s[2] \in 1 .. virtNets[s[1]].size
    /\ DOMAIN thread = 0 .. numThreads - 1
    /\ \A t \in DOMAIN thread : WorkLen(t) \in Nat \ {0}
    /\ \A t \in DOMAIN thread, i \in Nat :
          /\ t + (i % WorkLen(t)) * numThreads + 1 \in 1 .. Len(vnAttachments)
          /\ Work(t, i) \in DOMAIN slots
    /\ \A m, n \in 1 .. Len(vnAttachments) : vnAttachments[m] = vnAttachments[n] => m = n

LEMMA SetupHolds == Setup => SetupFacts
<1> SUFFICES ASSUME Setup PROVE SetupFacts
  OBVIOUS
<1> DEFINE S == DOMAIN slots
           c == Cardinality(S)
<1>1. /\ flags \in FlagNames /\ flags.num_attachments \in Nat /\ flags.threads \in Nat \ {0}
  BY DriverAssumption DEF Setup, FlagNames
<1>2. /\ flags.num_nets \in Nat
      /\ DOMAIN virtNets = 1 .. flags.num_nets
      /\ \A i \in DOMAIN virtNets : virtNets[i].size \in Nat \ {0}
  BY <1>1, Networks DEF Setup
<1>3. S = {} \/ S = SlotsOf(virtNets)
  BY DEF Setup
<1>4. IsFiniteSet(S) /\ c \in Nat
  BY <1>2, <1>3, FiniteSlots, FS_EmptySet, FS_CardinalityType
<1>5. ASSUME NEW s \in S
      PROVE  s = <<s[1], s[2]>> /\ s[1] \in DOMAIN virtNets /\ s[2] \in 1 .. virtNets[s[1]].size
  BY <1>2, <1>3, SlotPairs
<1>6. /\ vnAttachments \in [1 .. c -> S]
      /\ \A m, n \in 1 .. c : vnAttachments[m] = vnAttachments[n] => m = n
  BY <1>4, OrderOnce DEF Setup
<1>7. Len(vnAttachments) = c
  BY <1>4, <1>6
<1>8. numThreads \in Nat /\ numThreads <= c
  <2>1. flags.threads \in Int /\ c \in Int
    BY <1>1, <1>4
  <2> HIDE DEF c
  <2>2. \E x \in {flags.threads, c} : \A y \in {flags.threads, c} : x <= y
    BY <2>1
  <2>3. /\ Min({flags.threads, c}) \in {flags.threads, c}
        /\ \A y \in {flags.threads, c} : Min({flags.threads, c}) <= y
    BY <2>2 DEF Min
  <2> QED
    BY <1>1, <1>4, <2>3 DEF numThreads, c
<1>9. DOMAIN thread = 0 .. numThreads - 1
  BY DEF Setup, Threads
<1>10. ASSUME NEW t \in DOMAIN thread
       PROVE  /\ WorkLen(t) \in Nat \ {0}
              /\ \A q \in 0 .. WorkLen(t) - 1 : t + q * numThreads + 1 \in 1 .. c
  <2>1. t \in Nat /\ t < numThreads
    BY <1>8, <1>9
  <2>2. WorkLen(t) = (c + numThreads - 1 - t) \div numThreads
    BY <1>7 DEF WorkLen
  <2> HIDE DEF c
  <2> QED
    BY <1>4, <1>8, <2>1, <2>2, Share
<1>11. ASSUME NEW t \in DOMAIN thread, NEW i \in Nat
       PROVE  /\ t + (i % WorkLen(t)) * numThreads + 1 \in 1 .. c
              /\ Work(t, i) \in S
  <2>1. i % WorkLen(t) \in 0 .. WorkLen(t) - 1
    BY <1>10, Quotient
  <2>2. t + (i % WorkLen(t)) * numThreads + 1 \in 1 .. c
    BY <1>10, <2>1
  <2> QED
    BY <1>6, <2>2 DEF Work
<1>12. DOMAIN virtNets \subseteq Int
  BY <1>2
<1> HIDE DEF c, S
<1>13. \A t \in DOMAIN thread, i \in Nat :
          /\ t + (i % WorkLen(t)) * numThreads + 1 \in 1 .. Len(vnAttachments)
          /\ Work(t, i) \in DOMAIN slots
  BY <1>7, <1>11 DEF S
<1>14. \A m, n \in 1 .. Len(vnAttachments) : vnAttachments[m] = vnAttachments[n] => m = n
  BY <1>6, <1>7
<1>15. \A s \in DOMAIN slots : /\ s = <<s[1], s[2]>> /\ s[1] \in DOMAIN virtNets
                                /\ s[2] \in 1 .. virtNets[s[1]].size
  BY <1>5 DEF S
<1>16. \A t \in DOMAIN thread : WorkLen(t) \in Nat \ {0}
  BY <1>10
<1> QED
  BY <1>1, <1>2, <1>8, <1>9, <1>12, <1>13, <1>14, <1>15, <1>16, Zenon DEF SetupFacts

LEMMA ThreadIndex ==
    ASSUME SetupFacts, NEW t \in DOMAIN thread
    PROVE  numThreads \in Nat /\ t \in Nat /\ t < numThreads /\ WorkLen(t) \in Nat \ {0}
<1>1. /\ numThreads \in Nat /\ DOMAIN thread = 0 .. numThreads - 1
      /\ WorkLen(t) \in Nat \ {0}
  BY Zenon DEF SetupFacts
<1> QED
  BY <1>1, SMT

LEMMA SlotIndex ==
    ASSUME SetupFacts, NEW s \in DOMAIN slots
    PROVE  /\ s = <<s[1], s[2]>> /\ s[1] \in DOMAIN virtNets /\ s[1] \in Int
           /\ virtNets[s[1]].size \in Nat \ {0}
           /\ s[2] \in Int /\ 1 <= s[2] /\ s[2] <= virtNets[s[1]].size
           /\ s[2] \in 1 .. virtNets[s[1]].size
<1>1. /\ s = <<s[1], s[2]>> /\ s[1] \in DOMAIN virtNets
      /\ s[2] \in 1 .. virtNets[s[1]].size
      /\ virtNets[s[1]].size \in Nat \ {0}
  BY Zenon DEF SetupFacts
<1>2. s[1] \in Int
  BY <1>1, Zenon DEF SetupFacts
<1> QED
  BY <1>1, <1>2, SMT

\* No two threads share a slot, and a thread comes to a slot every WorkLen-th
\* time.
LEMMA WorkOnce ==
    ASSUME SetupFacts, NEW t \in DOMAIN thread, NEW u \in DOMAIN thread,
           NEW i \in Nat, NEW j \in Nat, Work(t, i) = Work(u, j)
    PROVE  t = u /\ i % WorkLen(t) = j % WorkLen(t)
<1> DEFINE n == numThreads
           p == i % WorkLen(t)
           q == j % WorkLen(u)
<1>1. n \in Nat /\ t \in Nat /\ u \in Nat /\ t < n /\ u < n
  BY ThreadIndex
<1>2. WorkLen(t) \in Nat \ {0} /\ WorkLen(u) \in Nat \ {0}
  BY DEF SetupFacts
<1>3. p \in Nat /\ q \in Nat
  BY <1>2, Quotient
<1>4. t + p * n + 1 \in 1 .. Len(vnAttachments) /\ u + q * n + 1 \in 1 .. Len(vnAttachments)
  BY DEF SetupFacts
<1>5. vnAttachments[t + p * n + 1] = vnAttachments[u + q * n + 1]
  BY DEF Work
<1> HIDE DEF n, p, q
<1>6. t + p * n + 1 = u + q * n + 1
  BY <1>4, <1>5 DEF SetupFacts
<1>7. p * n \in Int /\ q * n \in Int
  BY <1>1, <1>3, SMT
<1>8. t + p * n = u + q * n
  BY <1>1, <1>6, <1>7, SMT
<1>9. t - u < n /\ u - t < n
  BY <1>1, SMT
<1>10. t = u /\ p = q
  BY <1>1, <1>3, <1>8, <1>9, Digits
<1> QED
  BY <1>10 DEF p, q

\* A name belongs to one slot.
LEMMA NameOnce ==
    ASSUME SetupFacts, NEW s \in DOMAIN slots, NEW u \in DOMAIN slots,
           NEW p \in Int, NEW q \in Int,
           <<s[1], s[2] + p * virtNets[s[1]].size>> = <<u[1], u[2] + q * virtNets[u[1]].size>>
    PROVE  s = u /\ p = q
<1> DEFINE n == virtNets[s[1]].size
<1>1. s[1] = u[1]
  OBVIOUS
<1>2. n \in Nat /\ s[2] \in 1 .. n /\ u[2] \in 1 .. n
  BY <1>1 DEF SetupFacts
<1>3. s[2] + p * n = u[2] + q * n
  BY <1>1
<1> HIDE DEF n
<1>4. s[2] \in Int /\ u[2] \in Int /\ s[2] - u[2] < n /\ u[2] - s[2] < n
  BY <1>2, SMT
<1>5. s[2] = u[2] /\ p = q
  BY <1>2, <1>3, <1>4, Digits
<1>6. s = <<s[1], s[2]>> /\ u = <<u[1], u[2]>>
  BY DEF SetupFacts
<1> QED
  BY <1>1, <1>5, <1>6

\* The i-th name of a thread, its slot and what it leaves of i.
LEMMA NameForFacts ==
    ASSUME SetupFacts, NEW t \in DOMAIN thread, NEW i \in Nat
    PROVE  /\ Work(t, i) \in DOMAIN slots
           /\ i \div WorkLen(t) \in Nat
           /\ NameFor(t, i) = <<Work(t, i)[1], Work(t, i)[2]
                                   + (i \div WorkLen(t)) * virtNets[Work(t, i)[1]].size>>
           /\ NameFor(t, i) \in Int \X Int /\ NameFor(t, i) # NoName
           /\ NameFor(t, i)[1] = Work(t, i)[1]
<1> DEFINE s == Work(t, i)
           d == i \div WorkLen(t)
           n == virtNets[s[1]].size
<1>1. s \in DOMAIN slots
  BY DEF SetupFacts
<1>2. d \in Nat
  <2>1. WorkLen(t) \in Nat \ {0}
    BY DEF SetupFacts
  <2> QED
    BY <2>1, Quotient
<1> HIDE DEF d
<1>3. NameFor(t, i) = <<s[1], s[2] + d * n>>
  BY DEF NameFor, d
<1> HIDE DEF s
<1>4. s[1] \in Int /\ n \in Nat /\ s[2] \in Int
  BY <1>1, SlotIndex
<1> HIDE DEF n
<1>5. s[2] + d * n \in Int
  BY <1>2, <1>4, SMT
<1> DEFINE m == s[2] + d * n
<1> HIDE DEF m
<1>6. NameFor(t, i) = <<s[1], m>> /\ m \in Int
  BY <1>3, <1>5 DEF m
<1>7. /\ NameFor(t, i) \in Int \X Int /\ NameFor(t, i) # NoName
      /\ NameFor(t, i)[1] = s[1]
  BY <1>4, <1>6 DEF NoName
<1> QED
  BY <1>1, <1>2, <1>3, <1>7 DEF s, d, n

\* No two attachments have one name.
LEMMA NamesOnce ==
    ASSUME SetupFacts, NEW t \in DOMAIN thread, NEW u \in DOMAIN thread,
           NEW i \in Nat, NEW j \in Nat, NameFor(t, i) = NameFor(u, j)
    PROVE  t = u /\ i = j
<1> DEFINE w == WorkLen(t)
<1>1. /\ Work(t, i) \in DOMAIN slots /\ Work(u, j) \in DOMAIN slots
      /\ i \div WorkLen(t) \in Nat /\ j \div WorkLen(u) \in Nat
  BY NameForFacts
<1>2. <<Work(t, i)[1], Work(t, i)[2] + (i \div WorkLen(t)) * virtNets[Work(t, i)[1]].size>>
        = <<Work(u, j)[1], Work(u, j)[2] + (j \div WorkLen(u)) * virtNets[Work(u, j)[1]].size>>
  BY Zenon DEF NameFor
<1>3. Work(t, i) = Work(u, j) /\ i \div WorkLen(t) = j \div WorkLen(u)
  BY <1>1, <1>2, NameOnce
<1>4. t = u /\ i % w = j % w
  BY <1>3, WorkOnce
<1>5. i \div w = j \div w
  BY <1>3, <1>4
<1>6. w \in Nat \ {0}
  BY DEF SetupFacts
<1> HIDE DEF w
<1>7. i = (i \div w) * w + (i % w) /\ j = (j \div w) * w + (j % w)
  BY <1>6, Quotient
<1> QED
  BY <1>4, <1>5, <1>7

\* A thread's names for one slot within one turn are the same.
LEMMA SlotInTurn ==
    ASSUME SetupFacts, NEW t \in DOMAIN thread, NEW d \in Nat,
           NEW i \in d .. d + WorkLen(t) - 1, NEW j \in d .. d + WorkLen(t) - 1,
           i % WorkLen(t) = j % WorkLen(t)
    PROVE  i = j
<1> DEFINE w == WorkLen(t)
           a == i \div w
           b == j \div w
           r == i % w
<1>1. w \in Nat \ {0} /\ i \in Nat /\ j \in Nat
  BY DEF SetupFacts
<1>2. a \in Int /\ b \in Int /\ r \in Int /\ i = a * w + r /\ j = b * w + r
  <2>1. j % w = r
    OBVIOUS
  <2> HIDE DEF w
  <2> QED
    BY <1>1, <2>1, Quotient
<1>3. i - j < w /\ j - i < w
  BY <1>1
<1> HIDE DEF w, a, b, r
<1>4. a * w \in Int /\ b * w \in Int
  BY <1>1, <1>2, SMT
<1>5. i + b * w = j + a * w
  BY <1>2, <1>4, SMT
<1> QED
  BY <1>1, <1>2, <1>3, <1>5, Digits

\* The slot that comes again after a whole turn, with the next name.
LEMMA NextTurn ==
    ASSUME SetupFacts, NEW t \in DOMAIN thread, NEW i \in Nat
    PROVE  /\ i + WorkLen(t) \in Nat
           /\ Work(t, i + WorkLen(t)) = Work(t, i)
           /\ NameFor(t, i + WorkLen(t))[2]
                 = NameFor(t, i)[2] + virtNets[Work(t, i)[1]].size
<1> DEFINE w == WorkLen(t)
           j == i + w
<1>1. w \in Nat \ {0} /\ j \in Nat
  BY ThreadIndex
<1>2. j % w = i % w /\ j \div w = (i \div w) + 1
  <2> DEFINE a == i \div w
             r == i % w
             b == j \div w
             z == j % w
  <2>1. /\ a \in Int /\ r \in Int /\ 0 <= r /\ r < w /\ i = a * w + r
        /\ b \in Int /\ z \in Int /\ 0 <= z /\ z < w /\ j = b * w + z
    <3> HIDE DEF w, j
    <3> QED
      BY <1>1, Quotient
  <2>2. j = i + w
    OBVIOUS
  <2> HIDE DEF a, b, r, z, j, w
  <2>3. (a + 1) * w = a * w + w /\ a * w \in Int /\ b * w \in Int
    BY <1>1, <2>1, SMT
  <2>4. r + (a + 1) * w = z + b * w
    BY <1>1, <2>1, <2>2, <2>3, SMT
  <2>5. r - z < w /\ z - r < w /\ a + 1 \in Int
    BY <1>1, <2>1, SMT
  <2>6. r = z /\ a + 1 = b
    BY <1>1, <2>1, <2>4, <2>5, Digits
  <2> QED
    BY <2>6 DEF a, b, r, z
<1> HIDE DEF j
<1>3. Work(t, j) = Work(t, i)
  BY <1>2 DEF Work
<1> DEFINE s == Work(t, i)
           n == virtNets[s[1]].size
           d == i \div w
<1>4. d \in Int /\ n \in Int /\ s[2] \in Int
  <2>1. s \in DOMAIN slots /\ d \in Nat
    BY NameForFacts
  <2> QED
    BY <2>1, SlotIndex
<1>5. NameFor(t, j)[2] = s[2] + (d + 1) * n
  <2>1. NameFor(t, j) = <<s[1], s[2] + (j \div w) * n>>
    BY <1>3 DEF NameFor
  <2> QED
    BY <1>2, <2>1
<1>6. NameFor(t, i)[2] = s[2] + d * n
  BY DEF NameFor
<1> HIDE DEF s, n, d
<1>7. s[2] + (d + 1) * n = (s[2] + d * n) + n
  BY <1>4, SMT
<1>8. NameFor(t, j)[2] = NameFor(t, i)[2] + n
  BY <1>5, <1>6, <1>7
<1> QED
  BY <1>1, <1>3, <1>8 DEF s, n, j

\* The slot of a name, as attachments are annotated with it.
LEMMA SlotOfNameFor ==
    ASSUME SetupFacts, NEW t \in DOMAIN thread, NEW i \in Nat
    PROVE  SlotOfName(NameFor(t, i)) = Work(t, i)
<1> DEFINE name == NameFor(t, i)
           s == Work(t, i)
           n == virtNets[s[1]].size
           d == i \div WorkLen(t)
           P(u) == u[1] = name[1] /\ (u[2] - name[2]) % virtNets[u[1]].size = 0
<1>1. /\ s \in DOMAIN slots /\ d \in Nat /\ name = <<s[1], s[2] + d * n>>
      /\ name[1] = s[1]
  BY NameForFacts
<1>2. name[2] = s[2] + d * n
  BY DEF NameFor
<1>3. s[1] \in Int /\ n \in Nat \ {0} /\ s[2] \in 1 .. n
  BY <1>1 DEF SetupFacts
<1> HIDE DEF name, s, d
<1>4. ASSUME NEW u \in DOMAIN slots, P(u) PROVE u = s
  <2>1. u[1] = s[1] /\ (u[2] - name[2]) % n = 0
    BY <1>1, <1>4
  <2>2. u[2] \in 1 .. n
    BY <2>1 DEF SetupFacts
  <2> HIDE DEF n
  <2>3. u[2] - name[2] \in Int
    BY <1>1, <1>2, <1>3, <2>2, SMT
  <2>4. PICK q \in Int : u[2] - name[2] = q * n
    BY <1>3, <2>1, <2>3, MultipleOf
  <2>5. d * n \in Int /\ q * n \in Int /\ (d + q) * n = d * n + q * n
    BY <1>1, <1>3, SMT
  <2>6. u[2] + 0 * n = s[2] + (d + q) * n
    BY <1>2, <1>3, <2>2, <2>4, <2>5, SMT
  <2>7. u[2] - s[2] < n /\ s[2] - u[2] < n
    BY <1>3, <2>2, SMT
  <2>8. u[2] = s[2]
    BY <1>1, <1>3, <2>2, <2>6, <2>7, Digits
  <2>9. u = <<u[1], u[2]>> /\ s = <<s[1], s[2]>>
    BY <1>1 DEF SetupFacts
  <2> QED
    BY <2>1, <2>8, <2>9
<1>5. P(s)
  <2> HIDE DEF n
  <2>1. s[2] - name[2] = (0 - d) * n /\ s[2] - name[2] \in Int
    BY <1>1, <1>2, <1>3, SMT
  <2>2. 0 - d \in Int
    BY <1>1, SMT
  <2>3. (s[2] - name[2]) % n = 0
    BY <1>3, <2>1, <2>2, MultipleOf
  <2> QED
    BY <1>1, <2>3 DEF n
<1>6. SlotOfName(name) = CHOOSE u \in DOMAIN slots : P(u)
  BY Zenon DEF SlotOfName
<1> HIDE DEF P
<1>7. SlotOfName(name) = s
  BY <1>1, <1>4, <1>5, <1>6
<1> QED
  BY <1>7 DEF name, s

-----------------------------------------------------------------------------
(* What steps have in common.                                               *)

\* No step changes what Init sets up.
Steady ==
    /\ flags' = flags /\ virtNets' = virtNets /\ vnAttachments' = vnAttachments
    /\ DOMAIN slots' = DOMAIN slots /\ DOMAIN thread' = DOMAIN thread

LEMMA SteadyWork ==
    ASSUME Steady
    PROVE  /\ numThreads' = numThreads
           /\ \A t, i : WorkLen(t)' = WorkLen(t) /\ NumHere(t)' = NumHere(t)
                          /\ Work(t, i)' = Work(t, i) /\ NameFor(t, i)' = NameFor(t, i)
<1>1. numThreads' = numThreads
  BY DEF Steady, numThreads
<1>2. \A t : WorkLen(t)' = WorkLen(t) /\ NumHere(t)' = NumHere(t)
  BY <1>1 DEF Steady, WorkLen, NumHere
<1>3. \A t, i : Work(t, i)' = Work(t, i)
  BY <1>1, <1>2 DEF Steady, Work
<1>4. \A t, i : NameFor(t, i)' = NameFor(t, i)
  BY <1>2, <1>3 DEF Steady, NameFor
<1> QED
  BY <1>1, <1>2, <1>3, <1>4

LEMMA SteadySetup ==
    ASSUME Steady, Setup
    PROVE  Setup' /\ SetupFacts /\ SetupFacts'
<1>1. Setup'
  <2>1. Threads' = Threads
    BY SteadyWork DEF Threads
  <2> QED
    BY <2>1 DEF Steady, Setup
<1>2. SetupFacts
  BY SetupHolds
<1>3. SetupFacts'
  <2>1. (Setup => SetupFacts)'
    BY SetupHolds, PTL
  <2> QED
    BY <1>1, <2>1
<1> QED
  BY <1>1, <1>2, <1>3

\* The step leaves thread u where it is, as far as slots and attachments are
\* concerned.
Idle(u) ==
    /\ thread'[u].iCreate = thread[u].iCreate
    /\ thread'[u].iDelete = thread[u].iDelete
    /\ thread'[u].natt = thread[u].natt
    /\ \/ thread'[u].pc = thread[u].pc
       \/ /\ thread[u].pc \notin Naming \cup Deleting \cup {"done"}
          /\ thread'[u].pc \notin Naming \cup Deleting

\* The step takes back no name that thread u has issued.
Onward(u) ==
    \/ thread'[u].iCreate = thread[u].iCreate + 1
    \/ /\ thread'[u].iCreate = thread[u].iCreate
       /\ thread[u].pc \in {"created", "failed"} => thread'[u].pc \in {"created", "failed"}

LEMMA IdleOnward == \A u : Idle(u) => Onward(u)
BY DEF Idle, Onward, Naming, Deleting

LEMMA IssuedStays ==
    ASSUME Steady, \A u \in DOMAIN thread : thread[u].iCreate \in Nat,
           \A u \in DOMAIN thread : Onward(u),
           NEW name, NEW s, Issued(name, s)
    PROVE  Issued(name, s)'
<1>0. PICK t \in DOMAIN thread : \E i \in 0 .. thread[t].iCreate :
        /\ name = NameFor(t, i) /\ s = Work(t, i)
        /\ i = thread[t].iCreate => thread[t].pc \in {"created", "failed"}
  BY Zenon DEF Issued
<1>1. PICK i \in 0 .. thread[t].iCreate :
        /\ name = NameFor(t, i) /\ s = Work(t, i)
        /\ i = thread[t].iCreate => thread[t].pc \in {"created", "failed"}
  BY <1>0
<1>2. t \in DOMAIN thread' /\ name = NameFor(t, i)' /\ s = Work(t, i)'
  BY <1>1, SteadyWork DEF Steady
<1>3. Onward(t) /\ thread[t].iCreate \in Nat
  OBVIOUS
<1>4. /\ i \in 0 .. thread'[t].iCreate
      /\ i = thread'[t].iCreate => thread'[t].pc \in {"created", "failed"}
  BY <1>1, <1>3 DEF Onward
<1> QED
  BY <1>2, <1>4 DEF Issued

LEMMA SlotAtStays ==
    ASSUME Steady, NEW t \in DOMAIN thread, NEW i, Idle(t), SlotAt(t, i),
           slots'[Work(t, i)] = slots[Work(t, i)]
    PROVE  SlotAt(t, i)'
<1>1. Work(t, i)' = Work(t, i) /\ NameFor(t, i)' = NameFor(t, i)
  BY SteadyWork
<1>2. /\ thread'[t].pc \in Naming <=> thread[t].pc \in Naming
      /\ thread'[t].pc \in Deleting => thread[t].pc \in Deleting
      /\ thread'[t].pc = "create" => thread[t].pc = "create"
  BY DEF Idle, Naming, Deleting
<1> QED
  BY <1>1, <1>2 DEF SlotAt, Idle

LEMMA KeptStays ==
    ASSUME Steady, NEW t \in DOMAIN thread, NEW i, NEW name, Idle(t),
           Kept(name, t, i), Busy' => Busy,
           slots'[Work(t, i)].name = slots[Work(t, i)].name
    PROVE  Kept(name, t, i)'
<1>1. Work(t, i)' = Work(t, i) /\ NameFor(t, i)' = NameFor(t, i)
  BY SteadyWork
<1>2. /\ thread[t].pc = "created" => thread'[t].pc = "created"
      /\ thread[t].pc = "delete" => thread'[t].pc = "delete"
  BY DEF Idle, Naming, Deleting
<1> QED
  BY <1>1, <1>2 DEF Kept, Idle

LEMMA BusyBefore ==
    ASSUME DOMAIN thread' = DOMAIN thread,
           \A u \in DOMAIN thread : thread[u].pc = "done" => thread'[u].pc = "done"
    PROVE  Busy' => Busy
BY DEF Busy

LEMMA IdleDone == \A u : Idle(u) => (thread[u].pc = "done" => thread'[u].pc = "done")
BY DEF Idle

\* A step in which every thread is idle and the store and the names are as they
\* were.
LEMMA IdleStep ==
    ASSUME Steady, Types, \A u \in DOMAIN thread : Idle(u),
           atts' = atts, events' = events, lost' = lost, slots' = slots,
           SlotsInTurn, AllIssued, AllKept
    PROVE  SlotsInTurn' /\ AllIssued' /\ AllKept'
<1>0. \A u \in DOMAIN thread : thread[u].iCreate \in Nat /\ thread[u].iDelete \in Nat
  BY DEF Types, ThreadRec
<1>1. SlotsInTurn'
  <2> SUFFICES ASSUME NEW t \in DOMAIN thread',
                      NEW i \in (thread[t].iDelete .. thread[t].iDelete + WorkLen(t) - 1)'
               PROVE  SlotAt(t, i)'
    BY Zenon DEF SlotsInTurn
  <2>1. t \in DOMAIN thread /\ i \in thread[t].iDelete .. thread[t].iDelete + WorkLen(t) - 1
    BY SteadyWork DEF Steady, Idle
  <2> QED
    BY <2>1, SlotAtStays DEF SlotsInTurn
<1>2. \A u \in DOMAIN thread : Onward(u)
  BY IdleOnward
<1>3. AllIssued'
  <2>1. ASSUME NEW name \in DOMAIN atts' PROVE \E s \in DOMAIN slots' : Issued(name, s)'
    BY <1>0, <1>2, IssuedStays DEF AllIssued, Steady
  <2>2. ASSUME NEW n \in DOMAIN events'
        PROVE  Issued(events[n].natt.name, events[n].slot)'
    <3>1. Issued(events[n].natt.name, events[n].slot)
      BY DEF AllIssued
    <3> DEFINE name == events[n].natt.name
               s == events[n].slot
    <3>2. name' = name /\ s' = s
      OBVIOUS
    <3> QED
      BY <1>0, <1>2, <3>1, IssuedStays DEF Issued
  <2> QED
    BY <2>1, <2>2 DEF AllIssued
<1>4. Busy' => Busy
  BY IdleDone, BusyBefore DEF Steady
<1>5. AllKept'
  <2> SUFFICES ASSUME NEW name \in DOMAIN atts \ lost
               PROVE  \E t \in DOMAIN thread' : \E i \in 0 .. thread'[t].iCreate :
                         Kept(name, t, i)'
    BY DEF AllKept
  <2>1. PICK t \in DOMAIN thread : \E i \in 0 .. thread[t].iCreate : Kept(name, t, i)
    BY DEF AllKept
  <2>2. PICK i \in 0 .. thread[t].iCreate : Kept(name, t, i)
    BY <2>1
  <2>3. Kept(name, t, i)' /\ t \in DOMAIN thread' /\ i \in 0 .. thread'[t].iCreate
    BY <1>4, <2>2, KeptStays DEF Steady, Idle
  <2> QED
    BY <2>3
<1> QED
  BY <1>1, <1>3, <1>5

-----------------------------------------------------------------------------
(* Steps that change neither slots nor attachments.                         *)

LEMMA QuietStep ==
    ASSUME IInv, Steady, slots' = slots, cds' = cds, addrs' = addrs, warned' = warned,
           atts' = atts, events' = events, lost' = lost,
           \A u \in DOMAIN thread : Idle(u),
           thread' \in [DOMAIN thread -> ThreadRec], stopped' \in BOOLEAN,
           Counts', MainOK', Phases'
    PROVE  IInv'
<1>1. Setup'
  BY SteadySetup DEF IInv
<1>2. Types'
  BY DEF IInv, Types, Steady
<1>3. CDsOK'
  BY DEF IInv, CDsOK, Steady
<1>4. SlotsInTurn' /\ AllIssued' /\ AllKept'
  BY IdleStep DEF IInv
<1>5. OwnNames' /\ PendingCovers' /\ Owners' /\ DuplicatesNoticed' /\ Truth'
  BY DEF IInv, OwnNames, OwnName, PendingCovers, Owners, DuplicatesNoticed, Truth,
         SlotsTellTruth, Steady
<1> QED
  BY <1>1, <1>2, <1>3, <1>4, <1>5 DEF IInv

\* The steps of main and the signal touch no thread.
LEMMA MainStep ==
    ASSUME IInv, UNCHANGED <<flags, virtNets, vnAttachments, bookVars, thread, apiVars, lost>>,
           stopped' \in BOOLEAN, stopped => stopped', MainOK', Phases'
    PROVE  IInv'
<1>1. Steady
  BY DEF Steady, bookVars
<1>2. Counts'
  BY <1>1, SteadyWork DEF IInv, Counts, CountsAt
<1>3. \A u \in DOMAIN thread : Idle(u)
  BY DEF Idle
<1>4. thread' \in [DOMAIN thread -> ThreadRec]
  BY DEF IInv, Types
<1> QED
  BY <1>1, <1>2, <1>3, <1>4, QuietStep DEF bookVars, apiVars

LEMMA CreateNamespaceStep ==
    ASSUME IInv, createNamespace
    PROVE  IInv'
<1>1. UNCHANGED <<flags, virtNets, vnAttachments, bookVars, thread, apiVars, lost>>
  BY DEF createNamespace, setupVars
<1>2. stopped' = stopped /\ stopped \in BOOLEAN
  BY DEF createNamespace, IInv, Types
<1>3. MainOK'
  BY DEF createNamespace, Exit, setupVars, IInv, MainOK
<1>4. DOMAIN atts = {} /\ DOMAIN atts' = {}
  BY DEF createNamespace, apiVars, IInv, Phases
<1>5. Phases'
  BY <1>4 DEF Phases
<1> QED
  BY <1>1, <1>2, <1>3, <1>5, MainStep

LEMMA CreateSubnetStep ==
    ASSUME IInv, NEW n \in SubnetsOf(virtNets), createSubnet(n)
    PROVE  IInv'
<1>1. UNCHANGED <<flags, virtNets, vnAttachments, bookVars, thread, apiVars, lost>>
  BY DEF createSubnet
<1>2. stopped' = stopped /\ stopped \in BOOLEAN
  BY DEF createSubnet, IInv, Types
<1>3. MainOK'
  BY DEF createSubnet, Exit, IInv, MainOK
<1>4. DOMAIN atts = {} /\ DOMAIN atts' = {}
  BY DEF createSubnet, apiVars, IInv, Phases
<1>5. Phases'
  BY <1>4 DEF Phases
<1> QED
  BY <1>1, <1>2, <1>3, <1>5, MainStep

LEMMA ListNodesStep ==
    ASSUME IInv, listNodes
    PROVE  IInv'
<1>1. UNCHANGED <<flags, virtNets, vnAttachments, bookVars, thread, apiVars, lost>>
  BY DEF listNodes, setupVars
<1>2. stopped' = stopped /\ stopped \in BOOLEAN
  BY DEF listNodes, IInv, Types
<1>3. MainOK'
  BY DEF listNodes, Exit, setupVars, IInv, MainOK
<1>4. DOMAIN atts = {} /\ DOMAIN atts' = {}
  BY DEF listNodes, apiVars, IInv, Phases
<1>5. Phases'
  BY <1>4 DEF Phases
<1> QED
  BY <1>1, <1>2, <1>3, <1>5, MainStep

LEMMA SubnetEventStep ==
    ASSUME IInv, NEW n \in subnets, OnSubnetEvent(n)
    PROVE  IInv'
<1>1. UNCHANGED <<flags, virtNets, vnAttachments, bookVars, thread, apiVars, lost>>
  BY DEF OnSubnetEvent
<1>2. stopped' = stopped /\ stopped \in BOOLEAN
  BY DEF OnSubnetEvent, IInv, Types
<1>3. MainOK'
  BY DEF OnSubnetEvent, IInv, MainOK
<1>4. DOMAIN atts = {} /\ DOMAIN atts' = {}
  BY DEF OnSubnetEvent, apiVars, IInv, Phases
<1>5. Phases'
  BY <1>4 DEF Phases
<1> QED
  BY <1>1, <1>2, <1>3, <1>5, MainStep

LEMMA WaitStep ==
    ASSUME IInv, waitForInitializedSubnets
    PROVE  IInv'
<1>1. UNCHANGED <<flags, virtNets, vnAttachments, bookVars, thread, apiVars, lost>>
  BY DEF waitForInitializedSubnets, setupVars
<1>2. stopped' = stopped /\ stopped \in BOOLEAN
  BY DEF waitForInitializedSubnets, IInv, Types
<1>3. MainOK'
  BY DEF waitForInitializedSubnets, setupVars, IInv, MainOK
<1>4. Phases'
  BY DEF waitForInitializedSubnets, Phases
<1> QED
  BY <1>1, <1>2, <1>3, <1>4, MainStep

LEMMA SignalStep ==
    ASSUME IInv, Signal
    PROVE  IInv'
<1>1. UNCHANGED <<flags, virtNets, vnAttachments, bookVars, thread, apiVars, lost>>
  BY DEF Signal, setupVars
<1>2. stopped' = TRUE
  BY DEF Signal
<1>3. MainOK'
  BY DEF Signal, setupVars, IInv, MainOK
<1>4. Phases'
  BY DEF Signal, apiVars, IInv, Phases
<1> QED
  BY <1>1, <1>2, <1>3, <1>4, MainStep

\* When all threads have done all their work, no attachment is kept.
LEMMA NoneLeft ==
    ASSUME IInv, \A t \in DOMAIN thread : thread[t].pc = "done",
           \A t \in DOMAIN thread : ~thread[t].early
    PROVE  DOMAIN atts \subseteq lost
<1> SUFFICES ASSUME NEW name \in DOMAIN atts \ lost PROVE FALSE
  OBVIOUS
<1>1. PICK t \in DOMAIN thread : \E i \in 0 .. thread[t].iCreate : Kept(name, t, i)
  BY DEF IInv, AllKept
<1>2. PICK i \in 0 .. thread[t].iCreate : Kept(name, t, i)
  BY <1>1
<1>3. thread[t].iCreate \in Nat /\ thread[t].iDelete \in Nat
  BY DEF IInv, Types, ThreadRec
<1>4. thread[t].iDelete <= i /\ i # thread[t].iCreate
  BY <1>2 DEF Kept
<1>5. /\ thread[t].iDelete <= NumHere(t) /\ thread[t].iCreate <= NumHere(t)
      /\ thread[t].iDelete >= NumHere(t)
  BY DEF IInv, Counts, CountsAt
<1>6. NumHere(t) = thread[t].iDelete
  <2>1. SetupFacts
    BY SetupHolds DEF IInv
  <2>2. flags.num_attachments \in Nat /\ numThreads \in Nat \ {0} /\ t \in Nat
    BY <2>1, ThreadIndex DEF SetupFacts
  <2>3. NumHere(t) \in Int
    BY <2>2, SMT DEF NumHere
  <2> QED
    BY <1>3, <1>5, <2>3
<1> QED
  BY <1>3, <1>4, <1>5, <1>6

LEMMA EndOfMainStep ==
    ASSUME IInv, EndOfMain
    PROVE  IInv'
<1>1. UNCHANGED <<flags, virtNets, vnAttachments, bookVars, thread, apiVars, lost>>
  BY DEF EndOfMain, setupVars
<1>2. stopped' = stopped /\ stopped \in BOOLEAN
  BY DEF EndOfMain, IInv, Types
<1>3. MainOK'
  BY DEF EndOfMain, setupVars, IInv, MainOK
<1>4. Phases'
  <2>1. (\A t \in DOMAIN thread : ~thread[t].early) => DOMAIN atts \subseteq lost
    BY NoneLeft DEF EndOfMain
  <2> QED
    BY <1>1, <2>1 DEF EndOfMain, apiVars, Phases
<1> QED
  BY <1>1, <1>2, <1>3, <1>4, MainStep

-----------------------------------------------------------------------------
(* A thread ends, waits or goes on.                                         *)

\* A broadcast only wakes threads.
Woken(th, new) ==
    \/ new = th
    \/ th.pc = "asleep" /\ new = [th EXCEPT !.pc = "awake"]

LEMMA BroadcastWakes ==
    ASSUME NEW f, NEW i
    PROVE  /\ DOMAIN Broadcast(f, i) = DOMAIN f
           /\ \A u \in DOMAIN f : Woken(f[u], Broadcast(f, i)[u])
BY DEF Broadcast, Woken

LEMMA WokenFields ==
    ASSUME NEW th \in ThreadRec, NEW new, Woken(th, new)
    PROVE  /\ new \in ThreadRec
           /\ new.iCreate = th.iCreate /\ new.iDelete = th.iDelete /\ new.natt = th.natt
           /\ new.createAllowed = th.createAllowed /\ new.early = th.early
           /\ new.timer = th.timer
           /\ new.pc = th.pc \/ (th.pc = "asleep" /\ new.pc = "awake")
BY DEF Woken, ThreadRec, Creating

\* The step changes thread t to th, and wakes others at most.
Becomes(t, th) ==
    /\ thread'[t] = th
    /\ thread' \in [DOMAIN thread -> ThreadRec]
    /\ \A u \in DOMAIN thread : u # t => Woken(thread[u], thread'[u])

LEMMA OthersIdle ==
    ASSUME Types, NEW t \in DOMAIN thread, NEW th, Becomes(t, th),
           NEW u \in DOMAIN thread, u # t
    PROVE  Idle(u)
<1>1. thread[u] \in ThreadRec /\ Woken(thread[u], thread'[u])
  BY DEF Types, Becomes
<1> QED
  BY <1>1, WokenFields DEF Idle, Naming, Deleting

LEMMA OthersCount ==
    ASSUME Types, Steady, stopped' = stopped, NEW t \in DOMAIN thread, NEW th, Becomes(t, th),
           NEW u \in DOMAIN thread, u # t, CountsAt(u)
    PROVE  CountsAt(u)'
<1>1. thread[u] \in ThreadRec /\ Woken(thread[u], thread'[u])
  BY DEF Types, Becomes
<1>2. WorkLen(u)' = WorkLen(u) /\ NumHere(u)' = NumHere(u)
  BY SteadyWork
<1> QED
  BY <1>1, <1>2, WokenFields DEF CountsAt, Creating, Naming, Deleting

\* A step of a thread that changes neither slots nor attachments.
LEMMA ThreadStep ==
    ASSUME IInv, NEW t \in DOMAIN thread, NEW th, Becomes(t, th), phase = "drive",
           UNCHANGED <<setupVars, bookVars, stopped, phase, apiVars, lost>>,
           Idle(t), CountsAt(t)'
    PROVE  IInv'
<1>1. Steady
  BY DEF Steady, setupVars, bookVars, Becomes
<1>2. Counts'
  <2>1. ASSUME NEW u \in DOMAIN thread PROVE CountsAt(u)'
    <3>1. CASE u = t
      BY <3>1
    <3>2. CASE u # t
      BY <1>1, <3>2, OthersCount DEF IInv, Counts
    <3> QED
      BY <3>1, <3>2
  <2> QED
    BY <1>1, <2>1 DEF Counts, Steady
<1>3. \A u \in DOMAIN thread : Idle(u)
  BY OthersIdle DEF IInv
<1>4. MainOK' /\ Phases'
  BY DEF IInv, MainOK, Phases, setupVars
<1>5. thread' \in [DOMAIN thread -> ThreadRec] /\ stopped' \in BOOLEAN
  BY DEF Becomes, IInv, Types
<1> QED
  BY <1>1, <1>2, <1>3, <1>4, <1>5, QuietStep DEF bookVars, apiVars

LEMMA ThreadTyped ==
    ASSUME IInv, NEW t \in DOMAIN thread
    PROVE  /\ thread \in [DOMAIN thread -> ThreadRec] /\ thread[t] \in ThreadRec
           /\ thread[t].iCreate \in Nat /\ thread[t].iDelete \in Nat
           /\ NumHere(t) \in Int /\ WorkLen(t) \in Nat \ {0}
           /\ t \in Nat /\ CountsAt(t)
           /\ SetupFacts
<1>1. SetupFacts
  BY SetupHolds DEF IInv
<1>2. flags.num_attachments \in Nat /\ numThreads \in Nat \ {0} /\ t \in Nat
      /\ WorkLen(t) \in Nat \ {0}
  BY <1>1, ThreadIndex DEF SetupFacts
<1>3. NumHere(t) \in Int
  BY <1>2, SMT DEF NumHere
<1>4. /\ thread \in [DOMAIN thread -> ThreadRec] /\ thread[t] \in ThreadRec
      /\ thread[t].iCreate \in Nat /\ thread[t].iDelete \in Nat
  BY DEF IInv, Types, ThreadRec
<1>5. CountsAt(t)
  BY DEF IInv, Counts
<1> QED
  BY <1>1, <1>2, <1>3, <1>4, <1>5

\* The step changes one thread and nothing else of the threads.
LEMMA OneBecomes ==
    ASSUME IInv, NEW t \in DOMAIN thread, NEW th \in ThreadRec,
           thread' = [thread EXCEPT ![t] = th]
    PROVE  Becomes(t, th)
BY DEF Becomes, Woken, IInv, Types

LEMMA EndThreadStep ==
    ASSUME IInv, NEW t \in DOMAIN thread, EndThread(t)
    PROVE  IInv'
<1> DEFINE early == thread[t].iDelete < NumHere(t)
           th == [thread[t] EXCEPT !.pc = "done", !.early = early]
<1>1. /\ thread[t] \in ThreadRec /\ thread \in [DOMAIN thread -> ThreadRec]
      /\ thread[t].iCreate \in Nat /\ thread[t].iDelete \in Nat
      /\ NumHere(t) \in Int /\ CountsAt(t)
  BY ThreadTyped
<1>2. /\ th \in ThreadRec /\ th.pc = "done"
      /\ th.iCreate = thread[t].iCreate /\ th.iDelete = thread[t].iDelete
      /\ th.natt = thread[t].natt /\ th.early = early
      /\ th.createAllowed = thread[t].createAllowed
  <2>1. early \in BOOLEAN
    BY <1>1
  <2> HIDE DEF early
  <2> QED
    BY <1>1, <2>1 DEF ThreadRec
<1>3. thread' = [thread EXCEPT ![t] = th]
  BY <1>1 DEF EndThread
<1>4. /\ UNCHANGED <<setupVars, bookVars, stopped, phase, apiVars, lost>>
      /\ phase = "drive" /\ thread[t].pc = "loop"
  BY DEF EndThread, At
<1> HIDE DEF th
<1>5. thread'[t] = th
  BY <1>1, <1>3
<1>6. Becomes(t, th)
  BY <1>2, <1>3, OneBecomes
<1>7. Idle(t)
  BY <1>2, <1>4, <1>5 DEF Idle, Naming, Deleting
<1>8. CountsAt(t)'
  <2>1. Steady
    BY <1>4, <1>6 DEF Steady, setupVars, bookVars, Becomes
  <2>2. WorkLen(t)' = WorkLen(t) /\ NumHere(t)' = NumHere(t) /\ stopped' = stopped
    BY <1>4, <2>1, SteadyWork
  <2>3. ~th.early => th.iDelete >= NumHere(t)
    <3>1. th.early = early
      BY <1>2
    <3>2. ~early => thread[t].iDelete >= NumHere(t)
      BY <1>1
    <3>3. ~th.early => ~early
      BY <3>1, Zenon
    <3> QED
      BY <1>2, <3>2, <3>3, Zenon
  <2> HIDE DEF early
  <2> QED
    BY <1>1, <1>2, <1>5, <2>2, <2>3 DEF CountsAt, Creating, Naming, Deleting
<1> QED
  BY <1>4, <1>6, <1>7, <1>8, ThreadStep

\* The thread gets ready to create or waits.
LEMMA WaitingStep ==
    ASSUME IInv, NEW t \in DOMAIN thread, NEW th \in ThreadRec, Becomes(t, th),
           phase = "drive",
           UNCHANGED <<setupVars, bookVars, stopped, phase, apiVars, lost>>,
           th.pc \in {"name", "asleep", "awake"},
           th.iCreate = thread[t].iCreate, th.iDelete = thread[t].iDelete,
           th.natt = thread[t].natt, th.createAllowed = thread[t].createAllowed,
           \/ thread[t].pc \in {"asleep", "awake"}
           \/ thread[t].pc = "loop" /\ MayCreate(t)
    PROVE  IInv'
<1>1. /\ thread[t].iCreate \in Nat /\ thread[t].iDelete \in Nat
      /\ NumHere(t) \in Int /\ WorkLen(t) \in Nat /\ CountsAt(t)
  BY ThreadTyped
<1>2. thread'[t] = th
  BY DEF Becomes
<1>3. Idle(t)
  BY <1>2 DEF Idle, Naming, Deleting
<1>4. Steady
  BY DEF Steady, setupVars, bookVars, Becomes
<1>5. WorkLen(t)' = WorkLen(t) /\ NumHere(t)' = NumHere(t) /\ stopped' = stopped
  BY <1>4, SteadyWork
<1>6. /\ thread[t].iCreate < NumHere(t) /\ thread[t].iDelete <= thread[t].iCreate
      /\ thread[t].iCreate < thread[t].iDelete + WorkLen(t)
  BY <1>1 DEF CountsAt, MayCreate, Creating
<1>7. CountsAt(t)'
  BY <1>1, <1>2, <1>5, <1>6 DEF CountsAt, Creating, Naming, Deleting
<1> QED
  BY <1>3, <1>7, ThreadStep

LEMMA GetReadyStep ==
    ASSUME IInv, NEW t \in DOMAIN thread, GetReadyAttachment(t)
    PROVE  IInv'
<1>1. thread[t] \in ThreadRec /\ thread \in [DOMAIN thread -> ThreadRec]
  BY ThreadTyped
<1>2. /\ UNCHANGED <<setupVars, bookVars, stopped, phase, apiVars, lost>>
      /\ phase = "drive" /\ thread[t].pc = "loop" /\ MayCreate(t)
  BY DEF GetReadyAttachment, Going, At
<1>3. PICK pc \in {"name", "asleep"}, timer \in {"set", "off"} :
         thread' = [thread EXCEPT ![t] = [thread[t] EXCEPT !.pc = pc, !.timer = timer]]
  <2>1. CASE thread' = Step(t, "name")
    <3>1. thread' = [thread EXCEPT ![t] = [thread[t] EXCEPT !.pc = "name",
                                                            !.timer = thread[t].timer]]
      BY <1>1, <2>1 DEF Step, ThreadRec
    <3>2. thread[t].timer \in {"set", "off"}
      BY <1>1 DEF ThreadRec
    <3> QED
      BY <3>1, <3>2, Zenon
  <2>2. CASE FallAsleep(t)
    <3>1. PICK timer \in {"set", "off"} :
            thread' = [thread EXCEPT ![t].pc = "asleep", ![t].timer = timer]
      BY <2>2 DEF FallAsleep
    <3>2. thread' = [thread EXCEPT ![t] = [thread[t] EXCEPT !.pc = "asleep", !.timer = timer]]
      BY <1>1, <3>1
    <3> QED
      BY <3>2, Zenon
  <2> QED
    BY <2>1, <2>2 DEF GetReadyAttachment
<1> DEFINE th == [thread[t] EXCEPT !.pc = pc, !.timer = timer]
<1>4. /\ th \in ThreadRec /\ th.pc = pc
      /\ th.iCreate = thread[t].iCreate /\ th.iDelete = thread[t].iDelete
      /\ th.natt = thread[t].natt /\ th.createAllowed = thread[t].createAllowed
  BY <1>1 DEF ThreadRec, Creating
<1> HIDE DEF th
<1>5. Becomes(t, th)
  BY <1>3, <1>4, OneBecomes DEF th
<1> QED
  BY <1>2, <1>4, <1>5, WaitingStep

\* The timer wakes the thread itself too.
LEMMA TimerGoesOffStep ==
    ASSUME IInv, NEW t \in DOMAIN thread, TimerGoesOff(t)
    PROVE  IInv'
<1> DEFINE woken == Broadcast(thread, Work(t, thread[t].iCreate)[1])
           th == [woken[t] EXCEPT !.timer = "off"]
<1>1. thread[t] \in ThreadRec /\ thread \in [DOMAIN thread -> ThreadRec]
  BY ThreadTyped
<1>2. /\ UNCHANGED <<setupVars, bookVars, stopped, phase, apiVars, lost>>
      /\ phase = "drive" /\ thread[t].pc = "asleep"
      /\ thread' = [woken EXCEPT ![t].timer = "off"]
  BY DEF TimerGoesOff, At
<1>3. /\ DOMAIN woken = DOMAIN thread
      /\ \A u \in DOMAIN thread : Woken(thread[u], woken[u])
  BY BroadcastWakes
<1>4. woken = [u \in DOMAIN woken |-> woken[u]]
  BY DEF Broadcast
<1> HIDE DEF woken
<1>5. /\ \A u \in DOMAIN thread : woken[u] \in ThreadRec
      /\ woken[t].iCreate = thread[t].iCreate /\ woken[t].iDelete = thread[t].iDelete
      /\ woken[t].natt = thread[t].natt /\ woken[t].createAllowed = thread[t].createAllowed
      /\ woken[t].pc \in {"asleep", "awake"}
  BY <1>1, <1>2, <1>3, WokenFields
<1>6. /\ th \in ThreadRec /\ th.pc = woken[t].pc
      /\ th.iCreate = thread[t].iCreate /\ th.iDelete = thread[t].iDelete
      /\ th.natt = thread[t].natt /\ th.createAllowed = thread[t].createAllowed
  BY <1>5 DEF ThreadRec
<1>7. thread' = [woken EXCEPT ![t] = th]
  BY <1>2
<1> HIDE DEF th
<1>8. /\ DOMAIN thread' = DOMAIN thread /\ thread'[t] = th
      /\ \A u \in DOMAIN thread : u # t => thread'[u] = woken[u]
  BY <1>3, <1>7
<1>9. thread' \in [DOMAIN thread -> ThreadRec]
  BY <1>3, <1>4, <1>5, <1>6, <1>7
<1>10. Becomes(t, th)
  BY <1>3, <1>8, <1>9 DEF Becomes
<1> QED
  BY <1>2, <1>5, <1>6, <1>10, WaitingStep

LEMMA LookAgainStep ==
    ASSUME IInv, NEW t \in DOMAIN thread, LookAgain(t)
    PROVE  IInv'
<1>1. thread[t] \in ThreadRec /\ thread \in [DOMAIN thread -> ThreadRec]
  BY ThreadTyped
<1>2. /\ UNCHANGED <<setupVars, bookVars, stopped, phase, apiVars, lost>>
      /\ phase = "drive" /\ thread[t].pc = "awake"
  BY DEF LookAgain, At
<1>3. PICK pc \in {"name", "asleep"}, timer \in {"set", "off"} :
         thread' = [thread EXCEPT ![t] = [thread[t] EXCEPT !.pc = pc, !.timer = timer]]
  <2>1. CASE thread' = [thread EXCEPT ![t].pc = "name", ![t].timer = "off"]
    <3>1. thread' = [thread EXCEPT ![t] = [thread[t] EXCEPT !.pc = "name", !.timer = "off"]]
      BY <1>1, <2>1
    <3> QED
      BY <3>1, Zenon
  <2>2. CASE FallAsleep(t)
    <3>1. PICK timer \in {"set", "off"} :
            thread' = [thread EXCEPT ![t].pc = "asleep", ![t].timer = timer]
      BY <2>2 DEF FallAsleep
    <3>2. thread' = [thread EXCEPT ![t] = [thread[t] EXCEPT !.pc = "asleep", !.timer = timer]]
      BY <1>1, <3>1
    <3> QED
      BY <3>2, Zenon
  <2> QED
    BY <2>1, <2>2 DEF LookAgain
<1> DEFINE th == [thread[t] EXCEPT !.pc = pc, !.timer = timer]
<1>4. /\ th \in ThreadRec /\ th.pc = pc
      /\ th.iCreate = thread[t].iCreate /\ th.iDelete = thread[t].iDelete
      /\ th.natt = thread[t].natt /\ th.createAllowed = thread[t].createAllowed
  BY <1>1 DEF ThreadRec, Creating
<1> HIDE DEF th
<1>5. Becomes(t, th)
  BY <1>3, <1>4, OneBecomes DEF th
<1> QED
  BY <1>2, <1>4, <1>5, WaitingStep

-----------------------------------------------------------------------------
(* Steps that change a slot.                                                *)

LEMMA OthersSlots ==
    ASSUME SetupFacts, NEW t \in DOMAIN thread, NEW u \in DOMAIN thread, u # t,
           NEW k \in Nat, NEW i \in Nat
    PROVE  Work(u, i) # Work(t, k)
BY WorkOnce

LEMMA OwnSlots ==
    ASSUME SetupFacts, NEW t \in DOMAIN thread, NEW d \in Nat,
           NEW i \in d .. d + WorkLen(t) - 1, NEW k \in d .. d + WorkLen(t) - 1, i # k
    PROVE  Work(t, i) # Work(t, k)
<1>1. i \in Nat /\ k \in Nat
  BY ThreadIndex
<1>2. i % WorkLen(t) # k % WorkLen(t)
  BY SlotInTurn
<1> QED
  BY <1>1, <1>2, WorkOnce

\* Slots other than s stay.
OnlySlot(s) ==
    /\ DOMAIN slots' = DOMAIN slots
    /\ \A u \in DOMAIN slots : u # s => slots'[u] = slots[u]

\* A step of thread t that changes the slot of its k-th attachment at most: what
\* concerns the threads and main.
LEMMA SlotStep ==
    ASSUME IInv, NEW t \in DOMAIN thread, NEW th, Becomes(t, th), phase = "drive",
           UNCHANGED <<setupVars, stopped, phase>>, NEW k \in Nat, OnlySlot(Work(t, k)),
           CountsAt(t)',
           \A i \in (thread[t].iDelete .. thread[t].iDelete + WorkLen(t) - 1)' : SlotAt(t, i)'
    PROVE  /\ Steady /\ Setup' /\ SetupFacts' /\ MainOK' /\ Phases'
           /\ Counts' /\ SlotsInTurn'
<1>1. Steady
  BY DEF Steady, setupVars, Becomes, OnlySlot
<1>2. Setup' /\ SetupFacts /\ SetupFacts'
  BY <1>1, SteadySetup DEF IInv
<1>3. MainOK' /\ Phases'
  BY DEF IInv, MainOK, Phases, setupVars
<1>4. Counts'
  <2>1. ASSUME NEW u \in DOMAIN thread PROVE CountsAt(u)'
    <3>1. CASE u = t
      BY <3>1
    <3>2. CASE u # t
      BY <1>1, <3>2, OthersCount DEF IInv, Counts
    <3> QED
      BY <3>1, <3>2
  <2> QED
    BY <1>1, <2>1 DEF Counts, Steady
<1>5. SlotsInTurn'
  <2> SUFFICES ASSUME NEW u \in DOMAIN thread',
                      NEW i \in (thread[u].iDelete .. thread[u].iDelete + WorkLen(u) - 1)'
               PROVE  SlotAt(u, i)'
    BY Zenon DEF SlotsInTurn
  <2>1. CASE u = t
    BY <2>1
  <2>2. CASE u # t
    <3>1. u \in DOMAIN thread
      BY <1>1 DEF Steady
    <3>2. Idle(u) /\ thread[u].iDelete \in Nat /\ WorkLen(u) \in Nat
      BY <2>2, <3>1, OthersIdle, ThreadTyped DEF IInv
    <3>3. i \in thread[u].iDelete .. thread[u].iDelete + WorkLen(u) - 1
      BY <1>1, <3>2, SteadyWork DEF Idle
    <3>4. i \in Nat
      BY <3>2, <3>3
    <3>5. SlotAt(u, i)
      BY <3>1, <3>3 DEF IInv, SlotsInTurn
    <3>6. Work(u, i) # Work(t, k) /\ Work(u, i) \in DOMAIN slots
      BY <1>2, <2>2, <3>1, <3>4, OthersSlots, NameForFacts
    <3>7. slots'[Work(u, i)] = slots[Work(u, i)]
      BY <3>6 DEF OnlySlot
    <3> QED
      BY <1>1, <3>1, <3>2, <3>5, <3>7, SlotAtStays
  <2> QED
    BY <2>1, <2>2
<1> QED
  BY <1>1, <1>2, <1>3, <1>4, <1>5

LEMMA KeptElsewhere ==
    ASSUME IInv, NEW t \in DOMAIN thread, NEW th, Becomes(t, th), Steady,
           thread[t].pc # "done", NEW k \in Nat, OnlySlot(Work(t, k)),
           NEW u \in DOMAIN thread, u # t, NEW i \in 0 .. thread[u].iCreate,
           NEW name, Kept(name, u, i)
    PROVE  u \in DOMAIN thread' /\ i \in 0 .. thread'[u].iCreate /\ Kept(name, u, i)'
<1>1. Busy
  BY DEF Busy
<1>2. Idle(u) /\ thread[u].iCreate \in Nat /\ SetupFacts
  BY OthersIdle, ThreadTyped DEF IInv
<1>3. i \in Nat
  BY <1>2
<1>4. Work(u, i) # Work(t, k) /\ Work(u, i) \in DOMAIN slots
  BY <1>2, <1>3, OthersSlots, NameForFacts
<1>5. Kept(name, u, i)'
  BY <1>1, <1>2, <1>4, KeptStays DEF OnlySlot
<1> QED
  BY <1>2, <1>5 DEF Idle, Steady

\* A step that asks for no new attachment, or for one that is issued.
LEMMA IssuedStep ==
    ASSUME Steady, \A u \in DOMAIN thread : thread[u].iCreate \in Nat,
           \A u \in DOMAIN thread : Onward(u), AllIssued,
           \A name \in DOMAIN atts' :
              name \in DOMAIN atts \/ \E s \in DOMAIN slots' : Issued(name, s)',
           \A n \in DOMAIN events' :
              \/ \E m \in DOMAIN events : events'[n] = events[m]
              \/ Issued(events[n].natt.name, events[n].slot)'
    PROVE  AllIssued'
<1>1. ASSUME NEW name \in DOMAIN atts' PROVE \E s \in DOMAIN slots' : Issued(name, s)'
  <2>1. CASE name \in DOMAIN atts
    BY <2>1, IssuedStays DEF AllIssued, Steady
  <2> QED
    BY <2>1
<1>2. ASSUME NEW n \in DOMAIN events' PROVE Issued(events[n].natt.name, events[n].slot)'
  <2>1. ASSUME NEW m \in DOMAIN events, events'[n] = events[m]
        PROVE  Issued(events[n].natt.name, events[n].slot)'
    <3> DEFINE name == events[m].natt.name
               s == events[m].slot
    <3>1. Issued(name, s)
      BY DEF AllIssued
    <3>2. events'[n].natt.name = name /\ events'[n].slot = s
      BY <2>1
    <3> HIDE DEF name, s
    <3>3. ASSUME NEW a, NEW b, Issued(a, b) PROVE Issued(a, b)'
      BY <3>3, IssuedStays
    <3> QED
      BY <3>1, <3>2, <3>3 DEF Issued
  <2> QED
    BY <2>1
<1> QED
  BY <1>1, <1>2 DEF AllIssued

\* No two slots have one name.
LEMMA SlotNames ==
    ASSUME SetupFacts, OwnNames, NEW s \in DOMAIN slots, NEW u \in DOMAIN slots,
           slots[s].name = slots[u].name, slots[s].name # NoName
    PROVE  s = u
<1>1. PICK p \in Nat : slots[s].name = <<s[1], s[2] + p * virtNets[s[1]].size>>
  BY DEF OwnNames, OwnName
<1>2. PICK q \in Nat : slots[u].name = <<u[1], u[2] + q * virtNets[u[1]].size>>
  BY DEF OwnNames, OwnName
<1>3. <<s[1], s[2] + p * virtNets[s[1]].size>> = <<u[1], u[2] + q * virtNets[u[1]].size>>
  BY <1>1, <1>2, Zenon
<1>4. p \in Int /\ q \in Int
  OBVIOUS
<1> QED
  BY <1>3, <1>4, NameOnce

\* The slot s loses its address or keeps it with its name.
LEMMA AddressKept ==
    ASSUME Owners, DuplicatesNoticed, NEW s \in DOMAIN slots, OnlySlot(s),
           addrs' = addrs, warned' = warned,
           \/ slots'[s].natt.ip = 0
           \/ slots'[s].natt.ip = slots[s].natt.ip /\ slots'[s].name = slots[s].name
    PROVE  Owners' /\ DuplicatesNoticed'
BY DEF Owners, DuplicatesNoticed, OnlySlot

LEMMA TwoElements ==
    ASSUME NEW a, NEW b, a # b
    PROVE  Cardinality({a, b}) = 2
<1>1. IsFiniteSet({a}) /\ Cardinality({a}) = 1
  BY FS_Singleton
<1>2. Cardinality({a} \cup {b}) = 2
  BY <1>1, FS_AddElement
<1>3. {a} \cup {b} = {a, b}
  OBVIOUS
<1> QED
  BY <1>2, <1>3

\* The slot s gets another address or loses it, and the sets of owners follow.
LEMMA AddressMoved ==
    ASSUME SetupFacts, Types, OwnNames, Owners, DuplicatesNoticed,
           NEW s \in DOMAIN slots, NEW new \in IPs \cup {0}, OnlySlot(s),
           ipAddressChangedInNS(s[1], slots[s].natt.ip, new, slots[s].name),
           slots[s].name # NoName, slots'[s].natt.ip = new,
           new # 0 => slots'[s].name = slots[s].name
    PROVE  /\ addrs' \in [DOMAIN virtNets -> [IPs -> SUBSET Name]]
           /\ Owners' /\ DuplicatesNoticed'
<1> DEFINE i == s[1]
           old == slots[s].natt.ip
           name == slots[s].name
           owners == Moved(addrs[i], old, new, name)
<1>1. /\ i \in DOMAIN virtNets /\ name \in Name /\ old \in IPs \cup {0}
      /\ addrs \in [DOMAIN virtNets -> [IPs -> SUBSET Name]]
  BY SlotIndex DEF Types, SlotRec, AttRec
<1>2. /\ addrs' = [addrs EXCEPT ![i] = owners]
      /\ warned' = (warned \/ (new # 0 /\ Cardinality(addrs'[i][new]) > 1))
  BY DEF ipAddressChangedInNS
<1>3. owners \in [IPs -> SUBSET Name]
  BY <1>1 DEF Moved
<1>4. \A ip \in IPs : /\ addrs[i][ip] \ {name} \subseteq owners[ip]
                      /\ owners[ip] \subseteq addrs[i][ip] \cup {name}
                      /\ ip = new => name \in owners[ip]
  BY DEF Moved
<1> HIDE DEF owners
<1>5. addrs' \in [DOMAIN virtNets -> [IPs -> SUBSET Name]]
  BY <1>1, <1>2, <1>3
<1>6. addrs'[i] = owners /\ DOMAIN addrs' = DOMAIN addrs
      /\ \A j \in DOMAIN addrs : j # i => addrs'[j] = addrs[j]
  BY <1>1, <1>2
<1>7. ASSUME NEW j \in DOMAIN addrs, NEW ip \in IPs PROVE IsFiniteSet(addrs'[j][ip])
  <2>1. IsFiniteSet(addrs[j][ip])
    BY DEF Owners
  <2>2. CASE j = i
    <3>1. IsFiniteSet(addrs[j][ip] \cup {name})
      BY <2>1, FS_AddElement
    <3>2. addrs'[j][ip] \subseteq addrs[j][ip] \cup {name}
      BY <1>4, <1>6, <2>2
    <3> QED
      BY <3>1, <3>2, FS_Subset
  <2>3. CASE j # i
    BY <1>6, <2>1, <2>3
  <2> QED
    BY <2>2, <2>3
<1>8. ASSUME NEW u \in DOMAIN slots, slots'[u].natt.ip # 0
      PROVE  slots'[u].name \in addrs'[u[1]][slots'[u].natt.ip]
  <2>1. CASE u = s
    BY <1>4, <1>6, <1>8, <2>1
  <2>2. CASE u # s
    <3>1. slots'[u] = slots[u] /\ slots[u].natt.ip # 0
      BY <1>8, <2>2 DEF OnlySlot
    <3>2. slots[u].name \in addrs[u[1]][slots[u].natt.ip]
      BY <3>1 DEF Owners
    <3>3. slots[u].name # name
      BY <2>2, SlotNames
    <3>4. slots[u].natt.ip \in IPs /\ u[1] \in DOMAIN virtNets
      BY <3>1, SlotIndex DEF Types, SlotRec, AttRec
    <3> QED
      BY <1>1, <1>4, <1>6, <3>1, <3>2, <3>3, <3>4
  <2> QED
    BY <2>1, <2>2
<1>9. Owners'
  BY <1>6, <1>7, <1>8 DEF Owners, OnlySlot
<1>10. ASSUME NEW u \in DOMAIN slots, u # s, u[1] = i, slots'[u].natt.ip = new, new # 0
       PROVE  warned'
  <2>1. name \in addrs'[i][new] /\ slots[u].name \in addrs'[i][new]
    <3>1. slots'[u] = slots[u] /\ slots'[s].name = name
      BY <1>10 DEF OnlySlot
    <3> QED
      BY <1>8, <1>10, <3>1
  <2>2. slots[u].name # name
    BY <1>10, SlotNames
  <2>3. IsFiniteSet(addrs'[i][new])
    BY <1>1, <1>7, <1>10
  <2>4. Cardinality(addrs'[i][new]) > 1
    <3> DEFINE A == addrs'[i][new]
               B == {name, slots[u].name}
    <3>1. B \subseteq A
      BY <2>1
    <3>2. Cardinality(B) = 2
      BY <2>2, TwoElements
    <3>3. Cardinality(B) <= Cardinality(A) /\ Cardinality(A) \in Nat
      BY <2>3, <3>1, FS_Subset, FS_CardinalityType
    <3> QED
      BY <3>2, <3>3
  <2> QED
    BY <1>2, <1>10, <2>4
<1>11. DuplicatesNoticed'
  <2> SUFFICES ASSUME NEW u \in DOMAIN slots, NEW v \in DOMAIN slots, u # v, u[1] = v[1],
                      slots'[u].natt.ip = slots'[v].natt.ip, slots'[u].natt.ip # 0
               PROVE  warned'
    BY DEF DuplicatesNoticed, OnlySlot
  <2>1. CASE u = s
    BY <1>10, <2>1
  <2>2. CASE v = s
    BY <1>10, <2>2
  <2>3. CASE u # s /\ v # s
    BY <1>2, <2>3 DEF DuplicatesNoticed, OnlySlot
  <2> QED
    BY <2>1, <2>2, <2>3
<1> QED
  BY <1>5, <1>9, <1>11

\* The step leaves the other slots' indices pending.
OthersPend(s) ==
    \A u \in DOMAIN slots :
       u # s /\ u[2] \in cds[u[1]].pendingIndices => u[2] \in cds'[u[1]].pendingIndices

LEMMA DomainTold ==
    ASSUME SetupFacts, CDsOK, virtNets' = virtNets, NEW s \in DOMAIN slots, NEW cd,
           cd \in {NoteTested(cds[s[1]], s[2]), NotePending(cds[s[1]], s[2]),
                   NoteNoTest(cds[s[1]], s[2])},
           cds' = [cds EXCEPT ![s[1]] = cd]
    PROVE  /\ CDsOK' /\ OthersPend(s)
           /\ cd = NotePending(cds[s[1]], s[2]) => s[2] \in cds'[s[1]].pendingIndices
<1> DEFINE i == s[1]
           j == s[2]
<1>1. /\ s = <<i, j>> /\ i \in DOMAIN virtNets /\ j \in 1 .. virtNets[i].size /\ j \in Int
      /\ \A u \in DOMAIN slots : u = <<u[1], u[2]>> /\ u[1] \in DOMAIN virtNets
  BY SlotIndex
<1>2. /\ cds \in [DOMAIN virtNets -> [pendingIndices : SUBSET Int, latestIndex : Int]]
      /\ cds[i].pendingIndices \subseteq 1 .. virtNets[i].size
      /\ cds[i].latestIndex \in {NoIndex} \cup 1 .. virtNets[i].size
  BY <1>1 DEF CDsOK
<1> HIDE DEF i, j
<1>3. /\ cd \in [pendingIndices : SUBSET Int, latestIndex : Int]
      /\ cd.pendingIndices \subseteq 1 .. virtNets[i].size
      /\ cd.latestIndex \in {NoIndex} \cup 1 .. virtNets[i].size
      /\ cds[i].pendingIndices \ {j} \subseteq cd.pendingIndices
  <2> DEFINE old == cds[i]
             latest == IF old.latestIndex = j THEN NoIndex ELSE old.latestIndex
  <2>1. /\ NoIndex \in Int /\ old \in [pendingIndices : SUBSET Int, latestIndex : Int]
        /\ latest \in {NoIndex} \cup 1 .. virtNets[i].size /\ latest \in Int
    BY <1>1, <1>2 DEF NoIndex
  <2>2. CASE cd = NoteTested(old, j)
    <3>1. cd = [pendingIndices |-> old.pendingIndices \ {j}, latestIndex |-> j]
      BY <2>1, <2>2 DEF NoteTested
    <3> QED
      BY <1>1, <1>2, <2>1, <3>1
  <2>3. CASE cd = NotePending(old, j)
    <3>1. cd = [pendingIndices |-> old.pendingIndices \cup {j}, latestIndex |-> old.latestIndex]
      BY <2>1, <2>3 DEF NotePending
    <3> QED
      BY <1>1, <1>2, <2>1, <3>1
  <2>4. CASE cd = NoteNoTest(old, j)
    <3>1. cd = [pendingIndices |-> old.pendingIndices \ {j}, latestIndex |-> latest]
      BY <2>1, <2>4 DEF NoteNoTest
    <3> HIDE DEF latest
    <3> QED
      BY <1>1, <1>2, <2>1, <3>1
  <2> QED
    BY <2>2, <2>3, <2>4 DEF i, j
<1>7. cd = NotePending(cds[i], j) => j \in cd.pendingIndices
  BY <1>1, <1>2 DEF NotePending
<1>4. /\ DOMAIN cds' = DOMAIN virtNets /\ cds'[i] = cd
      /\ \A k \in DOMAIN virtNets : k # i => cds'[k] = cds[k]
      /\ cds' \in [DOMAIN virtNets -> [pendingIndices : SUBSET Int, latestIndex : Int]]
  BY <1>1, <1>2, <1>3 DEF i
<1>5. CDsOK'
  BY <1>3, <1>4 DEF CDsOK
<1>6. OthersPend(s)
  BY <1>1, <1>3, <1>4 DEF OthersPend
<1> QED
  BY <1>4, <1>5, <1>6, <1>7 DEF i, j

\* What a step that changes the slot s leaves of the books.
LEMMA BooksStep ==
    ASSUME OwnNames, Truth, PendingCovers, Steady, NEW s \in DOMAIN slots, OnlySlot(s),
           OwnName(s)', atts' = atts,
           \A n \in DOMAIN events' : \E m \in DOMAIN events : events'[n] = events[m],
           slots'[s].name \in DOMAIN atts =>
              /\ slots'[s].ready => atts[slots'[s].name].ifc
              /\ slots'[s].tested => atts[slots'[s].name].report # "none",
           OthersPend(s),
           slots'[s].name # NoName /\ ~slots'[s].tested /\ ~slots'[s].broken
              => s[2] \in cds'[s[1]].pendingIndices
    PROVE  OwnNames' /\ Truth' /\ PendingCovers'
<1>1. OwnNames'
  <2>1. ASSUME NEW u \in DOMAIN slots, u # s PROVE OwnName(u)'
    BY <2>1 DEF OwnNames, OwnName, OnlySlot, Steady
  <2> QED
    BY <2>1 DEF OwnNames, OnlySlot
<1>2. SlotsTellTruth'
  <2>1. SlotsTellTruth
    BY DEF Truth
  <2> QED
    BY <2>1 DEF SlotsTellTruth, OnlySlot
<1>3. Truth'
  <2>1. ASSUME NEW n \in DOMAIN events', events'[n].natt.name \in DOMAIN atts
        PROVE  /\ events'[n].natt.ifc => atts[events'[n].natt.name].ifc
               /\ events'[n].natt.report # "none" => atts[events'[n].natt.name].report # "none"
    <3>1. PICK m \in DOMAIN events : events'[n] = events[m]
      OBVIOUS
    <3> QED
      BY <2>1, <3>1 DEF Truth
  <2> QED
    BY <1>2, <2>1 DEF Truth
<1>4. PendingCovers'
  BY DEF PendingCovers, OnlySlot, OthersPend
<1> QED
  BY <1>1, <1>3, <1>4

\* An attachment that thread t has after the step, too, or only then.
StillKept(name, t) ==
    \/ \E i \in 0 .. thread'[t].iCreate : Kept(name, t, i)'
    \/ /\ name \in DOMAIN atts \ lost
       /\ \A i \in 0 .. thread[t].iCreate :
             Kept(name, t, i) => i \in 0 .. thread'[t].iCreate /\ Kept(name, t, i)'

LEMMA KeptStep ==
    ASSUME IInv, NEW t \in DOMAIN thread, NEW th, Becomes(t, th), Steady,
           thread[t].pc # "done", NEW k \in Nat, OnlySlot(Work(t, k)),
           \A name \in DOMAIN atts' \ lost' : StillKept(name, t)
    PROVE  AllKept'
<1> SUFFICES ASSUME NEW name \in DOMAIN atts' \ lost'
             PROVE  \E u \in DOMAIN thread' : \E i \in 0 .. thread'[u].iCreate :
                       Kept(name, u, i)'
  BY DEF AllKept
<1>1. t \in DOMAIN thread'
  BY DEF Steady
<1>2. CASE \E i \in 0 .. thread'[t].iCreate : Kept(name, t, i)'
  BY <1>1, <1>2
<1>3. CASE /\ name \in DOMAIN atts \ lost
           /\ \A i \in 0 .. thread[t].iCreate :
                 Kept(name, t, i) => i \in 0 .. thread'[t].iCreate /\ Kept(name, t, i)'
  <2>1. PICK u \in DOMAIN thread : \E i \in 0 .. thread[u].iCreate : Kept(name, u, i)
    BY <1>3 DEF IInv, AllKept
  <2>2. PICK i \in 0 .. thread[u].iCreate : Kept(name, u, i)
    BY <2>1
  <2>3. CASE u = t
    <3>1. i \in 0 .. thread'[t].iCreate /\ Kept(name, t, i)'
      BY <1>3, <2>2, <2>3
    <3> QED
      BY <1>1, <3>1
  <2>4. CASE u # t
    <3>1. u \in DOMAIN thread' /\ i \in 0 .. thread'[u].iCreate /\ Kept(name, u, i)'
      BY <2>2, <2>4, KeptElsewhere
    <3> QED
      BY <3>1
  <2> QED
    BY <2>3, <2>4
<1> QED
  BY <1>2, <1>3 DEF StillKept

\* What is known of the slot that a thread is about to use.
LEMMA CreatingAt ==
    ASSUME IInv, NEW t \in DOMAIN thread, thread[t].pc \in Creating, NEW k,
           k = thread[t].iCreate
    PROVE  /\ k \in Nat /\ k \in thread[t].iDelete .. thread[t].iDelete + WorkLen(t) - 1
           /\ thread[t].iDelete \in Nat /\ WorkLen(t) \in Nat \ {0}
           /\ Work(t, k) \in DOMAIN slots /\ slots[Work(t, k)] \in SlotRec
           /\ SlotAt(t, k)
           /\ NameFor(t, k) = <<Work(t, k)[1], NameFor(t, k)[2]>> /\ NameFor(t, k) # NoName
           /\ NameFor(t, k) \in Int \X Int /\ SetupFacts
<1>1. /\ thread[t].iCreate \in Nat /\ thread[t].iDelete \in Nat
      /\ WorkLen(t) \in Nat \ {0} /\ CountsAt(t) /\ SetupFacts
  BY ThreadTyped
<1>2. k \in Nat /\ k \in thread[t].iDelete .. thread[t].iDelete + WorkLen(t) - 1
  BY <1>1 DEF CountsAt
<1>3. SlotAt(t, k)
  BY <1>2 DEF IInv, SlotsInTurn
<1>4. /\ Work(t, k) \in DOMAIN slots /\ NameFor(t, k) \in Int \X Int
      /\ NameFor(t, k) # NoName /\ NameFor(t, k)[1] = Work(t, k)[1]
  BY <1>1, <1>2, NameForFacts
<1>5. slots[Work(t, k)] \in SlotRec
  BY <1>4 DEF IInv, Types
<1>6. NameFor(t, k) = <<Work(t, k)[1], NameFor(t, k)[2]>>
  <2>1. NameFor(t, k) = <<NameFor(t, k)[1], NameFor(t, k)[2]>>
    BY <1>4
  <2> QED
    BY <1>4, <2>1
<1> QED
  BY <1>1, <1>2, <1>3, <1>4, <1>5, <1>6

\* A name that a slot may have.
LEMMA NameIsOwn ==
    ASSUME SetupFacts, NEW t \in DOMAIN thread, NEW k \in Nat
    PROVE  \E q \in Nat : NameFor(t, k)
              = <<Work(t, k)[1], Work(t, k)[2] + q * virtNets[Work(t, k)[1]].size>>
BY NameForFacts

LEMMA AllOnward ==
    ASSUME IInv, NEW t \in DOMAIN thread, NEW th, Becomes(t, th), Onward(t)
    PROVE  /\ \A u \in DOMAIN thread : Onward(u)
           /\ \A u \in DOMAIN thread : thread[u].iCreate \in Nat
<1>1. \A u \in DOMAIN thread : u # t => Idle(u)
  BY OthersIdle DEF IInv
<1> QED
  BY <1>1, IdleOnward, ThreadTyped

LEMMA NameSlotStep ==
    ASSUME IInv, NEW t \in DOMAIN thread, NameSlot(t)
    PROVE  IInv'
<1>0. PICK k, s, name : k = thread[t].iCreate /\ s = Work(t, k) /\ name = NameFor(t, k)
  OBVIOUS
<1> DEFINE th == [thread[t] EXCEPT !.pc = "create"]
<1>1. /\ UNCHANGED <<setupVars, stoppers, stopped, phase, apiVars, lost>>
      /\ phase = "drive" /\ thread[t].pc = "name"
  BY DEF NameSlot, At
<1>2. PICK node \in Nodes : setCurrentName(s, objname(s), node, Step(t, "create"))
  BY <1>0 DEF NameSlot
<1>3. /\ thread[t] \in ThreadRec /\ thread \in [DOMAIN thread -> ThreadRec]
      /\ thread[t].iCreate \in Nat /\ thread[t].iDelete \in Nat /\ CountsAt(t)
      /\ NumHere(t) \in Int
  BY ThreadTyped
<1>4. /\ k \in Nat /\ k \in thread[t].iDelete .. thread[t].iDelete + WorkLen(t) - 1
      /\ WorkLen(t) \in Nat
      /\ s \in DOMAIN slots /\ slots[s] \in SlotRec /\ SlotAt(t, k)
      /\ name = <<s[1], name[2]>> /\ name # NoName /\ name \in Int \X Int /\ SetupFacts
  BY <1>0, <1>1, CreatingAt DEF Creating
<1>5. objname(s) = name
  BY <1>0, <1>4 DEF objname, SlotAt
<1> DEFINE slot == [EmptySlot(slots[s].nextIndex) EXCEPT !.name = name, !.node = node]
<1>6. /\ slot \in SlotRec /\ slot.name = name /\ slot.node = node /\ slot.natt.ip = 0
      /\ ~slot.ready /\ ~slot.tested /\ ~slot.broken /\ slot.nextIndex = slots[s].nextIndex
  BY <1>4 DEF EmptySlot, SlotRec, NoAtt, AttRec, Name
<1>7. /\ th \in ThreadRec /\ th.pc = "create"
      /\ th.iCreate = k /\ th.iDelete = thread[t].iDelete
      /\ th.natt = thread[t].natt /\ th.createAllowed = thread[t].createAllowed
  BY <1>0, <1>3 DEF ThreadRec, Creating, Naming
<1>8. /\ slots' = [slots EXCEPT ![s] = slot]
      /\ cds' = [cds EXCEPT ![s[1]] = NotePending(@, s[2])]
      /\ thread' = [thread EXCEPT ![t] = th]
      /\ UNCHANGED <<addrs, nodeMap, warned>>
  BY <1>2, <1>4, <1>5 DEF setCurrentName, Step
<1> HIDE DEF th, slot
<1>9. Becomes(t, th) /\ thread'[t] = th
  BY <1>3, <1>7, <1>8, OneBecomes
<1>10. /\ OnlySlot(s) /\ slots'[s] = slot
       /\ slots' \in [DOMAIN slots -> SlotRec]
  BY <1>4, <1>6, <1>8 DEF OnlySlot, IInv, Types
<1>11. Steady
  BY <1>1, <1>9, <1>10 DEF Steady, setupVars, OnlySlot, Becomes
<1>12. CountsAt(t)'
  <2>1. WorkLen(t)' = WorkLen(t) /\ NumHere(t)' = NumHere(t) /\ stopped' = stopped
    BY <1>1, <1>11, SteadyWork
  <2> QED
    BY <1>0, <1>1, <1>3, <1>7, <1>9, <2>1 DEF CountsAt, Creating, Naming, Deleting
<1>13. ASSUME NEW i \in thread[t].iDelete .. thread[t].iDelete + WorkLen(t) - 1
       PROVE  SlotAt(t, i)'
  <2>1. SlotAt(t, i)
    BY <1>13 DEF IInv, SlotsInTurn
  <2>2. Work(t, i)' = Work(t, i) /\ NameFor(t, i)' = NameFor(t, i)
    BY <1>11, SteadyWork
  <2>3. CASE i = k
    BY <1>0, <1>6, <1>7, <1>9, <1>10, <2>1, <2>2, <2>3 DEF SlotAt, Naming, Deleting
  <2>4. CASE i # k
    <3>1. Work(t, i) # s /\ Work(t, i) \in DOMAIN slots
      BY <1>0, <1>3, <1>4, <2>4, OwnSlots, NameForFacts
    <3>2. slots'[Work(t, i)] = slots[Work(t, i)]
      BY <1>10, <3>1 DEF OnlySlot
    <3> QED
      BY <1>0, <1>1, <1>7, <1>9, <2>1, <2>2, <2>4, <3>2 DEF SlotAt, Naming, Deleting
  <2> QED
    BY <2>3, <2>4
<1>14. /\ Setup' /\ SetupFacts' /\ MainOK' /\ Phases' /\ Counts' /\ SlotsInTurn'
  <2>1. \A i \in (thread[t].iDelete .. thread[t].iDelete + WorkLen(t) - 1)' : SlotAt(t, i)'
    BY <1>7, <1>9, <1>11, <1>13, SteadyWork
  <2> QED
    BY <1>0, <1>1, <1>4, <1>9, <1>10, <1>12, <2>1, SlotStep
<1>15. Types'
  BY <1>1, <1>8, <1>9, <1>10, <1>11 DEF IInv, Types, Steady, apiVars, Becomes
<1>16. CDsOK' /\ OthersPend(s) /\ s[2] \in cds'[s[1]].pendingIndices
  BY <1>4, <1>8, <1>11, DomainTold DEF IInv, Steady
<1>17. OwnNames' /\ Truth' /\ PendingCovers'
  <2>1. OwnName(s)'
    <3>1. node # NoNode
      BY DriverAssumption
    <3>2. \E q \in Nat : name = <<s[1], s[2] + q * virtNets[s[1]].size>>
      BY <1>0, <1>4, NameIsOwn
    <3>3. slots'[s].name = name /\ slots'[s].node = node /\ slots'[s].natt.ip = 0
      BY <1>6, <1>10
    <3>4. (slots'[s].name = NoName) = (slots'[s].node = NoNode)
      BY <1>4, <3>1, <3>3
    <3>5. \E q \in Nat : slots'[s].name = <<s[1], s[2] + q * virtNets'[s[1]].size>>
      BY <1>11, <3>2, <3>3 DEF Steady
    <3> QED
      BY <3>3, <3>4, <3>5, Zenon DEF OwnName
  <2>2. ~slots'[s].ready /\ ~slots'[s].tested
    BY <1>6, <1>10
  <2>3. atts' = atts /\ events' = events
    BY <1>1 DEF apiVars
  <2>4. OwnNames /\ Truth /\ PendingCovers
    BY DEF IInv
  <2> QED
    BY <1>4, <1>10, <1>11, <1>16, <2>1, <2>2, <2>3, <2>4, BooksStep
<1>18. Owners' /\ DuplicatesNoticed'
  BY <1>4, <1>6, <1>8, <1>10, AddressKept DEF IInv
<1>19. AllIssued'
  <2>1. Onward(t)
    BY <1>0, <1>1, <1>7, <1>9 DEF Onward
  <2> QED
    BY <1>1, <1>9, <1>11, <2>1, AllOnward, IssuedStep DEF IInv, apiVars
<1>20. AllKept'
  <2> SUFFICES ASSUME NEW nm \in DOMAIN atts \ lost, NEW i \in 0 .. thread[t].iCreate,
                      Kept(nm, t, i)
               PROVE  i \in 0 .. thread'[t].iCreate /\ Kept(nm, t, i)'
    BY <1>0, <1>1, <1>4, <1>9, <1>10, <1>11, KeptStep DEF StillKept, apiVars
  <2>1. Work(t, i)' = Work(t, i) /\ NameFor(t, i)' = NameFor(t, i)
    BY <1>11, SteadyWork
  <2>2. i # k /\ i >= thread[t].iDelete /\ Busy
    BY <1>0, <1>1 DEF Kept, Busy
  <2>3. i \in thread[t].iDelete .. thread[t].iDelete + WorkLen(t) - 1
    BY <1>0, <1>3, <1>4, <2>2
  <2>4. Work(t, i) # s /\ Work(t, i) \in DOMAIN slots
    BY <1>0, <1>3, <1>4, <2>2, <2>3, OwnSlots, NameForFacts
  <2>5. slots'[Work(t, i)] = slots[Work(t, i)]
    BY <1>10, <2>4 DEF OnlySlot
  <2> QED
    BY <1>0, <1>1, <1>7, <1>9, <2>1, <2>2, <2>5 DEF Kept
<1> QED
  BY <1>14, <1>15, <1>16, <1>17, <1>18, <1>19, <1>20 DEF IInv

\* Before the call nobody can know the name: no other attachment has it.
LEMMA NameIsFresh ==
    ASSUME IInv, NEW t \in DOMAIN thread, thread[t].pc = "create", NEW u
    PROVE  ~Issued(NameFor(t, thread[t].iCreate), u)
<1> DEFINE k == thread[t].iCreate
<1> SUFFICES ASSUME Issued(NameFor(t, k), u) PROVE FALSE
  OBVIOUS
<1>1. PICK v \in DOMAIN thread : \E i \in 0 .. thread[v].iCreate :
        /\ NameFor(t, k) = NameFor(v, i) /\ u = Work(v, i)
        /\ i = thread[v].iCreate => thread[v].pc \in {"created", "failed"}
  BY Zenon DEF Issued
<1>2. PICK i \in 0 .. thread[v].iCreate :
        /\ NameFor(t, k) = NameFor(v, i) /\ u = Work(v, i)
        /\ i = thread[v].iCreate => thread[v].pc \in {"created", "failed"}
  BY <1>1
<1>3. k \in Nat /\ i \in Nat /\ SetupFacts
  BY ThreadTyped
<1>4. t = v /\ k = i
  BY <1>2, <1>3, NamesOnce
<1> QED
  BY <1>2, <1>4

LEMMA Appended ==
    ASSUME NEW S, NEW q \in Seq(S), NEW e \in S
    PROVE  /\ Append(q, e) \in Seq(S)
           /\ \A n \in DOMAIN Append(q, e) : \/ n \in DOMAIN q /\ Append(q, e)[n] = q[n]
                                            \/ Append(q, e)[n] = e
<1>1. /\ Append(q, e) \in Seq(S) /\ Len(q) \in Nat /\ Len(Append(q, e)) = Len(q) + 1
      /\ DOMAIN q = 1 .. Len(q) /\ DOMAIN Append(q, e) = 1 .. Len(Append(q, e))
  OBVIOUS
<1>2. \A n \in 1 .. Len(q) : Append(q, e)[n] = q[n]
  OBVIOUS
<1>3. Append(q, e)[Len(q) + 1] = e
  OBVIOUS
<1> QED
  BY <1>1, <1>2, <1>3

\* The store after the call: as it was, or with the new attachment.
Created(s, new) ==
    /\ new.name \notin DOMAIN atts
    /\ atts' = [n \in DOMAIN atts \cup {new.name} |-> IF n = new.name THEN new ELSE atts[n]]
    /\ events' = Append(events, [slot |-> s, natt |-> new])

LEMMA CreateAttachmentStep ==
    ASSUME IInv, NEW t \in DOMAIN thread, CreateAttachment(t)
    PROVE  IInv'
<1>0. PICK k, s, name : k = thread[t].iCreate /\ s = Work(t, k) /\ name = NameFor(t, k)
  OBVIOUS
<1> DEFINE new == [NoAtt EXCEPT !.name = name]
<1>1. /\ UNCHANGED <<setupVars, bookVars, stoppers, stopped, phase>>
      /\ phase = "drive" /\ thread[t].pc = "create"
  BY DEF CreateAttachment, At
<1>3. /\ thread[t] \in ThreadRec /\ thread \in [DOMAIN thread -> ThreadRec]
      /\ thread[t].iCreate \in Nat /\ thread[t].iDelete \in Nat /\ CountsAt(t)
      /\ NumHere(t) \in Int
  BY ThreadTyped
<1>4. /\ k \in Nat /\ k \in thread[t].iDelete .. thread[t].iDelete + WorkLen(t) - 1
      /\ WorkLen(t) \in Nat
      /\ s \in DOMAIN slots /\ slots[s] \in SlotRec /\ SlotAt(t, k)
      /\ name # NoName /\ name \in Int \X Int /\ SetupFacts
  BY <1>0, <1>1, CreatingAt DEF Creating, Naming
<1>5. slots[s].name = name /\ ~slots[s].ready /\ ~slots[s].tested
  BY <1>0, <1>1, <1>4 DEF SlotAt, Naming
<1>6. new \in AttRec /\ new.name = name /\ ~new.ifc /\ new.report = "none" /\ name \in Name
  BY <1>4 DEF NoAtt, AttRec, Name
<1>7. PICK pc \in {"created", "failed"} :
         /\ thread' = Step(t, pc)
         /\ \/ Created(s, new) /\ (pc = "created" => lost' = lost)
                               /\ (pc = "failed" => lost' = lost \cup {name})
            \/ UNCHANGED <<atts, events, lost>>
  <2>1. CASE /\ name \notin DOMAIN atts
             /\ atts' = [n \in DOMAIN atts \cup {name} |-> IF n = name THEN new ELSE atts[n]]
             /\ events' = Append(events, [slot |-> s, natt |-> new])
             /\ \/ thread' = Step(t, "created") /\ UNCHANGED <<lost, budget>>
                \/ /\ Spend("fault") /\ thread' = Step(t, "failed")
                   /\ lost' = lost \cup {name}
    <3>1. Created(s, new)
      BY <1>6, <2>1, Zenon DEF Created
    <3> HIDE DEF new
    <3> QED
      BY <2>1, <3>1
  <2>2. CASE /\ thread' = Step(t, "failed")
             /\ UNCHANGED <<apiVars, lost>>
    BY <2>2 DEF apiVars
  <2> QED
    BY <1>0, <1>5, <2>1, <2>2, Zenon DEF CreateAttachment
<1> HIDE DEF new
<1> DEFINE th == [thread[t] EXCEPT !.pc = pc]
<1>8. /\ th \in ThreadRec /\ th.pc = pc
      /\ th.iCreate = k /\ th.iDelete = thread[t].iDelete
      /\ th.natt = thread[t].natt /\ th.createAllowed = thread[t].createAllowed
  BY <1>0, <1>3 DEF ThreadRec, Creating, Naming
<1>9. thread' = [thread EXCEPT ![t] = th]
  BY <1>3, <1>7 DEF Step
<1> HIDE DEF th
<1>10. Becomes(t, th) /\ thread'[t] = th
  BY <1>3, <1>8, <1>9, OneBecomes
<1>11. OnlySlot(s) /\ slots' = slots
  BY <1>1 DEF OnlySlot, bookVars
<1>12. Steady
  BY <1>1, <1>10, <1>11 DEF Steady, setupVars, OnlySlot, Becomes
<1>13. CountsAt(t)'
  <2>1. WorkLen(t)' = WorkLen(t) /\ NumHere(t)' = NumHere(t) /\ stopped' = stopped
    BY <1>1, <1>12, SteadyWork
  <2> QED
    BY <1>0, <1>1, <1>3, <1>8, <1>10, <2>1 DEF CountsAt, Creating, Naming, Deleting
<1>14. ASSUME NEW i \in thread[t].iDelete .. thread[t].iDelete + WorkLen(t) - 1
       PROVE  SlotAt(t, i)'
  <2>1. SlotAt(t, i)
    BY <1>14 DEF IInv, SlotsInTurn
  <2>2. Work(t, i)' = Work(t, i) /\ NameFor(t, i)' = NameFor(t, i)
    BY <1>12, SteadyWork
  <2> QED
    BY <1>0, <1>1, <1>8, <1>10, <1>11, <2>1, <2>2 DEF SlotAt, Naming, Deleting
<1>15. /\ Setup' /\ SetupFacts' /\ MainOK' /\ Phases' /\ Counts' /\ SlotsInTurn'
  <2>1. \A i \in (thread[t].iDelete .. thread[t].iDelete + WorkLen(t) - 1)' : SlotAt(t, i)'
    BY <1>8, <1>10, <1>12, <1>14, SteadyWork
  <2> QED
    BY <1>0, <1>1, <1>4, <1>10, <1>11, <1>13, <2>1, SlotStep
<1>16. /\ DOMAIN atts' \subseteq DOMAIN atts \cup {name}
       /\ \A n \in DOMAIN atts : n \in DOMAIN atts' /\ atts'[n] = atts[n]
       /\ name \in DOMAIN atts' \ DOMAIN atts => atts'[name] = new
       /\ atts' \in [DOMAIN atts' -> AttRec] /\ DOMAIN atts' \subseteq Name
  BY <1>6, <1>7 DEF Created, IInv, Types
<1>17. /\ events' \in Seq([slot : DOMAIN slots, natt : AttRec])
       /\ \A n \in DOMAIN events' :
             \/ n \in DOMAIN events /\ events'[n] = events[n]
             \/ events'[n] = [slot |-> s, natt |-> new]
  <2> DEFINE e == [slot |-> s, natt |-> new]
  <2>1. /\ events \in Seq([slot : DOMAIN slots, natt : AttRec])
        /\ e \in [slot : DOMAIN slots, natt : AttRec]
    BY <1>4, <1>6 DEF IInv, Types
  <2>2. events' = events \/ events' = Append(events, e)
    BY <1>7 DEF Created
  <2> HIDE DEF e
  <2>3. /\ events' \in Seq([slot : DOMAIN slots, natt : AttRec])
        /\ \A n \in DOMAIN events' :
              \/ n \in DOMAIN events /\ events'[n] = events[n]
              \/ events'[n] = e
    <3>1. CASE events' = events
      BY <2>1, <3>1, Zenon
    <3>2. CASE events' = Append(events, e)
      <4> DEFINE S == [slot : DOMAIN slots, natt : AttRec]
      <4>1. events \in Seq(S) /\ e \in S
        BY <2>1
      <4> HIDE DEF S
      <4>2. /\ Append(events, e) \in Seq(S)
            /\ \A n \in DOMAIN Append(events, e) :
                  \/ n \in DOMAIN events /\ Append(events, e)[n] = events[n]
                  \/ Append(events, e)[n] = e
        BY <4>1, Appended
      <4> QED
        BY <3>2, <4>2, Zenon DEF S
    <3> QED
      BY <2>2, <3>1, <3>2, Zenon
  <2> QED
    BY <2>3 DEF e
<1>18. Types'
  BY <1>1, <1>10, <1>11, <1>16, <1>17 DEF IInv, Types, setupVars, bookVars, Becomes
<1>19. CDsOK' /\ OwnNames' /\ PendingCovers' /\ Owners' /\ DuplicatesNoticed'
  BY <1>1 DEF IInv, CDsOK, OwnNames, OwnName, PendingCovers, Owners, DuplicatesNoticed,
              setupVars, bookVars
<1>20. Issued(name, s)'
  <2>1. name = NameFor(t, k)' /\ s = Work(t, k)'
    BY <1>0, <1>12, SteadyWork
  <2>2. k \in 0 .. thread'[t].iCreate /\ thread'[t].pc \in {"created", "failed"}
    BY <1>4, <1>8, <1>10
  <2>3. t \in DOMAIN thread'
    BY <1>12 DEF Steady
  <2> QED
    BY <2>1, <2>2, <2>3 DEF Issued
<1>21. AllIssued'
  <2>1. Onward(t)
    BY <1>0, <1>1, <1>8, <1>10 DEF Onward
  <2>2. ASSUME NEW n \in DOMAIN events'
        PROVE  \/ \E m \in DOMAIN events : events'[n] = events[m]
               \/ Issued(events[n].natt.name, events[n].slot)'
    <3>1. CASE events'[n] = [slot |-> s, natt |-> new]
      <4>1. events'[n].slot = s /\ events'[n].natt.name = name
        BY <1>6, <3>1
      <4> QED
        BY <1>20, <4>1 DEF Issued
    <3> QED
      BY <1>17, <3>1
  <2>3. \A nm \in DOMAIN atts' : nm \in DOMAIN atts \/ \E u \in DOMAIN slots' : Issued(nm, u)'
    BY <1>4, <1>11, <1>16, <1>20
  <2> QED
    BY <1>10, <1>12, <2>1, <2>2, <2>3, AllOnward, IssuedStep DEF IInv
<1>22. Truth'
  <2>1. ASSUME NEW n \in DOMAIN events', events'[n].natt.name \in DOMAIN atts'
        PROVE  /\ events'[n].natt.ifc => atts'[events'[n].natt.name].ifc
               /\ events'[n].natt.report # "none"
                     => atts'[events'[n].natt.name].report # "none"
    <3>1. CASE events'[n] = [slot |-> s, natt |-> new]
      BY <1>6, <3>1
    <3>2. CASE n \in DOMAIN events /\ events'[n] = events[n]
      <4>1. Issued(events[n].natt.name, events[n].slot)
        BY <3>2 DEF IInv, AllIssued
      <4>2. events[n].natt.name # name
        BY <1>0, <1>1, <4>1, NameIsFresh
      <4> QED
        BY <1>16, <2>1, <3>2, <4>2 DEF IInv, Truth
    <3> QED
      BY <1>17, <3>1, <3>2
  <2>2. SlotsTellTruth'
    <3> SUFFICES ASSUME NEW u \in DOMAIN slots, slots[u].name \in DOMAIN atts'
                 PROVE  /\ slots[u].ready => atts'[slots[u].name].ifc
                        /\ slots[u].tested => atts'[slots[u].name].report # "none"
      BY <1>11 DEF SlotsTellTruth
    <3>1. CASE slots[u].name = name
      <4>1. u = s
        BY <1>4, <1>5, <3>1, SlotNames DEF IInv
      <4> QED
        BY <1>5, <4>1
    <3>2. CASE slots[u].name # name
      BY <1>16, <3>2 DEF IInv, Truth, SlotsTellTruth
    <3> QED
      BY <3>1, <3>2
  <2> QED
    BY <2>1, <2>2 DEF Truth
<1>23. AllKept'
  <2>1. ASSUME NEW nm \in DOMAIN atts \ lost, NEW i \in 0 .. thread[t].iCreate,
               Kept(nm, t, i)
        PROVE  i \in 0 .. thread'[t].iCreate /\ Kept(nm, t, i)'
    <3>1. Work(t, i)' = Work(t, i) /\ NameFor(t, i)' = NameFor(t, i)
      BY <1>12, SteadyWork
    <3>2. i # k /\ i >= thread[t].iDelete /\ Busy
      BY <1>0, <1>1, <2>1 DEF Kept, Busy
    <3> QED
      BY <1>0, <1>1, <1>8, <1>10, <1>11, <2>1, <3>1, <3>2 DEF Kept
  <2>2. ASSUME pc = "created" PROVE Kept(name, t, k)' /\ k \in 0 .. thread'[t].iCreate
    <3>1. Work(t, k)' = s /\ NameFor(t, k)' = name
      BY <1>0, <1>12, SteadyWork
    <3> QED
      BY <1>3, <1>4, <1>5, <1>8, <1>10, <1>11, <2>2, <3>1 DEF Kept
  <2>3. ASSUME NEW nm \in DOMAIN atts' \ lost' PROVE StillKept(nm, t)
    <3>1. CASE nm \in DOMAIN atts \ lost
      BY <2>1, <3>1 DEF StillKept
    <3>2. CASE nm = name /\ pc = "created"
      BY <2>2, <3>2 DEF StillKept
    <3>3. nm \in DOMAIN atts \ lost \/ (nm = name /\ pc = "created")
      BY <1>6, <1>7, <1>16, <2>3 DEF Created
    <3> QED
      BY <3>1, <3>2, <3>3
  <2> QED
    BY <1>0, <1>1, <1>4, <1>10, <1>11, <1>12, <2>3, KeptStep
<1> QED
  BY <1>15, <1>18, <1>19, <1>21, <1>22, <1>23 DEF IInv

LEMMA NoNameNotIssued ==
    ASSUME IInv
    PROVE  NoName \notin DOMAIN atts
<1> SUFFICES ASSUME NoName \in DOMAIN atts PROVE FALSE
  OBVIOUS
<1>1. PICK u \in DOMAIN slots : Issued(NoName, u)
  BY DEF IInv, AllIssued
<1>2. PICK v \in DOMAIN thread : \E i \in 0 .. thread[v].iCreate : NoName = NameFor(v, i)
  BY <1>1, Zenon DEF Issued
<1>3. PICK i \in 0 .. thread[v].iCreate : NoName = NameFor(v, i)
  BY <1>2
<1>4. i \in Nat /\ SetupFacts
  BY ThreadTyped
<1> QED
  BY <1>3, <1>4, NameForFacts

\* The thread goes on to its next attachment, and the slot of this one has the
\* attachment that was created, or is free.
LEMMA NextCreateStep ==
    ASSUME IInv, NEW t \in DOMAIN thread, phase = "drive", NEW k, k = thread[t].iCreate,
           NEW s, s = Work(t, k), NEW th \in ThreadRec, Becomes(t, th),
           th.pc = "loop", th.iCreate = k + 1, th.iDelete = thread[t].iDelete,
           th.createAllowed = thread[t].createAllowed,
           UNCHANGED <<setupVars, stopped, phase, apiVars, lost, addrs, warned>>,
           NEW slot \in SlotRec, slots' = [slots EXCEPT ![s] = slot],
           slot.nextIndex = slots[s].nextIndex, slot.natt.ip = 0, CDsOK', OthersPend(s),
           \/ /\ thread[t].pc = "failed" /\ slot.name = NoName /\ slot.node = NoNode
           \/ /\ thread[t].pc = "created" /\ slot.name = slots[s].name
              /\ slot.node = slots[s].node /\ slot.natt.name = slot.name
              /\ slot.ready = slots[s].ready /\ slot.tested = slots[s].tested
              /\ slot.broken = slots[s].broken /\ cds' = cds
    PROVE  IInv'
<1>3. /\ thread[t] \in ThreadRec /\ thread \in [DOMAIN thread -> ThreadRec]
      /\ k \in Nat /\ thread[t].iDelete \in Nat /\ CountsAt(t)
      /\ NumHere(t) \in Int
  BY ThreadTyped
<1>4. /\ k \in thread[t].iDelete .. thread[t].iDelete + WorkLen(t) - 1
      /\ WorkLen(t) \in Nat
      /\ s \in DOMAIN slots /\ slots[s] \in SlotRec /\ SlotAt(t, k) /\ SetupFacts
  BY CreatingAt DEF Creating, Naming
<1>5. slots[s].name = NameFor(t, k)
  BY <1>4 DEF SlotAt, Naming
<1>9. thread'[t] = th
  BY DEF Becomes
<1>10. /\ OnlySlot(s) /\ slots'[s] = slot
       /\ slots' \in [DOMAIN slots -> SlotRec]
  BY <1>4 DEF OnlySlot, IInv, Types
<1>11. Steady
  BY <1>10 DEF Steady, setupVars, OnlySlot, Becomes
<1>12. CountsAt(t)'
  <2>1. WorkLen(t)' = WorkLen(t) /\ NumHere(t)' = NumHere(t) /\ stopped' = stopped
    BY <1>11, SteadyWork
  <2>2. /\ k < NumHere(t) /\ thread[t].iDelete <= k /\ k < thread[t].iDelete + WorkLen(t)
        /\ thread[t].iDelete <= NumHere(t) /\ (~stopped => thread[t].createAllowed)
    BY <1>3 DEF CountsAt, Creating, Naming
  <2> QED
    BY <1>3, <1>4, <1>9, <2>1, <2>2 DEF CountsAt, Creating, Naming, Deleting
<1>13. ASSUME NEW i \in thread[t].iDelete .. thread[t].iDelete + WorkLen(t) - 1
       PROVE  SlotAt(t, i)'
  <2>1. SlotAt(t, i) /\ i \in Int
    BY <1>13 DEF IInv, SlotsInTurn
  <2>2. Work(t, i)' = Work(t, i) /\ NameFor(t, i)' = NameFor(t, i)
    BY <1>11, SteadyWork
  <2>3. CASE i = k
    <3>1. slot.name \in {NoName, NameFor(t, k)} /\ (slot.name # NoName => slot.natt.name = slot.name)
      BY <1>5
    <3> QED
      BY <1>3, <1>9, <1>10, <2>1, <2>2, <2>3, <3>1 DEF SlotAt, Naming, Deleting
  <2>4. CASE i # k
    <3>1. Work(t, i) # s /\ Work(t, i) \in DOMAIN slots
      BY <1>3, <1>4, <2>4, OwnSlots, NameForFacts
    <3>2. slots'[Work(t, i)] = slots[Work(t, i)]
      BY <1>10, <3>1 DEF OnlySlot
    <3> QED
      BY <1>3, <1>9, <2>1, <2>2, <2>4, <3>2 DEF SlotAt, Naming, Deleting
  <2> QED
    BY <2>3, <2>4
<1>14. /\ Setup' /\ SetupFacts' /\ MainOK' /\ Phases' /\ Counts' /\ SlotsInTurn'
  <2>1. \A i \in (thread[t].iDelete .. thread[t].iDelete + WorkLen(t) - 1)' : SlotAt(t, i)'
    BY <1>9, <1>11, <1>13, SteadyWork
  <2> QED
    BY <1>3, <1>10, <1>12, <2>1, SlotStep
<1>15. Types'
  BY <1>10, <1>11 DEF IInv, Types, Steady, apiVars, Becomes
<1>17. OwnNames' /\ Truth' /\ PendingCovers'
  <2>0. OwnNames /\ Truth /\ PendingCovers /\ OwnName(s)
    BY <1>4 DEF IInv, OwnNames
  <2>1. OwnName(s)'
    <3>1. CASE slot.name = NoName /\ slot.node = NoNode
      BY <1>10, <3>1 DEF OwnName
    <3>2. CASE slot.name = slots[s].name /\ slot.node = slots[s].node
      BY <1>10, <1>11, <2>0, <3>2 DEF OwnName, Steady
    <3> QED
      BY <3>1, <3>2
  <2>2. slots'[s].name \in DOMAIN atts =>
              /\ slots'[s].ready => atts[slots'[s].name].ifc
              /\ slots'[s].tested => atts[slots'[s].name].report # "none"
    <3>1. CASE slot.name = NoName
      BY <1>10, <3>1, NoNameNotIssued
    <3>2. CASE /\ slot.name = slots[s].name
               /\ slot.ready = slots[s].ready /\ slot.tested = slots[s].tested
      BY <1>4, <1>10, <2>0, <3>2 DEF Truth, SlotsTellTruth
    <3> QED
      BY <3>1, <3>2
  <2>3. atts' = atts /\ events' = events
    BY DEF apiVars
  <2>4. slots'[s].name # NoName /\ ~slots'[s].tested /\ ~slots'[s].broken
              => s[2] \in cds'[s[1]].pendingIndices
    BY <1>4, <1>10, <2>0 DEF PendingCovers
  <2> QED
    BY <1>4, <1>10, <1>11, <2>0, <2>1, <2>2, <2>3, <2>4, BooksStep
<1>18. Owners' /\ DuplicatesNoticed'
  BY <1>4, <1>10, AddressKept DEF IInv
<1>19. AllIssued'
  <2>1. Onward(t)
    BY <1>9 DEF Onward
  <2> QED
    BY <1>11, <2>1, AllOnward, IssuedStep DEF IInv, apiVars
<1>20. AllKept'
  <2> SUFFICES ASSUME NEW nm \in DOMAIN atts \ lost, NEW i \in 0 .. thread[t].iCreate,
                      Kept(nm, t, i)
               PROVE  i \in 0 .. thread'[t].iCreate /\ Kept(nm, t, i)'
    BY <1>3, <1>10, <1>11, KeptStep DEF StillKept, apiVars
  <2>1. Work(t, i)' = Work(t, i) /\ NameFor(t, i)' = NameFor(t, i)
    BY <1>11, SteadyWork
  <2>2. /\ i >= thread[t].iDelete /\ Busy /\ nm = NameFor(t, i)
        /\ slots[Work(t, i)].name = nm /\ (i = k => thread[t].pc = "created")
    BY DEF Kept, Busy
  <2>3. i \in thread[t].iDelete .. thread[t].iDelete + WorkLen(t) - 1
    BY <1>3, <1>4, <2>2
  <2>4. slots'[Work(t, i)].name = nm
    <3>1. CASE i = k
      BY <1>10, <2>2, <3>1
    <3>2. CASE i # k
      <4>1. Work(t, i) # s /\ Work(t, i) \in DOMAIN slots
        BY <1>3, <1>4, <2>3, <3>2, OwnSlots, NameForFacts
      <4> QED
        BY <1>10, <2>2, <4>1 DEF OnlySlot
    <3> QED
      BY <3>1, <3>2
  <2> QED
    BY <1>3, <1>9, <2>1, <2>2, <2>4 DEF Kept
<1> QED
  BY <1>14, <1>15, <1>17, <1>18, <1>19, <1>20 DEF IInv

\* A broadcast after the step of thread t wakes others at most.
LEMMA BroadcastBecomes ==
    ASSUME IInv, NEW t \in DOMAIN thread, NEW th \in ThreadRec, th.pc # "asleep", NEW base,
           base = [thread EXCEPT ![t] = th], NEW i,
           thread' = base \/ thread' = Broadcast(base, i)
    PROVE  Becomes(t, th)
<1>1. /\ thread \in [DOMAIN thread -> ThreadRec]
      /\ DOMAIN base = DOMAIN thread /\ base[t] = th /\ base \in [DOMAIN thread -> ThreadRec]
      /\ \A u \in DOMAIN thread : u # t => base[u] = thread[u]
  BY ThreadTyped
<1>2. CASE thread' = base
  BY <1>1, <1>2 DEF Becomes, Woken
<1>3. CASE thread' = Broadcast(base, i)
  <2>1. /\ DOMAIN thread' = DOMAIN base
        /\ \A u \in DOMAIN base : Woken(base[u], thread'[u])
    BY <1>3, BroadcastWakes
  <2>2. \A u \in DOMAIN thread : thread'[u] \in ThreadRec
    BY <1>1, <2>1, WokenFields
  <2>3. thread' = [u \in DOMAIN thread' |-> thread'[u]]
    BY <1>3 DEF Broadcast
  <2>4. thread' \in [DOMAIN thread -> ThreadRec]
    BY <1>1, <2>1, <2>2, <2>3
  <2>5. thread'[t] = th
    BY <1>1, <2>1 DEF Woken
  <2> QED
    BY <1>1, <2>1, <2>4, <2>5 DEF Becomes
<1> QED
  BY <1>2, <1>3

LEMMA SetNetAttStep ==
    ASSUME IInv, NEW t \in DOMAIN thread, setNetAtt(t)
    PROVE  IInv'
<1>0. PICK k, s : k = thread[t].iCreate /\ s = Work(t, k)
  OBVIOUS
<1>1. /\ UNCHANGED <<setupVars, cds, addrs, nodeMap, warned, stopped, phase, apiVars, lost>>
      /\ phase = "drive" /\ thread[t].pc = "created"
  BY DEF setNetAtt, At
<1>2. /\ thread[t] \in ThreadRec /\ thread \in [DOMAIN thread -> ThreadRec] /\ k \in Nat
  BY <1>0, ThreadTyped
<1>3. s \in DOMAIN slots /\ slots[s] \in SlotRec
  BY <1>0, <1>1, CreatingAt DEF Creating, Naming
<1> DEFINE natt == [NoAtt EXCEPT !.name = slots[s].name]
           slot == [slots[s] EXCEPT !.preCreate = TRUE, !.natt = natt]
           next == k + 1
           th == [thread[t] EXCEPT !.pc = "loop", !.iCreate = next]
<1>4. natt \in AttRec /\ natt.ip = 0 /\ natt.name = slots[s].name
  BY <1>3 DEF NoAtt, AttRec, SlotRec
<1>5. slots' = [slots EXCEPT ![s] = slot]
  BY <1>0, <1>3 DEF setNetAtt
<1> HIDE DEF natt
<1>6. /\ slot \in SlotRec /\ slot.natt = natt
      /\ slot.name = slots[s].name /\ slot.node = slots[s].node
      /\ slot.ready = slots[s].ready /\ slot.tested = slots[s].tested
      /\ slot.broken = slots[s].broken /\ slot.nextIndex = slots[s].nextIndex
  BY <1>3, <1>4 DEF SlotRec
<1>7. thread' = [thread EXCEPT ![t] = th]
  BY <1>0, <1>2 DEF setNetAtt, NextCreate
<1>8. /\ th \in ThreadRec /\ th.pc = "loop" /\ th.iCreate = k + 1
      /\ th.iDelete = thread[t].iDelete /\ th.createAllowed = thread[t].createAllowed
  <2>1. next \in Nat
    BY <1>2
  <2> HIDE DEF next
  <2>2. /\ th \in ThreadRec /\ th.pc = "loop" /\ th.iCreate = next
        /\ th.iDelete = thread[t].iDelete /\ th.createAllowed = thread[t].createAllowed
    BY <1>2, <2>1 DEF ThreadRec
  <2> QED
    BY <2>2 DEF next
<1> HIDE DEF slot, th
<1>9. Becomes(t, th)
  BY <1>7, <1>8, OneBecomes
<1>10. CDsOK' /\ OthersPend(s)
  BY <1>1 DEF IInv, CDsOK, OthersPend, setupVars
<1> QED
  BY <1>0, <1>1, <1>4, <1>5, <1>6, <1>8, <1>9, <1>10, NextCreateStep

LEMMA CreateFailedStep ==
    ASSUME IInv, NEW t \in DOMAIN thread, CreateFailed(t)
    PROVE  IInv'
<1>0. PICK k, s : k = thread[t].iCreate /\ s = Work(t, k)
  OBVIOUS
<1>1. /\ UNCHANGED <<setupVars, stopped, phase, apiVars, lost>>
      /\ phase = "drive" /\ thread[t].pc = "failed"
      /\ setCurrentName(s, NoName, NoNode, NextCreate(t))
  BY <1>0 DEF CreateFailed, At
<1>2. /\ thread[t] \in ThreadRec /\ thread \in [DOMAIN thread -> ThreadRec] /\ k \in Nat
  BY <1>0, ThreadTyped
<1>3. s \in DOMAIN slots /\ slots[s] \in SlotRec /\ SetupFacts
  BY <1>0, <1>1, CreatingAt DEF Creating, Naming
<1> DEFINE slot == [EmptySlot(slots[s].nextIndex) EXCEPT !.name = NoName, !.node = NoNode]
           next == k + 1
           th == [thread[t] EXCEPT !.pc = "loop", !.iCreate = next]
           base == [thread EXCEPT ![t] = th]
<1>4. /\ slot \in SlotRec /\ slot.natt.ip = 0 /\ slot.name = NoName /\ slot.node = NoNode
      /\ slot.nextIndex = slots[s].nextIndex
  BY <1>3 DEF EmptySlot, SlotRec, NoAtt, AttRec, Name
<1>5. /\ slots' = [slots EXCEPT ![s] = slot]
      /\ cds' = [cds EXCEPT ![s[1]] = NoteNoTest(@, s[2])]
      /\ thread' = NextCreate(t) \/ thread' = Broadcast(NextCreate(t), s[1])
      /\ UNCHANGED <<addrs, warned>>
  BY <1>1 DEF setCurrentName
<1>6. NextCreate(t) = base
  BY <1>0, <1>2 DEF NextCreate
<1>7. /\ th \in ThreadRec /\ th.pc = "loop" /\ th.iCreate = k + 1
      /\ th.iDelete = thread[t].iDelete /\ th.createAllowed = thread[t].createAllowed
  <2>1. next \in Nat
    BY <1>2
  <2> HIDE DEF next
  <2>2. /\ th \in ThreadRec /\ th.pc = "loop" /\ th.iCreate = next
        /\ th.iDelete = thread[t].iDelete /\ th.createAllowed = thread[t].createAllowed
    BY <1>2, <2>1 DEF ThreadRec
  <2> QED
    BY <2>2 DEF next
<1> HIDE DEF slot, th
<1>8. Becomes(t, th)
  BY <1>5, <1>6, <1>7, BroadcastBecomes
<1>9. CDsOK' /\ OthersPend(s)
  BY <1>1, <1>3, <1>5, DomainTold DEF IInv, setupVars
<1> QED
  BY <1>0, <1>1, <1>4, <1>5, <1>7, <1>8, <1>9, NextCreateStep

\* Slot.close: the address goes, and the slot has no name.
LEMMA SlotCloses ==
    ASSUME IInv, Steady, NEW s \in DOMAIN slots, CloseSlot(s, slots[s]),
           slots' = [slots EXCEPT ![s] = Closed(slots[s])], UNCHANGED <<cds, apiVars>>
    PROVE  /\ OnlySlot(s) /\ slots' \in [DOMAIN slots -> SlotRec]
           /\ slots'[s].name = NoName /\ slots'[s].nextIndex = slots[s].nextIndex
           /\ addrs' \in [DOMAIN virtNets -> [IPs -> SUBSET Name]]
           /\ Owners' /\ DuplicatesNoticed' /\ OwnNames' /\ Truth' /\ PendingCovers' /\ CDsOK'
<1> DEFINE slot == Closed(slots[s])
<1>1. /\ SetupFacts /\ slots[s] \in SlotRec /\ slots \in [DOMAIN slots -> SlotRec]
      /\ OwnName(s) /\ OwnNames /\ Truth /\ PendingCovers /\ Owners /\ DuplicatesNoticed
      /\ Types /\ CDsOK /\ addrs \in [DOMAIN virtNets -> [IPs -> SUBSET Name]]
  BY SetupHolds DEF IInv, Types, OwnNames
<1>2. /\ slot \in SlotRec /\ slot.name = NoName /\ slot.node = NoNode /\ slot.natt.ip = 0
      /\ slot.nextIndex = slots[s].nextIndex
  BY <1>1 DEF Closed, NoAtt, AttRec, SlotRec, Name
<1> HIDE DEF slot
<1>3. /\ OnlySlot(s) /\ slots'[s] = slot /\ slots' \in [DOMAIN slots -> SlotRec]
  BY <1>1, <1>2 DEF OnlySlot, slot
<1>4. /\ addrs' \in [DOMAIN virtNets -> [IPs -> SUBSET Name]]
      /\ Owners' /\ DuplicatesNoticed'
  <2>1. CASE /\ slots[s].natt.ip # 0
             /\ ipAddressChanged(s[1], slots[s].node, slots[s].natt.ip, 0, slots[s].name)
    <3>1. slots[s].name # NoName
      BY <1>1, <2>1 DEF OwnName
    <3>2. ipAddressChangedInNS(s[1], slots[s].natt.ip, 0, slots[s].name)
      BY <2>1 DEF ipAddressChanged
    <3>3. slots'[s].natt.ip = 0 /\ 0 \in IPs \cup {0}
      BY <1>2, <1>3
    <3> QED
      BY <1>1, <1>3, <3>1, <3>2, <3>3, AddressMoved
  <2>2. CASE UNCHANGED <<addrs, nodeMap, warned>>
    BY <1>1, <1>2, <1>3, <2>2, AddressKept
  <2> QED
    BY <2>1, <2>2 DEF CloseSlot
<1>5. CDsOK' /\ OthersPend(s)
  BY <1>1 DEF CDsOK, OthersPend, Steady
<1>6. OwnName(s)'
  BY <1>2, <1>3 DEF OwnName
<1>7. NoName \notin DOMAIN atts
  BY NoNameNotIssued
<1>8. OwnNames' /\ Truth' /\ PendingCovers'
  <2>1. atts' = atts /\ events' = events
    BY DEF apiVars
  <2>2. slots'[s].name = NoName
    BY <1>2, <1>3
  <2> QED
    BY <1>1, <1>3, <1>5, <1>6, <1>7, <2>1, <2>2, BooksStep
<1> QED
  BY <1>2, <1>3, <1>4, <1>5, <1>8

LEMMA CloseForDeleteStep ==
    ASSUME IInv, NEW t \in DOMAIN thread, CloseForDelete(t)
    PROVE  IInv'
<1>0. PICK k, s : k = thread[t].iDelete /\ s = Work(t, k)
  OBVIOUS
<1>1. /\ UNCHANGED <<setupVars, cds, stopped, phase, apiVars, lost>>
      /\ phase = "drive" /\ thread[t].pc = "loop" /\ k < NumHere(t) /\ ~MayCreate(t)
      /\ CloseSlot(s, slots[s]) /\ slots' = [slots EXCEPT ![s] = Closed(slots[s])]
  BY <1>0 DEF CloseForDelete, Going, At
<1>2. /\ thread[t] \in ThreadRec /\ thread \in [DOMAIN thread -> ThreadRec]
      /\ thread[t].iCreate \in Nat /\ k \in Nat /\ CountsAt(t)
      /\ NumHere(t) \in Int /\ WorkLen(t) \in Nat \ {0} /\ SetupFacts
  BY <1>0, ThreadTyped
<1>3. k \in thread[t].iDelete .. thread[t].iDelete + WorkLen(t) - 1
  BY <1>0, <1>2
<1>4. s \in DOMAIN slots /\ slots[s] \in SlotRec /\ SlotAt(t, k)
  BY <1>0, <1>2, <1>3, NameForFacts DEF IInv, SlotsInTurn, Types
<1> DEFINE natt == slots[s].natt.name
           pc == IF slots[s].natt = NoAtt THEN "advance" ELSE "delete"
           allowed == thread[t].createAllowed /\ ~stopped
           th == [thread[t] EXCEPT !.natt = natt, !.createAllowed = allowed, !.pc = pc]
<1>5. thread' = [thread EXCEPT ![t] = th]
  BY <1>0, <1>2 DEF CloseForDelete
<1>6. natt \in Name /\ pc \in Deleting
  BY <1>4 DEF SlotRec, AttRec, Deleting
<1>7. allowed \in BOOLEAN /\ (~stopped => allowed)
  BY <1>2 DEF CountsAt, ThreadRec
<1> HIDE DEF pc, allowed, natt
<1>8. /\ th \in ThreadRec /\ th.pc = pc /\ th.iCreate = thread[t].iCreate
      /\ th.iDelete = k /\ th.natt = natt /\ th.createAllowed = allowed
  BY <1>0, <1>2, <1>6, <1>7 DEF ThreadRec
<1> HIDE DEF th
<1>9. Becomes(t, th) /\ thread'[t] = th
  BY <1>2, <1>5, <1>8, OneBecomes
<1>10. Steady
  BY <1>1, <1>9 DEF Steady, setupVars, Becomes
<1>11. /\ OnlySlot(s) /\ slots' \in [DOMAIN slots -> SlotRec]
       /\ slots'[s].name = NoName /\ slots'[s].nextIndex = slots[s].nextIndex
       /\ addrs' \in [DOMAIN virtNets -> [IPs -> SUBSET Name]]
       /\ Owners' /\ DuplicatesNoticed' /\ OwnNames' /\ Truth' /\ PendingCovers' /\ CDsOK'
  BY <1>1, <1>4, <1>10, SlotCloses
<1>12. CountsAt(t)'
  <2>1. WorkLen(t)' = WorkLen(t) /\ NumHere(t)' = NumHere(t) /\ stopped' = stopped
    BY <1>1, <1>10, SteadyWork
  <2>2. ~stopped => k < thread[t].iCreate
    BY <1>0, <1>1, <1>2 DEF CountsAt, MayCreate
  <2>3. pc # "done" /\ pc \notin Creating
    BY <1>6 DEF Creating, Naming, Deleting
  <2>4. /\ k <= NumHere(t) /\ thread[t].iCreate <= NumHere(t)
        /\ thread[t].iCreate <= k + WorkLen(t)
    BY <1>0, <1>2 DEF CountsAt
  <2> QED
    BY <1>1, <1>2, <1>7, <1>8, <1>9, <2>1, <2>2, <2>3, <2>4 DEF CountsAt
<1>13. ASSUME NEW i \in thread[t].iDelete .. thread[t].iDelete + WorkLen(t) - 1
       PROVE  SlotAt(t, i)'
  <2>1. SlotAt(t, i)
    BY <1>13 DEF IInv, SlotsInTurn
  <2>2. Work(t, i)' = Work(t, i) /\ NameFor(t, i)' = NameFor(t, i)
    BY <1>10, SteadyWork
  <2>3. thread'[t].pc \notin Naming /\ thread'[t].pc # "create"
    BY <1>6, <1>8, <1>9 DEF Naming, Deleting
  <2>4. CASE i = k
    BY <1>0, <1>11, <2>1, <2>2, <2>3, <2>4 DEF SlotAt
  <2>5. CASE i # k
    <3>1. Work(t, i) # s /\ Work(t, i) \in DOMAIN slots
      BY <1>0, <1>2, <1>3, <2>5, OwnSlots, NameForFacts
    <3>2. slots'[Work(t, i)] = slots[Work(t, i)]
      BY <1>11, <3>1 DEF OnlySlot
    <3> QED
      BY <1>0, <1>1, <1>8, <1>9, <2>1, <2>2, <2>3, <2>5, <3>2 DEF SlotAt, Naming
  <2> QED
    BY <2>4, <2>5
<1>14. /\ Setup' /\ SetupFacts' /\ MainOK' /\ Phases' /\ Counts' /\ SlotsInTurn'
  <2>1. \A i \in (thread[t].iDelete .. thread[t].iDelete + WorkLen(t) - 1)' : SlotAt(t, i)'
    BY <1>0, <1>8, <1>9, <1>10, <1>13, SteadyWork
  <2> QED
    BY <1>0, <1>1, <1>2, <1>9, <1>11, <1>12, <2>1, SlotStep
<1>15. Types'
  BY <1>1, <1>9, <1>10, <1>11 DEF IInv, Types, Steady, apiVars, Becomes
<1>16. AllIssued'
  <2>1. Onward(t)
    BY <1>1, <1>8, <1>9 DEF Onward
  <2> QED
    BY <1>1, <1>9, <1>10, <2>1, AllOnward, IssuedStep DEF IInv, apiVars
<1>17. AllKept'
  <2> SUFFICES ASSUME NEW nm \in DOMAIN atts \ lost, NEW i \in 0 .. thread[t].iCreate,
                      Kept(nm, t, i)
               PROVE  i \in 0 .. thread'[t].iCreate /\ Kept(nm, t, i)'
    BY <1>0, <1>1, <1>2, <1>9, <1>10, <1>11, KeptStep DEF StillKept, apiVars
  <2>1. Work(t, i)' = Work(t, i) /\ NameFor(t, i)' = NameFor(t, i)
    BY <1>10, SteadyWork
  <2>2. /\ i >= k /\ Busy /\ nm = NameFor(t, i)
        /\ slots[Work(t, i)].name = nm /\ i # thread[t].iCreate
    BY <1>0, <1>1 DEF Kept, Busy
  <2>3. i \in thread[t].iDelete .. thread[t].iDelete + WorkLen(t) - 1 /\ i \in Nat
    BY <1>0, <1>2, <2>2 DEF CountsAt
  <2>4. CASE i = k
    <3>1. natt = nm /\ nm # NoName
      BY <1>0, <1>2, <1>4, <2>2, <2>3, <2>4, NameForFacts DEF SlotAt, natt
    <3>2. pc = "delete"
      BY <3>1 DEF pc, natt, NoAtt
    <3> QED
      BY <1>8, <1>9, <2>1, <2>2, <2>4, <3>1, <3>2 DEF Kept
  <2>5. CASE i # k
    <3>1. Work(t, i) # s /\ Work(t, i) \in DOMAIN slots
      BY <1>0, <1>2, <1>3, <2>3, <2>5, OwnSlots, NameForFacts
    <3>2. slots'[Work(t, i)] = slots[Work(t, i)]
      BY <1>11, <3>1 DEF OnlySlot
    <3> QED
      BY <1>8, <1>9, <2>1, <2>2, <3>2 DEF Kept
  <2> QED
    BY <2>4, <2>5
<1> QED
  BY <1>11, <1>14, <1>15, <1>16, <1>17 DEF IInv

LEMMA CloseAtEndStep ==
    ASSUME IInv, CloseAtEnd
    PROVE  IInv'
<1>1. /\ UNCHANGED <<setupVars, cds, stopped, thread, phase, apiVars, lost>>
      /\ phase = "drive" /\ \A t \in DOMAIN thread : thread[t].pc = "done"
  BY DEF CloseAtEnd
<1>2. PICK s \in DOMAIN slots : /\ CloseSlot(s, slots[s])
                                /\ slots' = [slots EXCEPT ![s] = Closed(slots[s])]
  BY DEF CloseAtEnd
<1>3. Steady
  BY <1>1, <1>2 DEF Steady, setupVars
<1>4. /\ OnlySlot(s) /\ slots' \in [DOMAIN slots -> SlotRec]
      /\ slots'[s].name = NoName /\ slots'[s].nextIndex = slots[s].nextIndex
      /\ addrs' \in [DOMAIN virtNets -> [IPs -> SUBSET Name]]
      /\ Owners' /\ DuplicatesNoticed' /\ OwnNames' /\ Truth' /\ PendingCovers' /\ CDsOK'
  BY <1>1, <1>2, <1>3, SlotCloses
<1>5. Setup' /\ MainOK' /\ Phases'
  BY <1>1, <1>3, SteadySetup DEF IInv, MainOK, Phases, setupVars
<1>6. Counts'
  BY <1>1, <1>3, SteadyWork DEF IInv, Counts, CountsAt
<1>7. Types'
  BY <1>1, <1>3, <1>4 DEF IInv, Types, Steady, apiVars
<1>8. SlotsInTurn'
  <2> SUFFICES ASSUME NEW t \in DOMAIN thread,
                      NEW i \in thread[t].iDelete .. thread[t].iDelete + WorkLen(t) - 1
               PROVE  SlotAt(t, i)'
    BY <1>1, <1>3, SteadyWork DEF SlotsInTurn
  <2>1. SlotAt(t, i)
    BY DEF IInv, SlotsInTurn
  <2>2. Work(t, i)' = Work(t, i) /\ NameFor(t, i)' = NameFor(t, i)
    BY <1>3, SteadyWork
  <2>3. Work(t, i) \in DOMAIN slots
    <3>1. SetupFacts /\ i \in Nat
      BY ThreadTyped
    <3> QED
      BY <3>1, NameForFacts
  <2>4. CASE Work(t, i) = s
    BY <1>1, <1>4, <2>1, <2>2, <2>4 DEF SlotAt, Naming
  <2>5. CASE Work(t, i) # s
    BY <1>1, <1>4, <2>1, <2>2, <2>3, <2>5 DEF SlotAt, OnlySlot
  <2> QED
    BY <2>4, <2>5
<1>9. AllIssued'
  <2>1. \A u \in DOMAIN thread : Onward(u) /\ thread[u].iCreate \in Nat
    BY <1>1, ThreadTyped DEF Onward
  <2> QED
    BY <1>1, <1>3, <2>1, IssuedStep DEF IInv, apiVars
<1>10. AllKept'
  <2>1. ~Busy'
    BY <1>1 DEF Busy
  <2>2. ASSUME NEW name, NEW t \in DOMAIN thread, NEW i, Kept(name, t, i)
        PROVE  Kept(name, t, i)'
    <3>1. Work(t, i)' = Work(t, i) /\ NameFor(t, i)' = NameFor(t, i)
      BY <1>3, SteadyWork
    <3> QED
      BY <1>1, <2>1, <2>2, <3>1 DEF Kept
  <2> QED
    BY <1>1, <2>2 DEF IInv, AllKept, apiVars
<1> QED
  BY <1>4, <1>5, <1>6, <1>7, <1>8, <1>9, <1>10 DEF IInv

\* The attachment of the slot that was closed is deleted, the call is repeated,
\* or it is given up.
LEMMA TryDeleteStep ==
    ASSUME IInv, NEW t \in DOMAIN thread, tryDelete(t)
    PROVE  IInv'
<1>0. PICK k, s, natt : k = thread[t].iDelete /\ s = Work(t, k) /\ natt = thread[t].natt
  OBVIOUS
<1>1. /\ UNCHANGED <<setupVars, bookVars, stopped, phase, events>>
      /\ phase = "drive" /\ thread[t].pc = "delete"
  BY DEF tryDelete, At
<1>2. /\ thread[t] \in ThreadRec /\ thread \in [DOMAIN thread -> ThreadRec]
      /\ thread[t].iCreate \in Nat /\ k \in Nat /\ CountsAt(t)
      /\ NumHere(t) \in Int /\ WorkLen(t) \in Nat \ {0} /\ SetupFacts
  BY <1>0, ThreadTyped
<1>3. PICK pc \in Deleting :
         /\ thread' = [thread EXCEPT ![t] = [thread[t] EXCEPT !.pc = pc]]
         /\ atts' = atts \/ atts' = [n \in DOMAIN atts \ {natt} |-> atts[n]]
         /\ lost \subseteq lost'
         /\ pc = "advance" => natt \notin DOMAIN atts' \ lost'
  <2>1. CASE /\ atts' = [n \in DOMAIN atts \ {natt} |-> atts[n]]
             /\ thread' = Step(t, "advance")
             /\ UNCHANGED <<lost, budget>>
    <3>1. natt \notin DOMAIN atts' /\ lost \subseteq lost'
      BY <2>1
    <3>2. thread' = [thread EXCEPT ![t] = [thread[t] EXCEPT !.pc = "advance"]]
      BY <1>2, <2>1 DEF Step
    <3> QED
      BY <2>1, <3>1, <3>2 DEF Deleting
  <2>2. CASE /\ thread' = Step(t, "advance") /\ lost' = lost \cup {natt}
             /\ atts' = atts \/ atts' = [n \in DOMAIN atts \ {natt} |-> atts[n]]
    <3>1. natt \in lost' /\ lost \subseteq lost'
      BY <2>2
    <3>2. thread' = [thread EXCEPT ![t] = [thread[t] EXCEPT !.pc = "advance"]]
      BY <1>2, <2>2 DEF Step
    <3> QED
      BY <2>2, <3>1, <3>2 DEF Deleting
  <2>3. CASE /\ UNCHANGED <<thread, lost>>
             /\ atts' = atts \/ atts' = [n \in DOMAIN atts \ {natt} |-> atts[n]]
    <3>1. thread' = [thread EXCEPT ![t] = [thread[t] EXCEPT !.pc = "delete"]]
      BY <1>1, <1>2, <2>3 DEF ThreadRec
    <3> QED
      BY <2>3, <3>1 DEF Deleting
  <2> QED
    BY <1>0, <2>1, <2>2, <2>3, Zenon DEF tryDelete, withRetries
<1>4. /\ DOMAIN atts' \subseteq DOMAIN atts /\ atts' \in [DOMAIN atts' -> AttRec]
      /\ DOMAIN atts' \subseteq Name
      /\ \A n \in DOMAIN atts' : atts'[n] = atts[n]
  BY <1>3 DEF IInv, Types
<1> DEFINE th == [thread[t] EXCEPT !.pc = pc]
<1>5. /\ th \in ThreadRec /\ th.pc = pc /\ th.iCreate = thread[t].iCreate
      /\ th.iDelete = k /\ th.natt = natt /\ th.createAllowed = thread[t].createAllowed
  BY <1>0, <1>2 DEF ThreadRec
<1>6. thread' = [thread EXCEPT ![t] = th]
  BY <1>3
<1> HIDE DEF th
<1>7. Becomes(t, th) /\ thread'[t] = th
  BY <1>2, <1>5, <1>6, OneBecomes
<1>8. OnlySlot(s) /\ slots' = slots
  BY <1>1 DEF OnlySlot, bookVars
<1>9. Steady
  BY <1>1, <1>7, <1>8 DEF Steady, setupVars, Becomes
<1>10. thread'[t].pc \in Deleting /\ thread[t].pc \in Deleting
  BY <1>1, <1>5, <1>7 DEF Deleting
<1>11. CountsAt(t)'
  <2>1. WorkLen(t)' = WorkLen(t) /\ NumHere(t)' = NumHere(t) /\ stopped' = stopped
    BY <1>1, <1>9, SteadyWork
  <2> QED
    BY <1>0, <1>2, <1>5, <1>7, <1>10, <2>1 DEF CountsAt, Creating, Naming, Deleting
<1>12. /\ Setup' /\ SetupFacts' /\ MainOK' /\ Phases' /\ Counts' /\ SlotsInTurn'
  <2>1. ASSUME NEW i \in thread[t].iDelete .. thread[t].iDelete + WorkLen(t) - 1
        PROVE  SlotAt(t, i)'
    <3>1. SlotAt(t, i)
      BY <2>1 DEF IInv, SlotsInTurn
    <3>2. Work(t, i)' = Work(t, i) /\ NameFor(t, i)' = NameFor(t, i)
      BY <1>9, SteadyWork
    <3>3. thread'[t].pc \notin Naming /\ thread[t].pc \notin Naming /\ thread'[t].pc # "create"
      BY <1>10 DEF Naming, Deleting
    <3> QED
      BY <1>0, <1>5, <1>7, <1>8, <1>10, <3>1, <3>2, <3>3 DEF SlotAt
  <2>2. \A i \in (thread[t].iDelete .. thread[t].iDelete + WorkLen(t) - 1)' : SlotAt(t, i)'
    BY <1>0, <1>5, <1>7, <1>9, <2>1, SteadyWork
  <2> QED
    BY <1>0, <1>1, <1>2, <1>7, <1>8, <1>11, <2>2, SlotStep
<1>13. Types'
  BY <1>1, <1>4, <1>7, <1>8, <1>9 DEF IInv, Types, Steady, bookVars, Becomes
<1>14. CDsOK' /\ OwnNames' /\ PendingCovers' /\ Owners' /\ DuplicatesNoticed'
  BY <1>1 DEF IInv, CDsOK, OwnNames, OwnName, PendingCovers, Owners, DuplicatesNoticed,
              setupVars, bookVars
<1>15. Truth'
  <2>1. events' = events
    BY <1>1
  <2> QED
    BY <1>4, <1>8, <2>1 DEF IInv, Truth, SlotsTellTruth
<1>16. AllIssued'
  <2>1. Onward(t)
    BY <1>1, <1>5, <1>7 DEF Onward
  <2> QED
    BY <1>1, <1>4, <1>7, <1>9, <2>1, AllOnward, IssuedStep DEF IInv
<1>17. AllKept'
  <2> SUFFICES ASSUME NEW nm \in DOMAIN atts' \ lost', NEW i \in 0 .. thread[t].iCreate,
                      Kept(nm, t, i)
               PROVE  i \in 0 .. thread'[t].iCreate /\ Kept(nm, t, i)'
    <3>1. \A nm \in DOMAIN atts' \ lost' : nm \in DOMAIN atts \ lost
      BY <1>3, <1>4
    <3> QED
      BY <1>0, <1>1, <1>2, <1>7, <1>8, <1>9, <3>1, KeptStep DEF StillKept
  <2>1. Work(t, i)' = Work(t, i) /\ NameFor(t, i)' = NameFor(t, i)
    BY <1>9, SteadyWork
  <2>2. /\ i >= k /\ Busy /\ nm = NameFor(t, i) /\ i # thread[t].iCreate
        /\ slots[Work(t, i)].name = nm \/ (i = k /\ natt = nm)
    BY <1>0, <1>1 DEF Kept, Busy
  <2>3. natt = nm => pc = "delete"
    BY <1>3 DEF Deleting
  <2> QED
    BY <1>5, <1>7, <1>8, <2>1, <2>2, <2>3 DEF Kept
<1> QED
  BY <1>12, <1>13, <1>14, <1>15, <1>16, <1>17 DEF IInv

\* The slot is free for the attachment of the next turn.
LEMMA AdvanceStep ==
    ASSUME IInv, NEW t \in DOMAIN thread, Advance(t)
    PROVE  IInv'
<1>0. PICK k, s, size : /\ k = thread[t].iDelete /\ s = Work(t, k)
                        /\ size = virtNets[s[1]].size
  OBVIOUS
<1>1. /\ UNCHANGED <<setupVars, cds, addrs, warned, stopped, phase, apiVars, lost>>
      /\ phase = "drive" /\ thread[t].pc = "advance"
  BY DEF Advance, At
<1>2. /\ thread[t] \in ThreadRec /\ thread \in [DOMAIN thread -> ThreadRec]
      /\ thread[t].iCreate \in Nat /\ k \in Nat /\ CountsAt(t)
      /\ NumHere(t) \in Int /\ WorkLen(t) \in Nat \ {0} /\ SetupFacts
  BY <1>0, ThreadTyped
<1>3. k \in thread[t].iDelete .. thread[t].iDelete + WorkLen(t) - 1
  BY <1>0, <1>2
<1>4. s \in DOMAIN slots /\ slots[s] \in SlotRec /\ SlotAt(t, k)
  BY <1>0, <1>2, <1>3, NameForFacts DEF IInv, SlotsInTurn, Types
<1>5. slots[s].name = NoName /\ slots[s].nextIndex = NameFor(t, k)[2]
  BY <1>0, <1>1, <1>4 DEF SlotAt, Deleting
<1> DEFINE index == slots[s].nextIndex + size
           slot == [slots[s] EXCEPT !.nextIndex = index]
           next == k + 1
           th == [thread[t] EXCEPT !.pc = "loop", !.iDelete = next, !.natt = NoName]
<1>6. slots' = [slots EXCEPT ![s] = slot] /\ thread' = [thread EXCEPT ![t] = th]
  BY <1>0, <1>2, <1>4 DEF Advance
<1>7. index \in Int /\ next \in Nat
  <2>1. slots[s].nextIndex \in Int /\ size \in Int
    BY <1>0, <1>2, <1>4, SlotIndex DEF SlotRec
  <2> QED
    BY <1>2, <2>1
<1> HIDE DEF index, next
<1>8. /\ slot \in SlotRec /\ slot.nextIndex = index
      /\ slot.name = slots[s].name /\ slot.node = slots[s].node /\ slot.natt = slots[s].natt
      /\ slot.ready = slots[s].ready /\ slot.tested = slots[s].tested
      /\ slot.broken = slots[s].broken
  BY <1>4, <1>7 DEF SlotRec
<1>9. /\ th \in ThreadRec /\ th.pc = "loop" /\ th.iCreate = thread[t].iCreate
      /\ th.iDelete = next /\ th.createAllowed = thread[t].createAllowed
  BY <1>2, <1>7 DEF ThreadRec, Name
<1> HIDE DEF slot, th
<1>10. Becomes(t, th) /\ thread'[t] = th
  BY <1>2, <1>6, <1>9, OneBecomes
<1>11. /\ OnlySlot(s) /\ slots'[s] = slot /\ slots' \in [DOMAIN slots -> SlotRec]
  BY <1>4, <1>6, <1>8 DEF OnlySlot, IInv, Types
<1>12. Steady
  BY <1>1, <1>10, <1>11 DEF Steady, setupVars, OnlySlot, Becomes
<1>13. next = k + 1
  BY DEF next
<1>14. CountsAt(t)'
  <2>1. WorkLen(t)' = WorkLen(t) /\ NumHere(t)' = NumHere(t) /\ stopped' = stopped
    BY <1>1, <1>12, SteadyWork
  <2>2. /\ k < NumHere(t) /\ thread[t].iCreate <= NumHere(t)
        /\ thread[t].iCreate <= k + WorkLen(t)
        /\ ~stopped => thread[t].createAllowed /\ k < thread[t].iCreate
    BY <1>0, <1>1, <1>2 DEF CountsAt, Deleting
  <2> QED
    BY <1>2, <1>9, <1>10, <1>13, <2>1, <2>2 DEF CountsAt, Creating, Naming, Deleting
<1>15. ASSUME NEW i \in next .. next + WorkLen(t) - 1
       PROVE  SlotAt(t, i)'
  <2>1. Work(t, i)' = Work(t, i) /\ NameFor(t, i)' = NameFor(t, i)
    BY <1>12, SteadyWork
  <2>2. CASE i = k + WorkLen(t)
    <3>1. Work(t, i) = s /\ NameFor(t, i)[2] = index
      BY <1>0, <1>2, <1>5, <2>2, NextTurn DEF index
    <3> QED
      BY <1>5, <1>8, <1>9, <1>10, <1>11, <2>1, <3>1 DEF SlotAt, Naming, Deleting
  <2>3. CASE i # k + WorkLen(t)
    <3>1. i \in thread[t].iDelete .. thread[t].iDelete + WorkLen(t) - 1 /\ i # k /\ i \in Nat
      BY <1>0, <1>2, <1>13, <2>3
    <3>2. SlotAt(t, i)
      BY <3>1 DEF IInv, SlotsInTurn
    <3>3. Work(t, i) # s /\ Work(t, i) \in DOMAIN slots
      BY <1>0, <1>2, <1>3, <3>1, OwnSlots, NameForFacts
    <3>4. slots'[Work(t, i)] = slots[Work(t, i)]
      BY <1>11, <3>3 DEF OnlySlot
    <3> QED
      BY <1>1, <1>9, <1>10, <2>1, <3>2, <3>4 DEF SlotAt, Naming, Deleting
  <2> QED
    BY <2>2, <2>3
<1>16. /\ Setup' /\ SetupFacts' /\ MainOK' /\ Phases' /\ Counts' /\ SlotsInTurn'
  <2>1. \A i \in (thread[t].iDelete .. thread[t].iDelete + WorkLen(t) - 1)' : SlotAt(t, i)'
    BY <1>9, <1>10, <1>12, <1>15, SteadyWork
  <2> QED
    BY <1>0, <1>1, <1>2, <1>10, <1>11, <1>14, <2>1, SlotStep
<1>17. Types'
  BY <1>1, <1>10, <1>11, <1>12 DEF IInv, Types, Steady, apiVars, Becomes
<1>18. CDsOK' /\ OthersPend(s)
  BY <1>1 DEF IInv, CDsOK, OthersPend, setupVars
<1>19. OwnNames' /\ Truth' /\ PendingCovers'
  <2>0. OwnNames /\ Truth /\ PendingCovers /\ OwnName(s)
    BY <1>4 DEF IInv, OwnNames
  <2>1. OwnName(s)'
    BY <1>8, <1>11, <1>12, <2>0 DEF OwnName, Steady
  <2>2. atts' = atts /\ events' = events
    BY <1>1 DEF apiVars
  <2>3. slots'[s].name = NoName /\ NoName \notin DOMAIN atts
    BY <1>5, <1>8, <1>11, NoNameNotIssued
  <2> QED
    BY <1>4, <1>11, <1>12, <1>18, <2>0, <2>1, <2>2, <2>3, BooksStep
<1>20. Owners' /\ DuplicatesNoticed'
  BY <1>1, <1>4, <1>8, <1>11, AddressKept DEF IInv
<1>21. AllIssued'
  <2>1. Onward(t)
    BY <1>1, <1>9, <1>10 DEF Onward
  <2> QED
    BY <1>1, <1>10, <1>12, <2>1, AllOnward, IssuedStep DEF IInv, apiVars
<1>22. AllKept'
  <2> SUFFICES ASSUME NEW nm \in DOMAIN atts \ lost, NEW i \in 0 .. thread[t].iCreate,
                      Kept(nm, t, i)
               PROVE  i \in 0 .. thread'[t].iCreate /\ Kept(nm, t, i)'
    BY <1>0, <1>1, <1>2, <1>10, <1>11, <1>12, KeptStep DEF StillKept, apiVars
  <2>1. Work(t, i)' = Work(t, i) /\ NameFor(t, i)' = NameFor(t, i)
    BY <1>12, SteadyWork
  <2>2. /\ i >= k /\ Busy /\ nm = NameFor(t, i) /\ i # thread[t].iCreate
        /\ slots[Work(t, i)].name = nm /\ i \in Nat
    BY <1>0, <1>1, <1>2 DEF Kept, Busy
  <2>3. nm # NoName /\ Work(t, i) \in DOMAIN slots
    BY <1>2, <2>2, NameForFacts
  <2>4. i >= next
    BY <1>0, <1>2, <1>5, <1>13, <2>2, <2>3
  <2>5. slots'[Work(t, i)].name = nm
    BY <1>8, <1>11, <2>2, <2>3 DEF OnlySlot
  <2> QED
    BY <1>9, <1>10, <2>1, <2>2, <2>4, <2>5 DEF Kept
<1> QED
  BY <1>16, <1>17, <1>18, <1>19, <1>20, <1>21, <1>22 DEF IInv

-----------------------------------------------------------------------------
(* Notifications, and the status that others write.                         *)

\* A broadcast changes no thread's place in its work.
LEMMA AllWoken ==
    ASSUME IInv, Steady, stopped' = stopped, NEW i,
           thread' = thread \/ thread' = Broadcast(thread, i)
    PROVE  /\ thread' \in [DOMAIN thread -> ThreadRec] /\ Counts'
           /\ \A u \in DOMAIN thread : Idle(u) /\ thread'[u].early = thread[u].early
<1>1. thread \in [DOMAIN thread -> ThreadRec]
  BY DEF IInv, Types
<1>2. \A u \in DOMAIN thread : Woken(thread[u], thread'[u])
  BY BroadcastWakes DEF Woken
<1>3. thread' = [u \in DOMAIN thread |-> thread'[u]]
  BY <1>1 DEF Broadcast
<1>4. ASSUME NEW u \in DOMAIN thread
      PROVE  /\ thread'[u] \in ThreadRec /\ Idle(u) /\ thread'[u].early = thread[u].early
             /\ CountsAt(u)'
  <2>1. /\ thread[u] \in ThreadRec /\ Woken(thread[u], thread'[u])
    BY <1>1, <1>2
  <2>2. /\ thread'[u] \in ThreadRec /\ Idle(u) /\ thread'[u].early = thread[u].early
    BY <2>1, WokenFields DEF Idle, Naming, Deleting
  <2>3. WorkLen(u)' = WorkLen(u) /\ NumHere(u)' = NumHere(u)
    BY SteadyWork
  <2>4. CountsAt(u)
    BY DEF IInv, Counts
  <2>5. CountsAt(u)'
    BY <2>1, <2>3, <2>4, WokenFields DEF CountsAt, Creating, Naming, Deleting
  <2> QED
    BY <2>2, <2>5
<1>5. thread' \in [DOMAIN thread -> ThreadRec]
  BY <1>3, <1>4
<1>6. Counts'
  BY <1>4 DEF Counts, Steady
<1> QED
  BY <1>4, <1>5, <1>6

LEMMA IssuedName ==
    ASSUME IInv, NEW name, NEW s, Issued(name, s)
    PROVE  name # NoName /\ SlotOfName(name) = s
<1>1. PICK v \in DOMAIN thread : \E i \in 0 .. thread[v].iCreate :
         name = NameFor(v, i) /\ s = Work(v, i)
  BY Zenon DEF Issued
<1>2. PICK i \in 0 .. thread[v].iCreate : name = NameFor(v, i) /\ s = Work(v, i)
  BY <1>1
<1>3. i \in Nat /\ SetupFacts
  BY ThreadTyped
<1> QED
  BY <1>2, <1>3, NameForFacts, SlotOfNameFor

LEMMA TailOf ==
    ASSUME NEW S, NEW q \in Seq(S), q # <<>>
    PROVE  /\ Tail(q) \in Seq(S) /\ 1 \in DOMAIN q /\ Head(q) = q[1] /\ Head(q) \in S
           /\ \A n \in DOMAIN Tail(q) : \E m \in DOMAIN q : Tail(q)[n] = q[m]
<1>1. /\ Tail(q) \in Seq(S) /\ Len(q) \in Nat /\ Len(q) > 0 /\ Len(Tail(q)) = Len(q) - 1
      /\ DOMAIN q = 1 .. Len(q) /\ DOMAIN Tail(q) = 1 .. Len(Tail(q))
      /\ Head(q) = q[1] /\ Head(q) \in S
  OBVIOUS
<1>2. \A n \in 1 .. Len(q) - 1 : Tail(q)[n] = q[n + 1] /\ n + 1 \in 1 .. Len(q)
  BY <1>1
<1> QED
  BY <1>1, <1>2

\* What a notification leaves in the slot.
LEMMA ObservedFields ==
    ASSUME NEW slot \in SlotRec, NEW natt \in AttRec, NEW new, new = Observed(slot, natt)
    PROVE  /\ new \in SlotRec /\ new.natt = natt /\ new.name = slot.name
           /\ new.node = slot.node /\ new.nextIndex = slot.nextIndex
           /\ new.ready => slot.ready \/ natt.ifc
           /\ new.tested => slot.tested \/ (natt.ifc /\ natt.report # "none")
           /\ ~new.tested => ~slot.tested /\ (natt.ifc => natt.report = "none")
           /\ ~new.broken => ~slot.broken /\ (natt.ifc \/ ~natt.errs)
<1> DEFINE r == slot.ready \/ natt.ifc
           d == slot.tested \/ (natt.ifc /\ natt.report # "none")
           b == slot.broken \/ (~natt.ifc /\ natt.errs)
<1>1. r \in BOOLEAN /\ d \in BOOLEAN /\ b \in BOOLEAN
  OBVIOUS
<1>2. new = [slot EXCEPT !.natt = natt, !.ready = r, !.tested = d, !.broken = b]
  BY Zenon DEF Observed
<1> HIDE DEF r, d, b
<1>3. /\ new \in SlotRec /\ new.natt = natt /\ new.name = slot.name
      /\ new.node = slot.node /\ new.nextIndex = slot.nextIndex
      /\ new.ready = r /\ new.tested = d /\ new.broken = b
  BY <1>1, <1>2 DEF SlotRec
<1> QED
  BY <1>3, Zenon DEF r, d, b

LEMMA Verdicts ==
    ASSUME NEW slot \in SlotRec, NEW natt \in AttRec
    PROVE  /\ Verdict(slot, natt) \in {"none", "pass", "fail", "broken"}
           /\ (natt.ifc => natt.report = "none") /\ (natt.ifc \/ ~natt.errs)
                 => Verdict(slot, natt) = "none"
<1>1. /\ natt.ifc \in BOOLEAN /\ natt.errs \in BOOLEAN /\ slot.tested \in BOOLEAN
      /\ slot.broken \in BOOLEAN /\ natt.report \in {"none", "pass", "fail"}
  BY DEF AttRec, SlotRec
<1> QED
  BY <1>1 DEF Verdict

\* A notification of the slot's current attachment.
LEMMA ObserveStateStep ==
    ASSUME IInv, events # <<>>, NEW e, e = Head(events),
           slots[e.slot].name = e.natt.name, observeState(e.slot, e.natt),
           events' = Tail(events), UNCHANGED <<setupVars, stopped, phase, atts, lost, budget>>
    PROVE  IInv'
<1>0. PICK s, natt, name : s = e.slot /\ natt = e.natt /\ name = natt.name
  OBVIOUS
<1>1. /\ events' \in Seq([slot : DOMAIN slots, natt : AttRec]) /\ e = events[1]
      /\ 1 \in DOMAIN events /\ e \in [slot : DOMAIN slots, natt : AttRec]
      /\ \A n \in DOMAIN events' : \E m \in DOMAIN events : events'[n] = events[m]
  <2> DEFINE S == [slot : DOMAIN slots, natt : AttRec]
  <2>1. events \in Seq(S)
    BY DEF IInv, Types
  <2> HIDE DEF S
  <2>2. /\ events' \in Seq(S) /\ e = events[1] /\ 1 \in DOMAIN events /\ e \in S
        /\ \A n \in DOMAIN events' : \E m \in DOMAIN events : events'[n] = events[m]
    BY <2>1, TailOf
  <2> QED
    BY <2>2 DEF S
<1>2. s \in DOMAIN slots /\ natt \in AttRec /\ slots[s].name = name /\ slots[s] \in SlotRec
  BY <1>0, <1>1 DEF IInv, Types
<1>3. Issued(name, s)
  BY <1>0, <1>1 DEF IInv, AllIssued
<1>4. name # NoName
  BY <1>3, IssuedName
<1> DEFINE new == Observed(slots[s], natt)
           verdict == Verdict(slots[s], natt)
<1>5. /\ new \in SlotRec /\ new.natt = natt /\ new.name = slots[s].name
      /\ new.node = slots[s].node /\ new.nextIndex = slots[s].nextIndex
      /\ new.ready => slots[s].ready \/ natt.ifc
      /\ new.tested => slots[s].tested \/ (natt.ifc /\ natt.report # "none")
      /\ ~new.tested => ~slots[s].tested /\ (natt.ifc => natt.report = "none")
      /\ ~new.broken => ~slots[s].broken /\ (natt.ifc \/ ~natt.errs)
  BY <1>2, ObservedFields
<1>6. /\ verdict \in {"none", "pass", "fail", "broken"}
      /\ (natt.ifc => natt.report = "none") /\ (natt.ifc \/ ~natt.errs) => verdict = "none"
  BY <1>2, Verdicts
<1>7. /\ slots' = [slots EXCEPT ![s] = new]
      /\ IF slots[s].natt.ip # natt.ip
         THEN ipAddressChanged(s[1], slots[s].node, slots[s].natt.ip, natt.ip, slots[s].name)
         ELSE UNCHANGED <<addrs, nodeMap, warned>>
      /\ thread' = thread \/ thread' = Broadcast(thread, s[1])
  BY <1>0 DEF observeState
<1>8. /\ verdict = "none" => cds' = cds
      /\ verdict # "none" =>
            \/ cds' = [cds EXCEPT ![s[1]] = NoteTested(cds[s[1]], s[2])]
            \/ cds' = [cds EXCEPT ![s[1]] = NoteNoTest(cds[s[1]], s[2])]
  <2>1. cds' = CASE verdict = "none" -> cds
                 [] verdict = "pass" -> [cds EXCEPT ![s[1]] = NoteTested(cds[s[1]], s[2])]
                 [] verdict \in {"fail", "broken"}
                      -> [cds EXCEPT ![s[1]] = NoteNoTest(cds[s[1]], s[2])]
    BY <1>0 DEF observeState
  <2> HIDE DEF verdict
  <2> QED
    BY <1>6, <2>1
<1> HIDE DEF new, verdict
<1>9. /\ OnlySlot(s) /\ slots'[s] = new /\ slots' \in [DOMAIN slots -> SlotRec]
  BY <1>2, <1>5, <1>7 DEF OnlySlot, IInv, Types
<1>10. Steady
  <2>1. DOMAIN thread' = DOMAIN thread
    BY <1>7, BroadcastWakes
  <2> QED
    BY <1>9, <2>1 DEF Steady, setupVars, OnlySlot
<1>11. /\ thread' \in [DOMAIN thread -> ThreadRec] /\ Counts'
       /\ \A u \in DOMAIN thread : Idle(u) /\ thread'[u].early = thread[u].early
  BY <1>7, <1>10, AllWoken
<1>12. Setup' /\ SetupFacts /\ MainOK'
  BY <1>10, SteadySetup DEF IInv, MainOK, setupVars
<1>13. Phases'
  BY <1>10, <1>11 DEF IInv, Phases, Steady
<1>14. CDsOK' /\ OthersPend(s)
  <2>1. CASE verdict = "none"
    BY <1>8, <1>10, <2>1 DEF IInv, CDsOK, OthersPend, Steady
  <2>2. CASE verdict # "none"
    BY <1>2, <1>8, <1>10, <1>12, <2>2, DomainTold DEF IInv, Steady
  <2> QED
    BY <2>1, <2>2
<1>15. /\ addrs' \in [DOMAIN virtNets -> [IPs -> SUBSET Name]]
       /\ Owners' /\ DuplicatesNoticed'
  <2>1. /\ Types /\ OwnNames /\ Owners /\ DuplicatesNoticed
        /\ addrs \in [DOMAIN virtNets -> [IPs -> SUBSET Name]]
    BY DEF IInv, Types
  <2>2. natt.ip \in IPs \cup {0} /\ slots'[s].natt.ip = natt.ip
        /\ slots'[s].name = slots[s].name
    BY <1>2, <1>5, <1>9 DEF AttRec
  <2>3. CASE slots[s].natt.ip # natt.ip
    <3>1. ipAddressChangedInNS(s[1], slots[s].natt.ip, natt.ip, slots[s].name)
      BY <1>7, <2>3 DEF ipAddressChanged
    <3> QED
      BY <1>2, <1>4, <1>9, <1>12, <2>1, <2>2, <3>1, AddressMoved
  <2>4. CASE slots[s].natt.ip = natt.ip
    <3>1. addrs' = addrs /\ warned' = warned
      BY <1>7, <2>4
    <3> QED
      BY <1>2, <1>9, <2>1, <2>2, <2>4, <3>1, AddressKept
  <2> QED
    BY <2>3, <2>4
<1>16. Types'
  BY <1>1, <1>9, <1>10, <1>11, <1>15 DEF IInv, Types, Steady
<1>17. OwnNames' /\ Truth' /\ PendingCovers'
  <2>0. OwnNames /\ Truth /\ PendingCovers /\ OwnName(s)
    BY <1>2 DEF IInv, OwnNames
  <2>1. OwnName(s)'
    <3>1. slots'[s].name = slots[s].name /\ slots'[s].node = slots[s].node
      BY <1>5, <1>9
    <3> QED
      BY <1>2, <1>4, <1>10, <2>0, <3>1 DEF OwnName, Steady
  <2>2. slots'[s].name \in DOMAIN atts =>
              /\ slots'[s].ready => atts[slots'[s].name].ifc
              /\ slots'[s].tested => atts[slots'[s].name].report # "none"
    <3>1. SUFFICES ASSUME name \in DOMAIN atts
                   PROVE  /\ new.ready => atts[name].ifc
                          /\ new.tested => atts[name].report # "none"
      BY <1>2, <1>5, <1>9
    <3>2. /\ natt.ifc => atts[name].ifc
          /\ natt.report # "none" => atts[name].report # "none"
      BY <1>0, <1>1, <2>0, <3>1 DEF Truth
    <3>3. /\ slots[s].ready => atts[name].ifc
          /\ slots[s].tested => atts[name].report # "none"
      BY <1>2, <2>0, <3>1 DEF Truth, SlotsTellTruth
    <3> QED
      BY <1>5, <3>2, <3>3
  <2>3. slots'[s].name # NoName /\ ~slots'[s].tested /\ ~slots'[s].broken
              => s[2] \in cds'[s[1]].pendingIndices
    <3> SUFFICES ASSUME ~new.tested, ~new.broken PROVE s[2] \in cds'[s[1]].pendingIndices
      BY <1>9
    <3>1. verdict = "none" /\ ~slots[s].tested /\ ~slots[s].broken
      BY <1>5, <1>6
    <3> QED
      BY <1>2, <1>4, <1>8, <2>0, <3>1 DEF PendingCovers
  <2> QED
    BY <1>1, <1>2, <1>9, <1>10, <1>14, <2>0, <2>1, <2>2, <2>3, BooksStep
<1>18. SlotsInTurn'
  <2> SUFFICES ASSUME NEW t \in DOMAIN thread,
                      NEW i \in thread[t].iDelete .. thread[t].iDelete + WorkLen(t) - 1
               PROVE  SlotAt(t, i)'
    BY <1>10, <1>11, SteadyWork DEF SlotsInTurn, Steady, Idle
  <2>1. SlotAt(t, i)
    BY DEF IInv, SlotsInTurn
  <2>2. Work(t, i)' = Work(t, i) /\ NameFor(t, i)' = NameFor(t, i)
    BY <1>10, SteadyWork
  <2>3. Work(t, i) \in DOMAIN slots
    <3>1. SetupFacts /\ i \in Nat
      BY ThreadTyped
    <3> QED
      BY <3>1, NameForFacts
  <2>4. CASE Work(t, i) = s
    <3>1. ~(i = thread[t].iCreate /\ thread[t].pc = "create")
      <4> SUFFICES ASSUME i = thread[t].iCreate, thread[t].pc = "create" PROVE FALSE
        OBVIOUS
      <4>1. name = NameFor(t, i)
        BY <1>2, <2>1, <2>4 DEF SlotAt, Naming
      <4> QED
        BY <1>3, <4>1, NameIsFresh
    <3>2. /\ thread'[t].pc \in Naming <=> thread[t].pc \in Naming
          /\ thread'[t].pc \in Deleting => thread[t].pc \in Deleting
          /\ thread'[t].pc = "create" => thread[t].pc = "create"
          /\ thread'[t].iCreate = thread[t].iCreate /\ thread'[t].iDelete = thread[t].iDelete
      BY <1>11 DEF Idle, Naming, Deleting
    <3>3. /\ slots'[s].nextIndex = slots[s].nextIndex /\ slots'[s].name = slots[s].name
          /\ slots'[s].natt.name = slots'[s].name
      BY <1>0, <1>2, <1>5, <1>9
    <3> QED
      BY <2>1, <2>2, <2>4, <3>1, <3>2, <3>3 DEF SlotAt
  <2>5. CASE Work(t, i) # s
    BY <1>9, <1>10, <1>11, <2>1, <2>3, <2>5, SlotAtStays DEF OnlySlot
  <2> QED
    BY <2>4, <2>5
<1>19. AllIssued'
  <2>1. \A u \in DOMAIN thread : Onward(u) /\ thread[u].iCreate \in Nat
    BY <1>11, IdleOnward, ThreadTyped
  <2> QED
    BY <1>1, <1>10, <2>1, IssuedStep DEF IInv
<1>20. AllKept'
  <2>1. Busy' => Busy
    BY <1>10, <1>11, IdleDone, BusyBefore DEF Steady
  <2>2. \A u \in DOMAIN slots : slots'[u].name = slots[u].name
    BY <1>5, <1>9 DEF OnlySlot
  <2> SUFFICES ASSUME NEW nm \in DOMAIN atts \ lost
               PROVE  \E t \in DOMAIN thread' : \E i \in 0 .. thread'[t].iCreate :
                         Kept(nm, t, i)'
    BY DEF AllKept
  <2>3. PICK t \in DOMAIN thread : \E i \in 0 .. thread[t].iCreate : Kept(nm, t, i)
    BY DEF IInv, AllKept
  <2>4. PICK i \in 0 .. thread[t].iCreate : Kept(nm, t, i)
    BY <2>3
  <2>5. Work(t, i) \in DOMAIN slots
    <3>1. i \in Nat
      BY ThreadTyped
    <3> QED
      BY <1>12, <3>1, NameForFacts
  <2>6. Kept(nm, t, i)' /\ t \in DOMAIN thread' /\ i \in 0 .. thread'[t].iCreate
    BY <1>10, <1>11, <2>1, <2>2, <2>4, <2>5, KeptStays DEF Steady, Idle
  <2> QED
    BY <2>6
<1> QED
  BY <1>12, <1>11, <1>13, <1>14, <1>15, <1>16, <1>17, <1>18, <1>19, <1>20 DEF IInv

LEMMA OnAttachmentEventStep ==
    ASSUME IInv, OnAttachmentEvent
    PROVE  IInv'
<1>0. PICK e : e = Head(events)
  OBVIOUS
<1>1. /\ events # <<>> /\ events' = Tail(events)
      /\ UNCHANGED <<setupVars, stopped, phase, atts, lost, budget>>
  BY DEF OnAttachmentEvent
<1>2. CASE slots[e.slot].name = e.natt.name /\ observeState(e.slot, e.natt)
  BY <1>0, <1>1, <1>2, ObserveStateStep
<1>3. CASE UNCHANGED <<bookVars, thread, stoppers>>
  <2>1. Steady
    BY <1>1, <1>3 DEF Steady, setupVars, bookVars
  <2>2. /\ events' \in Seq([slot : DOMAIN slots, natt : AttRec])
        /\ \A n \in DOMAIN events' : \E m \in DOMAIN events : events'[n] = events[m]
    <3> DEFINE S == [slot : DOMAIN slots, natt : AttRec]
    <3>1. events \in Seq(S)
      BY DEF IInv, Types
    <3> HIDE DEF S
    <3>2. /\ events' \in Seq(S)
          /\ \A n \in DOMAIN events' : \E m \in DOMAIN events : events'[n] = events[m]
      BY <1>1, <3>1, TailOf
    <3> QED
      BY <3>2 DEF S
  <2>3. Setup' /\ MainOK' /\ Phases'
    BY <1>1, <1>3, <2>1, SteadySetup DEF IInv, MainOK, Phases, setupVars
  <2>4. Types'
    BY <1>1, <1>3, <2>1, <2>2 DEF IInv, Types, Steady, bookVars
  <2>5. Counts'
    BY <1>1, <1>3, <2>1, SteadyWork DEF IInv, Counts, CountsAt
  <2>6. CDsOK' /\ OwnNames' /\ PendingCovers' /\ Owners' /\ DuplicatesNoticed'
    BY <1>1, <1>3 DEF IInv, CDsOK, OwnNames, OwnName, PendingCovers, Owners,
                      DuplicatesNoticed, setupVars, bookVars
  <2>7. Truth'
    <3>1. SlotsTellTruth'
      BY <1>1, <1>3 DEF IInv, Truth, SlotsTellTruth, bookVars
    <3>2. ASSUME NEW n \in DOMAIN events', events'[n].natt.name \in DOMAIN atts
          PROVE  /\ events'[n].natt.ifc => atts[events'[n].natt.name].ifc
                 /\ events'[n].natt.report # "none"
                       => atts[events'[n].natt.name].report # "none"
      <4>1. PICK m \in DOMAIN events : events'[n] = events[m]
        BY <2>2
      <4> QED
        BY <3>2, <4>1 DEF IInv, Truth
    <3> QED
      BY <1>1, <3>1, <3>2 DEF Truth
  <2>8. \A u \in DOMAIN thread : Idle(u) /\ Onward(u) /\ thread[u].iCreate \in Nat
    BY <1>3, ThreadTyped DEF Idle, Onward
  <2>9. AllIssued'
    BY <1>1, <2>1, <2>2, <2>8, IssuedStep DEF IInv
  <2>10. SlotsInTurn'
    BY <1>3, <2>1, <2>8, SlotAtStays, SteadyWork DEF IInv, SlotsInTurn, bookVars
  <2>11. AllKept'
    <3>1. ASSUME NEW nm, NEW t \in DOMAIN thread, NEW i, Kept(nm, t, i)
          PROVE  Kept(nm, t, i)'
      BY <1>3, <2>1, <2>8, <3>1, KeptStays DEF Busy, bookVars
    <3> QED
      BY <1>1, <1>3, <3>1 DEF IInv, AllKept
  <2> QED
    BY <2>3, <2>4, <2>5, <2>6, <2>7, <2>9, <2>10, <2>11 DEF IInv
<1> QED
  BY <1>0, <1>2, <1>3 DEF OnAttachmentEvent

\* The status of an attachment goes on only, and is notified.
LEMMA WriteStatusStep ==
    ASSUME IInv, NEW name \in DOMAIN atts, WriteStatus(name)
    PROVE  IInv'
<1>1. UNCHANGED <<setupVars, bookVars, stopped, thread, phase, lost>>
  BY DEF WriteStatus
<1>2. PICK s \in DOMAIN slots : Issued(name, s)
  BY DEF IInv, AllIssued
<1>3. SlotOfName(name) = s
  BY <1>2, IssuedName
<1>4. PICK natt \in AttRec :
         /\ natt.name = name
         /\ atts[name].ifc => natt.ifc
         /\ atts[name].report # "none" => natt.report # "none"
         /\ atts' = [atts EXCEPT ![name] = natt]
         /\ events' = Append(events, [slot |-> s, natt |-> natt])
  <2>1. PICK ip \in IPs \cup {0}, ifc \in BOOLEAN, report \in {"none", "pass", "fail"},
             errs \in BOOLEAN :
           LET natt == [name |-> name, ip |-> ip, ifc |-> ifc, report |-> report,
                        errs |-> errs]
           IN /\ (ifc => ip # 0) /\ (report # "none" => ifc) /\ (errs => ~ifc)
              /\ atts[name].ifc => ifc /\ ip = atts[name].ip
              /\ atts[name].report # "none" => report = atts[name].report
              /\ natt # atts[name]
              /\ atts' = [atts EXCEPT ![name] = natt]
              /\ events' = Append(events, [slot |-> SlotOfName(name), natt |-> natt])
    BY Zenon DEF WriteStatus
  <2> DEFINE natt == [name |-> name, ip |-> ip, ifc |-> ifc, report |-> report, errs |-> errs]
  <2>2. name \in Name
    BY DEF IInv, Types
  <2>3. natt \in AttRec /\ natt.name = name /\ natt.ifc = ifc /\ natt.report = report
    BY <2>2 DEF AttRec
  <2>4. /\ atts[name].ifc => natt.ifc
        /\ atts[name].report # "none" => natt.report # "none"
        /\ atts' = [atts EXCEPT ![name] = natt]
        /\ events' = Append(events, [slot |-> s, natt |-> natt])
    BY <1>3, <2>1, <2>3
  <2> HIDE DEF natt
  <2> QED
    BY <2>3, <2>4
<1>5. Steady
  BY <1>1 DEF Steady, setupVars, bookVars
<1>6. /\ DOMAIN atts' = DOMAIN atts /\ atts'[name] = natt
      /\ \A n \in DOMAIN atts : n # name => atts'[n] = atts[n]
      /\ atts' \in [DOMAIN atts' -> AttRec] /\ DOMAIN atts' \subseteq Name
  BY <1>4 DEF IInv, Types
<1>7. /\ events' \in Seq([slot : DOMAIN slots, natt : AttRec])
      /\ \A n \in DOMAIN events' : \/ n \in DOMAIN events /\ events'[n] = events[n]
                                   \/ events'[n].slot = s /\ events'[n].natt = natt
  <2> DEFINE S == [slot : DOMAIN slots, natt : AttRec]
  <2>0. PICK e : e = [slot |-> s, natt |-> natt]
    OBVIOUS
  <2>1. events \in Seq(S) /\ e \in S /\ e.slot = s /\ e.natt = natt
    BY <2>0 DEF IInv, Types
  <2>2. events' = Append(events, e)
    BY <1>4, <2>0
  <2> HIDE DEF S
  <2>3. /\ Append(events, e) \in Seq(S)
        /\ \A n \in DOMAIN Append(events, e) :
              \/ n \in DOMAIN events /\ Append(events, e)[n] = events[n]
              \/ Append(events, e)[n] = e
    BY <2>1, Appended
  <2>4. /\ events' \in Seq(S)
        /\ \A n \in DOMAIN events' : \/ n \in DOMAIN events /\ events'[n] = events[n]
                                     \/ events'[n] = e
    BY <2>2, <2>3, Zenon
  <2> QED
    BY <2>1, <2>4, Zenon DEF S
<1>8. Setup' /\ MainOK' /\ Phases'
  BY <1>1, <1>5, <1>6, SteadySetup DEF IInv, MainOK, Phases, setupVars
<1>9. Types'
  BY <1>1, <1>5, <1>6, <1>7 DEF IInv, Types, Steady, bookVars
<1>10. Counts'
  BY <1>1, <1>5, SteadyWork DEF IInv, Counts, CountsAt
<1>11. CDsOK' /\ OwnNames' /\ PendingCovers' /\ Owners' /\ DuplicatesNoticed'
  BY <1>1 DEF IInv, CDsOK, OwnNames, OwnName, PendingCovers, Owners, DuplicatesNoticed,
              setupVars, bookVars
<1>12. Truth'
  <2>1. ASSUME NEW n \in DOMAIN atts
        PROVE  /\ atts[n].ifc => atts'[n].ifc
               /\ atts[n].report # "none" => atts'[n].report # "none"
    BY <1>4, <1>6
  <2>2. SlotsTellTruth'
    BY <1>1, <1>6, <2>1 DEF IInv, Truth, SlotsTellTruth, bookVars
  <2>3. ASSUME NEW n \in DOMAIN events', events'[n].natt.name \in DOMAIN atts'
        PROVE  /\ events'[n].natt.ifc => atts'[events'[n].natt.name].ifc
               /\ events'[n].natt.report # "none"
                     => atts'[events'[n].natt.name].report # "none"
    <3>1. CASE events'[n].natt = natt
      BY <1>4, <1>6, <3>1
    <3>2. CASE n \in DOMAIN events /\ events'[n] = events[n]
      BY <1>6, <2>1, <2>3, <3>2 DEF IInv, Truth
    <3> QED
      BY <1>7, <3>1, <3>2
  <2> QED
    BY <2>2, <2>3 DEF Truth
<1>13. \A u \in DOMAIN thread : Idle(u) /\ Onward(u) /\ thread[u].iCreate \in Nat
  BY <1>1, ThreadTyped DEF Idle, Onward
<1>14. AllIssued'
  <2>1. Issued(name, s)'
    BY <1>2, <1>5, <1>13, IssuedStays
  <2>2. ASSUME NEW n \in DOMAIN events'
        PROVE  \/ \E m \in DOMAIN events : events'[n] = events[m]
               \/ Issued(events[n].natt.name, events[n].slot)'
    <3>1. CASE events'[n].slot = s /\ events'[n].natt = natt
      <4>1. events'[n].slot = s /\ events'[n].natt.name = name
        BY <1>4, <3>1
      <4> QED
        BY <2>1, <4>1 DEF Issued
    <3> QED
      BY <1>7, <3>1
  <2> QED
    BY <1>5, <1>6, <1>13, <2>2, IssuedStep DEF IInv
<1>15. SlotsInTurn'
  BY <1>1, <1>5, <1>13, SlotAtStays, SteadyWork DEF IInv, SlotsInTurn, bookVars
<1>16. AllKept'
  <2>1. ASSUME NEW nm, NEW t \in DOMAIN thread, NEW i, Kept(nm, t, i)
        PROVE  Kept(nm, t, i)'
    BY <1>1, <1>5, <1>13, <2>1, KeptStays DEF Busy, bookVars
  <2> QED
    BY <1>1, <1>6, <2>1 DEF IInv, AllKept
<1> QED
  BY <1>8, <1>9, <1>10, <1>11, <1>12, <1>14, <1>15, <1>16 DEF IInv

-----------------------------------------------------------------------------
(* The layout of the virtual networks.                                      *)

\* The suffixes of all subnets fit into the 24 bits that suffixBits knows.
SizesFit == \A fl \in Flags : fl.top_net_size + 3 <= 2^24

\* The least number principle, for the inductions over networks below: the least
\* network at which a claim fails is not the first, and the claim holds at the one
\* before it.
LEMMA Least ==
    ASSUME NEW T \in SUBSET Nat, T # {}
    PROVE  \E x \in T : \A y \in T : x <= y
<1> DEFINE R == OpToRel(<, Nat)
<1>1. IsWellFoundedOn(R, Nat)
  BY NatLessThanWellFounded
<1>2. R = {ss \in Nat \X Nat : ss[1] < ss[2]}
  BY DEF OpToRel
<1> HIDE DEF R
<1>3. PICK x \in T : \A y \in T : ~(<<y, x>> \in R)
  BY <1>1, WFMin
<1>4. ASSUME NEW y \in T PROVE x <= y
  <2>1. ~(<<y, x>> \in {ss \in Nat \X Nat : ss[1] < ss[2]})
    BY <1>2, <1>3
  <2>2. ~(y < x)
    BY <2>1
  <2> QED
    BY <2>2
<1> QED
  BY <1>4

\* The powers of two, which the provers know one by one only.
LEMMA Powers ==
    /\ \A b \in 0 .. 24 : 2^b \in Nat \ {0}
    /\ \A b \in 0 .. 23 : 2^(b + 1) = 2 * 2^b
<1> DEFINE P(b) == 2^b
<1>1. /\ P(0) = 1 /\ P(1) = 2 /\ P(2) = 4 /\ P(3) = 8 /\ P(4) = 16 /\ P(5) = 32
      /\ P(6) = 64 /\ P(7) = 128 /\ P(8) = 256 /\ P(9) = 512 /\ P(10) = 1024
      /\ P(11) = 2048 /\ P(12) = 4096 /\ P(13) = 8192 /\ P(14) = 16384
      /\ P(15) = 32768 /\ P(16) = 65536 /\ P(17) = 131072 /\ P(18) = 262144
      /\ P(19) = 524288 /\ P(20) = 1048576 /\ P(21) = 2097152 /\ P(22) = 4194304
      /\ P(23) = 8388608 /\ P(24) = 16777216
  OBVIOUS
<1> HIDE DEF P
<1>2. ASSUME NEW b \in 0 .. 24 PROVE P(b) \in Nat \ {0}
  BY <1>1
<1>3. ASSUME NEW b \in 0 .. 23 PROVE P(b + 1) = 2 * P(b)
  BY <1>1
<1>4. /\ \A b \in 0 .. 24 : P(b) \in Nat \ {0}
      /\ \A b \in 0 .. 23 : P(b + 1) = 2 * P(b)
  BY <1>2, <1>3
<1> QED
  BY <1>4, Zenon DEF P

\* A smaller power divides a greater one.
LEMMA PowerDivides ==
    ASSUME NEW b \in 0 .. 24, NEW c \in 0 .. 24, b <= c
    PROVE  \E q \in Nat \ {0} : 2^c = q * 2^b
<1> DEFINE P(x) == 2^x
           T == {x \in b .. 24 : ~ \E q \in Nat \ {0} : P(x) = q * P(b)}
<1>1. /\ \A x \in 0 .. 24 : P(x) \in Nat \ {0}
      /\ \A x \in 0 .. 23 : P(x + 1) = 2 * P(x)
  BY Powers
<1> HIDE DEF P
<1>2. ASSUME T # {} PROVE FALSE
  <2>1. T \in SUBSET Nat
    OBVIOUS
  <2>2. PICK x \in T : \A y \in T : x <= y
    BY <1>2, <2>1, Least
  <2>3. P(b) = 1 * P(b)
    BY <1>1
  <2>4. x \in b + 1 .. 24
    BY <2>2, <2>3
  <2>5. x - 1 \in b .. 24 /\ x - 1 \notin T /\ x - 1 \in 0 .. 23
    BY <2>2, <2>4
  <2>6. PICK q \in Nat \ {0} : P(x - 1) = q * P(b)
    BY <2>5
  <2>7. P(x) = 2 * P(x - 1)
    <3>1. (x - 1) + 1 = x
      BY <2>4
    <3> QED
      BY <1>1, <2>5, <3>1
  <2>8. 2 * q \in Nat \ {0} /\ P(x) = (2 * q) * P(b)
    BY <1>1, <2>6, <2>7
  <2> QED
    BY <2>2, <2>8
<1>3. \E q \in Nat \ {0} : P(c) = q * P(b)
  BY <1>2
<1> QED
  BY <1>3, Zenon DEF P

\* The number of bits: enough for the addresses, and no more than needed.
LEMMA Bits ==
    ASSUME NEW n \in Nat, n + 3 <= 2^24
    PROVE  /\ suffixBits(n) \in 0 .. 24
           /\ 2^suffixBits(n) >= n + 3
           /\ \A b \in 0 .. 24 : 2^b >= n + 3 => suffixBits(n) <= b
<1> DEFINE P(x) == 2^x
           S == {b \in 0 .. 24 : P(b) >= n + 3}
           m == CHOOSE x \in S : \A y \in S : x =< y
<1>1. suffixBits(n) = m
  BY Zenon DEF suffixBits, Min
<1>2. 24 \in S
  <2>1. 2^24 \in Nat
    BY Powers
  <2>2. P(24) >= n + 3
    BY <2>1
  <2> QED
    BY <2>2
<1> HIDE DEF P
<1>3. S \in SUBSET Nat /\ S # {}
  BY <1>2
<1>4. \E x \in S : \A y \in S : x =< y
  BY <1>3, Least
<1>5. m \in S /\ \A y \in S : m =< y
  BY <1>4, Zenon
<1> HIDE DEF m
<1>6. m \in 0 .. 24 /\ P(m) >= n + 3 /\ \A b \in 0 .. 24 : P(b) >= n + 3 => m <= b
  BY <1>5
<1> QED
  BY <1>1, <1>6, Zenon DEF P

\* CeilDiv rounds up.
LEMMA CeilDivs ==
    ASSUME NEW a \in Nat, NEW b \in Nat \ {0}
    PROVE  /\ CeilDiv(a, b) \in Nat
           /\ CeilDiv(a, b) * b >= a
           /\ CeilDiv(a, b) * b < a + b
<1> DEFINE x == a + b - 1
           d == x \div b
           r == x % b
<1>1. x \in Nat
  OBVIOUS
<1>2. d \in Nat /\ r \in Nat /\ r < b /\ x = d * b + r
  BY <1>1, Quotient
<1>3. CeilDiv(a, b) = d
  BY DEF CeilDiv
<1>4. x = a + b - 1
  OBVIOUS
<1> HIDE DEF d, r, x
<1>5. d * b \in Nat
  BY <1>2
<1>6. d * b >= a /\ d * b < a + b
  BY <1>2, <1>4, <1>5
<1> QED
  BY <1>2, <1>3, <1>6

\* The networks come in the order of their sizes, the greatest first.
LEMMA SizesFall ==
    ASSUME NEW fl \in FlagNames, NEW i \in Nat \ {0}, NEW k \in Nat \ {0}, i <= k
    PROVE  NetSize(fl, k) <= NetSize(fl, i) /\ NetSize(fl, i) <= fl.top_net_size
<1> DEFINE L == fl.law_bias
           n == fl.top_net_size
           a == (1 + L) * n
           c == NetSize(fl, i)
           d == NetSize(fl, k)
<1>1. L \in Nat /\ n \in Nat \ {0}
  BY DEF FlagNames
<1>2. a \in Nat /\ i + L \in Nat \ {0} /\ k + L \in Nat \ {0}
  BY <1>1
<1>3. c = CeilDiv(a, i + L) /\ d = CeilDiv(a, k + L)
  BY DEF NetSize
<1> HIDE DEF c, d, a
<1>4. c \in Nat /\ c * (i + L) >= a /\ c * (i + L) < a + (i + L)
  BY <1>2, <1>3, CeilDivs
<1>5. d \in Nat /\ d * (k + L) >= a /\ d * (k + L) < a + (k + L)
  BY <1>2, <1>3, CeilDivs
<1>6. d <= c
  <2> SUFFICES ASSUME c < d PROVE FALSE
    BY <1>4, <1>5
  <2>1. c * (k + L) + (k + L) <= d * (k + L)
    BY <1>2, <1>4, <1>5, Multiples
  <2>2. c * (i + L) <= c * (k + L)
    <3>1. c * (k - i) >= 0
      BY <1>4
    <3> QED
      BY <1>1, <1>4, <3>1
  <2>3. c * (k + L) \in Nat /\ d * (k + L) \in Nat /\ c * (i + L) \in Nat
    BY <1>1, <1>4, <1>5
  <2> QED
    BY <1>1, <1>2, <1>4, <1>5, <2>1, <2>2, <2>3
<1>7. c <= n
  <2> SUFFICES ASSUME n < c PROVE FALSE
    BY <1>1, <1>4
  <2>1. n * (i + L) + (i + L) <= c * (i + L)
    BY <1>1, <1>2, <1>4, Multiples
  <2>2. a <= n * (i + L)
    <3>1. n * (i - 1) >= 0
      BY <1>1
    <3> QED
      BY <1>1, <3>1 DEF a
  <2>3. n * (i + L) \in Nat /\ c * (i + L) \in Nat
    BY <1>1, <1>4
  <2> QED
    BY <1>1, <1>2, <1>4, <2>1, <2>2, <2>3
<1> QED
  BY <1>6, <1>7 DEF c, d

\* The bits of the addresses within a subnet of network i.
BitsOf(fl, i) == suffixBits(FirstSubnetSize(fl, i))

\* The blocks of a network are large enough for its slots, and no larger than
\* those of the networks before it.
LEMMA Blocks ==
    ASSUME NEW fl \in FlagNames, fl.top_net_size + 3 <= 2^24, NEW i \in Nat \ {0}
    PROVE  /\ BitsOf(fl, i) \in 0 .. 24
           /\ 2^BitsOf(fl, i) \in Nat \ {0}
           /\ NumBlocks(fl, i) \in {1, 2} /\ NumSubnets(fl, i) \in {1, 2}
           /\ NumSubnets(fl, i) * (2^BitsOf(fl, i) - 3) >= NetSize(fl, i)
           /\ BitsOf(fl, i + 1) \in 0 .. 24 /\ BitsOf(fl, i + 1) <= BitsOf(fl, i)
<1> DEFINE top == fl.top_net_size
           m == NetSize(fl, i)
           n == NetSize(fl, i + 1)
           f == FirstSubnetSize(fl, i)
           g == FirstSubnetSize(fl, i + 1)
           p == 2^suffixBits(f)
           c == NumSubnets(fl, i)
           all == 2^24
<1>1. top \in Nat /\ i + 1 \in Nat \ {0} /\ all \in Nat /\ top + 3 <= all
  BY Powers DEF FlagNames
<1>2. m \in Nat \ {0} /\ n \in Nat \ {0} /\ n <= m /\ m <= top
  BY <1>1, Sizes, SizesFall
<1>3. \/ f = m /\ g = n
      \/ f = m - (m \div 2) /\ g = n - (n \div 2)
  <2>1. CASE fl.singleNetwork
    <3>1. f = m - 0 /\ g = n - 0
      BY <2>1, Zenon DEF FirstSubnetSize
    <3> HIDE DEF f, g, m, n
    <3> QED
      BY <1>2, <3>1
  <2>2. CASE ~fl.singleNetwork
    BY <2>2, Zenon DEF FirstSubnetSize
  <2> QED
    BY <2>1, <2>2
<1>4. c = IF f = m THEN 1 ELSE 2
  BY DEF NumSubnets
<1>5. f = m \/ f = m - (m \div 2)
  BY <1>3
<1> HIDE DEF m, n, f, g, all
<1>6. f \in Nat /\ g \in Nat /\ g <= f /\ f <= m
  BY <1>2, <1>3
<1>7. f + 3 <= all /\ g + 3 <= all
  BY <1>1, <1>2, <1>6
<1>8. /\ suffixBits(f) \in 0 .. 24 /\ p >= f + 3
      /\ \A b \in 0 .. 24 : 2^b >= f + 3 => suffixBits(f) <= b
  BY <1>6, <1>7, Bits DEF all
<1>9. /\ suffixBits(g) \in 0 .. 24
      /\ \A b \in 0 .. 24 : 2^b >= g + 3 => suffixBits(g) <= b
  BY <1>6, <1>7, Bits DEF all
<1>10. p \in Nat \ {0}
  BY <1>8, Powers
<1>11. p >= g + 3
  BY <1>6, <1>8, <1>10
<1>12. suffixBits(g) <= suffixBits(f)
  BY <1>8, <1>9, <1>11, Zenon
<1> HIDE DEF p, c
<1>13. c \in {1, 2}
  BY <1>4
<1>14. c * (p - 3) >= m
  <2>1. CASE f = m
    BY <1>2, <1>4, <1>8, <1>10, <2>1
  <2>2. CASE f # m
    BY <1>2, <1>4, <1>5, <1>8, <1>10, <2>2
  <2> QED
    BY <2>1, <2>2
<1>15. NumBlocks(fl, i) \in {1, 2}
  BY <1>13 DEF NumBlocks, c
<1> QED
  BY <1>8, <1>9, <1>10, <1>12, <1>13, <1>14, <1>15, Zenon DEF BitsOf, p, c, f, g, m

\* The recursion by which main lays out one network after the other is well
\* founded: there is a function that obeys it.
LEMMA BaseAddresses ==
    ASSUME NEW fl \in FlagNames, NEW nets, nets = MakeVirtNets(fl)
    PROVE  \E f : /\ nets = [j \in 1 .. fl.num_nets |-> VirtNet(fl, j, f[j])]
                  /\ f = [j \in 1 .. fl.num_nets |->
                            IF j = 1 THEN 0 ELSE VirtNet(fl, j - 1, f[j - 1]).addrF + 1]
<1> DEFINE N == fl.num_nets
           V(i, a) == VirtNet(fl, i, a).addrF + 1
           Obeys(f, k) == f = [i \in 1 .. k |-> IF i = 1 THEN 0 ELSE V(i - 1, f[i - 1])]
           addr0 == CHOOSE f : Obeys(f, N)
           T == {k \in 0 .. N : ~ \E f : Obeys(f, k)}
<1>1. nets = [i \in 1 .. N |-> VirtNet(fl, i, addr0[i])]
  BY Zenon DEF MakeVirtNets
<1>2. N \in Nat
  BY DEF FlagNames
<1>3. ASSUME T # {} PROVE FALSE
  <2> HIDE DEF V, N
  <2>1. T \in SUBSET Nat
    BY <1>2
  <2>2. PICK k \in T : \A y \in T : k <= y
    BY <1>3, <2>1, Least
  <2>3. k # 0
    <3> DEFINE e == [i \in 1 .. 0 |-> 0]
    <3>1. 1 .. 0 = {}
      OBVIOUS
    <3>2. e = [i \in 1 .. 0 |-> IF i = 1 THEN 0 ELSE V(i - 1, e[i - 1])]
      BY <3>1
    <3>3. Obeys(e, 0)
      BY <3>2
    <3> QED
      BY <2>2, <3>3
  <2>4. k - 1 \in 0 .. N /\ k - 1 \notin T
    <3>1. k \in 0 .. N
      BY <2>2
    <3>2. k - 1 \in 0 .. N /\ ~(k <= k - 1)
      BY <1>2, <2>3, <3>1
    <3> HIDE DEF T
    <3> QED
      BY <2>2, <3>2, Zenon
  <2>5. PICK g : Obeys(g, k - 1)
    BY <2>4
  <2> DEFINE h == [i \in 1 .. k |-> IF i = 1 THEN 0 ELSE V(i - 1, g[i - 1])]
  <2>6. k \in Nat \ {0}
    BY <1>2, <2>2, <2>3
  <2>7. ASSUME NEW i \in 1 .. k - 1 PROVE h[i] = g[i]
    <3>1. g = [j \in 1 .. k - 1 |-> IF j = 1 THEN 0 ELSE V(j - 1, g[j - 1])]
      BY <2>5
    <3>2. i \in 1 .. k
      BY <2>6
    <3>3. g[i] = IF i = 1 THEN 0 ELSE V(i - 1, g[i - 1])
      BY <3>1, Zenon
    <3>4. h[i] = IF i = 1 THEN 0 ELSE V(i - 1, g[i - 1])
      BY <3>2, Zenon
    <3> QED
      BY <3>3, <3>4, Zenon
  <2>8. ASSUME NEW i \in 1 .. k, i # 1 PROVE g[i - 1] = h[i - 1]
    <3>1. i - 1 \in 1 .. k - 1
      BY <2>6, <2>8
    <3> QED
      BY <2>7, <3>1, Zenon
  <2>9. h = [i \in 1 .. k |-> IF i = 1 THEN 0 ELSE V(i - 1, h[i - 1])]
    <3> DEFINE H == [i \in 1 .. k |-> IF i = 1 THEN 0 ELSE V(i - 1, h[i - 1])]
    <3>1. ASSUME NEW i \in 1 .. k PROVE h[i] = H[i]
      <4>1. h[i] = IF i = 1 THEN 0 ELSE V(i - 1, g[i - 1])
        BY Zenon
      <4>2. H[i] = IF i = 1 THEN 0 ELSE V(i - 1, h[i - 1])
        BY Zenon
      <4> HIDE DEF h, H
      <4> QED
        BY <2>8, <4>1, <4>2, Zenon
    <3>2. /\ h = [i \in DOMAIN h |-> h[i]] /\ DOMAIN h = 1 .. k
          /\ H = [i \in DOMAIN H |-> H[i]] /\ DOMAIN H = 1 .. k
      OBVIOUS
    <3> HIDE DEF h, H
    <3>3. h = H
      BY <3>1, <3>2
    <3> QED
      BY <3>3 DEF H
  <2>10. Obeys(h, k)
    BY <2>9
  <2> QED
    BY <2>2, <2>10
<1>4. N \in 0 .. N /\ N \notin T
  BY <1>2, <1>3
<1>5. \E f : Obeys(f, N)
  BY <1>4
<1>6. Obeys(addr0, N)
  BY <1>5, Zenon
<1> QED
  BY <1>1, <1>6, Zenon

\* Each network begins where the one before it ends, at a multiple of its block:
\* the blocks before it are multiples of it.
LEMMA AddressesRise ==
    ASSUME NEW fl \in FlagNames, fl.top_net_size + 3 <= 2^24, NEW f,
           f = [j \in 1 .. fl.num_nets |->
                  IF j = 1 THEN 0 ELSE VirtNet(fl, j - 1, f[j - 1]).addrF + 1]
    PROVE  /\ \A i \in 1 .. fl.num_nets : \E r \in Nat : f[i] = r * 2^BitsOf(fl, i)
           /\ \A i \in 1 .. fl.num_nets : \A k \in i + 1 .. fl.num_nets :
                 f[k] >= f[i] + NumBlocks(fl, i) * 2^BitsOf(fl, i)
<1> DEFINE N == fl.num_nets
           p(i) == 2^BitsOf(fl, i)
           c(i) == NumBlocks(fl, i)
           T == {i \in 1 .. N : ~ \E r \in Nat : f[i] = r * p(i)}
<1>1. N \in Nat
  BY DEF FlagNames
<1>2. \A i \in Nat \ {0} :
         /\ p(i) \in Nat \ {0} /\ c(i) \in Nat
         /\ \E q \in Nat \ {0} : p(i) = q * p(i + 1)
  <2> SUFFICES ASSUME NEW i \in Nat \ {0}
               PROVE  /\ p(i) \in Nat \ {0} /\ c(i) \in Nat
                      /\ \E q \in Nat \ {0} : p(i) = q * p(i + 1)
    OBVIOUS
  <2>1. /\ BitsOf(fl, i) \in 0 .. 24 /\ p(i) \in Nat \ {0} /\ c(i) \in {1, 2}
        /\ BitsOf(fl, i + 1) \in 0 .. 24 /\ BitsOf(fl, i + 1) <= BitsOf(fl, i)
    BY Blocks, Zenon
  <2>2. \E q \in Nat \ {0} : p(i) = q * p(i + 1)
    BY <2>1, PowerDivides, Zenon
  <2> HIDE DEF p
  <2> QED
    BY <2>1, <2>2
<1>3. 1 \in 1 .. N => f[1] = 0
  BY Zenon
<1>4. ASSUME NEW i \in 2 .. N PROVE f[i] = (f[i - 1] + c(i - 1) * p(i - 1) - 1) + 1
  <2>1. i \in 1 .. N /\ i # 1
    BY <1>1
  <2>2. f[i] = VirtNet(fl, i - 1, f[i - 1]).addrF + 1
    BY <2>1, Zenon
  <2>3. VirtNet(fl, i - 1, f[i - 1]).addrF = f[i - 1] + c(i - 1) * p(i - 1) - 1
    BY DEF VirtNet, BitsOf
  <2> QED
    BY <2>2, <2>3, Zenon
<1> HIDE DEF p, c
<1>5. ASSUME T # {} PROVE FALSE
  <2>1. T \in SUBSET Nat
    BY <1>1
  <2>2. PICK i \in T : \A y \in T : i <= y
    BY <1>5, <2>1, Least
  <2>3. i \in 1 .. N /\ i \in Nat \ {0}
    BY <1>1, <2>2
  <2>4. i # 1
    <3>1. ASSUME i = 1 PROVE FALSE
      <4>1. f[i] = 0 * p(i)
        BY <1>2, <1>3, <2>3, <3>1
      <4> QED
        BY <2>2, <4>1
    <3> QED
      BY <3>1
  <2>5. i \in 2 .. N /\ i - 1 \in 1 .. N /\ i - 1 \in Nat \ {0} /\ ~(i <= i - 1) /\ (i - 1) + 1 = i
    BY <1>1, <2>3, <2>4
  <2>6. i - 1 \notin T
    <3> HIDE DEF T
    <3> QED
      BY <2>2, <2>5, Zenon
  <2>7. PICK r \in Nat : f[i - 1] = r * p(i - 1)
    BY <2>5, <2>6
  <2>8. PICK q \in Nat \ {0} : p(i - 1) = q * p(i)
    <3>1. \E q \in Nat \ {0} : p(i - 1) = q * p((i - 1) + 1)
      BY <1>2, <2>5
    <3> QED
      BY <2>5, <3>1
  <2>9. f[i] = (f[i - 1] + c(i - 1) * p(i - 1) - 1) + 1
    BY <1>4, <2>5
  <2> DEFINE x == p(i - 1)
             y == p(i)
             d == c(i - 1)
  <2>10. x \in Nat /\ y \in Nat /\ d \in Nat
    BY <1>2, <2>3, <2>5
  <2>11. f[i] = (r * x + d * x - 1) + 1 /\ x = q * y
    BY <2>7, <2>8, <2>9
  <2> HIDE DEF x, y, d
  <2>12. f[i] = r * x + d * x
    BY <2>10, <2>11
  <2>13. r * x + d * x = (r + d) * x
    BY <2>10
  <2>14. (r + d) * x = ((r + d) * q) * y /\ (r + d) * q \in Nat
    BY <2>10, <2>11
  <2>15. f[i] = ((r + d) * q) * y
    BY <2>12, <2>13, <2>14, Zenon
  <2>16. \E z \in Nat : f[i] = z * p(i)
    BY <2>14, <2>15, Zenon DEF y
  <2> QED
    BY <2>2, <2>16
<1>6. \A i \in 1 .. N : \E r \in Nat : f[i] = r * p(i)
  BY <1>5
<1>7. \A i \in 1 .. N : f[i] \in Nat /\ p(i) \in Nat /\ c(i) \in Nat /\ c(i) * p(i) \in Nat
  <2> SUFFICES ASSUME NEW i \in 1 .. N
               PROVE  f[i] \in Nat /\ p(i) \in Nat /\ c(i) \in Nat /\ c(i) * p(i) \in Nat
    OBVIOUS
  <2>0. i \in Nat \ {0}
    BY <1>1
  <2>1. p(i) \in Nat /\ c(i) \in Nat
    BY <1>2, <2>0
  <2>2. PICK r \in Nat : f[i] = r * p(i)
    BY <1>6
  <2> QED
    BY <2>1, <2>2
<1>8. ASSUME NEW i \in 2 .. N
      PROVE  /\ f[i] = f[i - 1] + c(i - 1) * p(i - 1) /\ f[i] >= f[i - 1]
             /\ f[i] \in Nat /\ f[i - 1] \in Nat
  <2> DEFINE x == f[i - 1]
             y == c(i - 1) * p(i - 1)
  <2>1. i \in 1 .. N /\ i - 1 \in 1 .. N
    BY <1>1
  <2>2. x \in Nat /\ y \in Nat /\ f[i] \in Nat
    BY <1>7, <2>1
  <2>3. f[i] = (x + y - 1) + 1
    BY <1>4, Zenon
  <2> HIDE DEF x, y
  <2>4. f[i] = x + y /\ f[i] >= x
    BY <2>2, <2>3
  <2> QED
    BY <2>2, <2>4, Zenon DEF x, y
<1>9. ASSUME NEW i \in 1 .. N, NEW k \in i + 1 .. N
      PROVE  f[k] >= f[i] + c(i) * p(i)
  <2> DEFINE z == f[i] + c(i) * p(i)
             U == {j \in i + 1 .. N : ~(f[j] >= z)}
  <2>1. z \in Nat
    <3> DEFINE y == c(i) * p(i)
    <3>1. f[i] \in Nat /\ y \in Nat
      BY <1>7, Zenon
    <3> HIDE DEF y
    <3>2. f[i] + y \in Nat
      BY <3>1
    <3> QED
      BY <3>2 DEF y
  <2>2. i \in Nat
    BY <1>1
  <2>3. ASSUME U # {} PROVE FALSE
    <3> HIDE DEF z
    <3>1. U \in SUBSET Nat
      BY <2>2
    <3>2. PICK j \in U : \A y \in U : j <= y
      BY <2>3, <3>1, Least
    <3>3. j \in i + 1 .. N /\ ~(f[j] >= z)
      BY <3>2
    <3>4. j \in 2 .. N /\ ~(j <= j - 1)
      BY <1>1, <2>2, <3>3
    <3>5. j # i + 1
      <4>1. ASSUME j = i + 1 PROVE FALSE
        <5>1. j - 1 = i
          BY <2>2, <4>1
        <5>2. f[j] = z
          BY <1>8, <3>4, <5>1, Zenon DEF z
        <5> QED
          BY <2>1, <3>3, <5>2
      <4> QED
        BY <4>1
    <3>6. j - 1 \in i + 1 .. N
      BY <1>1, <2>2, <3>3, <3>5
    <3>7. j - 1 \notin U
      <4> HIDE DEF U
      <4> QED
        BY <3>2, <3>4, Zenon
    <3>8. f[j - 1] >= z
      BY <3>6, <3>7
    <3>9. f[j] >= f[j - 1] /\ f[j] \in Nat /\ f[j - 1] \in Nat
      BY <1>8, <3>4, Zenon
    <3>10. f[j] >= z
      BY <2>1, <3>8, <3>9
    <3> QED
      BY <3>3, <3>10
  <2> HIDE DEF z
  <2>4. f[k] >= z
    BY <2>3
  <2> QED
    BY <2>4 DEF z
<1> QED
  BY <1>6, <1>9, Zenon DEF p, c

\* The subnets that main creates are what their CIDRs say and do not overlap.
LEMMA Layout ==
    ASSUME NEW fl \in FlagNames, fl.top_net_size + 3 <= 2^24, ~fl.just_count,
           NEW nets, nets = MakeVirtNets(fl), NEW i \in DOMAIN nets
    PROVE  /\ nets[i].addr0 % 2^nets[i].suffixBits = 0
           /\ nets[i].addrF = nets[i].addr0 + nets[i].subnets * 2^nets[i].suffixBits - 1
           /\ nets[i].subnets * (2^nets[i].suffixBits - 3) >= nets[i].size
           /\ \A k \in DOMAIN nets : k > i => nets[k].addr0 > nets[i].addrF
<1> DEFINE N == fl.num_nets
<1>1. PICK f : /\ nets = [j \in 1 .. N |-> VirtNet(fl, j, f[j])]
               /\ f = [j \in 1 .. N |->
                         IF j = 1 THEN 0 ELSE VirtNet(fl, j - 1, f[j - 1]).addrF + 1]
  BY BaseAddresses
<1>2. N \in Nat /\ DOMAIN nets = 1 .. N
  BY <1>1, Networks
<1>3. i \in 1 .. N /\ i \in Nat \ {0}
  BY <1>2
<1>4. \A j \in 1 .. N : nets[j].addr0 = f[j]
  BY <1>1 DEF VirtNet
<1> DEFINE b == BitsOf(fl, i)
           p == 2^b
           c == NumSubnets(fl, i)
<1>5. /\ nets[i].suffixBits = b
      /\ nets[i].addrF = f[i] + NumBlocks(fl, i) * p - 1
      /\ nets[i].subnets = c /\ nets[i].size = NetSize(fl, i)
  BY <1>1, <1>3 DEF VirtNet, BitsOf
<1>6. NumBlocks(fl, i) = c
  BY DEF NumBlocks
<1>7. /\ p \in Nat \ {0} /\ c \in {1, 2} /\ c * (p - 3) >= NetSize(fl, i)
  BY <1>3, Blocks, Zenon
<1>8. \A k \in 1 .. N : \E z \in Nat : f[k] = z * 2^BitsOf(fl, k)
  <2>1. f = [j \in 1 .. fl.num_nets |->
               IF j = 1 THEN 0 ELSE VirtNet(fl, j - 1, f[j - 1]).addrF + 1]
    BY <1>1
  <2>2. \A k \in 1 .. fl.num_nets : \E r \in Nat : f[k] = r * 2^BitsOf(fl, k)
    BY <2>1, AddressesRise, Zenon
  <2> QED
    BY <2>2
<1>9. PICK r \in Nat : f[i] = r * p
  BY <1>3, <1>8, Zenon
<1>10. \A k \in i + 1 .. N : f[k] >= f[i] + c * p
  BY <1>1, <1>3, <1>6, AddressesRise, Zenon
<1>11. \A k \in 1 .. N : f[k] \in Nat
  <2> SUFFICES ASSUME NEW k \in 1 .. N PROVE f[k] \in Nat
    OBVIOUS
  <2> DEFINE w == 2^BitsOf(fl, k)
  <2>1. w \in Nat
    BY <1>2, Blocks
  <2>2. PICK z \in Nat : f[k] = z * w
    BY <1>8
  <2> HIDE DEF w
  <2> QED
    BY <2>1, <2>2
<1> HIDE DEF p, c, b, N
<1>12. f[i] % p = 0
  <2>1. f[i] \in Int /\ r \in Int
    BY <1>3, <1>11
  <2> QED
    BY <1>7, <1>9, <2>1, MultipleOf, Zenon
<1>13. ASSUME NEW k \in DOMAIN nets, k > i PROVE nets[k].addr0 > nets[i].addrF
  <2>1. k \in i + 1 .. N /\ k \in 1 .. N
    BY <1>2, <1>3, <1>13
  <2>2. f[k] >= f[i] + c * p /\ f[k] \in Nat /\ f[i] \in Nat
    BY <1>3, <1>10, <1>11, <2>1
  <2>3. nets[k].addr0 = f[k] /\ nets[i].addrF = f[i] + c * p - 1
    BY <1>4, <1>5, <1>6, <2>1
  <2>4. c * p \in Nat
    BY <1>7
  <2> QED
    BY <2>2, <2>3, <2>4
<1>14. nets[i].addr0 = f[i]
  BY <1>3, <1>4
<1> QED
  BY <1>5, <1>6, <1>7, <1>12, <1>13, <1>14, Zenon DEF p

-----------------------------------------------------------------------------
(* The theorems.                                                            *)

LEMMA InitIInv == Init => IInv
<1> SUFFICES ASSUME Init PROVE IInv
  OBVIOUS
<1> DEFINE all == IF Drives(flags, virtNets) THEN SlotsOf(virtNets) ELSE {}
<1>1. /\ flags \in Flags /\ virtNets = MakeVirtNets(flags)
      /\ slots = [s \in all |-> EmptySlot(s[2])] /\ vnAttachments \in Orders(all)
      /\ thread = [t \in Threads |-> NewThread]
  BY DEF Init
<1> HIDE DEF all
<1>2. Setup
  <2>1. DOMAIN slots = all /\ DOMAIN thread = Threads
    BY <1>1
  <2> QED
    BY <1>1, <2>1 DEF Setup, all
<1>3. SetupFacts
  BY <1>2, SetupHolds
<1>4. \A s \in DOMAIN slots : slots[s] = EmptySlot(s[2]) /\ s[2] \in Int
  BY <1>1, <1>3, SlotIndex
<1>5. \A s \in DOMAIN slots : /\ slots[s] \in SlotRec /\ slots[s].name = NoName
                              /\ slots[s].node = NoNode /\ slots[s].natt.ip = 0
                              /\ slots[s].nextIndex = s[2]
  <2> SUFFICES ASSUME NEW s \in DOMAIN slots
               PROVE  /\ slots[s] \in SlotRec /\ slots[s].name = NoName
                      /\ slots[s].node = NoNode /\ slots[s].natt.ip = 0
                      /\ slots[s].nextIndex = s[2]
    OBVIOUS
  <2>1. NoAtt \in AttRec /\ NoAtt.ip = 0 /\ NoName \in Name
    BY DEF NoAtt, AttRec, Name
  <2>2. slots[s] = EmptySlot(s[2]) /\ s[2] \in Int
    BY <1>4
  <2> QED
    BY <2>1, <2>2 DEF EmptySlot, SlotRec
<1>6. \A t \in DOMAIN thread : thread[t] = NewThread
  BY <1>1
<1>7. /\ NewThread \in ThreadRec /\ NewThread.pc = "loop" /\ NewThread.iCreate = 0
      /\ NewThread.iDelete = 0 /\ NewThread.createAllowed
  BY DEF NewThread, ThreadRec, Name
<1>8. /\ cds = [i \in DOMAIN virtNets |-> [pendingIndices |-> {}, latestIndex |-> NoIndex]]
      /\ addrs = [i \in DOMAIN virtNets |-> [ip \in IPs |-> {}]]
      /\ stopped = FALSE /\ subnets = {} /\ initializedSubnets = {}
      /\ atts = [n \in {} |-> NoAtt] /\ events = <<>> /\ lost = {}
      /\ phase \in {"namespace", "end"}
  BY DEF Init
<1>9. Types
  <2>1. slots \in [DOMAIN slots -> SlotRec]
    BY <1>1, <1>5
  <2>2. thread \in [DOMAIN thread -> ThreadRec]
    BY <1>1, <1>6, <1>7
  <2>3. addrs \in [DOMAIN virtNets -> [IPs -> SUBSET Name]]
    BY <1>8
  <2>4. DOMAIN atts \subseteq Name /\ atts \in [DOMAIN atts -> AttRec]
    BY <1>8
  <2>5. events \in Seq([slot : DOMAIN slots, natt : AttRec]) /\ stopped \in BOOLEAN
    <3>1. ASSUME NEW S PROVE <<>> \in Seq(S)
      OBVIOUS
    <3> QED
      BY <1>8, <3>1, Zenon
  <2> QED
    BY <2>1, <2>2, <2>3, <2>4, <2>5 DEF Types
<1>10. CDsOK
  BY <1>8 DEF CDsOK, NoIndex
<1>11. MainOK
  BY <1>8 DEF MainOK
<1>12. Counts
  <2> SUFFICES ASSUME NEW t \in DOMAIN thread PROVE CountsAt(t)
    BY DEF Counts
  <2>1. /\ flags.num_attachments \in Nat /\ numThreads \in Nat \ {0} /\ t \in Nat
        /\ t < numThreads /\ WorkLen(t) \in Nat \ {0}
    <3>1. numThreads \in Nat /\ t \in Nat /\ t < numThreads /\ WorkLen(t) \in Nat \ {0}
      BY <1>3, ThreadIndex
    <3> QED
      BY <1>3, <3>1 DEF SetupFacts
  <2>2. NumHere(t) \in Nat
    <3> DEFINE x == flags.num_attachments + numThreads - 1 - t
    <3>1. x \in Nat
      BY <2>1
    <3>2. NumHere(t) = x \div numThreads
      BY DEF NumHere
    <3> HIDE DEF x
    <3> QED
      BY <2>1, <3>1, <3>2, Quotient
  <2> QED
    BY <1>6, <1>7, <2>1, <2>2 DEF CountsAt, Creating, Naming, Deleting
<1>13. SlotsInTurn
  <2> SUFFICES ASSUME NEW t \in DOMAIN thread,
                      NEW i \in thread[t].iDelete .. thread[t].iDelete + WorkLen(t) - 1
               PROVE  SlotAt(t, i)
    BY DEF SlotsInTurn
  <2>1. WorkLen(t) \in Nat \ {0} /\ thread[t].iDelete = 0
    BY <1>3, <1>6, <1>7, ThreadIndex
  <2>2. i \in Nat /\ i < WorkLen(t)
    BY <2>1
  <2>3. Work(t, i) \in DOMAIN slots
    BY <1>3, <2>2, NameForFacts
  <2>4. NameFor(t, i)[2] = Work(t, i)[2]
    <3>1. i \div WorkLen(t) = 0
      <4> DEFINE w == WorkLen(t)
                 d == i \div w
                 r == i % w
      <4>1. w \in Nat \ {0} /\ i < w
        BY <2>1, <2>2
      <4> HIDE DEF w
      <4>2. d \in Nat /\ r \in Nat /\ i = d * w + r
        BY <2>2, <4>1, Quotient
      <4> HIDE DEF d, r
      <4>3. ASSUME d # 0 PROVE FALSE
        <5>1. 0 < d /\ d \in Int /\ 0 \in Int /\ w \in Nat
          BY <4>1, <4>2, <4>3
        <5>2. 0 * w + w <= d * w
          BY <5>1, Multiples
        <5>3. 0 * w = 0 /\ d * w \in Int
          BY <4>1, <4>2, SMT
        <5> QED
          BY <2>2, <4>1, <4>2, <5>2, <5>3
      <4> QED
        BY <4>3 DEF d, w
    <3>2. NameFor(t, i)[2] = Work(t, i)[2] + 0 * virtNets[Work(t, i)[1]].size
      BY <3>1 DEF NameFor
    <3>3. Work(t, i)[2] \in Int /\ virtNets[Work(t, i)[1]].size \in Int
      BY <1>3, <2>3, SlotIndex
    <3> QED
      BY <3>2, <3>3
  <2> QED
    BY <1>5, <1>6, <1>7, <2>3, <2>4 DEF SlotAt, Naming, Deleting
<1>14. OwnNames
  BY <1>5 DEF OwnNames, OwnName
<1>15. DOMAIN atts = {} /\ DOMAIN events = {}
  BY <1>8
<1>16. AllIssued /\ AllKept /\ Phases
  BY <1>15 DEF AllIssued, AllKept, Phases
<1>17. Truth
  BY <1>15 DEF Truth, SlotsTellTruth
<1>18. PendingCovers /\ DuplicatesNoticed
  BY <1>5 DEF PendingCovers, DuplicatesNoticed
<1>19. Owners
  BY <1>5, <1>8, FS_EmptySet DEF Owners
<1> QED
  BY <1>2, <1>9, <1>10, <1>11, <1>12, <1>13, <1>14, <1>16, <1>17, <1>18, <1>19 DEF IInv

LEMMA NextIInv == IInv /\ [Next]_vars => IInv'
<1> SUFFICES ASSUME IInv, [Next]_vars PROVE IInv'
  OBVIOUS
<1>1. ASSUME NEW t \in DOMAIN thread, ThreadNext(t) PROVE IInv'
  BY <1>1, EndThreadStep, GetReadyStep, TimerGoesOffStep, LookAgainStep, NameSlotStep,
     CreateAttachmentStep, SetNetAttStep, CreateFailedStep, CloseForDeleteStep,
     TryDeleteStep, AdvanceStep, Zenon DEF ThreadNext
<1>2. CASE UNCHANGED vars
  <2>1. UNCHANGED <<flags, virtNets, vnAttachments, bookVars, thread, apiVars, lost>>
    BY <1>2, Zenon DEF vars, setupVars
  <2>2. stopped' = stopped /\ stopped \in BOOLEAN
    BY <1>2, Zenon DEF vars, IInv, Types
  <2>3. MainOK' /\ Phases'
    <3>1. /\ phase' = phase /\ subnets' = subnets /\ virtNets' = virtNets /\ atts' = atts
          /\ initializedSubnets' = initializedSubnets /\ thread' = thread /\ lost' = lost
      BY <1>2, Zenon DEF vars, setupVars, apiVars
    <3> QED
      BY <3>1 DEF IInv, MainOK, Phases
  <2> QED
    BY <2>1, <2>2, <2>3, MainStep
<1> QED
  BY <1>1, <1>2, OnAttachmentEventStep, CreateNamespaceStep, CreateSubnetStep, ListNodesStep,
     SubnetEventStep, WaitStep, CloseAtEndStep, EndOfMainStep, WriteStatusStep, SignalStep,
     Zenon DEF Next

LEMMA Invariant == Spec => []IInv
BY InitIInv, NextIInv, PTL DEF Spec

\* Indices and counters stay within their bounds, for every command line and any
\* number of faults.
THEOREM DriverTyped == Spec => []TypeOK
<1>1. IInv => TypeOK
  <2> SUFFICES ASSUME IInv PROVE TypeOK
    OBVIOUS
  <2>1. DOMAIN cds = DOMAIN virtNets
    BY DEF IInv, CDsOK
  <2>2. \A i \in DOMAIN cds : /\ cds[i].pendingIndices \subseteq 1 .. virtNets[i].size
                              /\ cds[i].latestIndex \in {NoIndex} \cup 1 .. virtNets[i].size
    BY <2>1 DEF IInv, CDsOK
  <2>3. \A s \in DOMAIN slots : /\ slots[s].node \in Nodes \cup {NoNode}
                                /\ (slots[s].name = NoName) = (slots[s].node = NoNode)
    BY DEF IInv, OwnNames, OwnName, Types, SlotRec
  <2>4. ASSUME NEW t \in DOMAIN thread
        PROVE  /\ thread[t].iDelete \in 0 .. NumHere(t)
               /\ thread[t].iCreate \in 0 .. NumHere(t)
    BY ThreadTyped DEF CountsAt
  <2> QED
    BY <2>2, <2>3, <2>4 DEF TypeOK, IInv, MainOK
<1> QED
  BY <1>1, Invariant, PTL

\* What a slot says of its attachment is true of that attachment: a notification
\* of an earlier attachment of the slot has another name.
THEOREM DriverTellsTruth == Spec => []SlotsTellTruth
<1>1. IInv => SlotsTellTruth
  BY DEF IInv, Truth
<1> QED
  BY <1>1, Invariant, PTL

\* A thread never goes without waiting for a peer that may still pass its test.
THEOREM DriverWaitsForPending == Spec => []PendingCovers
<1>1. IInv => PendingCovers
  BY DEF IInv
<1> QED
  BY <1>1, Invariant, PTL

\* Two current attachments with one address were counted, in whatever order
\* their notifications came and whatever was closed in between.
THEOREM DriverNoticesDuplicates == Spec => []DuplicatesNoticed
<1>1. IInv => DuplicatesNoticed
  BY DEF IInv
<1> QED
  BY <1>1, Invariant, PTL

\* Every attachment that the driver can know of is in its slot or being deleted
\* as long as a thread works, and gone when all have done all their work.
THEOREM DriverForgetsNothing == Spec => []NothingForgotten
<1>1. IInv => NothingForgotten
  <2> SUFFICES ASSUME IInv PROVE NothingForgotten
    OBVIOUS
  <2>1. ASSUME Busy, NEW name \in DOMAIN atts \ lost
        PROVE  \/ slots[SlotOfName(name)].name = name
               \/ \E t \in DOMAIN thread : thread[t].natt = name
    <3>1. PICK t \in DOMAIN thread : \E i \in 0 .. thread[t].iCreate : Kept(name, t, i)
      BY DEF IInv, AllKept
    <3>2. PICK i \in 0 .. thread[t].iCreate : Kept(name, t, i)
      BY <3>1
    <3>3. i \in Nat /\ SetupFacts
      BY ThreadTyped
    <3>4. name = NameFor(t, i)
      BY <3>2 DEF Kept
    <3>5. SlotOfName(name) = Work(t, i)
      BY <3>3, <3>4, SlotOfNameFor
    <3> QED
      BY <2>1, <3>2, <3>5 DEF Kept
  <2>2. phase = "end" /\ (\A t \in DOMAIN thread : ~thread[t].early)
           => DOMAIN atts \subseteq lost
    BY DEF IInv, Phases
  <2> QED
    BY <2>1, <2>2 DEF NothingForgotten, Busy
<1> QED
  BY <1>1, Invariant, PTL

\* For every command line whose networks fit into 24 bits, each subnet begins at
\* a multiple of its size and has an address for each of its slots and three to
\* spare, and no two virtual networks overlap.
THEOREM DriverLaysOutSubnets ==
    ASSUME SizesFit
    PROVE  Spec => []LayoutSound
<1>1. IInv => LayoutSound
  <2> SUFFICES ASSUME IInv, ~flags.just_count, NEW i \in DOMAIN virtNets
               PROVE  /\ virtNets[i].addr0 % 2^virtNets[i].suffixBits = 0
                      /\ virtNets[i].addrF = virtNets[i].addr0
                            + virtNets[i].subnets * 2^virtNets[i].suffixBits - 1
                      /\ virtNets[i].subnets * (2^virtNets[i].suffixBits - 3)
                            >= virtNets[i].size
                      /\ \A k \in DOMAIN virtNets :
                            k > i => virtNets[k].addr0 > virtNets[i].addrF
    BY Zenon DEF LayoutSound
  <2>1. flags \in Flags /\ virtNets = MakeVirtNets(flags)
    BY DEF IInv, Setup
  <2>2. flags \in FlagNames /\ flags.top_net_size + 3 <= 2^24
    BY <2>1, DriverAssumption, SizesFit, Zenon DEF SizesFit
  <2> QED
    BY <2>1, <2>2, Layout, Zenon
<1> QED
  BY <1>1, Invariant, PTL
=============================================================================
