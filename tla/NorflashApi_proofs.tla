------------------------- MODULE NorflashApi_proofs -------------------------
(***************************************************************************)
(* Theorems about NorflashApi for every number of modules, sectors, pages, *)
(* nodes and buffers.                                                      *)
(***************************************************************************)
EXTENDS NorflashInvariant, SequenceTheorems, WellFoundedInduction, TLAPS

-----------------------------------------------------------------------------
(* The helpers *)

\* A set of naturals has a least element, and MinOf is it.
LEMMA MinOfIsLeast ==
  ASSUME NEW S, S \subseteq Nat, S # {}
  PROVE  MinOf(S) \in S /\ \A q \in S : MinOf(S) <= q
<1> DEFINE R == OpToRel(<, Nat)
<1>1. PICK x \in S : \A y \in S : ~(<<y, x>> \in R)
  <2> HIDE DEF R
  <2>1. IsWellFoundedOn(R, Nat)
    BY NatLessThanWellFounded DEF R
  <2> QED
    BY <2>1, WFMin
<1>2. \A y \in S : x <= y
  <2> TAKE y \in S
  <2>1. y < x => <<y, x>> \in R
    BY DEF OpToRel
  <2>2. ~(y < x)
    BY <1>1, <2>1
  <2> QED
    BY <2>2
<1> QED
  BY <1>2 DEF MinOf

\* The first free slot is a slot, and free.
LEMMA FirstFree ==
  ASSUME FreeSlots # {}
  PROVE  MinOf(FreeSlots) \in Slots /\ MinOf(FreeSlots) \notin used
<1>1. FreeSlots \subseteq Nat
  BY SizesAssumption DEF FreeSlots, Slots
<1> QED
  BY <1>1, MinOfIsLeast DEF FreeSlots

\* Unlinking a position shortens a list by that element.
LEMMA WithoutPosIsSeq ==
  ASSUME NEW S, NEW q \in Seq(S), NEW p \in 1..Len(q)
  PROVE  /\ WithoutPos(q, p) \in Seq(S)
         /\ Len(WithoutPos(q, p)) = Len(q) - 1
         /\ \A k \in 1..(Len(q) - 1) :
              WithoutPos(q, p)[k] = IF k < p THEN q[k] ELSE q[k + 1]
<1> DEFINE w == WithoutPos(q, p)
<1>1. Len(q) - 1 \in Nat
  OBVIOUS
<1>2. w \in [1..(Len(q) - 1) -> S]
  BY ElementOfSeq DEF WithoutPos
<1>3. w \in Seq(S)
  BY <1>1, <1>2, SeqDef
<1> QED
  BY <1>1, <1>2, <1>3, LenProperties DEF WithoutPos

\* A new node in front of a list.
LEMMA HeadIsSeq ==
  ASSUME NEW S, NEW q \in Seq(S), NEW i \in S
  PROVE  /\ <<i>> \o q \in Seq(S)
         /\ Len(<<i>> \o q) = Len(q) + 1
         /\ (<<i>> \o q)[1] = i
         /\ \A k \in 2..(Len(q) + 1) : (<<i>> \o q)[k] = q[k - 1]
<1>1. <<i>> \in Seq(S) /\ Len(<<i>>) = 1 /\ <<i>>[1] = i
  OBVIOUS
<1>2. Len(q) \in Nat
  OBVIOUS
<1> QED
  BY <1>1, <1>2, ConcatProperties

\* A prefix of a list.
LEMMA PrefixIsSeq ==
  ASSUME NEW S, NEW q \in Seq(S), NEW n \in 0..Len(q)
  PROVE  /\ SubSeq(q, 1, n) \in Seq(S)
         /\ Len(SubSeq(q, 1, n)) = n
         /\ \A k \in 1..n : SubSeq(q, 1, n)[k] = q[k]
<1>1. Len(q) \in Nat /\ n \in Int /\ 1 \in Int
  OBVIOUS
<1>2. \A k \in 1..n : q[k] \in S
  BY <1>1, ElementOfSeq
<1>3. /\ SubSeq(q, 1, n) \in Seq(S)
      /\ Len(SubSeq(q, 1, n)) = IF 1 <= n THEN n - 1 + 1 ELSE 0
      /\ \A k \in 1..(n - 1 + 1) : SubSeq(q, 1, n)[k] = q[1 + k - 1]
  BY <1>1, <1>2, SubSeqProperties
<1> QED
  BY <1>1, <1>3

\* Truncating a list at its last element, which occurs nowhere else.
LEMMA BeforeIsSeq ==
  ASSUME NEW S, NEW q \in Seq(S), NEW i
  PROVE  /\ Before(q, i) \in Seq(S)
         /\ Len(Before(q, i)) <= Len(q)
         /\ \A k \in 1..Len(Before(q, i)) : Before(q, i)[k] = q[k] /\ q[k] # i
<1> DEFINE P == {p \in 1..Len(q) : q[p] = i}
<1>0. Len(q) \in Nat
  OBVIOUS
<1>1. CASE \E p \in 1..Len(q) : q[p] = i
  <2>1. P # {} /\ P \subseteq Nat
    BY <1>1
  <2>2. MinOf(P) \in 1..Len(q) /\ \A r \in P : MinOf(P) <= r
    BY <2>1, MinOfIsLeast
  <2>3. Before(q, i) = SubSeq(q, 1, MinOf(P) - 1)
    BY <1>1 DEF Before
  <2>4. MinOf(P) - 1 \in 0..Len(q)
    BY <2>2, <1>0
  <2>5. /\ SubSeq(q, 1, MinOf(P) - 1) \in Seq(S)
        /\ Len(SubSeq(q, 1, MinOf(P) - 1)) = MinOf(P) - 1
        /\ \A k \in 1..(MinOf(P) - 1) : SubSeq(q, 1, MinOf(P) - 1)[k] = q[k]
    BY <2>4, PrefixIsSeq
  <2>6. \A k \in 1..(MinOf(P) - 1) : q[k] # i
    BY <2>2, <1>0
  <2>7. MinOf(P) - 1 \in Nat /\ MinOf(P) - 1 <= Len(q)
    BY <2>2, <1>0
  <2> HIDE DEF P
  <2> QED
    BY <2>3, <2>5, <2>6, <2>7, <1>0
<1>2. CASE ~ \E p \in 1..Len(q) : q[p] = i
  BY <1>2, <1>0 DEF Before
<1> QED
  BY <1>1, <1>2

LEMMA BeforeLast ==
  ASSUME NEW S, NEW q \in Seq(S), q # <<>>,
         \A j, k \in 1..Len(q) : q[j] = q[k] => j = k
  PROVE  Len(Before(q, q[Len(q)])) = Len(q) - 1
<1> DEFINE P == {p \in 1..Len(q) : q[p] = q[Len(q)]}
<1>1. Len(q) \in Nat /\ Len(q) >= 1
  BY EmptySeq
<1>2. P = {Len(q)}
  BY <1>1
<1>3. MinOf(P) = Len(q)
  <2>1. P \subseteq Nat /\ P # {}
    BY <1>1
  <2> HIDE DEF P
  <2>2. MinOf(P) \in P
    BY <2>1, MinOfIsLeast
  <2> QED
    BY <1>2, <2>2
<1>4. Before(q, q[Len(q)]) = SubSeq(q, 1, Len(q) - 1)
  BY <1>1, <1>2, <1>3 DEF Before
<1>5. Len(q) - 1 \in 0..Len(q)
  BY <1>1
<1>6. Len(SubSeq(q, 1, Len(q) - 1)) = Len(q) - 1
  BY <1>5, PrefixIsSeq
<1> QED
  BY <1>4, <1>6

\* Pages stay pages when they are programmed.
LEMMA ProgramRangeType ==
  ASSUME NEW sector \in Sector, NEW buf \in Sector, NEW lo, NEW hi
  PROVE  ProgramRange(sector, buf, lo, hi) \in Sector
BY DEF ProgramRange, Programmed, Sector, Cell

\* The next module to flush is a registered one with something to do, or the
\* current one.
LEMMA DistanceIsNat ==
  ASSUME TypeOK, NEW m \in Modules
  PROVE  Distance(m) \in Nat
BY ModulesAssumption DEF TypeOK, Distance, Modules

LEMMA NextModuleType ==
  ASSUME TypeOK
  PROVE  /\ NextModule \in Modules \cup {NONE}
         /\ NextModule # NONE /\ curMod = NONE => NextModule \in Waiting
         /\ curMod # NONE => NextModule = curMod
<1> DEFINE D == {Distance(m) : m \in Waiting}
<1>1. Waiting \subseteq Modules
  BY DEF Waiting, TypeOK
<1>2. CASE curMod # NONE
  BY <1>2 DEF NextModule, TypeOK
<1>3. CASE curMod = NONE /\ Waiting = {}
  BY <1>3 DEF NextModule
<1>4. CASE curMod = NONE /\ Waiting # {}
  <2>1. D # {} /\ D \subseteq Nat
    BY <1>1, <1>4, DistanceIsNat
  <2>2. MinOf(D) \in D /\ \A d \in D : MinOf(D) <= d
    BY <2>1, MinOfIsLeast
  <2>3. PICK m \in Waiting : Distance(m) = MinOf(D)
    BY <2>2
  <2>4. \A k \in Waiting : Distance(m) <= Distance(k)
    BY <2>2, <2>3
  <2> QED
    BY <2>4, <1>1, <1>4 DEF NextModule
<1> QED
  BY <1>2, <1>3, <1>4

-----------------------------------------------------------------------------
(* Type correctness *)

LEMMA OpOfType ==
  ASSUME TypeOK, NEW m \in Modules, HasOp(m)
  PROVE  OpOf(m) \in Slots
<1>1. CASE cur[m] # NONE
  BY <1>1 DEF TypeOK, OpOf
<1>2. CASE cur[m] = NONE
  <2>1. queue[m] \in Seq(Slots) /\ queue[m] # <<>>
    BY <1>2 DEF TypeOK, HasOp
  <2>2. Len(queue[m]) \in 1..Len(queue[m])
    BY <2>1, EmptySeq
  <2> QED
    BY <1>2, <2>1, <2>2, ElementOfSeq DEF OpOf
<1> QED
  BY <1>1, <1>2

LEMMA DevCompleteType ==
  ASSUME TypeOK, NEW n \in Node,
         NEW st \in {"IDLE", "WRITTING_SUSPEND", "ERASE_SUSPEND"}, DevComplete(n, st)
  PROVE  dev' \in DevState /\ flash' \in [Sectors -> Sector]
<1>1. ErasedSector \in Sector /\ DevIdle \in DevState
  BY SizesAssumption DEF ErasedSector, Sector, Cell, DevIdle, DevState
<1>2. ASSUME WorkSector(n, st) \in Sectors
      PROVE  ProgramRange(WorkBase(n, st), n.buf, WorkFrom(n, st), WorkTo(n, st)) \in Sector
  <2>1. WorkBase(n, st) \in Sector
    BY <1>2 DEF WorkSector, WorkBase, FinishPage, TypeOK, DevState, Sector
  <2> QED
    BY <2>1, ProgramRangeType DEF Node
<1> QED
  BY <1>1, <1>2 DEF DevComplete, TypeOK

LEMMA DevSuspendType ==
  ASSUME TypeOK, NEW n \in Node,
         NEW st \in {"IDLE", "WRITTING_SUSPEND", "ERASE_SUSPEND"},
         WorkSector(n, st) \in Sectors,
         \/ DevSuspendErase(n, st)
         \/ \E k \in WorkFrom(n, st)..WorkTo(n, st) : DevSuspendWrite(n, st, k)
  PROVE  dev' \in DevState /\ flash' \in [Sectors -> Sector]
<1>1. CASE DevSuspendErase(n, st)
  <2>1. [c \in 1..Cells |-> Mixed] \in Sector
    BY DEF Sector, Cell
  <2>2. [st |-> "ERASE", sec |-> WorkSector(n, st), at |-> 0, hi |-> 0, fin |-> FF] \in DevState
    BY SizesAssumption DEF DevState, Cell
  <2> QED
    BY <1>1, <2>1, <2>2 DEF DevSuspendErase, TypeOK
<1>2. CASE \E k \in WorkFrom(n, st)..WorkTo(n, st) : DevSuspendWrite(n, st, k)
  <2>1. PICK k \in WorkFrom(n, st)..WorkTo(n, st) : DevSuspendWrite(n, st, k)
    BY <1>2
  <2> DEFINE done == ProgramRange(WorkBase(n, st), n.buf, WorkFrom(n, st), k - 1)
             fin  == Programmed(done[k], n.buf[k])
  <2>2. WorkFrom(n, st) \in Nat \ {0} /\ WorkTo(n, st) \in 0..Cells
    BY SizesAssumption DEF WorkFrom, WorkTo, TypeOK, DevState, Node
  <2>3. k \in 1..Cells
    BY <2>2, SizesAssumption
  <2>4. WorkBase(n, st) \in Sector
    BY DEF WorkSector, WorkBase, FinishPage, TypeOK, DevState, Sector
  <2>5. done \in Sector
    BY <2>4, ProgramRangeType DEF Node
  <2>6. fin \in Cell
    <3>1. done[k] \in Cell /\ n.buf[k] \in Cell
      BY <2>3, <2>5 DEF Sector, Node
    <3> HIDE DEF done
    <3> QED
      BY <3>1 DEF Programmed, Cell
  <2>7. [done EXCEPT ![k] = InFlight(done[k], fin)] \in Sector
    <3> HIDE DEF done, fin
    <3> QED
      BY <2>3, <2>5 DEF Sector, InFlight, Cell
  <2>8. flash' = [flash EXCEPT ![WorkSector(n, st)] = [done EXCEPT ![k] = InFlight(done[k], fin)]]
    BY <2>1 DEF DevSuspendWrite
  <2>9. dev' = [st |-> "PROGRAM", sec |-> WorkSector(n, st), at |-> k,
                hi |-> WorkTo(n, st), fin |-> fin]
    BY <2>1 DEF DevSuspendWrite
  <2> HIDE DEF done, fin
  <2> QED
    BY <2>2, <2>3, <2>6, <2>7, <2>8, <2>9 DEF TypeOK, DevState
<1> QED
  BY <1>1, <1>2

-----------------------------------------------------------------------------
(* What the invariant says of the operation a flush works on *)

LEMMA OpIsOldest ==
  ASSUME TypeOK, ListInv, NEW m \in Modules, HasOp(m)
  PROVE  /\ queue[m] \in Seq(Slots) /\ queue[m] # <<>>
         /\ Len(queue[m]) \in 1..Len(queue[m])
         /\ OpOf(m) = queue[m][Len(queue[m])]
         /\ OpOf(m) \in Slots /\ OpOf(m) \in used
         /\ node[OpOf(m)] \in Node
         /\ node[OpOf(m)].sec \in Sectors /\ Owner[node[OpOf(m)].sec] = m
<1>1. queue[m] \in Seq(Slots)
  BY DEF TypeOK
<1>2. queue[m] # <<>>
  BY DEF HasOp, ListInv, OldestTaken
<1>3. Len(queue[m]) \in 1..Len(queue[m])
  BY <1>1, <1>2, EmptySeq
<1>4. OpOf(m) = queue[m][Len(queue[m])]
  BY DEF OpOf, ListInv, OldestTaken
<1>5. OpOf(m) \in Slots
  BY OpOfType
<1> QED
  BY <1>1, <1>2, <1>3, <1>4, <1>5 DEF ListInv, ListsOwnTheirNodes, LinksOwned, TypeOK

LEMMA DeviceIsReady ==
  ASSUME IInv, NEW m \in Modules, HasOp(m),
         curMod \in {NONE, m} \/ state[curMod] = "IDLE"
  PROVE  DevReady(state[m], node[OpOf(m)].type)
<1>1. cur[m] # NONE => OpOf(m) = cur[m]
  BY DEF OpOf
<1>2. state[m] \in {"IDLE", "WRITTING_SUSPEND", "ERASE_SUSPEND"}
  BY DEF IInv, TypeOK
<1>3. CASE state[m] = "IDLE"
  <2>1. \A k \in Modules : state[k] # "IDLE" => curMod = k /\ k # NONE
    BY ModulesAssumption, NoneAssumption DEF IInv, SuspendInv, Modules
  <2>2. \A k \in Modules : state[k] = "IDLE"
    BY <1>3, <2>1
  <2>3. dev.st = "NO"
    BY <2>2 DEF IInv, SuspendInv
  <2> QED
    BY <1>3, <2>3 DEF DevReady
<1>4. CASE state[m] # "IDLE"
  <2>1. node[OpOf(m)] \in Node
    BY OpIsOldest DEF IInv
  <2> QED
    BY <1>1, <1>2, <1>4, <2>1 DEF IInv, SuspendInv, DevReady, Node
<1> QED
  BY <1>3, <1>4

-----------------------------------------------------------------------------
(* The list operations preserve the list invariant *)

\* An operation completes: the oldest node leaves its list and its pool.
LEMMA DeleteOldest ==
  ASSUME TypeOK, ListInv, NEW m \in Modules, HasOp(m), NEW i, i = OpOf(m),
         queue' = [queue EXCEPT ![m] = Before(@, i)],
         used' = used \ {i},
         node' = [node EXCEPT ![i] = FreeNode],
         cur' = [cur EXCEPT ![m] = NONE],
         inited' = inited
  PROVE  /\ queue' \in [Modules -> Seq(Slots)] /\ used' \subseteq Slots
         /\ node' \in [Slots -> Node] /\ cur' \in [Modules -> Slots \cup {NONE}]
         /\ ListInv'
<1> DEFINE n == Len(queue[m])
<1>1. /\ queue[m] \in Seq(Slots) /\ queue[m] # <<>> /\ n \in 1..n
      /\ i = queue[m][n] /\ i \in Slots /\ i \in used
      /\ node[i].sec \in Sectors /\ Owner[node[i].sec] = m
  BY OpIsOldest
<1>2. n \in Nat
  BY <1>1
<1>3. /\ queue'[m] \in Seq(Slots) /\ Len(queue'[m]) = n - 1
      /\ \A k \in 1..(n - 1) : queue'[m][k] = queue[m][k] /\ queue'[m][k] # i
  <2>1. \A j, k \in 1..Len(queue[m]) : queue[m][j] = queue[m][k] => j = k
    BY DEF ListInv, ListsOwnTheirNodes, LinkedOnce
  <2>2. Len(Before(queue[m], i)) = n - 1
    BY <1>1, <2>1, BeforeLast
  <2>3. /\ Before(queue[m], i) \in Seq(Slots)
        /\ \A k \in 1..Len(Before(queue[m], i)) :
             Before(queue[m], i)[k] = queue[m][k] /\ queue[m][k] # i
    BY <1>1, BeforeIsSeq
  <2>4. queue'[m] = Before(queue[m], i)
    BY DEF TypeOK
  <2> QED
    BY <2>2, <2>3, <2>4
<1>4. \A k \in Modules : k # m => queue'[k] = queue[k] /\ cur'[k] = cur[k]
  BY DEF TypeOK
<1>5. \A k \in Modules : k # m =>
        \A p \in 1..Len(queue[k]) : queue[k][p] # i
  BY <1>1 DEF ListInv, ListsOwnTheirNodes, LinksOwned
<1>6. \A j \in Slots : j # i => node'[j] = node[j]
  BY DEF TypeOK
<1>7. cur'[m] = NONE
  BY DEF TypeOK
<1>8. FreeNode \in Node
  BY SizesAssumption DEF FreeNode, EraseNode, Node, ErasedSector, Sector, Cell
<1>9. /\ queue' \in [Modules -> Seq(Slots)] /\ used' \subseteq Slots
      /\ node' \in [Slots -> Node] /\ cur' \in [Modules -> Slots \cup {NONE}]
  BY <1>1, <1>3, <1>8 DEF TypeOK
<1>10. \A k \in Modules : queue[k] \in Seq(Slots) /\ Len(queue[k]) \in Nat
         /\ \A p \in 1..Len(queue[k]) : queue[k][p] \in Slots
  BY ElementOfSeq, LenProperties DEF TypeOK
<1> HIDE DEF n
<1>11. LinksOwned'
  <2> SUFFICES ASSUME NEW k \in Modules, NEW p \in 1..Len(queue'[k])
               PROVE  /\ queue'[k][p] \in used'
                      /\ node'[queue'[k][p]].sec \in Sectors
                      /\ Owner[node'[queue'[k][p]].sec] = k
    BY DEF LinksOwned
  <2>1. p \in 1..Len(queue[k]) /\ queue'[k][p] = queue[k][p] /\ queue[k][p] # i
    BY <1>2, <1>3, <1>4, <1>5 DEF n
  <2>2. queue[k][p] \in Slots
    BY <1>10, <2>1
  <2> QED
    BY <1>6, <2>1, <2>2 DEF ListInv, ListsOwnTheirNodes, LinksOwned
<1>12. LinkedOnce'
  <2> SUFFICES ASSUME NEW k \in Modules, NEW p \in 1..Len(queue'[k]),
                      NEW r \in 1..Len(queue'[k]), queue'[k][p] = queue'[k][r]
               PROVE  p = r
    BY DEF LinkedOnce
  <2>1. /\ p \in 1..Len(queue[k]) /\ queue'[k][p] = queue[k][p]
        /\ r \in 1..Len(queue[k]) /\ queue'[k][r] = queue[k][r]
    BY <1>2, <1>3, <1>4 DEF n
  <2> QED
    BY <2>1 DEF ListInv, ListsOwnTheirNodes, LinkedOnce
<1>13. NothingLeaked'
  <2> SUFFICES ASSUME NEW j, j \in used'
               PROVE  \E k \in Modules : \E p \in 1..Len(queue'[k]) : queue'[k][p] = j
    BY DEF NothingLeaked
  <2>1. j \in used /\ j # i
    OBVIOUS
  <2>2. PICK k \in Modules : \E p \in 1..Len(queue[k]) : queue[k][p] = j
    BY <2>1 DEF ListInv, ListsOwnTheirNodes, NothingLeaked
  <2>3. CASE k = m
    BY <1>1, <1>2, <1>3, <2>1, <2>2, <2>3 DEF n
  <2>4. CASE k # m
    BY <1>4, <2>2, <2>4
  <2> QED
    BY <2>3, <2>4
<1>14. OldestTaken'
  <2> SUFFICES ASSUME NEW k \in Modules
               PROVE  /\ cur'[k] # NONE => queue'[k] # <<>> /\ cur'[k] = queue'[k][Len(queue'[k])]
                      /\ \A p \in 1..Len(queue'[k]) :
                           node'[queue'[k][p]].lock <=> cur'[k] = queue'[k][p]
    BY DEF OldestTaken
  <2>1. CASE k # m
    BY <1>4, <1>5, <1>6, <1>10, <2>1 DEF ListInv, OldestTaken
  <2>2. CASE k = m
    <3>1. ASSUME NEW p \in 1..(n - 1)
          PROVE  ~node'[queue'[m][p]].lock /\ queue'[m][p] # NONE
      <4>1. p \in 1..Len(queue[m]) /\ p # n /\ queue[m][p] # i
        BY <1>2, <1>3 DEF n
      <4>2. cur[m] # queue[m][p]
        BY <1>1, <4>1, <1>10, NoneAssumption DEF ListInv, OldestTaken, n, Slots
      <4>3. ~node[queue[m][p]].lock
        BY <4>1, <4>2 DEF ListInv, OldestTaken
      <4> QED
        BY <1>3, <1>6, <1>10, <4>1, <4>3, NoneAssumption DEF Slots
    <3> QED
      BY <1>3, <1>7, <2>2, <3>1
  <2> QED
    BY <2>1, <2>2
<1>15. UnregisteredEmpty'
  BY <1>1, <1>4 DEF ListInv, UnregisteredEmpty
<1> QED
  BY <1>9, <1>11, <1>12, <1>13, <1>14, <1>15 DEF ListInv, ListsOwnTheirNodes

\* A flush takes the oldest node, or goes on with it, and is suspended.
LEMMA TakeOldest ==
  ASSUME TypeOK, ListInv, NEW m \in Modules, HasOp(m), NEW i, i = OpOf(m),
         queue' = queue, used' = used, inited' = inited,
         node' = Taken(i),
         cur' = [cur EXCEPT ![m] = i]
  PROVE  /\ node' \in [Slots -> Node] /\ cur' \in [Modules -> Slots \cup {NONE}]
         /\ ListInv'
<1> DEFINE n == Len(queue[m])
<1>1. /\ queue[m] # <<>> /\ n \in 1..n
      /\ i = queue[m][n] /\ i \in Slots
      /\ node[i].sec \in Sectors /\ Owner[node[i].sec] = m
  BY OpIsOldest
<1>2. /\ \A j \in Slots : node'[j].sec = node[j].sec
      /\ \A j \in Slots : j # i => node'[j] = node[j]
      /\ node'[i].lock
  BY <1>1 DEF TypeOK, Taken, Node
<1>3. node' \in [Slots -> Node] /\ cur' \in [Modules -> Slots \cup {NONE}]
  <2>1. \A x \in Node : [x EXCEPT !.lock = TRUE] \in Node
    BY DEF Node
  <2>2. node[i] \in Node
    BY <1>1 DEF TypeOK
  <2>3. [node[i] EXCEPT !.lock = TRUE] \in Node
    BY <2>1, <2>2
  <2> QED
    BY <1>1, <2>3 DEF TypeOK, Taken
<1>4. cur'[m] = i /\ \A k \in Modules : k # m => cur'[k] = cur[k]
  BY DEF TypeOK
<1>5. \A k \in Modules : \A p \in 1..Len(queue[k]) : queue[k][p] \in Slots
  BY ElementOfSeq DEF TypeOK
<1>6. \A k \in Modules : k # m => \A p \in 1..Len(queue[k]) : queue[k][p] # i
  BY <1>1 DEF ListInv, ListsOwnTheirNodes, LinksOwned
<1>7. ListsOwnTheirNodes'
  BY <1>2, <1>5
  DEF ListInv, ListsOwnTheirNodes, LinksOwned, LinkedOnce, NothingLeaked
<1>8. OldestTaken'
  <2> SUFFICES ASSUME NEW k \in Modules
               PROVE  /\ cur'[k] # NONE => queue[k] # <<>> /\ cur'[k] = queue[k][Len(queue[k])]
                      /\ \A p \in 1..Len(queue[k]) :
                           node'[queue[k][p]].lock <=> cur'[k] = queue[k][p]
    BY DEF OldestTaken
  <2>1. CASE k # m
    BY <1>2, <1>4, <1>5, <1>6, <2>1 DEF ListInv, OldestTaken
  <2>2. CASE k = m
    <3>1. ASSUME NEW p \in 1..Len(queue[m]), queue[m][p] # i
          PROVE  ~node'[queue[m][p]].lock
      <4>1. cur[m] # queue[m][p]
        BY <1>1, <1>5, <3>1, NoneAssumption DEF ListInv, OldestTaken, Slots
      <4> QED
        BY <1>2, <1>5, <3>1, <4>1 DEF ListInv, OldestTaken
    <3> QED
      BY <1>1, <1>2, <1>4, <2>2, <3>1
  <2> QED
    BY <2>1, <2>2
<1> QED
  BY <1>3, <1>7, <1>8 DEF ListInv, UnregisteredEmpty

\* A new node of the sector's owner goes to the head of its list.
LEMMA NewNode ==
  ASSUME TypeOK, ListInv, NEW s \in Sectors, Owner[s] \in inited, FreeSlots # {},
         NEW i, i = MinOf(FreeSlots),
         NEW x \in Node, x.sec = s, ~x.lock,
         queue' = [queue EXCEPT ![Owner[s]] = <<i>> \o @],
         used' = used \cup {i},
         node' = [node EXCEPT ![i] = x],
         cur' = cur, inited' = inited
  PROVE  /\ queue' \in [Modules -> Seq(Slots)] /\ used' \subseteq Slots
         /\ node' \in [Slots -> Node]
         /\ ListInv'
<1> DEFINE m == Owner[s]
           n == Len(queue[m])
<1>1. i \in Slots /\ i \notin used /\ m \in Modules
  BY FirstFree, OwnerAssumption
<1>2. /\ queue[m] \in Seq(Slots) /\ n \in Nat
      /\ queue'[m] \in Seq(Slots) /\ Len(queue'[m]) = n + 1
      /\ queue'[m][1] = i
      /\ \A k \in 2..(n + 1) : queue'[m][k] = queue[m][k - 1]
  <2>1. queue[m] \in Seq(Slots) /\ queue'[m] = <<i>> \o queue[m]
    BY <1>1 DEF TypeOK
  <2>2. n \in Nat
    BY <2>1
  <2>3. /\ <<i>> \o queue[m] \in Seq(Slots)
        /\ Len(<<i>> \o queue[m]) = n + 1
        /\ (<<i>> \o queue[m])[1] = i
        /\ \A k \in 2..(n + 1) : (<<i>> \o queue[m])[k] = queue[m][k - 1]
    BY <1>1, <2>1, HeadIsSeq
  <2> QED
    BY <2>1, <2>2, <2>3
<1>3. \A k \in Modules : k # m => queue'[k] = queue[k]
  BY DEF TypeOK
<1>4. \A k \in Modules : \A p \in 1..Len(queue[k]) :
        /\ queue[k][p] \in Slots /\ queue[k][p] # i /\ queue[k][p] \in used
        /\ node'[queue[k][p]] = node[queue[k][p]]
  BY <1>1, ElementOfSeq DEF TypeOK, ListInv, ListsOwnTheirNodes, LinksOwned
<1>5. node'[i] = x
  BY <1>1 DEF TypeOK
<1>6. \A k \in Modules : cur[k] # i
  <2> SUFFICES ASSUME NEW k \in Modules, cur[k] = i PROVE FALSE
    OBVIOUS
  <2>1. cur[k] # NONE /\ queue[k] \in Seq(Slots)
    BY <1>1, NoneAssumption DEF TypeOK, Slots
  <2>2. queue[k] # <<>> /\ cur[k] = queue[k][Len(queue[k])]
    BY <2>1 DEF ListInv, OldestTaken
  <2>3. Len(queue[k]) \in 1..Len(queue[k])
    BY <2>1, <2>2, EmptySeq
  <2> QED
    BY <1>4, <2>2, <2>3
<1>7. /\ queue' \in [Modules -> Seq(Slots)] /\ used' \subseteq Slots
      /\ node' \in [Slots -> Node]
  <2>1. queue' \in [Modules -> Seq(Slots)]
    BY <1>2 DEF TypeOK
  <2>2. used' \subseteq Slots
    BY <1>1 DEF TypeOK
  <2>3. node' \in [Slots -> Node]
    BY <1>1 DEF TypeOK
  <2> QED
    BY <2>1, <2>2, <2>3
<1> HIDE DEF n
\* A position of the new list is the head or one of the old list.
<1>8. ASSUME NEW k \in Modules, NEW p \in 1..Len(queue'[k])
      PROVE  \/ k = m /\ p = 1 /\ queue'[k][p] = i
             \/ k = m /\ p # 1 /\ p - 1 \in 1..n /\ queue'[k][p] = queue[k][p - 1]
             \/ k # m /\ p \in 1..Len(queue[k]) /\ queue'[k][p] = queue[k][p]
  BY <1>2, <1>3, <1>8
<1>9. LinksOwned'
  <2> SUFFICES ASSUME NEW k \in Modules, NEW p \in 1..Len(queue'[k])
               PROVE  /\ queue'[k][p] \in used'
                      /\ node'[queue'[k][p]].sec \in Sectors
                      /\ Owner[node'[queue'[k][p]].sec] = k
    BY DEF LinksOwned
  <2>1. CASE k = m /\ p = 1 /\ queue'[k][p] = i
    BY <1>1, <1>5, <2>1
  <2>2. ASSUME NEW r \in 1..Len(queue[k]), queue'[k][p] = queue[k][r]
        PROVE  /\ queue'[k][p] \in used'
               /\ node'[queue'[k][p]].sec \in Sectors
               /\ Owner[node'[queue'[k][p]].sec] = k
    <3>1. queue[k][r] \in used /\ node'[queue[k][r]] = node[queue[k][r]]
      BY <1>4
    <3>2. node[queue[k][r]].sec \in Sectors /\ Owner[node[queue[k][r]].sec] = k
      BY DEF ListInv, ListsOwnTheirNodes, LinksOwned
    <3>3. queue[k][r] \in used'
      BY <1>1, <3>1
    <3> QED
      BY <2>2, <3>1, <3>2, <3>3
  <2> QED
    BY <1>8, <2>1, <2>2 DEF n
<1>10. LinkedOnce'
  <2> SUFFICES ASSUME NEW k \in Modules, NEW p \in 1..Len(queue'[k]),
                      NEW r \in 1..Len(queue'[k]), queue'[k][p] = queue'[k][r]
               PROVE  p = r
    BY DEF LinkedOnce
  <2>1. CASE k # m
    BY <1>3, <2>1 DEF ListInv, ListsOwnTheirNodes, LinkedOnce
  <2>2. CASE k = m
    <3>1. p \in Int /\ r \in Int /\ n \in Int
      BY <1>2, <2>2 DEF n
    <3>2. p = 1 <=> r = 1
      BY <1>4, <1>8, <2>2 DEF n
    <3>3. p # 1 /\ r # 1 => p - 1 = r - 1
      BY <1>1, <1>8, <2>2 DEF ListInv, ListsOwnTheirNodes, LinkedOnce, n
    <3> QED
      BY <3>1, <3>2, <3>3
  <2> QED
    BY <2>1, <2>2
<1>11. NothingLeaked'
  <2> SUFFICES ASSUME NEW j, j \in used'
               PROVE  \E k \in Modules : \E p \in 1..Len(queue'[k]) : queue'[k][p] = j
    BY DEF NothingLeaked
  <2>1. CASE j = i
    BY <1>1, <1>2, <2>1 DEF n
  <2>2. CASE j # i
    <3>1. j \in used
      BY <2>2
    <3>2. PICK k \in Modules : \E p \in 1..Len(queue[k]) : queue[k][p] = j
      BY <3>1 DEF ListInv, ListsOwnTheirNodes, NothingLeaked
    <3>3. PICK p \in 1..Len(queue[k]) : queue[k][p] = j
      BY <3>2
    <3>4. CASE k = m
      <4>1. p + 1 \in 2..(n + 1) /\ p + 1 \in 1..Len(queue'[m]) /\ (p + 1) - 1 = p
        BY <1>2, <3>3, <3>4 DEF n
      <4>2. queue'[m][p + 1] = queue[m][p]
        BY <1>2, <4>1
      <4> QED
        BY <1>1, <3>3, <3>4, <4>1, <4>2
    <3>5. CASE k # m
      BY <1>3, <3>3, <3>5
    <3> QED
      BY <3>4, <3>5
  <2> QED
    BY <2>1, <2>2
<1>12. OldestTaken'
  <2> SUFFICES ASSUME NEW k \in Modules
               PROVE  /\ cur[k] # NONE => queue'[k] # <<>> /\ cur[k] = queue'[k][Len(queue'[k])]
                      /\ \A p \in 1..Len(queue'[k]) :
                           node'[queue'[k][p]].lock <=> cur[k] = queue'[k][p]
    BY DEF OldestTaken
  <2>1. cur[k] # NONE => queue'[k] # <<>> /\ cur[k] = queue'[k][Len(queue'[k])]
    <3>1. CASE k # m
      BY <1>3, <3>1 DEF ListInv, OldestTaken
    <3>2. CASE k = m
      <4>1. ASSUME cur[m] # NONE
            PROVE  n \in 1..n /\ cur[m] = queue[m][n]
        BY <1>1, <1>2, <4>1, EmptySeq DEF ListInv, OldestTaken, n
      <4>2. n \in 1..n => queue'[m][n + 1] = queue[m][n]
        BY <1>2
      <4>3. queue'[m] # <<>>
        BY <1>2, EmptySeq
      <4> QED
        BY <1>2, <3>2, <4>1, <4>2, <4>3
    <3> QED
      BY <3>1, <3>2
  <2>2. ASSUME NEW p \in 1..Len(queue'[k])
        PROVE  node'[queue'[k][p]].lock <=> cur[k] = queue'[k][p]
    <3>1. CASE queue'[k][p] = i
      BY <1>5, <1>6, <3>1
    <3>2. ASSUME NEW r \in 1..Len(queue[k]), queue'[k][p] = queue[k][r]
          PROVE  node'[queue'[k][p]].lock <=> cur[k] = queue'[k][p]
      <4>1. node'[queue[k][r]] = node[queue[k][r]]
        BY <1>4
      <4>2. node[queue[k][r]].lock <=> cur[k] = queue[k][r]
        BY DEF ListInv, OldestTaken
      <4> QED
        BY <3>2, <4>1, <4>2
    <3> QED
      BY <1>8, <3>1, <3>2 DEF n
  <2> QED
    BY <2>1, <2>2
<1>13. UnregisteredEmpty'
  BY <1>1, <1>3 DEF ListInv, UnregisteredEmpty
<1> QED
  BY <1>7, <1>9, <1>10, <1>11, <1>12, <1>13 DEF ListInv, ListsOwnTheirNodes

\* An iteration of _e_opera_add frees a node at the head that is not locked.
LEMMA RemoveHead ==
  ASSUME TypeOK, ListInv, NEW m \in Modules, queue[m] # <<>>,
         NEW i, i = queue[m][1], ~node[i].lock,
         queue' = [queue EXCEPT ![m] = WithoutPos(@, 1)],
         used' = used \ {i},
         node' = [node EXCEPT ![i] = FreeNode],
         cur' = cur, inited' = inited
  PROVE  /\ queue' \in [Modules -> Seq(Slots)] /\ used' \subseteq Slots
         /\ node' \in [Slots -> Node]
         /\ ListInv'
         /\ \A k \in Modules : \A p \in 1..Len(queue'[k]) :
              node'[queue'[k][p]] = node[queue'[k][p]]
         /\ \A p \in 1..Len(queue'[m]) :
              \E r \in 1..Len(queue[m]) : queue'[m][p] = queue[m][r]
<1> DEFINE n == Len(queue[m])
<1>1. queue[m] \in Seq(Slots) /\ n \in Nat /\ 1 \in 1..n /\ n \in 1..n
  BY EmptySeq DEF TypeOK
<1>2. /\ queue'[m] \in Seq(Slots) /\ Len(queue'[m]) = n - 1
      /\ \A k \in 1..(n - 1) : queue'[m][k] = queue[m][k + 1]
  <2>1. queue'[m] = WithoutPos(queue[m], 1)
    BY DEF TypeOK
  <2>2. /\ WithoutPos(queue[m], 1) \in Seq(Slots)
        /\ Len(WithoutPos(queue[m], 1)) = n - 1
        /\ \A k \in 1..(n - 1) :
             WithoutPos(queue[m], 1)[k] = IF k < 1 THEN queue[m][k] ELSE queue[m][k + 1]
    BY <1>1, WithoutPosIsSeq
  <2> QED
    BY <1>1, <2>1, <2>2
<1>3. \A k \in Modules : k # m => queue'[k] = queue[k]
  BY DEF TypeOK
<1>4. \A k \in Modules : \A p \in 1..Len(queue[k]) : queue[k][p] \in Slots
  BY ElementOfSeq DEF TypeOK
<1>5. i \in Slots /\ Owner[node[i].sec] = m
  BY <1>1, <1>4 DEF ListInv, ListsOwnTheirNodes, LinksOwned
<1>6. \A j \in Slots : j # i => node'[j] = node[j]
  BY DEF TypeOK
<1>7. /\ queue' \in [Modules -> Seq(Slots)] /\ used' \subseteq Slots
      /\ node' \in [Slots -> Node]
  <2>1. FreeNode \in Node
    BY SizesAssumption DEF FreeNode, EraseNode, Node, ErasedSector, Sector, Cell
  <2> QED
    BY <1>2, <2>1 DEF TypeOK
<1> HIDE DEF n
\* A position of the new list is one of the old list, and does not hold i.
<1>8. ASSUME NEW k \in Modules, NEW p \in 1..Len(queue'[k])
      PROVE  /\ k = m => p + 1 \in 1..n /\ queue'[k][p] = queue[k][p + 1]
             /\ k # m => p \in 1..Len(queue[k]) /\ queue'[k][p] = queue[k][p]
             /\ queue'[k][p] # i
             /\ queue'[k][p] \in Slots
             /\ node'[queue'[k][p]] = node[queue'[k][p]]
             /\ \E r \in 1..Len(queue[k]) : queue'[k][p] = queue[k][r]
  <2>1. CASE k = m
    <3>1. p + 1 \in 1..n /\ queue'[k][p] = queue[k][p + 1] /\ p + 1 # 1
      BY <1>1, <1>2, <2>1
    <3>2. queue[k][p + 1] # i
      BY <1>1, <2>1, <3>1 DEF ListInv, ListsOwnTheirNodes, LinkedOnce, n
    <3> QED
      BY <1>4, <1>6, <2>1, <3>1, <3>2 DEF n
  <2>2. CASE k # m
    <3>1. p \in 1..Len(queue[k]) /\ queue'[k][p] = queue[k][p]
      BY <1>3, <2>2
    <3>2. queue[k][p] # i
      BY <1>5, <2>2, <3>1 DEF ListInv, ListsOwnTheirNodes, LinksOwned
    <3> QED
      BY <1>4, <1>6, <2>2, <3>1, <3>2
  <2> QED
    BY <2>1, <2>2
<1>9. LinksOwned'
  <2> SUFFICES ASSUME NEW k \in Modules, NEW p \in 1..Len(queue'[k])
               PROVE  /\ queue'[k][p] \in used'
                      /\ node'[queue'[k][p]].sec \in Sectors
                      /\ Owner[node'[queue'[k][p]].sec] = k
    BY DEF LinksOwned
  <2>1. PICK r \in 1..Len(queue[k]) : queue'[k][p] = queue[k][r]
    BY <1>8
  <2>2. queue[k][r] \in used /\ node[queue[k][r]].sec \in Sectors /\ Owner[node[queue[k][r]].sec] = k
    BY DEF ListInv, ListsOwnTheirNodes, LinksOwned
  <2>3. queue'[k][p] # i /\ node'[queue'[k][p]] = node[queue'[k][p]]
    BY <1>8
  <2> QED
    BY <2>1, <2>2, <2>3
<1>10. LinkedOnce'
  <2> SUFFICES ASSUME NEW k \in Modules, NEW p \in 1..Len(queue'[k]),
                      NEW r \in 1..Len(queue'[k]), queue'[k][p] = queue'[k][r]
               PROVE  p = r
    BY DEF LinkedOnce
  <2>1. CASE k # m
    BY <1>3, <2>1 DEF ListInv, ListsOwnTheirNodes, LinkedOnce
  <2>2. CASE k = m
    <3>1. p + 1 = r + 1
      BY <1>8, <2>2 DEF ListInv, ListsOwnTheirNodes, LinkedOnce, n
    <3>2. p \in Int /\ r \in Int
      BY <1>2, <1>1, <2>2
    <3> QED
      BY <3>1, <3>2
  <2> QED
    BY <2>1, <2>2
<1>11. NothingLeaked'
  <2> SUFFICES ASSUME NEW j, j \in used'
               PROVE  \E k \in Modules : \E p \in 1..Len(queue'[k]) : queue'[k][p] = j
    BY DEF NothingLeaked
  <2>1. j \in used /\ j # i
    OBVIOUS
  <2>2. PICK k \in Modules : \E p \in 1..Len(queue[k]) : queue[k][p] = j
    BY <2>1 DEF ListInv, ListsOwnTheirNodes, NothingLeaked
  <2>3. PICK p \in 1..Len(queue[k]) : queue[k][p] = j
    BY <2>2
  <2>4. CASE k = m
    <3>1. p # 1 /\ p \in 1..n
      BY <2>1, <2>3, <2>4 DEF n
    <3>2. p - 1 \in 1..(n - 1) /\ (p - 1) + 1 = p
      BY <1>1, <3>1
    <3> QED
      BY <1>2, <2>3, <2>4, <3>2
  <2>5. CASE k # m
    BY <1>3, <2>3, <2>5
  <2> QED
    BY <2>4, <2>5
<1>12. OldestTaken'
  <2> SUFFICES ASSUME NEW k \in Modules
               PROVE  /\ cur[k] # NONE => queue'[k] # <<>> /\ cur[k] = queue'[k][Len(queue'[k])]
                      /\ \A p \in 1..Len(queue'[k]) :
                           node'[queue'[k][p]].lock <=> cur[k] = queue'[k][p]
    BY DEF OldestTaken
  <2>1. cur[k] # NONE => queue'[k] # <<>> /\ cur[k] = queue'[k][Len(queue'[k])]
    <3>1. CASE k # m
      BY <1>3, <3>1 DEF ListInv, OldestTaken
    <3>2. CASE k = m /\ cur[m] # NONE
      <4>1. cur[m] = queue[m][n] /\ node[queue[m][n]].lock
        BY <1>1, <3>2 DEF ListInv, OldestTaken, n
      <4>2. n # 1
        BY <4>1
      <4>3. n - 1 \in 1..(n - 1) /\ (n - 1) + 1 = n /\ n - 1 # 0
        BY <1>1, <4>2
      <4>4. queue'[m][n - 1] = queue[m][n]
        BY <1>2, <4>3
      <4>5. queue'[m] # <<>>
        BY <1>2, <4>3, EmptySeq
      <4>6. Len(queue'[m]) = n - 1
        BY <1>2
      <4> QED
        BY <3>2, <4>1, <4>4, <4>5, <4>6
    <3> QED
      BY <3>1, <3>2
  <2>2. ASSUME NEW p \in 1..Len(queue'[k])
        PROVE  node'[queue'[k][p]].lock <=> cur[k] = queue'[k][p]
    <3>1. PICK r \in 1..Len(queue[k]) : queue'[k][p] = queue[k][r]
      BY <1>8
    <3>2. node'[queue'[k][p]] = node[queue[k][r]]
      <4>1. node'[queue'[k][p]] = node[queue'[k][p]]
        BY <1>8
      <4> QED
        BY <3>1, <4>1
    <3>3. node[queue[k][r]].lock <=> cur[k] = queue[k][r]
      BY DEF ListInv, OldestTaken
    <3> QED
      BY <3>1, <3>2, <3>3
  <2> QED
    BY <2>1, <2>2
<1>13. UnregisteredEmpty'
  BY <1>3 DEF ListInv, UnregisteredEmpty
<1> QED
  BY <1>7, <1>8, <1>9, <1>10, <1>11, <1>12, <1>13 DEF ListInv, ListsOwnTheirNodes

\* A write merged into a node leaves its place, sector and lock alone.
LEMMA MergeNode ==
  ASSUME TypeOK, ListInv, NEW i \in Slots, NEW x \in Node,
         x.sec = node[i].sec, x.lock = node[i].lock,
         node' = [node EXCEPT ![i] = x],
         queue' = queue, used' = used, cur' = cur, inited' = inited
  PROVE  node' \in [Slots -> Node] /\ ListInv'
<1>1. node' \in [Slots -> Node]
  BY DEF TypeOK
<1>2. \A j \in Slots : node'[j].sec = node[j].sec /\ node'[j].lock = node[j].lock
  BY DEF TypeOK
<1>3. \A k \in Modules : \A p \in 1..Len(queue[k]) : queue[k][p] \in Slots
  BY ElementOfSeq DEF TypeOK
<1>4. ListsOwnTheirNodes'
  BY <1>2, <1>3
  DEF ListInv, ListsOwnTheirNodes, LinksOwned, LinkedOnce, NothingLeaked
<1>5. OldestTaken'
  BY <1>2, <1>3 DEF ListInv, OldestTaken
<1> QED
  BY <1>1, <1>4, <1>5 DEF ListInv, UnregisteredEmpty

-----------------------------------------------------------------------------
(* A step of a flush *)

\* A module whose operation completes is idle, and so is the device.
LEMMA FlushDoneStep ==
  ASSUME IInv, NEW m \in Modules, FlushDone(m), inited' = inited,
         curMod \in {NONE, m} \/ state[curMod] = "IDLE"
  PROVE  /\ queue' \in [Modules -> Seq(Slots)] /\ used' \subseteq Slots
         /\ node' \in [Slots -> Node] /\ cur' \in [Modules -> Slots \cup {NONE}]
         /\ state' \in [Modules -> {"IDLE", "WRITTING_SUSPEND", "ERASE_SUSPEND"}]
         /\ dev' \in DevState /\ flash' \in [Sectors -> Sector]
         /\ asserted' = asserted
         /\ ListInv'
         /\ dev'.st = "NO"
         /\ \A k \in Modules : state'[k] = "IDLE"
<1> DEFINE i == OpOf(m)
<1>0. TypeOK /\ ListInv /\ HasOp(m)
  BY DEF IInv, FlushDone
<1>1. DevReady(state[m], node[i].type)
  BY <1>0, DeviceIsReady
<1>2. i \in Slots /\ node[i] \in Node
  BY <1>0, OpIsOldest
<1>3. /\ DevComplete(node[i], state[m])
      /\ queue' = [queue EXCEPT ![m] = Before(@, i)]
      /\ used' = used \ {i}
      /\ node' = [node EXCEPT ![i] = FreeNode]
      /\ cur' = [cur EXCEPT ![m] = NONE]
      /\ state' = [state EXCEPT ![m] = "IDLE"]
      /\ asserted' = asserted
  BY <1>1 DEF FlushDone
<1> HIDE DEF i
<1>4. /\ queue' \in [Modules -> Seq(Slots)] /\ used' \subseteq Slots
      /\ node' \in [Slots -> Node] /\ cur' \in [Modules -> Slots \cup {NONE}]
      /\ ListInv'
  BY <1>0, <1>3, DeleteOldest DEF i
<1>5. dev' \in DevState /\ flash' \in [Sectors -> Sector]
  BY <1>0, <1>2, <1>3, DevCompleteType DEF TypeOK
<1>6. dev'.st = "NO"
  BY <1>3 DEF DevComplete, DevIdle
<1>7. \A k \in Modules : k # m => state[k] = "IDLE"
  <2> SUFFICES ASSUME NEW k \in Modules, k # m, state[k] # "IDLE" PROVE FALSE
    OBVIOUS
  <2>1. curMod = k /\ k # NONE
    BY ModulesAssumption, NoneAssumption DEF IInv, SuspendInv, Modules
  <2> QED
    BY <2>1
<1>8. \A k \in Modules : state'[k] = "IDLE"
  BY <1>0, <1>3, <1>7 DEF TypeOK
<1>9. state' \in [Modules -> {"IDLE", "WRITTING_SUSPEND", "ERASE_SUSPEND"}]
  BY <1>0, <1>3 DEF TypeOK
<1> QED
  BY <1>3, <1>4, <1>5, <1>6, <1>8, <1>9

\* A module whose operation is suspended, and which is the current one from now
\* on, is the only one that is not idle.
LEMMA FlushSuspendStep ==
  ASSUME IInv, NEW m \in Modules, FlushSuspend(m), inited' = inited,
         curMod \in {NONE, m}, curMod' = m
  PROVE  /\ queue' \in [Modules -> Seq(Slots)] /\ used' \subseteq Slots
         /\ node' \in [Slots -> Node] /\ cur' \in [Modules -> Slots \cup {NONE}]
         /\ state' \in [Modules -> {"IDLE", "WRITTING_SUSPEND", "ERASE_SUSPEND"}]
         /\ dev' \in DevState /\ flash' \in [Sectors -> Sector]
         /\ asserted' = asserted
         /\ ListInv'
         /\ SuspendInv'
<1> DEFINE i == OpOf(m)
           st == state[m]
<1>0. TypeOK /\ ListInv /\ HasOp(m)
  BY DEF IInv, FlushSuspend
<1>1. /\ i \in Slots /\ node[i] \in Node /\ node[i].sec \in Sectors
      /\ st \in {"IDLE", "WRITTING_SUSPEND", "ERASE_SUSPEND"}
  BY <1>0, OpIsOldest DEF TypeOK
<1>2. /\ DevReady(st, node[i].type)
      /\ cur' = [cur EXCEPT ![m] = i]
      /\ node' = Taken(i)
      /\ queue' = queue /\ used' = used /\ asserted' = asserted
  BY DEF FlushSuspend
<1>3. st # "IDLE" => cur[m] = i /\ dev.sec = node[i].sec
  BY <1>1, NoneAssumption DEF IInv, SuspendInv, OpOf
<1>4. WorkSector(node[i], st) = node[i].sec
  BY <1>3 DEF WorkSector
<1>5. \/ /\ node[i].type = "W"
         /\ \/ \E k \in WorkFrom(node[i], st)..WorkTo(node[i], st) :
                 DevSuspendWrite(node[i], st, k)
            \/ st # "IDLE" /\ flash' = flash /\ dev' = dev
         /\ state' = [state EXCEPT ![m] = "WRITTING_SUSPEND"]
      \/ /\ node[i].type = "E"
         /\ DevSuspendErase(node[i], st)
         /\ state' = [state EXCEPT ![m] = "ERASE_SUSPEND"]
  BY DEF FlushSuspend
<1> HIDE DEF i, st
<1>6. /\ node' \in [Slots -> Node] /\ cur' \in [Modules -> Slots \cup {NONE}]
      /\ ListInv'
  BY <1>0, <1>2, TakeOldest DEF i
<1>7. dev' \in DevState /\ flash' \in [Sectors -> Sector]
  <2>1. CASE \/ DevSuspendErase(node[i], st)
             \/ \E k \in WorkFrom(node[i], st)..WorkTo(node[i], st) :
                  DevSuspendWrite(node[i], st, k)
    BY <1>0, <1>1, <1>4, <2>1, DevSuspendType
  <2>2. CASE flash' = flash /\ dev' = dev
    BY <1>0, <2>2 DEF TypeOK
  <2> QED
    BY <1>5, <2>1, <2>2
<1>8. /\ dev'.sec = node[i].sec
      /\ IF node[i].type = "W"
         THEN state'[m] = "WRITTING_SUSPEND" /\ dev'.st = "PROGRAM"
         ELSE state'[m] = "ERASE_SUSPEND" /\ dev'.st = "ERASE"
  <2>1. \A x : [state EXCEPT ![m] = x][m] = x
    BY <1>0 DEF TypeOK
  <2>2. CASE /\ node[i].type = "W"
             /\ \E k \in WorkFrom(node[i], st)..WorkTo(node[i], st) :
                  DevSuspendWrite(node[i], st, k)
             /\ state' = [state EXCEPT ![m] = "WRITTING_SUSPEND"]
    BY <1>4, <2>1, <2>2 DEF DevSuspendWrite
  <2>3. CASE /\ node[i].type = "W"
             /\ st # "IDLE" /\ flash' = flash /\ dev' = dev
             /\ state' = [state EXCEPT ![m] = "WRITTING_SUSPEND"]
    <3>1. dev.st = "PROGRAM"
      BY <1>1, <1>2, <2>3 DEF DevReady
    <3> QED
      BY <1>3, <2>1, <2>3, <3>1
  <2>4. CASE /\ node[i].type = "E"
             /\ DevSuspendErase(node[i], st)
             /\ state' = [state EXCEPT ![m] = "ERASE_SUSPEND"]
    BY <1>4, <2>1, <2>4 DEF DevSuspendErase
  <2> QED
    BY <1>5, <2>2, <2>3, <2>4
<1>9. \A k \in Modules : k # m => state'[k] = "IDLE"
  <2> SUFFICES ASSUME NEW k \in Modules, k # m, state'[k] # "IDLE" PROVE FALSE
    OBVIOUS
  <2>1. state[k] # "IDLE"
    BY <1>0, <1>5 DEF TypeOK
  <2>2. curMod = k /\ k # NONE
    BY <2>1, ModulesAssumption, NoneAssumption DEF IInv, SuspendInv, Modules
  <2> QED
    BY <2>2
<1>10. SuspendInv'
  <2>1. cur'[m] = i /\ cur'[m] # NONE
    BY <1>0, <1>1, <1>2, NoneAssumption DEF TypeOK, Slots
  <2>2. node'[i].sec = node[i].sec /\ node'[i].type = node[i].type
    BY <1>0, <1>1, <1>2 DEF TypeOK, Taken, Node
  <2>3. state'[m] # "IDLE"
    BY <1>8
  <2> QED
    BY <1>8, <1>9, <2>1, <2>2, <2>3 DEF SuspendInv
<1>11. state' \in [Modules -> {"IDLE", "WRITTING_SUSPEND", "ERASE_SUSPEND"}]
  BY <1>0, <1>5 DEF TypeOK
<1> QED
  BY <1>0, <1>2, <1>6, <1>7, <1>10, <1>11 DEF TypeOK

\* No module is NONE, and the identifier of a module is a value of cur_mod_id.
LEMMA ModuleIsNotNone ==
  /\ NONE \notin Modules
  /\ Modules \subseteq 0..NumModules
BY ModulesAssumption, NoneAssumption DEF Modules

\* With the device idle for everyone, nothing else about suspension is to show.
LEMMA NobodySuspended ==
  ASSUME TypeOK, SuspendInv, \A m \in Modules : curMod = m => cur[m] = NONE
  PROVE  (\A m \in Modules : state[m] = "IDLE") /\ dev.st = "NO"
<1>1. \A m \in Modules : state[m] = "IDLE"
  BY ModuleIsNotNone DEF SuspendInv
<1> QED
  BY <1>1 DEF SuspendInv

\* norflash_api_flush, for a module that is the current one or when there is
\* none, preserves the invariant.
LEMMA FlushLockedStep ==
  ASSUME IInv, NEW m \in Modules, curMod \in {NONE, m}, cs = Outside,
         FlushLocked(m), picked' \in [Flushers -> {NONE}]
  PROVE  IInv'
<1>1. /\ curModId' = m /\ curMod' = CurModAfter(m)
      /\ inited' = inited /\ cs' = cs
  BY DEF FlushLocked
<1>2. /\ TypeOK /\ ListInv /\ SuspendInv /\ ~asserted
      /\ curMod' \in Modules \cup {NONE} /\ curModId' \in 0..NumModules
      /\ inited' \subseteq Modules /\ cs' = Outside /\ cs'.op \notin {"erase", "write"}
      /\ picked' \in [Flushers -> Modules \cup {NONE}]
  BY <1>1, ModuleIsNotNone DEF IInv, TypeOK, CurModAfter, NoAssert, Outside
<1>3. PickInv'
  BY DEF PickInv
<1>4. WalkInv'
  BY <1>2 DEF WalkInv
<1>5. CASE FlushDone(m)
  <2>1. curMod \in {NONE, m} \/ state[curMod] = "IDLE"
    OBVIOUS
  <2>2. /\ queue' \in [Modules -> Seq(Slots)] /\ used' \subseteq Slots
        /\ node' \in [Slots -> Node] /\ cur' \in [Modules -> Slots \cup {NONE}]
        /\ state' \in [Modules -> {"IDLE", "WRITTING_SUSPEND", "ERASE_SUSPEND"}]
        /\ dev' \in DevState /\ flash' \in [Sectors -> Sector]
        /\ asserted' = asserted /\ ListInv'
        /\ dev'.st = "NO" /\ \A k \in Modules : state'[k] = "IDLE"
    BY <1>1, <1>5, <2>1, FlushDoneStep
  <2>3. SuspendInv'
    BY <2>2 DEF SuspendInv
  <2> QED
    BY <1>2, <1>3, <1>4, <2>2, <2>3 DEF IInv, TypeOK, NoAssert
<1>6. CASE FlushSuspend(m)
  <2>1. curMod' = m
    BY <1>1, <1>6 DEF FlushSuspend, CurModAfter
  <2>2. /\ queue' \in [Modules -> Seq(Slots)] /\ used' \subseteq Slots
        /\ node' \in [Slots -> Node] /\ cur' \in [Modules -> Slots \cup {NONE}]
        /\ state' \in [Modules -> {"IDLE", "WRITTING_SUSPEND", "ERASE_SUSPEND"}]
        /\ dev' \in DevState /\ flash' \in [Sectors -> Sector]
        /\ asserted' = asserted /\ ListInv' /\ SuspendInv'
    BY <1>1, <1>6, <2>1, FlushSuspendStep
  <2> QED
    BY <1>2, <1>3, <1>4, <2>2 DEF IInv, TypeOK, NoAssert
<1>7. CASE ~HasOp(m) /\ UNCHANGED <<queue, node, used, cur, state, flash, dev, asserted>>
  <2>1. cur[m] = NONE
    BY <1>7 DEF HasOp
  <2>2. (\A k \in Modules : state[k] = "IDLE") /\ dev.st = "NO"
    BY <1>2, <2>1, NobodySuspended, ModuleIsNotNone
  <2>3. ListInv'
    BY <1>1, <1>2, <1>7
    DEF ListInv, ListsOwnTheirNodes, LinksOwned, LinkedOnce, NothingLeaked,
        OldestTaken, UnregisteredEmpty
  <2>4. SuspendInv'
    BY <1>7, <2>2 DEF SuspendInv
  <2>5. TypeOK'
    BY <1>2, <1>7 DEF TypeOK
  <2> QED
    BY <1>2, <1>3, <1>4, <1>7, <2>3, <2>4, <2>5 DEF IInv, NoAssert
<1> QED
  BY <1>5, <1>6, <1>7 DEF FlushLocked

\* A thread that decides which module to flush.
LEMMA FlushPickStep ==
  ASSUME IInv, NEW f \in Flushers, FlushPick(f)
  PROVE  IInv'
<1>1. /\ picked' = [picked EXCEPT ![f] = NextModule]
      /\ UNCHANGED <<inited, queue, node, used, cur, state, curMod, curModId,
                     flash, dev, asserted, cs>>
  BY DEF FlushPick, apiVars, flushVars, devVars
<1>2. NextModule \in Modules \cup {NONE} /\ (curMod # NONE => NextModule = curMod)
  BY NextModuleType DEF IInv
<1>3. TypeOK'
  BY <1>1, <1>2 DEF IInv, TypeOK
<1>4. PickInv'
  BY <1>1, <1>2 DEF IInv, PickInv, TypeOK
<1>5. ListInv'
  BY <1>1
  DEF IInv, ListInv, ListsOwnTheirNodes, LinksOwned, LinkedOnce, NothingLeaked,
      OldestTaken, UnregisteredEmpty
<1>6. SuspendInv' /\ WalkInv' /\ NoAssert'
  BY <1>1 DEF IInv, SuspendInv, WalkInv, NoAssert
<1> QED
  BY <1>3, <1>4, <1>5, <1>6 DEF IInv

\* The only flushing thread, and no other has a pick outstanding.
LEMMA FlushThreadStep ==
  ASSUME IInv, Disciplined, NEW f \in Flushers, FlushThread(f)
  PROVE  IInv'
<1>1. /\ picked[f] # NONE /\ picked[f] \in Modules /\ cs = Outside
      /\ FlushLocked(picked[f]) /\ picked' = [picked EXCEPT ![f] = NONE]
  BY DEF FlushThread, Unlocked, IInv, TypeOK
<1>2. curMod \in {NONE, picked[f]}
  BY <1>1 DEF IInv, PickInv
<1>3. picked' \in [Flushers -> {NONE}]
  BY <1>1 DEF Disciplined, IInv, TypeOK
<1> QED
  BY <1>1, <1>2, <1>3, FlushLockedStep

\* The idle hook; a thread inside a flush is not idle.
LEMMA FlushIdleStep ==
  ASSUME IInv, FlushIdle, ~UNCHANGED vars
  PROVE  IInv'
<1>1. /\ NextModule # NONE /\ FlushLocked(NextModule) /\ picked' = picked
      /\ cs = Outside /\ \A f \in Flushers : picked[f] = NONE
  BY DEF FlushIdle, Unlocked
<1>2. NextModule \in Modules /\ curMod \in {NONE, NextModule}
  BY <1>1, NextModuleType DEF IInv
<1>3. picked' \in [Flushers -> {NONE}]
  BY <1>1 DEF IInv, TypeOK
<1> QED
  BY <1>1, <1>2, <1>3, FlushLockedStep

-----------------------------------------------------------------------------
(* A step of a client *)

\* What the invariant does not depend on may change freely: a call that only
\* enters or leaves the lock.
LEMMA LockStep ==
  ASSUME IInv, UNCHANGED <<apiVars, flushVars, devVars, picked>>,
         cs' \in {Outside} \cup InErase \cup InWrite \cup InSync, WalkInv'
  PROVE  IInv'
BY DEF IInv, TypeOK, ListInv, ListsOwnTheirNodes, LinksOwned, LinkedOnce,
       NothingLeaked, OldestTaken, UnregisteredEmpty, SuspendInv, PickInv,
       NoAssert, apiVars, flushVars, devVars

\* A call that only changes the lists.
LEMMA ListStep ==
  ASSUME IInv, UNCHANGED <<flushVars, devVars, picked>>,
         inited' \subseteq Modules, queue' \in [Modules -> Seq(Slots)],
         used' \subseteq Slots, node' \in [Slots -> Node],
         cs' \in {Outside} \cup InErase \cup InWrite \cup InSync,
         ListInv', WalkInv',
         \A m \in Modules : cur[m] # NONE =>
           /\ node'[cur[m]].sec = node[cur[m]].sec
           /\ node'[cur[m]].type = node[cur[m]].type
  PROVE  IInv'
<1>1. TypeOK'
  BY DEF IInv, TypeOK, flushVars, devVars
<1>2. SuspendInv'
  BY DEF IInv, SuspendInv, flushVars, devVars
<1>3. PickInv' /\ NoAssert'
  BY DEF IInv, PickInv, NoAssert, flushVars, devVars
<1> QED
  BY <1>1, <1>2, <1>3 DEF IInv

LEMMA RegisterStep ==
  ASSUME IInv, NEW m \in Modules, Register(m)
  PROVE  IInv'
<1>1. queue[m] = <<>>
  BY DEF Register, IInv, ListInv, UnregisteredEmpty
<1>2. cur[m] = NONE
  BY <1>1 DEF IInv, ListInv, OldestTaken
<1>3. state[m] = "IDLE"
  BY <1>2 DEF IInv, SuspendInv
<1>4. queue' = queue /\ cur' = cur /\ state' = state
  BY <1>1, <1>2, <1>3 DEF Register, IInv, TypeOK
<1>5. /\ inited' = inited \cup {m} /\ node' = node /\ used' = used
      /\ UNCHANGED <<flushVars, devVars, picked, cs>>
  BY <1>4 DEF Register, flushVars
<1>6. ListInv'
  BY <1>4, <1>5
  DEF IInv, ListInv, ListsOwnTheirNodes, LinksOwned, LinkedOnce, NothingLeaked,
      OldestTaken, UnregisteredEmpty, flushVars
<1>7. WalkInv'
  BY <1>4, <1>5 DEF IInv, WalkInv
<1> QED
  BY <1>4, <1>5, <1>6, <1>7, ListStep DEF IInv, TypeOK

\* The slot a walk has reached.
LEMMA HitIsSlot ==
  ASSUME TypeOK, NEW m \in Modules, NEW p \in 1..Len(queue[m])
  PROVE  queue[m][p] \in Slots
BY ElementOfSeq DEF TypeOK

\* The node a module works on is in its list and is allocated.
LEMMA CurIsLinked ==
  ASSUME TypeOK, ListInv, NEW m \in Modules, cur[m] # NONE
  PROVE  /\ cur[m] \in Slots /\ cur[m] \in used
         /\ \E p \in 1..Len(queue[m]) : cur[m] = queue[m][p] /\ node[queue[m][p]].lock
<1>1. HasOp(m) /\ OpOf(m) = cur[m]
  BY DEF HasOp, OpOf
<1>2. /\ Len(queue[m]) \in 1..Len(queue[m]) /\ cur[m] = queue[m][Len(queue[m])]
      /\ cur[m] \in Slots /\ cur[m] \in used
  BY <1>1, OpIsOldest
<1> QED
  BY <1>2 DEF ListInv, OldestTaken

\* A locked node is the oldest of its list.
LEMMA LockedIsLast ==
  ASSUME TypeOK, ListInv, NEW m \in Modules, NEW p \in 1..Len(queue[m]),
         node[queue[m][p]].lock
  PROVE  queue[m][p] = queue[m][Len(queue[m])]
<1>1. queue[m][p] # NONE
  BY HitIsSlot, NoneAssumption DEF Slots
<1> QED
  BY <1>1 DEF ListInv, OldestTaken

LEMMA WriteMergeStep ==
  ASSUME IInv, NEW s \in Sectors, NEW lo \in 1..Cells, NEW hi \in 1..Cells, NEW v \in Data,
         cs' = Outside, WriteMerge(s, lo, hi, v), UNCHANGED <<flushVars, devVars, picked>>
  PROVE  IInv'
<1> DEFINE p == MinOf(Stops(s))
           i == queue[Owner[s]][p]
           x == [type |-> node[i].type, sec |-> node[i].sec,
                 lo |-> IF node[i].lo <= lo THEN node[i].lo ELSE lo,
                 hi |-> IF node[i].hi >= hi THEN node[i].hi ELSE hi,
                 buf |-> Overwritten(node[i].buf, lo, hi, v), lock |-> node[i].lock]
<1>0. TypeOK /\ ListInv /\ Owner[s] \in Modules
  BY OwnerAssumption DEF IInv
<1>1. p \in Stops(s)
  <2>1. Stops(s) # {} /\ Stops(s) \subseteq 1..Len(queue[Owner[s]])
    BY DEF Stops, Hits, WriteMerge
  <2>2. 1..Len(queue[Owner[s]]) \subseteq Nat
    BY <1>0 DEF TypeOK
  <2> QED
    BY <2>1, <2>2, MinOfIsLeast
<1>2. p \in 1..Len(queue[Owner[s]])
  BY <1>1 DEF Stops, Hits
<1>3. i \in Slots /\ node[i] \in Node
  BY <1>0, <1>2, HitIsSlot DEF TypeOK
<1>4. /\ node[i].type = "W"
      /\ node' = [node EXCEPT ![i] = x]
      /\ inited' = inited /\ queue' = queue /\ used' = used
  BY DEF WriteMerge
<1> HIDE DEF i, p
<1>5. x \in Node
  <2>1. Overwritten(node[i].buf, lo, hi, v) \in Sector
    BY <1>3 DEF Node, Overwritten, Sector, Cell
  <2>2. /\ (IF node[i].lo <= lo THEN node[i].lo ELSE lo) \in 1..Cells
        /\ (IF node[i].hi >= hi THEN node[i].hi ELSE hi) \in 0..Cells
    BY <1>3, SizesAssumption DEF Node
  <2> QED
    BY <1>3, <2>1, <2>2 DEF x, Node
<1>6. node' = [node EXCEPT ![i] = x]
  BY <1>4
<1>7. x.sec = node[i].sec /\ x.lock = node[i].lock /\ x.type = node[i].type
  BY <1>4 DEF x
<1> HIDE DEF x
<1>8. cur' = cur /\ cs' = Outside /\ cs'.op \notin {"erase", "write"}
  BY DEF flushVars, Outside
<1>9. node' \in [Slots -> Node] /\ ListInv'
  BY <1>0, <1>3, <1>4, <1>5, <1>6, <1>7, <1>8, MergeNode
<1>10. \A j \in Slots : node'[j].sec = node[j].sec /\ node'[j].type = node[j].type
  BY <1>0, <1>3, <1>6, <1>7 DEF TypeOK
<1>11. \A m \in Modules : cur[m] # NONE => cur[m] \in Slots
  BY <1>0 DEF TypeOK
<1>12. WalkInv'
  BY <1>8 DEF WalkInv
<1> QED
  BY <1>0, <1>4, <1>8, <1>9, <1>10, <1>11, <1>12, ListStep DEF TypeOK

\* A new node in front of a list, wherever the call is then.
LEMMA NewNodeStep ==
  ASSUME IInv, NEW s \in Sectors, Owner[s] \in inited, NEW x \in Node, x.sec = s, ~x.lock,
         NEW i, i = MinOf(FreeSlots), FreeSlots # {},
         queue' = [queue EXCEPT ![Owner[s]] = <<i>> \o @],
         used' = used \cup {i},
         node' = [node EXCEPT ![i] = x],
         inited' = inited, cs' = Outside,
         UNCHANGED <<flushVars, devVars, picked>>
  PROVE  IInv'
<1>0. TypeOK /\ ListInv /\ cur' = cur /\ cs'.op \notin {"erase", "write"}
  BY DEF IInv, flushVars, Outside
<1>1. /\ queue' \in [Modules -> Seq(Slots)] /\ used' \subseteq Slots
      /\ node' \in [Slots -> Node] /\ ListInv'
  BY <1>0, NewNode
<1>2. i \notin used
  BY FirstFree
<1>3. \A m \in Modules : cur[m] # NONE => cur[m] \in Slots /\ cur[m] \in used
  BY <1>0, CurIsLinked
<1>4. \A m \in Modules : cur[m] # NONE =>
        /\ node'[cur[m]].sec = node[cur[m]].sec
        /\ node'[cur[m]].type = node[cur[m]].type
  BY <1>0, <1>2, <1>3 DEF TypeOK
<1>5. WalkInv'
  BY <1>0 DEF WalkInv
<1> QED
  BY <1>0, <1>1, <1>4, <1>5, ListStep DEF TypeOK

LEMMA WriteNewStep ==
  ASSUME IInv, NEW s \in Sectors, NEW lo \in 1..Cells, NEW hi \in 1..Cells, NEW v \in Data,
         cs' = Outside, Owner[s] \in inited,
         WriteNew(s, lo, hi, v), UNCHANGED <<flushVars, devVars, picked>>
  PROVE  IInv'
<1> DEFINE x == [type |-> "W", sec |-> s, lo |-> lo, hi |-> hi,
                 buf |-> Overwritten(WriteBase(s), lo, hi, v), lock |-> FALSE]
           i == MinOf(FreeSlots)
<1>1. x \in Node
  <2>1. WriteBase(s) \in Sector
    BY DEF IInv, TypeOK, WriteBase, ErasedSector, Sector, Cell
  <2>2. Overwritten(WriteBase(s), lo, hi, v) \in Sector
    BY <2>1 DEF Overwritten, Sector, Cell
  <2> QED
    BY <2>2, SizesAssumption DEF Node
<1>2. CASE FreeSlots # {} /\ FreeBuffers > 0
  <2>1. /\ node' = [node EXCEPT ![i] = x]
        /\ used' = used \cup {i}
        /\ queue' = [queue EXCEPT ![Owner[s]] = <<i>> \o @]
        /\ inited' = inited /\ cs' = Outside
    BY <1>2 DEF WriteNew
  <2>2. x.sec = s /\ ~x.lock
    OBVIOUS
  <2> HIDE DEF x, i
  <2> QED
    BY <1>1, <1>2, <2>1, <2>2, NewNodeStep DEF i
<1>3. CASE ~(FreeSlots # {} /\ FreeBuffers > 0)
  <2>1. UNCHANGED <<apiVars, flushVars, devVars, picked>>
    BY <1>3 DEF WriteNew, apiVars
  <2>2. cs' = Outside /\ cs'.op \notin {"erase", "write"}
    BY DEF Outside
  <2> QED
    BY <2>1, <2>2, LockStep DEF WalkInv
<1> QED
  BY <1>2, <1>3

LEMMA WriteAsyncStep ==
  ASSUME IInv, NEW s \in Sectors, NEW lo \in 1..Cells, NEW hi \in 1..Cells, NEW v \in Data,
         WriteAsync(s, lo, hi, v)
  PROVE  IInv'
<1>1. /\ cs' = [op |-> "write", sec |-> s, lo |-> lo, hi |-> hi, val |-> v]
      /\ UNCHANGED <<apiVars, flushVars, devVars, picked>>
      /\ Owner[s] \in inited
  BY DEF WriteAsync, Request
<1>2. cs' \in InWrite /\ cs'.op = "write" /\ cs'.sec = s
  BY <1>1 DEF InWrite
<1>3. WalkInv'
  BY <1>1, <1>2 DEF WalkInv, apiVars
<1> QED
  BY <1>1, <1>2, <1>3, LockStep

\* Without Interleaving the walk starts on a list of nodes of its sector only,
\* or of none.
LEMMA EraseAsyncStep ==
  ASSUME IInv, Disciplined, NEW s \in Sectors, EraseAsync(s)
  PROVE  IInv'
<1>1. /\ cs' = [op |-> "erase", sec |-> s, pos |-> 1, gap |-> FALSE]
      /\ UNCHANGED <<apiVars, flushVars, devVars, picked>>
      /\ Owner[s] \in inited
      /\ Hits(s) = {} \/ Hits(s) = 1..Len(queue[Owner[s]])
  BY DEF EraseAsync, Disciplined
<1>2. cs' \in InErase /\ cs'.sec = s /\ cs'.pos = 1 /\ cs'.gap = FALSE
  BY <1>1 DEF InErase
<1>3. WalkInv'
  <2>1. /\ \A p \in 1..Len(queue[Owner[s]]) : ~(p < 1)
        /\ \/ \A p \in 1..Len(queue[Owner[s]]) : node[queue[Owner[s]][p]].sec = s
           \/ \A p \in 1..Len(queue[Owner[s]]) : node[queue[Owner[s]][p]].sec # s
    BY <1>1 DEF Hits
  <2>2. inited' = inited /\ queue' = queue /\ node' = node
    BY <1>1 DEF apiVars
  <2> QED
    BY <1>1, <1>2, <2>1, <2>2 DEF WalkInv
<1> QED
  BY <1>1, <1>2, <1>3, LockStep

LEMMA SyncCallStep ==
  ASSUME IInv, UNCHANGED <<apiVars, flushVars, devVars, picked>>, cs' \in InSync
  PROVE  IInv'
<1>1. WalkInv'
  BY DEF WalkInv, InSync
<1> QED
  BY <1>1, LockStep

LEMMA EraseSyncStep ==
  ASSUME IInv, NEW s \in Sectors, EraseSync(s)
  PROVE  IInv'
<1>1. cs' \in InSync
  BY SizesAssumption DEF EraseSync, InSync
<1> QED
  BY <1>1, SyncCallStep DEF EraseSync

LEMMA WriteSyncStep ==
  ASSUME IInv, NEW s \in Sectors, NEW lo \in 1..Cells, NEW hi \in 1..Cells, NEW v \in Data,
         WriteSync(s, lo, hi, v)
  PROVE  IInv'
<1>1. cs' \in InSync
  BY SizesAssumption DEF WriteSync, InSync
<1> QED
  BY <1>1, SyncCallStep DEF WriteSync

-----------------------------------------------------------------------------
(* A step of a call inside the lock *)

LEMMA WriteCallType ==
  ASSUME TypeOK, cs.op = "write"
  PROVE  /\ cs \in InWrite /\ cs.sec \in Sectors /\ cs.lo \in 1..Cells
         /\ cs.hi \in 1..Cells /\ cs.val \in Data
<1>1. cs \in InWrite
  BY DEF TypeOK, Outside, InErase, InSync
<1> QED
  BY <1>1 DEF InWrite

LEMMA WriteAddStep ==
  ASSUME IInv, WriteAdd
  PROVE  IInv'
<1>1. /\ cs' = Outside /\ UNCHANGED <<flushVars, devVars, picked>>
      /\ \/ WriteMerge(cs.sec, cs.lo, cs.hi, cs.val)
         \/ WriteNew(cs.sec, cs.lo, cs.hi, cs.val)
  BY DEF WriteAdd
<1>2. /\ cs.sec \in Sectors /\ cs.lo \in 1..Cells /\ cs.hi \in 1..Cells /\ cs.val \in Data
      /\ Owner[cs.sec] \in inited
  BY WriteCallType DEF WriteAdd, IInv, WalkInv
<1> QED
  BY <1>1, <1>2, WriteMergeStep, WriteNewStep

LEMMA EraseCallType ==
  ASSUME TypeOK, cs.op = "erase"
  PROVE  cs \in InErase /\ cs.sec \in Sectors /\ Owner[cs.sec] \in Modules
<1>1. cs \in InErase
  BY DEF TypeOK, Outside, InWrite, InSync
<1> QED
  BY <1>1, OwnerAssumption DEF InErase

\* The node an iteration frees is at the head, so it is unlinked.
LEMMA WalkRemovesHead ==
  ASSUME IInv, WalkRemove
  PROVE  LET m == Owner[cs.sec]
             i == queue[m][1]
         IN  /\ cs \in InErase /\ cs.op = "erase" /\ cs.pos = 1 /\ cs.sec \in Sectors
             /\ m \in Modules /\ queue[m] # <<>>
             /\ i \in Slots /\ node[i].sec = cs.sec /\ ~node[i].lock
             /\ \A r \in 1..Len(queue[m]) : node[queue[m][r]].sec = cs.sec
             /\ used' = used \ {i}
             /\ queue' = [queue EXCEPT ![m] = WithoutPos(@, 1)]
             /\ node' = [node EXCEPT ![i] = FreeNode]
             /\ cs' = [cs EXCEPT !.gap = TRUE]
             /\ UNCHANGED <<inited, flushVars, devVars, picked>>
<1> DEFINE m == Owner[cs.sec]
           i == queue[m][cs.pos]
<1>0. /\ TypeOK /\ ListInv /\ WalkInv
      /\ cs.op = "erase" /\ cs.pos <= Len(queue[m])
      /\ node[i].sec = cs.sec /\ ~node[i].lock
      /\ UNCHANGED <<inited, flushVars, devVars, picked>>
  BY DEF IInv, WalkRemove, Walking, Removable
<1>1. cs \in InErase /\ cs.sec \in Sectors /\ m \in Modules /\ cs.pos \in Nat \ {0}
  BY <1>0, EraseCallType DEF InErase
<1>2. /\ queue[m] \in Seq(Slots) /\ Len(queue[m]) \in Nat
      /\ cs.pos \in 1..Len(queue[m])
  BY <1>0, <1>1 DEF TypeOK
<1>3. \A p \in 1..Len(queue[m]) : node[queue[m][p]].sec = cs.sec
  BY <1>0, <1>2 DEF WalkInv
<1>4. ~(1 < cs.pos)
  <2> SUFFICES ASSUME 1 < cs.pos PROVE FALSE
    OBVIOUS
  <2>0. 1 \in 1..Len(queue[m])
    BY <1>2
  <2>1. node[queue[m][1]].lock
    BY <1>0, <1>3, <2>0 DEF WalkInv
  <2>2. queue[m][1] = queue[m][Len(queue[m])]
    BY <1>0, <1>1, <2>0, <2>1, LockedIsLast
  <2>3. Len(queue[m]) = 1
    BY <1>0, <1>1, <1>2, <2>0, <2>2 DEF ListInv, ListsOwnTheirNodes, LinkedOnce
  <2> QED
    BY <1>2, <2>3
<1>5. cs.pos = 1 /\ queue[m] # <<>>
  BY <1>1, <1>2, <1>4, EmptySeq
<1>6. i = queue[m][1] /\ i \in Slots
  BY <1>0, <1>1, <1>2, <1>5, HitIsSlot
<1>7. /\ used' = used \ {i}
      /\ queue' = [queue EXCEPT ![m] = WithoutPos(@, 1)]
      /\ node' = [node EXCEPT ![i] = FreeNode]
      /\ cs' = [cs EXCEPT !.gap = TRUE]
  BY <1>5 DEF WalkRemove
<1> HIDE DEF i, m
<1> QED
  BY <1>0, <1>1, <1>3, <1>5, <1>6, <1>7 DEF i, m

LEMMA WalkRemoveStep ==
  ASSUME IInv, WalkRemove
  PROVE  IInv'
<1> DEFINE m == Owner[cs.sec]
           i == queue[m][1]
<1>0. TypeOK /\ ListInv /\ WalkInv
  BY DEF IInv
<1>1. /\ cs \in InErase /\ cs.op = "erase" /\ cs.pos = 1 /\ cs.sec \in Sectors
      /\ m \in Modules /\ queue[m] # <<>>
      /\ i \in Slots /\ node[i].sec = cs.sec /\ ~node[i].lock
      /\ \A r \in 1..Len(queue[m]) : node[queue[m][r]].sec = cs.sec
  BY WalkRemovesHead
<1>2. /\ used' = used \ {i}
      /\ queue' = [queue EXCEPT ![m] = WithoutPos(@, 1)]
      /\ node' = [node EXCEPT ![i] = FreeNode]
      /\ cs' = [cs EXCEPT !.gap = TRUE]
      /\ UNCHANGED <<inited, flushVars, devVars, picked>>
  BY WalkRemovesHead
<1>3. cur' = cur /\ inited' = inited
  BY <1>2 DEF flushVars
<1> HIDE DEF i
<1>4. /\ queue' \in [Modules -> Seq(Slots)] /\ used' \subseteq Slots
      /\ node' \in [Slots -> Node] /\ ListInv'
      /\ \A k \in Modules : \A p \in 1..Len(queue'[k]) :
           node'[queue'[k][p]] = node[queue'[k][p]]
      /\ \A p \in 1..Len(queue'[m]) :
           \E r \in 1..Len(queue[m]) : queue'[m][p] = queue[m][r]
  BY <1>0, <1>1, <1>2, <1>3, RemoveHead DEF i
<1>5. /\ cs' \in InErase /\ cs'.op = "erase" /\ cs'.sec = cs.sec /\ cs'.pos = 1
  BY <1>1, <1>2 DEF InErase
<1>6. WalkInv'
  <2>1. \A p \in 1..Len(queue'[m]) : node'[queue'[m][p]].sec = cs.sec
    <3> TAKE p \in 1..Len(queue'[m])
    <3>1. PICK r \in 1..Len(queue[m]) : queue'[m][p] = queue[m][r]
      BY <1>4
    <3>2. node'[queue'[m][p]] = node[queue'[m][p]]
      BY <1>1, <1>4
    <3> QED
      BY <1>1, <3>1, <3>2
  <2>2. Owner[cs.sec] \in inited'
    BY <1>0, <1>1, <1>3 DEF WalkInv
  <2> QED
    BY <1>5, <2>1, <2>2 DEF WalkInv
<1>7. \A k \in Modules : cur[k] # NONE =>
        /\ node'[cur[k]].sec = node[cur[k]].sec
        /\ node'[cur[k]].type = node[cur[k]].type
  <2> TAKE k \in Modules
  <2> HAVE cur[k] # NONE
  <2>1. cur[k] \in Slots /\ node[cur[k]].lock
    BY <1>0, CurIsLinked
  <2>2. cur[k] # i
    BY <1>1, <2>1 DEF i
  <2> QED
    BY <1>0, <1>2, <2>1, <2>2 DEF TypeOK
<1> QED
  BY <1>0, <1>2, <1>3, <1>4, <1>5, <1>6, <1>7, ListStep DEF TypeOK

LEMMA WalkMergeStep ==
  ASSUME IInv, WalkMerge
  PROVE  IInv'
<1>1. cs' = Outside /\ cs'.op \notin {"erase", "write"}
  BY DEF WalkMerge, Outside
<1> QED
  BY <1>1, LockStep DEF WalkMerge, WalkInv

\* The walk passes by nodes of other sectors and locked ones.
LEMMA WalkOnStep ==
  ASSUME IInv, WalkOn
  PROVE  IInv'
<1> DEFINE m == Owner[cs.sec]
           i == queue[m][cs.pos]
<1>0. /\ TypeOK /\ ListInv /\ WalkInv
      /\ cs.op = "erase" /\ cs.pos <= Len(queue[m])
      /\ ~Removable(node[i], cs.sec)
      /\ cs' = NextNode
      /\ UNCHANGED <<apiVars, flushVars, devVars, picked>>
  BY DEF IInv, WalkOn, Walking
<1>1. cs \in InErase /\ m \in Modules /\ cs.pos \in Nat \ {0}
  BY <1>0, EraseCallType DEF InErase
<1>2. /\ Len(queue[m]) \in 1..Len(queue[m]) /\ cs.pos \in 1..Len(queue[m])
      /\ Len(queue[m]) \in Nat
  BY <1>0, <1>1 DEF TypeOK
<1>3. /\ cs' \in InErase /\ cs'.op = "erase" /\ cs'.sec = cs.sec
      /\ cs'.pos = cs.pos + 1 /\ cs'.gap = FALSE
  <2>1. cs.sec \in Sectors /\ cs.pos + 1 \in Nat \ {0}
    BY <1>1 DEF InErase
  <2> QED
    BY <1>0, <2>1 DEF NextNode, InErase
<1>4. ASSUME NEW p \in 1..Len(queue[m]), p < cs.pos + 1, node[queue[m][p]].sec = cs.sec
      PROVE  node[queue[m][p]].lock
  <2>1. CASE p = cs.pos
    BY <1>0, <1>4, <2>1 DEF Removable
  <2>2. CASE p < cs.pos
    BY <1>0, <1>4, <2>2 DEF WalkInv
  <2> QED
    BY <1>1, <1>2, <1>4, <2>1, <2>2
<1>5. WalkInv'
  <2>1. /\ inited' = inited /\ queue' = queue /\ node' = node
        /\ \A p \in 1..Len(queue[m]) :
             p < cs'.pos /\ node[queue[m][p]].sec = cs.sec => node[queue[m][p]].lock
    BY <1>0, <1>3, <1>4 DEF apiVars
  <2>2. /\ Owner[cs.sec] \in inited
        /\ \/ \A p \in 1..Len(queue[m]) : node[queue[m][p]].sec = cs.sec
           \/ \A p \in 1..Len(queue[m]) : node[queue[m][p]].sec # cs.sec
    BY <1>0 DEF WalkInv
  <2> HIDE DEF m
  <2>3. cs'.gap => cs'.pos = 1
    BY <1>3
  <2> QED
    BY <1>3, <2>1, <2>2, <2>3 DEF WalkInv, m
<1> QED
  BY <1>0, <1>3, <1>5, LockStep

LEMMA WalkEndStep ==
  ASSUME IInv, WalkEnd
  PROVE  IInv'
<1> DEFINE x == EraseNode(cs.sec)
           i == MinOf(FreeSlots)
<1>1. /\ cs.sec \in Sectors /\ Owner[cs.sec] \in inited
      /\ cs' = Outside /\ UNCHANGED <<inited, flushVars, devVars, picked>>
  BY EraseCallType DEF IInv, WalkEnd, WalkInv
<1>2. x \in Node /\ x.sec = cs.sec /\ ~x.lock
  <2>1. ErasedSector \in Sector
    BY DEF ErasedSector, Sector, Cell
  <2>2. x = [type |-> "E", sec |-> cs.sec, lo |-> 1, hi |-> 0,
             buf |-> ErasedSector, lock |-> FALSE]
    BY DEF EraseNode
  <2> QED
    BY <1>1, <2>1, <2>2, SizesAssumption DEF Node
<1>3. CASE FreeSlots # {}
  <2>1. /\ node' = [node EXCEPT ![i] = x]
        /\ used' = used \cup {i}
        /\ queue' = [queue EXCEPT ![Owner[cs.sec]] = <<i>> \o @]
    BY <1>3 DEF WalkEnd
  <2> HIDE DEF x, i
  <2> QED
    BY <1>1, <1>2, <1>3, <2>1, NewNodeStep DEF i
<1>4. CASE FreeSlots = {}
  <2>1. UNCHANGED <<apiVars, flushVars, devVars, picked>>
    BY <1>1, <1>4 DEF WalkEnd, apiVars
  <2>2. cs' = Outside /\ cs'.op \notin {"erase", "write"}
    BY <1>1 DEF Outside
  <2> QED
    BY <2>1, <2>2, LockStep DEF WalkInv
<1> QED
  BY <1>3, <1>4

LEMMA SyncCallType ==
  ASSUME TypeOK, cs.op = "sync"
  PROVE  cs \in InSync /\ cs.sec \in Sectors /\ Owner[cs.sec] \in Modules
<1>1. cs \in InSync
  BY DEF TypeOK, Outside, InErase, InWrite
<1> QED
  BY <1>1, OwnerAssumption DEF InSync

\* One operation completes in either loop of a synchronous call.
LEMMA SyncFlushStep ==
  ASSUME IInv, NEW m \in Modules, FlushDone(m), cs.op = "sync",
         curMod \in {NONE, m} \/ state[curMod] = "IDLE",
         UNCHANGED <<inited, curMod, curModId, picked, cs>>
  PROVE  IInv'
<1>1. /\ queue' \in [Modules -> Seq(Slots)] /\ used' \subseteq Slots
      /\ node' \in [Slots -> Node] /\ cur' \in [Modules -> Slots \cup {NONE}]
      /\ state' \in [Modules -> {"IDLE", "WRITTING_SUSPEND", "ERASE_SUSPEND"}]
      /\ dev' \in DevState /\ flash' \in [Sectors -> Sector]
      /\ asserted' = asserted /\ ListInv'
      /\ dev'.st = "NO" /\ \A k \in Modules : state'[k] = "IDLE"
  BY FlushDoneStep
<1>2. SuspendInv'
  BY <1>1 DEF SuspendInv
<1>3. PickInv' /\ WalkInv' /\ NoAssert' /\ TypeOK'
  BY <1>1 DEF IInv, PickInv, WalkInv, NoAssert, TypeOK
<1> QED
  BY <1>1, <1>2, <1>3 DEF IInv

LEMMA SyncForeignStep ==
  ASSUME IInv, SyncForeign
  PROVE  IInv'
<1>1. curMod \in Modules
  BY DEF SyncForeign, Foreign, IInv, TypeOK
<1> QED
  BY <1>1, SyncFlushStep DEF SyncForeign, InSyncCall

LEMMA SyncDrainStep ==
  ASSUME IInv, SyncDrain
  PROVE  IInv'
<1>1. Owner[cs.sec] \in Modules /\ cs.op = "sync"
  BY SyncCallType DEF SyncDrain, InSyncCall, IInv
<1>2. curMod \in {NONE, Owner[cs.sec]} \/ state[curMod] = "IDLE"
  BY DEF SyncDrain, Foreign
<1> QED
  BY <1>1, <1>2, SyncFlushStep DEF SyncDrain

LEMMA SyncFinishStep ==
  ASSUME IInv, SyncFinish
  PROVE  IInv'
<1> DEFINE n == [type |-> cs.type, sec |-> cs.sec, lo |-> cs.lo, hi |-> cs.hi,
                 buf |-> [c \in 1..Cells |-> cs.val], lock |-> FALSE]
<1>1. /\ cs \in InSync /\ cs' = Outside /\ cs'.op \notin {"erase", "write"}
      /\ UNCHANGED <<apiVars, flushVars, picked, asserted>>
  BY SyncCallType DEF SyncFinish, InSyncCall, IInv, Outside
<1>2. n \in Node
  <2>1. [c \in 1..Cells |-> cs.val] \in Sector
    BY <1>1 DEF InSync, Sector, Cell
  <2> QED
    BY <1>1, <2>1 DEF InSync, Node
<1>3. dev' \in DevState /\ flash' \in [Sectors -> Sector] /\ dev'.st = dev.st
      /\ (dev.st # "NO" => dev' = dev)
  <2>1. CASE dev.st = "NO"
    <3>1. DevComplete(n, "IDLE")
      BY <2>1 DEF SyncFinish
    <3> HIDE DEF n
    <3> QED
      BY <1>2, <2>1, <3>1, DevCompleteType DEF IInv, DevComplete, DevIdle
  <2>2. CASE dev.st # "NO"
    BY <2>2 DEF SyncFinish, IInv, TypeOK
  <2> QED
    BY <2>1, <2>2
<1>4. TypeOK'
  BY <1>1, <1>3 DEF IInv, TypeOK, apiVars, flushVars
<1>5. SuspendInv'
  <2>1. CASE dev.st # "NO"
    BY <1>1, <1>3, <2>1 DEF IInv, SuspendInv, apiVars, flushVars
  <2>2. CASE dev.st = "NO"
    <3>1. \A m \in Modules : state[m] = "IDLE"
      BY <2>2 DEF IInv, SuspendInv
    <3> QED
      BY <1>1, <1>3, <2>2, <3>1 DEF SuspendInv, flushVars
  <2> QED
    BY <2>1, <2>2
<1>6. ListInv'
  BY <1>1
  DEF IInv, ListInv, ListsOwnTheirNodes, LinksOwned, LinkedOnce, NothingLeaked,
      OldestTaken, UnregisteredEmpty, apiVars, flushVars
<1> QED
  BY <1>1, <1>4, <1>5, <1>6 DEF IInv, PickInv, WalkInv, NoAssert, flushVars

-----------------------------------------------------------------------------
(* The theorems *)

LEMMA InitInvariant ==
  ASSUME Init
  PROVE  IInv
<1>1. TypeOK
  <2>1. FreeNode \in Node /\ DevIdle \in DevState
    BY SizesAssumption
    DEF FreeNode, EraseNode, Node, ErasedSector, Sector, Cell, DevIdle, DevState
  <2>2. NumModules \in 0..NumModules
    BY ModulesAssumption
  <2>3. flash \in [Sectors -> Sector]
    BY DEF Init, Sector, Cell
  <2>4. queue \in [Modules -> Seq(Slots)]
    BY DEF Init
  <2> QED
    BY <2>1, <2>2, <2>3, <2>4 DEF Init, TypeOK
<1>2. ListInv
  BY DEF Init, ListInv, ListsOwnTheirNodes, LinksOwned, LinkedOnce,
         NothingLeaked, OldestTaken, UnregisteredEmpty
<1>3. SuspendInv
  BY DEF Init, SuspendInv, DevIdle
<1>4. PickInv /\ WalkInv /\ NoAssert
  BY DEF Init, PickInv, WalkInv, Outside, NoAssert
<1> QED
  BY <1>1, <1>2, <1>3, <1>4 DEF IInv

LEMMA NextInvariant ==
  ASSUME IInv, Disciplined, [Next]_vars
  PROVE  IInv'
<1>1. CASE UNCHANGED vars
  <2>1. UNCHANGED <<apiVars, flushVars, devVars, picked, cs>>
    BY <1>1 DEF vars, apiVars, flushVars, devVars
  <2>2. WalkInv'
    BY <2>1 DEF IInv, WalkInv, apiVars
  <2>3. cs' \in {Outside} \cup InErase \cup InWrite \cup InSync
    BY <2>1 DEF IInv, TypeOK
  <2> QED
    BY <2>1, <2>2, <2>3, LockStep
<1>2. CASE Client
  <2>1. ASSUME NEW s \in Sectors, EraseAsync(s) \/ EraseSync(s) PROVE IInv'
    BY <2>1, EraseAsyncStep, EraseSyncStep
  <2>2. ASSUME NEW s \in Sectors, NEW lo \in 1..Cells, NEW hi \in 1..Cells, NEW v \in Data,
               WriteAsync(s, lo, hi, v) \/ WriteSync(s, lo, hi, v)
        PROVE  IInv'
    BY <2>2, WriteAsyncStep, WriteSyncStep
  <2> QED
    BY <1>2, <2>1, <2>2, RegisterStep DEF Client
<1>3. CASE Flush
  BY <1>1, <1>3, FlushIdleStep, FlushPickStep, FlushThreadStep DEF Flush
<1>4. CASE Locked
  BY <1>4, WriteAddStep, WalkRemoveStep, WalkMergeStep, WalkOnStep, WalkEndStep,
     SyncForeignStep, SyncDrainStep, SyncFinishStep DEF Locked
<1> QED
  BY <1>1, <1>2, <1>3, <1>4 DEF Next

\* The inductive invariant holds of every execution with one flushing thread
\* and clients that do not erase behind their other sectors.
THEOREM Invariant ==
  ASSUME Disciplined
  PROVE  Spec => []IInv
<1>1. Init => IInv
  BY InitInvariant
<1>2. IInv /\ [Next]_vars => IInv'
  BY NextInvariant
<1> QED
  BY <1>1, <1>2, PTL DEF Spec

\* Every variable keeps its type: the lists hold slots of the pool, the device
\* a page of a sector.
THEOREM TypeCorrect ==
  ASSUME Disciplined
  PROVE  Spec => []TypeOK
<1>1. IInv => TypeOK
  BY DEF IInv
<1> QED
  BY <1>1, Invariant, PTL

\* No flush, and no loop of a synchronous call, finds the device in a state its
\* module does not expect: the ASSERT(0)s of _opera_flush are not reached.
THEOREM FlushNeverAsserts ==
  ASSUME Disciplined
  PROVE  Spec => []NoAssert
<1>1. IInv => NoAssert
  BY DEF IInv
<1> QED
  BY <1>1, Invariant, PTL

\* The pool and the lists agree: nothing is freed while linked, nothing linked
\* twice, nothing leaked.
THEOREM PoolIntegrity ==
  ASSUME Disciplined
  PROVE  Spec => []ListsOwnTheirNodes
<1>1. IInv => ListsOwnTheirNodes
  BY DEF IInv, ListInv
<1> QED
  BY <1>1, Invariant, PTL

\* An erase that is accepted has deleted every pending node of its sector but
\* the one that is being flushed.  Disciplined is needed: an erase that goes on
\* behind nodes of other sectors frees nodes the list keeps.
THEOREM EraseDeletesPending ==
  ASSUME Disciplined
  PROVE  Spec => []EraseDeletes
<1>1. ASSUME IInv PROVE EraseDeletes
  <2> SUFFICES ASSUME cs.op = "erase", cs.pos > Len(queue[Owner[cs.sec]]),
                      NEW p \in Hits(cs.sec)
               PROVE  NodeAt(cs.sec, p).lock
    BY DEF EraseDeletes
  <2>1. cs.pos \in Nat /\ Len(queue[Owner[cs.sec]]) \in Nat
    BY <1>1, EraseCallType DEF IInv, TypeOK, InErase
  <2>2. p \in 1..Len(queue[Owner[cs.sec]]) /\ NodeAt(cs.sec, p).sec = cs.sec
    BY DEF Hits, NodeAt
  <2>3. p < cs.pos
    BY <2>1, <2>2
  <2> QED
    BY <1>1, <2>2, <2>3 DEF IInv, WalkInv, NodeAt
<1> QED
  BY <1>1, Invariant, PTL

\* A suspended device always belongs to the current module's oldest node.
THEOREM SuspensionIsCurrent ==
  ASSUME Disciplined
  PROVE  Spec => []SuspendedByCurrent
<1>1. ASSUME IInv PROVE SuspendedByCurrent
  <2>1. ASSUME NEW m \in Modules, cur[m] # NONE
        PROVE  /\ queue[m] # <<>> /\ cur[m] = queue[m][Len(queue[m])]
               /\ node[cur[m]].lock
    BY <1>1, <2>1, CurIsLinked DEF IInv, ListInv, OldestTaken
  <2> QED
    BY <1>1, <2>1 DEF IInv, SuspendInv, SuspendedByCurrent
<1> QED
  BY <1>1, Invariant, PTL

=============================================================================
