------------------------ MODULE NorflashStore_proofs ------------------------
(***************************************************************************)
(* What the flash, the pending nodes and the reads of NorflashApi have to   *)
(* do with each other, and that they implement the store of FlashStore.     *)
(***************************************************************************)
EXTENDS NorflashApi_proofs

-----------------------------------------------------------------------------
(* Programming a sector from a buffer *)

\* Programming the pages that are still erased makes the sector the buffer.
LEMMA ProgramCompletes ==
  ASSUME NEW sector \in Sector, NEW buf \in Sector, NEW lo, NEW hi,
         Agrees(buf, sector, lo, hi)
  PROVE  ProgramRange(sector, buf, lo, hi) = buf
<1>1. ASSUME NEW c \in 1..Cells
      PROVE  (IF c \in lo..hi THEN Programmed(sector[c], buf[c]) ELSE sector[c]) = buf[c]
  BY DEF Agrees, Programmed
<1>2. buf = [c \in 1..Cells |-> buf[c]]
  BY DEF Sector
<1> QED
  BY <1>1, <1>2 DEF ProgramRange

\* A device stopped at page k has damaged that page only, and needs only the
\* pages behind it once k is completed.
StoppedAt(sector, buf, lo, k) ==
  LET done == ProgramRange(sector, buf, lo, k - 1)
  IN  [done EXCEPT ![k] = InFlight(done[k], Programmed(done[k], buf[k]))]

CanGoOn(sector, buf, lo, hi, k) ==
  LET new == StoppedAt(sector, buf, lo, k)
  IN  /\ Programmed(ProgramRange(sector, buf, lo, k - 1)[k], buf[k]) = buf[k]
      /\ \A c \in 1..Cells : new[c] = Mixed => c = k
      /\ Agrees(buf, [new EXCEPT ![k] = buf[k]], k + 1, hi)

LEMMA ProgramStops ==
  ASSUME NEW sector \in Sector, NEW buf \in Sector, NEW lo \in Nat \ {0}, NEW hi \in 0..Cells,
         Agrees(buf, sector, lo, hi), \A c \in 1..Cells : buf[c] # Mixed,
         NEW k \in lo..hi
  PROVE  CanGoOn(sector, buf, lo, hi, k)
<1> DEFINE done == ProgramRange(sector, buf, lo, k - 1)
           fin  == Programmed(done[k], buf[k])
           new  == StoppedAt(sector, buf, lo, k)
<1>0. new = [done EXCEPT ![k] = InFlight(done[k], fin)]
  BY DEF StoppedAt
<1>1. k \in 1..Cells /\ k \in Int /\ lo \in Int /\ hi \in Int /\ lo <= k /\ k <= hi
  BY SizesAssumption
<1>2. done \in [1..Cells -> Cell]
  BY ProgramRangeType DEF Sector
<1>3. \A c \in 1..Cells : done[c] = IF c \in lo..(k - 1) THEN Programmed(sector[c], buf[c]) ELSE sector[c]
  BY DEF ProgramRange
<1>4. \A c \in 1..Cells : sector[c] = buf[c] \/ (c \in lo..hi /\ sector[c] = FF)
  BY DEF Agrees
<1> HIDE DEF done, new
<1>5. \A c \in 1..Cells : c < k => done[c] = buf[c]
  <2> TAKE c \in 1..Cells
  <2> HAVE c < k
  <2>1. CASE c \in lo..(k - 1)
    BY <1>3, <1>4, <2>1 DEF Programmed
  <2>2. CASE c \notin lo..(k - 1)
    <3>1. c \notin lo..hi
      BY <1>1, <2>2
    <3> QED
      BY <1>3, <1>4, <2>2, <3>1
  <2> QED
    BY <2>1, <2>2
<1>6. \A c \in 1..Cells : c >= k => done[c] = sector[c]
  BY <1>1, <1>3
<1>7. fin = buf[k]
  BY <1>1, <1>4, <1>6 DEF Programmed
<1> HIDE DEF fin
<1>8. \A c \in 1..Cells : c # k => new[c] = done[c] /\ [new EXCEPT ![k] = fin][c] = done[c]
  BY <1>0, <1>2
<1>9. [new EXCEPT ![k] = fin][k] = buf[k]
  BY <1>0, <1>1, <1>2, <1>7
<1>10. \A c \in 1..Cells : c < k \/ c > k \/ c = k
  BY <1>1
<1>11. \A c \in 1..Cells : done[c] # Mixed
  BY <1>4, <1>5, <1>6, <1>10, <1>1, ValuesAssumption
<1>12. \A c \in 1..Cells : new[c] = Mixed => c = k
  BY <1>8, <1>11
<1>13. ASSUME NEW c \in 1..Cells
       PROVE  \/ [new EXCEPT ![k] = fin][c] = buf[c]
              \/ c \in (k + 1)..hi /\ [new EXCEPT ![k] = fin][c] = FF
  <2>1. CASE c = k
    BY <1>9, <2>1
  <2>2. CASE c < k
    BY <1>1, <1>5, <1>8, <2>2
  <2>3. CASE c > k
    <3>1. [new EXCEPT ![k] = fin][c] = sector[c]
      BY <1>1, <1>6, <1>8, <2>3
    <3>2. c \in lo..hi => c \in (k + 1)..hi
      BY <1>1, <2>3
    <3> QED
      BY <1>4, <3>1, <3>2
  <2> QED
    BY <1>10, <2>1, <2>2, <2>3
<1>14. Agrees(buf, [new EXCEPT ![k] = buf[k]], k + 1, hi)
  BY <1>7, <1>13 DEF Agrees
<1> QED
  BY <1>7, <1>12, <1>14 DEF fin, new, done, CanGoOn

-----------------------------------------------------------------------------
(* The pending operations of a sector *)

\* The positions of a sector's nodes are positions of its owner's list.
LEMMA HitsType ==
  ASSUME TypeOK, NEW s \in Sectors
  PROVE  /\ Owner[s] \in Modules
         /\ Hits(s) \subseteq 1..Len(queue[Owner[s]])
         /\ Len(queue[Owner[s]]) \in Nat
         /\ Hits(s) \subseteq Nat
         /\ \A p \in Hits(s) : NodeAt(s, p) \in Node /\ NodeAt(s, p).sec = s
<1>1. Owner[s] \in Modules
  BY OwnerAssumption
<1>2. Hits(s) \subseteq 1..Len(queue[Owner[s]]) /\ Len(queue[Owner[s]]) \in Nat
  BY <1>1 DEF Hits, TypeOK
<1>3. \A p \in Hits(s) : NodeAt(s, p) \in Node
  BY <1>1, <1>2, HitIsSlot DEF NodeAt, TypeOK
<1> QED
  BY <1>1, <1>2, <1>3 DEF Hits, NodeAt

\* A read is decided by the newest.
LEMMA NewestHit ==
  ASSUME TypeOK, NEW s \in Sectors, Hits(s) # {}
  PROVE  /\ MinOf(Hits(s)) \in Hits(s)
         /\ \A p \in Hits(s) : MinOf(Hits(s)) <= p
         /\ View(s) = IF NodeAt(s, MinOf(Hits(s))).type = "W"
                      THEN NodeAt(s, MinOf(Hits(s))).buf ELSE ErasedSector
<1>1. MinOf(Hits(s)) \in Hits(s) /\ \A p \in Hits(s) : MinOf(Hits(s)) <= p
  BY HitsType, MinOfIsLeast
<1> QED
  BY <1>1 DEF View

\* It is unique.
LEMMA NewestIs ==
  ASSUME TypeOK, NEW s \in Sectors, NEW p \in Hits(s), \A q \in Hits(s) : p <= q
  PROVE  MinOf(Hits(s)) = p
<1>1. MinOf(Hits(s)) \in Hits(s) /\ MinOf(Hits(s)) <= p /\ p <= MinOf(Hits(s))
  BY NewestHit
<1>2. p \in Nat /\ MinOf(Hits(s)) \in Nat
  BY <1>1, HitsType
<1> QED
  BY <1>1, <1>2

\* A suspended device works for the oldest node of the owner of its sector.
LEMMA DeviceWorks ==
  ASSUME IInv, dev.st # "NO"
  PROVE  /\ dev.sec \in Sectors
         /\ LET m == Owner[dev.sec]
                p == Len(queue[m])
            IN  /\ state[m] # "IDLE" /\ curMod = m
                /\ p \in Hits(dev.sec)
                /\ NodeAt(dev.sec, p).lock
                /\ NodeAt(dev.sec, p).type = "W" <=> dev.st = "PROGRAM"
<1>1. PICK m \in Modules : state[m] # "IDLE"
  BY DEF IInv, SuspendInv
<1>2. /\ curMod = m /\ cur[m] # NONE /\ node[cur[m]].sec = dev.sec
      /\ IF node[cur[m]].type = "W" THEN dev.st = "PROGRAM" ELSE dev.st = "ERASE"
  BY <1>1 DEF IInv, SuspendInv
<1>3. HasOp(m) /\ OpOf(m) = cur[m]
  BY <1>2 DEF HasOp, OpOf
<1>4. /\ Len(queue[m]) \in 1..Len(queue[m])
      /\ cur[m] = queue[m][Len(queue[m])]
      /\ dev.sec \in Sectors /\ Owner[dev.sec] = m
  BY <1>2, <1>3, OpIsOldest DEF IInv
<1>5. node[queue[m][Len(queue[m])]].lock
  BY <1>4 DEF IInv, ListInv, OldestTaken
<1>6. Len(queue[m]) \in Hits(dev.sec) /\ NodeAt(dev.sec, Len(queue[m])) = node[cur[m]]
  BY <1>2, <1>4 DEF Hits, NodeAt
<1> QED
  BY <1>1, <1>2, <1>4, <1>5, <1>6

\* A sector nothing is pending for is not being worked on, and is whole.
LEMMA QuietSector ==
  ASSUME StoreInv, NEW s \in Sectors, Hits(s) = {}
  PROVE  /\ ~InProgram(s) /\ View(s) = flash[s]
         /\ \A c \in 1..Cells : flash[s][c] # Mixed
<1>1. dev.st # "NO" => dev.sec # s
  BY DeviceWorks DEF StoreInv
<1> QED
  BY <1>1 DEF StoreInv, DataInv, DamageOnlyInFlight, InProgram, View

\* What the device does for node n of module m, in the terms of the invariant.
LEMMA WorkIsNext ==
  ASSUME IInv, NEW m \in Modules, HasOp(m), NEW n, n = node[OpOf(m)],
         DevReady(state[m], n.type)
  PROVE  /\ WorkSector(n, state[m]) = n.sec
         /\ dev.st # "NO" => dev.sec = n.sec
         /\ WorkBase(n, state[m]) \in Sector
         /\ n.type = "W" => /\ WorkBase(n, state[m]) = NextBase(n.sec)
                            /\ WorkFrom(n, state[m]) = NextFrom(n.sec, n)
                            /\ WorkTo(n, state[m]) = NextTo(n.sec, n)
<1>1. n \in Node /\ n.sec \in Sectors /\ n.type \in {"W", "E"}
  BY OpIsOldest DEF IInv, Node
<1>2. state[m] \in {"IDLE", "WRITTING_SUSPEND", "ERASE_SUSPEND"}
  BY DEF IInv, TypeOK
<1>3. state[m] # "IDLE" => dev.sec = n.sec
  BY NoneAssumption DEF IInv, SuspendInv, OpOf
<1>4. CASE state[m] = "IDLE"
  <2>1. dev.st = "NO"
    BY <1>4 DEF DevReady
  <2> QED
    BY <1>1, <1>4, <2>1
       DEF WorkSector, WorkBase, WorkFrom, WorkTo, NextBase, NextFrom, NextTo, InProgram, IInv, TypeOK
<1>5. CASE state[m] # "IDLE"
  <2>1. n.type = "W" => InProgram(n.sec)
    BY <1>2, <1>3, <1>5 DEF DevReady, InProgram
  <2>2. FinishPage(dev.sec) \in Sector
    BY <1>1, <1>3, <1>5 DEF FinishPage, IInv, TypeOK, DevState, Sector
  <2> QED
    BY <1>3, <1>5, <2>1, <2>2
       DEF WorkSector, WorkBase, WorkFrom, WorkTo, NextBase, NextFrom, NextTo
<1> QED
  BY <1>4, <1>5

-----------------------------------------------------------------------------
(* A step that keeps the oldest nodes H of a sector, d places further on *)

Kept(s, d, H) ==
  /\ H \subseteq Hits(s)
  /\ \A p \in H, r \in Hits(s) : p < r => r \in H
  /\ Hits(s)' = {p + d : p \in H}
  /\ \A p \in H :
       /\ NodeAt(s, p + d)'.type = NodeAt(s, p).type
       /\ NodeAt(s, p + d)'.lo = NodeAt(s, p).lo
       /\ NodeAt(s, p + d)'.hi = NodeAt(s, p).hi
       /\ NodeAt(s, p + d)'.buf = NodeAt(s, p).buf

\* The sector and what the device does to it are left alone.
Untouched(s) ==
  flash'[s] = flash[s] /\ (dev' = dev \/ (~InProgram(s) /\ ~InProgram(s)'))

LEMMA KeptApart ==
  ASSUME TypeOK, NEW s \in Sectors, NEW d \in Int, NEW H, Kept(s, d, H), WritesApart(s)
  PROVE  WritesApart(s)'
<1> SUFFICES ASSUME NEW q \in Hits(s)', NEW p \in Hits(s)', q < p,
                    NodeAt(s, q)'.type = "W", NodeAt(s, p)'.type = "W"
             PROVE  \E r \in Hits(s)' : q < r /\ r < p /\ NodeAt(s, r)'.type = "E"
  BY DEF WritesApart
<1>1. PICK a \in H : q = a + d
  BY DEF Kept
<1>2. PICK b \in H : p = b + d
  BY DEF Kept
<1>3. a \in Hits(s) /\ b \in Hits(s) /\ a \in Nat /\ b \in Nat
  BY HitsType DEF Kept
<1>4. a < b /\ NodeAt(s, a).type = "W" /\ NodeAt(s, b).type = "W"
  BY <1>1, <1>2, <1>3 DEF Kept
<1>5. PICK r \in Hits(s) : a < r /\ r < b /\ NodeAt(s, r).type = "E"
  BY <1>3, <1>4 DEF WritesApart
<1>6. r \in H /\ r \in Nat
  BY <1>5, HitsType DEF Kept
<1>7. r + d \in Hits(s)' /\ NodeAt(s, r + d)'.type = "E"
  BY <1>5, <1>6 DEF Kept
<1>8. q < r + d /\ r + d < p
  BY <1>1, <1>2, <1>3, <1>5, <1>6
<1> QED
  BY <1>7, <1>8

LEMMA KeptComplete ==
  ASSUME TypeOK, NEW s \in Sectors, NEW d \in Int, NEW H, Kept(s, d, H), WritesComplete(s),
         \A p \in H : NodeAt(s, p).type = "W" /\ (\A r \in Hits(s) : ~(p < r)) =>
           Agrees(NodeAt(s, p).buf, NextBase(s)',
                  NextFrom(s, NodeAt(s, p + d))', NextTo(s, NodeAt(s, p + d))')
  PROVE  WritesComplete(s)'
<1> SUFFICES ASSUME NEW q \in Hits(s)', NodeAt(s, q)'.type = "W"
             PROVE  /\ \A c \in 1..Cells : NodeAt(s, q)'.buf[c] # Mixed
                    /\ IF \E r \in Hits(s)' : q < r
                       THEN Agrees(NodeAt(s, q)'.buf, ErasedSector,
                                   NodeAt(s, q)'.lo, NodeAt(s, q)'.hi)
                       ELSE Agrees(NodeAt(s, q)'.buf, NextBase(s)',
                                   NextFrom(s, NodeAt(s, q))', NextTo(s, NodeAt(s, q))')
  BY DEF WritesComplete, Agrees
<1>1. PICK p \in H : q = p + d
  BY DEF Kept
<1>2. p \in Hits(s) /\ p \in Nat /\ NodeAt(s, p).type = "W"
  BY <1>1, HitsType DEF Kept
<1>3. /\ NodeAt(s, q)'.buf = NodeAt(s, p).buf
      /\ NodeAt(s, q)'.lo = NodeAt(s, p).lo /\ NodeAt(s, q)'.hi = NodeAt(s, p).hi
  BY <1>1 DEF Kept
<1>4. (\E r \in Hits(s)' : q < r) <=> (\E r \in Hits(s) : p < r)
  <2>1. ASSUME NEW r \in Hits(s), p < r PROVE r + d \in Hits(s)' /\ q < r + d
    <3>1. r \in H /\ r \in Nat
      BY <2>1, <1>1, HitsType DEF Kept
    <3> QED
      BY <2>1, <3>1, <1>1, <1>2 DEF Kept
  <2>2. ASSUME NEW r \in Hits(s)', q < r PROVE \E t \in Hits(s) : p < t
    <3>1. PICK t \in H : r = t + d
      BY DEF Kept
    <3>2. t \in Hits(s) /\ t \in Nat
      BY <3>1, HitsType DEF Kept
    <3> QED
      BY <1>1, <1>2, <2>2, <3>1, <3>2
  <2> QED
    BY <2>1, <2>2
<1>5. CASE \E r \in Hits(s) : p < r
  BY <1>2, <1>3, <1>4, <1>5 DEF WritesComplete
<1>6. CASE ~ \E r \in Hits(s) : p < r
  BY <1>1, <1>2, <1>3, <1>4, <1>6 DEF WritesComplete
<1> QED
  BY <1>5, <1>6

\* If nothing is taken away, and the flash changes only under pending nodes,
\* every read returns what it did.
LEMMA KeptView ==
  ASSUME TypeOK, NEW s \in Sectors, NEW d \in Int, Kept(s, d, Hits(s)),
         Hits(s) # {} \/ flash'[s] = flash[s]
  PROVE  View(s)' = View(s)
<1>1. CASE Hits(s) = {}
  BY <1>1 DEF Kept, View
<1>2. CASE Hits(s) # {}
  <2>0. PICK p \in Hits(s) : p = MinOf(Hits(s))
    BY <1>2, NewestHit
  <2>1. \A q \in Hits(s) : p <= q
    BY <1>2, <2>0, NewestHit
  <2>2. p \in Nat /\ Hits(s) \subseteq Nat
    BY HitsType
  <2>3. p + d \in Hits(s)' /\ \A q \in Hits(s)' : p + d <= q
    BY <2>1, <2>2 DEF Kept
  <2>4. \A q \in Hits(s)' : q \in Int
    BY <2>2 DEF Kept
  <2>5. MinOf(Hits(s)') = p + d
    BY <2>3, <2>4 DEF MinOf
  <2>6. View(s)' = IF NodeAt(s, p + d)'.type = "W" THEN NodeAt(s, p + d)'.buf ELSE ErasedSector
    BY <2>3, <2>5 DEF View
  <2>7. View(s) = IF NodeAt(s, p).type = "W" THEN NodeAt(s, p).buf ELSE ErasedSector
    BY <1>2, <2>0, NewestHit
  <2> QED
    BY <2>6, <2>7 DEF Kept
<1> QED
  BY <1>1, <1>2

\* A sector only the list of which moves.
LEMMA KeptSector ==
  ASSUME TypeOK, NEW s \in Sectors, NEW d \in Int, NEW H, Kept(s, d, H), Untouched(s),
         WritesApart(s), WritesComplete(s)
  PROVE  /\ WritesApart(s)' /\ WritesComplete(s)'
         /\ H = Hits(s) => View(s)' = View(s)
<1>1. ASSUME NEW p \in H, NodeAt(s, p).type = "W", \A r \in Hits(s) : ~(p < r)
      PROVE  Agrees(NodeAt(s, p).buf, NextBase(s)',
                    NextFrom(s, NodeAt(s, p + d))', NextTo(s, NodeAt(s, p + d))')
  <2>1. p \in Hits(s)
    BY DEF Kept
  <2>2. Agrees(NodeAt(s, p).buf, NextBase(s), NextFrom(s, NodeAt(s, p)), NextTo(s, NodeAt(s, p)))
    BY <1>1, <2>1 DEF WritesComplete
  <2>3. NextBase(s)' = NextBase(s)
    BY DEF Untouched, NextBase, InProgram, FinishPage
  <2>4. /\ NextFrom(s, NodeAt(s, p + d))' = NextFrom(s, NodeAt(s, p))
        /\ NextTo(s, NodeAt(s, p + d))' = NextTo(s, NodeAt(s, p))
    BY DEF Untouched, NextFrom, NextTo, InProgram, Kept
  <2> QED
    BY <2>2, <2>3, <2>4
<1>2. WritesComplete(s)'
  BY <1>1, KeptComplete
<1>3. WritesApart(s)'
  BY KeptApart
<1>4. H = Hits(s) => View(s)' = View(s)
  BY KeptView DEF Untouched
<1> QED
  BY <1>2, <1>3, <1>4

-----------------------------------------------------------------------------
(* A step that puts a node in front of the nodes of a sector *)

Headed(s, x) ==
  /\ Hits(s)' = {1} \cup {p + 1 : p \in Hits(s)}
  /\ NodeAt(s, 1)' = x
  /\ \A p \in Hits(s) : NodeAt(s, p + 1)' = NodeAt(s, p)

LEMMA HeadedSector ==
  ASSUME StoreInv, NEW s \in Sectors, NEW x \in Node, Headed(s, x),
         flash' = flash, dev' = dev,
         x.type = "W" =>
           /\ Hits(s) # {} => NodeAt(s, MinOf(Hits(s))).type = "E"
           /\ \A c \in 1..Cells : x.buf[c] # Mixed
           /\ Agrees(x.buf, View(s), x.lo, x.hi)
  PROVE  /\ WritesApart(s)' /\ WritesComplete(s)'
         /\ View(s)' = IF x.type = "W" THEN x.buf ELSE ErasedSector
<1> DEFINE t == MinOf(Hits(s))
<1>0. TypeOK /\ IInv /\ WritesApart(s) /\ WritesComplete(s)
  BY DEF StoreInv, IInv, DataInv
<1>1. /\ Hits(s) \subseteq Nat /\ \A p \in Hits(s) : 1 <= p
      /\ Hits(s)' \subseteq Nat /\ 1 \in Hits(s)' /\ NodeAt(s, 1)' = x
  <2>1. Hits(s) \subseteq 1..Len(queue[Owner[s]]) /\ Hits(s) \subseteq Nat
    BY <1>0, HitsType
  <2> QED
    BY <2>1 DEF Headed
<1>2. Hits(s) # {} => t \in Hits(s) /\ t \in Nat /\ \A p \in Hits(s) : t <= p
  BY <1>0, <1>1, NewestHit
<1> HIDE DEF t
<1>3. \A q \in Hits(s)' : q = 1 \/ (q # 1 /\ q - 1 \in Hits(s) /\ NodeAt(s, q)' = NodeAt(s, q - 1))
  <2> TAKE q \in Hits(s)'
  <2>1. CASE q = 1
    BY <2>1
  <2>2. CASE q # 1
    <3>1. PICK p \in Hits(s) : q = p + 1
      BY <2>2 DEF Headed
    <3>2. q - 1 = p
      BY <1>1, <3>1
    <3> QED
      BY <2>2, <3>1, <3>2 DEF Headed
  <2> QED
    BY <2>1, <2>2
<1>4. \A p \in Hits(s) : p + 1 \in Hits(s)' /\ NodeAt(s, p + 1)' = NodeAt(s, p)
  BY DEF Headed
<1>5. WritesApart(s)'
  <2> SUFFICES ASSUME NEW q \in Hits(s)', NEW p \in Hits(s)', q < p,
                      NodeAt(s, q)'.type = "W", NodeAt(s, p)'.type = "W"
               PROVE  \E r \in Hits(s)' : q < r /\ r < p /\ NodeAt(s, r)'.type = "E"
    BY DEF WritesApart
  <2>1. q \in Nat /\ p \in Nat /\ 1 <= q /\ p # 1
    BY <1>1, <1>3
  <2>2. p - 1 \in Hits(s) /\ NodeAt(s, p - 1).type = "W"
    BY <1>3, <2>1
  <2>3. CASE q = 1
    <3>1. NodeAt(s, t).type = "E"
      BY <1>1, <2>2, <2>3 DEF t
    <3>2. t # p - 1 /\ t < p - 1 /\ 1 <= t
      BY <1>1, <1>2, <2>1, <2>2, <3>1
    <3>3. 1 < t + 1 /\ t + 1 < p
      BY <1>2, <2>1, <2>2, <3>2
    <3> QED
      BY <1>2, <1>4, <2>2, <2>3, <3>1, <3>3
  <2>4. CASE q # 1
    <3>1. q - 1 \in Hits(s) /\ NodeAt(s, q - 1).type = "W" /\ q - 1 < p - 1
      BY <1>3, <2>1, <2>4
    <3>2. PICK r \in Hits(s) : q - 1 < r /\ r < p - 1 /\ NodeAt(s, r).type = "E"
      BY <1>0, <2>2, <3>1 DEF WritesApart
    <3>3. q < r + 1 /\ r + 1 < p
      BY <1>1, <2>1, <3>2
    <3> QED
      BY <1>4, <3>2, <3>3
  <2> QED
    BY <2>3, <2>4
<1>6. /\ NextBase(s)' = NextBase(s)
      /\ \A n : NextFrom(s, n)' = NextFrom(s, n) /\ NextTo(s, n)' = NextTo(s, n)
  BY DEF NextBase, NextFrom, NextTo, InProgram, FinishPage
<1>7. ASSUME NEW q \in Hits(s)', NodeAt(s, q)'.type = "W"
      PROVE  /\ \A c \in 1..Cells : NodeAt(s, q)'.buf[c] # Mixed
             /\ IF \E r \in Hits(s)' : q < r
                THEN Agrees(NodeAt(s, q)'.buf, ErasedSector, NodeAt(s, q)'.lo, NodeAt(s, q)'.hi)
                ELSE Agrees(NodeAt(s, q)'.buf, NextBase(s)',
                            NextFrom(s, NodeAt(s, q))', NextTo(s, NodeAt(s, q))')
  <2>1. CASE q = 1 /\ Hits(s) # {}
    <3>1. View(s) = ErasedSector
      BY <1>0, <1>1, <1>7, <2>1, NewestHit
    <3>2. t + 1 \in Hits(s)' /\ 1 < t + 1
      BY <1>1, <1>2, <1>4, <2>1
    <3> QED
      BY <1>1, <1>7, <2>1, <3>1, <3>2
  <2>2. CASE q = 1 /\ Hits(s) = {}
    <3>1. ~InProgram(s) /\ View(s) = flash[s]
      BY <2>2, QuietSector
    <3>2. ~ \E r \in Hits(s)' : q < r
      BY <1>3, <2>2
    <3>3. NextBase(s)' = flash[s] /\ NextFrom(s, NodeAt(s, q))' = x.lo /\ NextTo(s, NodeAt(s, q))' = x.hi
      BY <1>1, <2>2, <3>1 DEF NextBase, NextFrom, NextTo, InProgram
    <3> QED
      BY <1>1, <1>7, <2>2, <3>1, <3>2, <3>3
  <2>3. CASE q # 1
    <3>1. q \in Nat /\ q - 1 \in Hits(s) /\ q - 1 \in Nat /\ NodeAt(s, q)' = NodeAt(s, q - 1)
      BY <1>1, <1>3, <2>3
    <3>2. (\E r \in Hits(s)' : q < r) <=> (\E r \in Hits(s) : q - 1 < r)
      <4>1. ASSUME NEW r \in Hits(s), q - 1 < r PROVE \E u \in Hits(s)' : q < u
        <5>1. r + 1 \in Hits(s)' /\ q < r + 1
          BY <1>1, <1>4, <3>1, <4>1
        <5> QED
          BY <5>1
      <4>2. ASSUME NEW r \in Hits(s)', q < r PROVE \E u \in Hits(s) : q - 1 < u
        <5>1. r \in Nat /\ r # 1
          BY <1>1, <3>1, <4>2, <2>3
        <5>2. r - 1 \in Hits(s) /\ q - 1 < r - 1
          BY <1>3, <3>1, <4>2, <5>1
        <5> QED
          BY <5>2
      <4> QED
        BY <4>1, <4>2
    <3>3. CASE \E r \in Hits(s) : q - 1 < r
      BY <1>0, <1>7, <3>1, <3>2, <3>3 DEF WritesComplete
    <3>4. CASE ~ \E r \in Hits(s) : q - 1 < r
      <4>1. Agrees(NodeAt(s, q - 1).buf, NextBase(s), NextFrom(s, NodeAt(s, q - 1)),
                   NextTo(s, NodeAt(s, q - 1)))
        BY <1>0, <1>7, <3>1, <3>4 DEF WritesComplete
      <4>2. /\ NextFrom(s, NodeAt(s, q))' = NextFrom(s, NodeAt(s, q - 1))
            /\ NextTo(s, NodeAt(s, q))' = NextTo(s, NodeAt(s, q - 1))
        BY <3>1 DEF NextFrom, NextTo, InProgram
      <4> QED
        BY <1>0, <1>6, <1>7, <3>1, <3>2, <3>4, <4>1, <4>2 DEF WritesComplete
    <3> QED
      BY <3>3, <3>4
  <2> QED
    BY <2>1, <2>2, <2>3
<1>8. WritesComplete(s)'
  BY <1>7 DEF WritesComplete, Agrees
<1>9. MinOf(Hits(s)') = 1
  <2>1. \A q \in Hits(s)' : 1 <= q
    BY <1>1, <1>3
  <2> QED
    BY <1>1, <2>1 DEF MinOf
<1>10. View(s)' = IF x.type = "W" THEN x.buf ELSE ErasedSector
  <2>1. Hits(s)' # {}
    BY <1>1
  <2> QED
    BY <2>1, <1>9, <1>1 DEF View
<1> QED
  BY <1>5, <1>8, <1>10

-----------------------------------------------------------------------------
(* What the list operations do to the nodes of a sector *)

\* Nothing is linked or unlinked, and the sector's nodes keep their contents.
LEMMA SameList ==
  ASSUME TypeOK, NEW s \in Sectors, queue' = queue,
         \A j \in Slots : node'[j].sec = node[j].sec,
         \A j \in Slots : node[j].sec = s =>
           /\ node'[j].type = node[j].type /\ node'[j].lo = node[j].lo
           /\ node'[j].hi = node[j].hi /\ node'[j].buf = node[j].buf
  PROVE  Kept(s, 0, Hits(s))
<1>1. \A p \in 1..Len(queue[Owner[s]]) : queue[Owner[s]][p] \in Slots
  BY OwnerAssumption, HitIsSlot
<1>2. Hits(s)' = Hits(s)
  BY <1>1 DEF Hits
<1>3. \A p \in Hits(s) : p + 0 = p
  BY HitsType
<1>4. \A p \in Hits(s) :
        /\ NodeAt(s, p)'.type = NodeAt(s, p).type
        /\ NodeAt(s, p)'.lo = NodeAt(s, p).lo
        /\ NodeAt(s, p)'.hi = NodeAt(s, p).hi
        /\ NodeAt(s, p)'.buf = NodeAt(s, p).buf
  BY <1>1 DEF Hits, NodeAt
<1>5. Hits(s) = {p + 0 : p \in Hits(s)}
  BY <1>3
<1>6. \A p \in Hits(s) : NodeAt(s, p + 0)' = NodeAt(s, p)'
  BY <1>3
<1> QED
  BY <1>2, <1>4, <1>5, <1>6 DEF Kept

\* A new node moves the others one place down.
LEMMA NewNodeHits ==
  ASSUME TypeOK, ListInv, NEW s \in Sectors, FreeSlots # {},
         NEW i, i = MinOf(FreeSlots), NEW x \in Node, x.sec = s,
         queue' = [queue EXCEPT ![Owner[s]] = <<i>> \o @],
         node' = [node EXCEPT ![i] = x]
  PROVE  /\ Headed(s, x)
         /\ \A z \in Sectors : z # s => \E d \in Int : Kept(z, d, Hits(z))
<1> DEFINE m == Owner[s]
           n == Len(queue[m])
<1>1. i \in Slots /\ i \notin used /\ m \in Modules
  BY FirstFree, OwnerAssumption
<1>2. /\ n \in Nat /\ Len(queue'[m]) = n + 1 /\ queue'[m][1] = i
      /\ \A k \in 2..(n + 1) : queue'[m][k] = queue[m][k - 1]
  <2>1. queue[m] \in Seq(Slots) /\ queue'[m] = <<i>> \o queue[m]
    BY <1>1 DEF TypeOK
  <2>2. n \in Nat
    BY <2>1
  <2>3. /\ Len(<<i>> \o queue[m]) = n + 1
        /\ (<<i>> \o queue[m])[1] = i
        /\ \A k \in 2..(n + 1) : (<<i>> \o queue[m])[k] = queue[m][k - 1]
    BY <1>1, <2>1, HeadIsSeq
  <2> QED
    BY <2>1, <2>2, <2>3
<1>3. \A k \in Modules : k # m => queue'[k] = queue[k]
  BY DEF TypeOK
<1>4. \A k \in Modules : \A p \in 1..Len(queue[k]) : node'[queue[k][p]] = node[queue[k][p]]
  <2> TAKE k \in Modules
  <2> TAKE p \in 1..Len(queue[k])
  <2>1. queue[k][p] \in Slots /\ queue[k][p] \in used
    BY HitIsSlot DEF ListInv, ListsOwnTheirNodes, LinksOwned
  <2> QED
    BY <1>1, <2>1 DEF TypeOK
<1>5. node'[i] = x
  BY <1>1 DEF TypeOK
<1> HIDE DEF n, m
<1>6. \A p \in 1..n : queue'[m][p + 1] = queue[m][p]
  <2> TAKE p \in 1..n
  <2>1. p + 1 \in 2..(n + 1) /\ (p + 1) - 1 = p
    BY <1>2
  <2> QED
    BY <1>2, <2>1
\* The nodes of a sector z of module m.
<1>7. ASSUME NEW z \in Sectors, Owner[z] = m
      PROVE  /\ Hits(z)' = (IF z = s THEN {1} ELSE {}) \cup {p + 1 : p \in Hits(z)}
             /\ \A p \in Hits(z) : NodeAt(z, p + 1)' = NodeAt(z, p)
  <2>1. \A p \in 1..n : node'[queue'[m][p + 1]] = node[queue[m][p]]
    BY <1>1, <1>4, <1>6 DEF n
  <2>2. Hits(z) = {p \in 1..n : node[queue[m][p]].sec = z}
    BY <1>7 DEF Hits, n
  <2>3. Hits(z)' = {p \in 1..(n + 1) : node'[queue'[m][p]].sec = z}
    BY <1>2, <1>7 DEF Hits
  <2>4. node'[queue'[m][1]].sec = s
    BY <1>2, <1>5
  <2>5. ASSUME NEW q \in Hits(z)'
        PROVE  q \in (IF z = s THEN {1} ELSE {}) \cup {p + 1 : p \in Hits(z)}
    <3>1. CASE q = 1
      BY <2>3, <2>4, <3>1
    <3>2. CASE q # 1
      <4>1. q - 1 \in 1..n /\ q = (q - 1) + 1
        BY <1>2, <2>3, <3>2
      <4>2. q - 1 \in Hits(z)
        BY <2>1, <2>2, <2>3, <4>1
      <4> QED
        BY <4>1, <4>2
    <3> QED
      BY <3>1, <3>2
  <2>6. ASSUME NEW p \in Hits(z) PROVE p + 1 \in Hits(z)'
    <3>1. p \in 1..n /\ p + 1 \in 1..(n + 1) /\ node[queue[m][p]].sec = z
      BY <1>2, <2>2
    <3> QED
      BY <2>1, <2>3, <3>1
  <2>7. z = s => 1 \in Hits(z)'
    BY <1>2, <2>3, <2>4
  <2>8. Hits(z)' = (IF z = s THEN {1} ELSE {}) \cup {p + 1 : p \in Hits(z)}
    BY <2>5, <2>6, <2>7
  <2>9. \A p \in Hits(z) : NodeAt(z, p + 1)' = NodeAt(z, p)
    BY <1>7, <2>1, <2>2 DEF NodeAt
  <2> QED
    BY <2>8, <2>9
<1>8. Headed(s, x)
  <2>1. NodeAt(s, 1)' = x
    BY <1>2, <1>5 DEF NodeAt, m
  <2>2. Owner[s] = m
    BY DEF m
  <2> QED
    BY <1>7, <2>1, <2>2 DEF Headed
<1>9. ASSUME NEW z \in Sectors, z # s, Owner[z] = m
      PROVE  Kept(z, 1, Hits(z))
  BY <1>7, <1>9 DEF Kept
<1>10. ASSUME NEW z \in Sectors, z # s, Owner[z] # m
       PROVE  Kept(z, 0, Hits(z))
  <2>1. Owner[z] \in Modules /\ queue'[Owner[z]] = queue[Owner[z]]
    BY <1>3, <1>10, OwnerAssumption
  <2>2. Hits(z)' = Hits(z) /\ \A p \in Hits(z) : NodeAt(z, p)' = NodeAt(z, p)
    BY <1>4, <2>1 DEF Hits, NodeAt
  <2>3. \A p \in Hits(z) : p + 0 = p
    BY HitsType
  <2>4. Hits(z) = {p + 0 : p \in Hits(z)}
    BY <2>3
  <2>5. \A p \in Hits(z) : NodeAt(z, p + 0)' = NodeAt(z, p)
    BY <2>2, <2>3
  <2> QED
    BY <2>2, <2>4, <2>5 DEF Kept
<1>11. 1 \in Int /\ 0 \in Int
  OBVIOUS
<1> QED
  BY <1>8, <1>9, <1>10, <1>11

\* Freeing the head moves them one up.
LEMMA RemoveHeadHits ==
  ASSUME TypeOK, ListInv, NEW m \in Modules, queue[m] # <<>>,
         NEW i, i = queue[m][1],
         queue' = [queue EXCEPT ![m] = WithoutPos(@, 1)],
         node' = [node EXCEPT ![i] = FreeNode]
  PROVE  \A z \in Sectors : IF Owner[z] = m THEN Kept(z, -1, Hits(z) \ {1})
                                            ELSE Kept(z, 0, Hits(z))
<1> DEFINE n == Len(queue[m])
<1>1. queue[m] \in Seq(Slots) /\ n \in Nat /\ 1 \in 1..n
  BY EmptySeq DEF TypeOK
<1>2. Len(queue'[m]) = n - 1 /\ \A k \in 1..(n - 1) : queue'[m][k] = queue[m][k + 1]
  <2>1. queue'[m] = WithoutPos(queue[m], 1)
    BY DEF TypeOK
  <2>2. /\ Len(WithoutPos(queue[m], 1)) = n - 1
        /\ \A k \in 1..(n - 1) :
             WithoutPos(queue[m], 1)[k] = IF k < 1 THEN queue[m][k] ELSE queue[m][k + 1]
    BY <1>1, WithoutPosIsSeq
  <2> QED
    BY <1>1, <2>1, <2>2
<1>3. \A k \in Modules : k # m => queue'[k] = queue[k]
  BY DEF TypeOK
<1>4. \A k \in Modules : \A p \in 1..Len(queue[k]) : queue[k][p] \in Slots
  BY HitIsSlot
<1>5. \A j \in Slots : j # i => node'[j] = node[j]
  BY DEF TypeOK
<1>6. \A k \in Modules : \A p \in 1..Len(queue[k]) :
        k # m \/ p # 1 => node'[queue[k][p]] = node[queue[k][p]]
  <2> TAKE k \in Modules
  <2> TAKE p \in 1..Len(queue[k])
  <2> HAVE k # m \/ p # 1
  <2>1. queue[k][p] # i
    <3>1. CASE k = m
      BY <1>1, <3>1 DEF ListInv, ListsOwnTheirNodes, LinkedOnce
    <3>2. CASE k # m
      BY <1>1, <3>2 DEF ListInv, ListsOwnTheirNodes, LinksOwned
    <3> QED
      BY <3>1, <3>2
  <2> QED
    BY <1>4, <1>5, <2>1
<1> HIDE DEF n
<1>7. ASSUME NEW z \in Sectors, Owner[z] = m
      PROVE  Kept(z, -1, Hits(z) \ {1})
  <2>1. \A q \in 1..(n - 1) : q + 1 \in 1..n /\ q + 1 # 1 /\ queue'[m][q] = queue[m][q + 1]
    BY <1>1, <1>2
  <2>2. \A q \in 1..(n - 1) : node'[queue'[m][q]] = node[queue[m][q + 1]]
    BY <1>6, <2>1 DEF n
  <2>3. Hits(z) = {p \in 1..n : node[queue[m][p]].sec = z}
    BY <1>7 DEF Hits, n
  <2>4. Hits(z)' = {p \in 1..(n - 1) : node'[queue'[m][p]].sec = z}
    BY <1>2, <1>7 DEF Hits
  <2>5. \A p \in Hits(z) \ {1} : p - 1 \in 1..(n - 1) /\ (p - 1) + 1 = p /\ p + (-1) = p - 1
    BY <1>1, <2>3
  <2>6. \A p \in Hits(z) \ {1} : p + (-1) \in Hits(z)'
    BY <2>2, <2>3, <2>4, <2>5
  <2>7. \A q \in Hits(z)' : q + 1 \in Hits(z) \ {1} /\ (q + 1) + (-1) = q
    <3> TAKE q \in Hits(z)'
    <3>1. q \in 1..(n - 1) /\ (q + 1) + (-1) = q
      BY <1>1, <2>4
    <3>2. node[queue[m][q + 1]].sec = z
      BY <2>2, <2>4, <3>1
    <3> QED
      BY <2>1, <2>3, <3>1, <3>2
  <2>8. Hits(z)' = {p + (-1) : p \in Hits(z) \ {1}}
    BY <2>6, <2>7
  <2>9. \A p \in Hits(z) \ {1} : NodeAt(z, p + (-1))' = NodeAt(z, p)
    BY <1>7, <2>2, <2>5 DEF NodeAt
  <2>10. \A p \in Hits(z) \ {1}, r \in Hits(z) : p < r => r \in Hits(z) \ {1}
    BY <1>1, <2>3
  <2> QED
    BY <2>8, <2>9, <2>10 DEF Kept
<1>8. ASSUME NEW z \in Sectors, Owner[z] # m
      PROVE  Kept(z, 0, Hits(z))
  <2>1. Owner[z] \in Modules /\ queue'[Owner[z]] = queue[Owner[z]]
    BY <1>3, <1>8, OwnerAssumption
  <2>2. Hits(z)' = Hits(z) /\ \A p \in Hits(z) : NodeAt(z, p)' = NodeAt(z, p)
    BY <1>6, <1>8, <2>1 DEF Hits, NodeAt
  <2>3. \A p \in Hits(z) : p + 0 = p
    BY HitsType
  <2>4. Hits(z) = {p + 0 : p \in Hits(z)}
    BY <2>3
  <2>5. \A p \in Hits(z) : NodeAt(z, p + 0)' = NodeAt(z, p)
    BY <2>2, <2>3
  <2> QED
    BY <2>2, <2>4, <2>5 DEF Kept
<1> QED
  BY <1>7, <1>8

\* A completed operation takes the oldest node away.
LEMMA DeleteOldestHits ==
  ASSUME TypeOK, ListInv, NEW m \in Modules, HasOp(m), NEW i, i = OpOf(m),
         queue' = [queue EXCEPT ![m] = Before(@, i)],
         node' = [node EXCEPT ![i] = FreeNode]
  PROVE  \A z \in Sectors :
           IF z = node[i].sec
           THEN /\ Len(queue[m]) \in Hits(z)
                /\ Hits(z)' = Hits(z) \ {Len(queue[m])}
                /\ \A p \in Hits(z) : p # Len(queue[m]) => NodeAt(z, p)' = NodeAt(z, p)
           ELSE Kept(z, 0, Hits(z))
<1>0. PICK s, n : s = node[i].sec /\ n = Len(queue[m])
  OBVIOUS
<1>1. /\ queue[m] \in Seq(Slots) /\ queue[m] # <<>> /\ n \in 1..n /\ n \in Nat
      /\ i = queue[m][n] /\ i \in Slots
      /\ s \in Sectors /\ Owner[s] = m
  BY <1>0, OpIsOldest
<1>2. Len(queue'[m]) = n - 1 /\ \A k \in 1..(n - 1) : queue'[m][k] = queue[m][k]
  <2>1. \A j, k \in 1..Len(queue[m]) : queue[m][j] = queue[m][k] => j = k
    BY DEF ListInv, ListsOwnTheirNodes, LinkedOnce
  <2>2. Len(Before(queue[m], i)) = n - 1
    BY <1>0, <1>1, <2>1, BeforeLast
  <2>3. \A k \in 1..Len(Before(queue[m], i)) : Before(queue[m], i)[k] = queue[m][k]
    BY <1>1, BeforeIsSeq
  <2>4. queue'[m] = Before(queue[m], i)
    BY DEF TypeOK
  <2> QED
    BY <2>2, <2>3, <2>4
<1>3. \A k \in Modules : k # m => queue'[k] = queue[k]
  BY DEF TypeOK
<1>4. \A k \in Modules : \A p \in 1..Len(queue[k]) :
        k # m \/ p # n => node'[queue[k][p]] = node[queue[k][p]]
  <2> TAKE k \in Modules
  <2> TAKE p \in 1..Len(queue[k])
  <2> HAVE k # m \/ p # n
  <2>1. queue[k][p] # i
    <3>1. CASE k = m
      BY <1>0, <1>1, <3>1 DEF ListInv, ListsOwnTheirNodes, LinkedOnce
    <3>2. CASE k # m
      BY <1>0, <1>1, <3>2 DEF ListInv, ListsOwnTheirNodes, LinksOwned
    <3> QED
      BY <3>1, <3>2
  <2>2. queue[k][p] \in Slots
    BY HitIsSlot
  <2> QED
    BY <2>1, <2>2 DEF TypeOK
<1>5. ASSUME NEW z \in Sectors, Owner[z] = m
      PROVE  /\ Hits(z)' = Hits(z) \ {n}
             /\ \A p \in Hits(z) : p # n => NodeAt(z, p)' = NodeAt(z, p)
  <2>1. \A p \in 1..(n - 1) : p \in 1..n /\ p # n
    BY <1>1
  <2>2. \A p \in 1..(n - 1) : node'[queue'[m][p]] = node[queue[m][p]]
    <3> TAKE p \in 1..(n - 1)
    <3>1. p \in 1..Len(queue[m]) /\ p # n
      BY <1>0, <2>1
    <3>2. node'[queue[m][p]] = node[queue[m][p]]
      BY <1>4, <3>1
    <3> QED
      BY <1>2, <3>2
  <2>3. Hits(z) = {p \in 1..n : node[queue[m][p]].sec = z}
    BY <1>0, <1>5 DEF Hits
  <2>4. Hits(z)' = {p \in 1..(n - 1) : node'[queue'[m][p]].sec = z}
    BY <1>2, <1>5 DEF Hits
  <2>5. \A p \in 1..n : p # n => p \in 1..(n - 1)
    BY <1>1
  <2>6. Hits(z)' = Hits(z) \ {n}
    BY <2>1, <2>2, <2>3, <2>4, <2>5
  <2>7. \A p \in Hits(z) : p # n => NodeAt(z, p)' = NodeAt(z, p)
    BY <1>5, <2>2, <2>3, <2>5 DEF NodeAt
  <2> QED
    BY <2>6, <2>7
<1>6. n \in Hits(s)
  BY <1>0, <1>1 DEF Hits
<1>7. ASSUME NEW z \in Sectors, z # s
      PROVE  Kept(z, 0, Hits(z))
  <2>1. Hits(z)' = Hits(z) /\ \A p \in Hits(z) : NodeAt(z, p)' = NodeAt(z, p)
    <3>1. CASE Owner[z] = m
      <4>1. n \notin Hits(z)
        BY <1>0, <1>1, <1>7, <3>1 DEF Hits
      <4> QED
        BY <1>5, <3>1, <4>1
    <3>2. CASE Owner[z] # m
      <4>1. Owner[z] \in Modules /\ queue'[Owner[z]] = queue[Owner[z]]
        BY <1>3, <3>2, OwnerAssumption
      <4> QED
        BY <1>4, <3>2, <4>1 DEF Hits, NodeAt
    <3> QED
      BY <3>1, <3>2
  <2>2. \A p \in Hits(z) : p + 0 = p
    BY HitsType
  <2>3. Hits(z) = {p + 0 : p \in Hits(z)}
    BY <2>2
  <2>4. \A p \in Hits(z) : NodeAt(z, p + 0)' = NodeAt(z, p)
    BY <2>1, <2>2
  <2> QED
    BY <2>1, <2>3, <2>4 DEF Kept
<1> QED
  BY <1>0, <1>1, <1>5, <1>6, <1>7

-----------------------------------------------------------------------------
(* A step of a flush changes no read *)

\* What the parts of the data invariant about sectors say, and that reads stay.
Unread == \A z \in Sectors : WritesApart(z)' /\ WritesComplete(z)' /\ View(z)' = View(z)

\* An operation completes: the sector becomes what the read of its node was.
LEMMA FlushDoneStore ==
  ASSUME StoreInv, NEW m \in Modules, FlushDone(m),
         curMod \in {NONE, m} \/ state[curMod] = "IDLE"
  PROVE  Unread /\ DamageOnlyInFlight'
<1>0. IInv /\ TypeOK /\ ListInv /\ HasOp(m) /\ DataInv
  BY DEF StoreInv, IInv, FlushDone
<1>1. PICK i : i = OpOf(m)
  OBVIOUS
<1>2. PICK x : x = node[i]
  OBVIOUS
<1>3. PICK s : s = x.sec
  OBVIOUS
<1>4. PICK n : n = Len(queue[m])
  OBVIOUS
<1>5. /\ queue[m] \in Seq(Slots) /\ n \in 1..n /\ i = queue[m][n]
      /\ x \in Node /\ s \in Sectors /\ Owner[s] = m
  BY <1>0, <1>1, <1>2, <1>3, <1>4, OpIsOldest
<1>6. n \in Nat /\ x.type \in {"W", "E"} /\ x.buf \in Sector
  BY <1>4, <1>5 DEF Node
<1>7. DevReady(state[m], x.type)
  BY <1>0, <1>1, <1>2, DeviceIsReady
<1>8. /\ DevComplete(x, state[m])
      /\ queue' = [queue EXCEPT ![m] = Before(@, i)]
      /\ node' = [node EXCEPT ![i] = FreeNode]
  BY <1>1, <1>2, <1>7 DEF FlushDone
<1>9. /\ WorkSector(x, state[m]) = s
      /\ dev.st # "NO" => dev.sec = s
      /\ WorkBase(x, state[m]) \in Sector
      /\ x.type = "W" => /\ WorkBase(x, state[m]) = NextBase(s)
                         /\ WorkFrom(x, state[m]) = NextFrom(s, x)
                         /\ WorkTo(x, state[m]) = NextTo(s, x)
  BY <1>0, <1>1, <1>2, <1>3, <1>7, WorkIsNext
<1>10. /\ n \in Hits(s)
       /\ Hits(s)' = Hits(s) \ {n}
       /\ \A p \in Hits(s) : p # n => NodeAt(s, p)' = NodeAt(s, p)
       /\ \A z \in Sectors : z # s => Kept(z, 0, Hits(z))
  BY <1>0, <1>1, <1>2, <1>3, <1>4, <1>5, <1>8, DeleteOldestHits
<1>11. NodeAt(s, n) = x
  BY <1>2, <1>5 DEF NodeAt
<1>12. /\ Hits(s) \subseteq Nat /\ \A p \in Hits(s) : p <= n
  BY <1>0, <1>4, <1>5, HitsType
<1>13. WritesApart(s) /\ WritesComplete(s)
  BY <1>0, <1>5 DEF DataInv
<1>14. x.type = "W" => /\ Agrees(x.buf, NextBase(s), NextFrom(s, x), NextTo(s, x))
                       /\ \A c \in 1..Cells : x.buf[c] # Mixed
  <2>1. ~ \E r \in Hits(s) : n < r
    BY <1>6, <1>12
  <2> QED
    BY <1>10, <1>11, <1>13, <2>1 DEF WritesComplete
<1>15. PICK y : y = IF x.type = "E" THEN ErasedSector ELSE x.buf
  OBVIOUS
<1>16. flash' = [flash EXCEPT ![s] = y] /\ dev' = DevIdle
  <2>1. CASE x.type = "E"
    BY <1>8, <1>9, <1>15, <2>1 DEF DevComplete
  <2>2. CASE x.type = "W"
    <3>1. ProgramRange(NextBase(s), x.buf, NextFrom(s, x), NextTo(s, x)) = x.buf
      BY <1>6, <1>9, <1>14, <2>2, ProgramCompletes
    <3> QED
      BY <1>8, <1>9, <1>15, <2>2, <3>1 DEF DevComplete
  <2> QED
    BY <1>6, <2>1, <2>2
<1>17. /\ flash'[s] = y /\ \A z \in Sectors : z # s => flash'[z] = flash[z]
       /\ dev'.st = "NO" /\ \A z \in Sectors : ~InProgram(z)'
  BY <1>0, <1>5, <1>16 DEF TypeOK, DevIdle, InProgram
\* The other sectors.
<1>18. ASSUME NEW z \in Sectors, z # s
       PROVE  WritesApart(z)' /\ WritesComplete(z)' /\ View(z)' = View(z)
  <2>1. Untouched(z)
    BY <1>9, <1>17, <1>18 DEF Untouched, InProgram
  <2>2. Kept(z, 0, Hits(z)) /\ WritesApart(z) /\ WritesComplete(z)
    BY <1>0, <1>10, <1>18 DEF DataInv
  <2> QED
    BY <1>0, <2>1, <2>2, KeptSector
\* The sector of the operation.
<1>19. WritesApart(s)'
  <2> SUFFICES ASSUME NEW q \in Hits(s)', NEW p \in Hits(s)', q < p,
                      NodeAt(s, q)'.type = "W", NodeAt(s, p)'.type = "W"
               PROVE  \E r \in Hits(s)' : q < r /\ r < p /\ NodeAt(s, r)'.type = "E"
    BY DEF WritesApart
  <2>1. /\ q \in Hits(s) /\ p \in Hits(s) /\ q # n /\ p # n
        /\ NodeAt(s, q).type = "W" /\ NodeAt(s, p).type = "W"
    BY <1>10
  <2>2. PICK r \in Hits(s) : q < r /\ r < p /\ NodeAt(s, r).type = "E"
    BY <1>13, <2>1 DEF WritesApart
  <2>3. r # n
    BY <1>6, <1>12, <2>1, <2>2
  <2> QED
    BY <1>10, <2>2, <2>3
<1>20. WritesComplete(s)'
  <2> SUFFICES ASSUME NEW p \in Hits(s)', NodeAt(s, p)'.type = "W"
               PROVE  /\ \A c \in 1..Cells : NodeAt(s, p)'.buf[c] # Mixed
                      /\ IF \E r \in Hits(s)' : p < r
                         THEN Agrees(NodeAt(s, p)'.buf, ErasedSector,
                                     NodeAt(s, p)'.lo, NodeAt(s, p)'.hi)
                         ELSE Agrees(NodeAt(s, p)'.buf, NextBase(s)',
                                     NextFrom(s, NodeAt(s, p))', NextTo(s, NodeAt(s, p))')
    BY DEF WritesComplete, Agrees
  <2>1. p \in Hits(s) /\ p # n /\ NodeAt(s, p)' = NodeAt(s, p) /\ p < n
    BY <1>6, <1>10, <1>12
  <2>2. /\ \A c \in 1..Cells : NodeAt(s, p).buf[c] # Mixed
        /\ Agrees(NodeAt(s, p).buf, ErasedSector, NodeAt(s, p).lo, NodeAt(s, p).hi)
    BY <1>10, <1>13, <2>1 DEF WritesComplete
  <2>3. ASSUME ~ \E r \in Hits(s)' : p < r
        PROVE  NextBase(s)' = ErasedSector
    <3>1. x.type = "E"
      <4> SUFFICES ASSUME x.type = "W" PROVE FALSE
        BY <1>6
      <4>1. PICK r \in Hits(s) : p < r /\ r < n /\ NodeAt(s, r).type = "E"
        BY <1>10, <1>11, <1>13, <2>1 DEF WritesApart
      <4>2. r # n
        BY <1>6, <4>1
      <4> QED
        BY <1>10, <2>3, <4>1, <4>2
    <3> QED
      BY <1>5, <1>15, <1>17, <3>1 DEF NextBase
  <2>4. NextFrom(s, NodeAt(s, p))' = NodeAt(s, p).lo /\ NextTo(s, NodeAt(s, p))' = NodeAt(s, p).hi
    BY <1>5, <1>17, <2>1 DEF NextFrom, NextTo
  <2> QED
    BY <2>1, <2>2, <2>3, <2>4
<1>21. View(s)' = View(s)
  <2>0. PICK p \in Hits(s) : p = MinOf(Hits(s))
    BY <1>0, <1>5, <1>10, NewestHit
  <2>1. \A q \in Hits(s) : p <= q
    BY <1>0, <1>5, <1>10, <2>0, NewestHit
  <2>2. View(s) = IF NodeAt(s, p).type = "W" THEN NodeAt(s, p).buf ELSE ErasedSector
    BY <1>0, <1>5, <1>10, <2>0, NewestHit
  <2>3. CASE p = n
    <3>1. Hits(s)' = {}
      <4>1. \A q \in Hits(s) : q = n
        BY <1>6, <1>12, <2>1, <2>3
      <4> QED
        BY <1>10, <4>1
    <3> QED
      BY <1>6, <1>11, <1>15, <1>17, <2>2, <2>3, <3>1 DEF View
  <2>4. CASE p # n
    <3>1. p \in Hits(s)' /\ NodeAt(s, p)' = NodeAt(s, p)
      BY <1>10, <2>4
    <3>2. MinOf(Hits(s)') = p
      <4>1. \A q \in Hits(s)' : p <= q /\ q \in Nat
        BY <1>10, <1>12, <2>1
      <4> QED
        BY <1>12, <3>1, <4>1 DEF MinOf
    <3> QED
      BY <2>2, <3>1, <3>2 DEF View
  <2> QED
    BY <2>3, <2>4
<1>22. DamageOnlyInFlight'
  <2> SUFFICES ASSUME NEW z \in Sectors, NEW c \in 1..Cells, flash'[z][c] = Mixed PROVE FALSE
    BY DEF DamageOnlyInFlight
  <2>1. z # s
    <3>1. y[c] # Mixed
      <4>1. CASE x.type = "E"
        BY <1>15, <4>1, ValuesAssumption DEF ErasedSector
      <4>2. CASE x.type = "W"
        BY <1>14, <1>15, <4>2
      <4> QED
        BY <1>6, <4>1, <4>2
    <3> QED
      BY <1>17, <3>1
  <2>2. flash[z][c] = Mixed
    BY <1>17, <2>1
  <2>3. dev.sec = z /\ dev.st # "NO"
    BY <1>0, <2>2 DEF DataInv, DamageOnlyInFlight
  <2> QED
    BY <1>9, <2>1, <2>3
<1> QED
  BY <1>18, <1>19, <1>20, <1>21, <1>22 DEF Unread

\* It is suspended: the page in the device is damaged, the rest goes on later.
LEMMA FlushSuspendStore ==
  ASSUME StoreInv, NEW m \in Modules, FlushSuspend(m)
  PROVE  Unread /\ DamageOnlyInFlight'
<1>0. IInv /\ TypeOK /\ ListInv /\ HasOp(m) /\ DataInv
  BY DEF StoreInv, IInv, FlushSuspend
<1>1. PICK i : i = OpOf(m)
  OBVIOUS
<1>2. PICK x : x = node[i]
  OBVIOUS
<1>3. PICK s : s = x.sec
  OBVIOUS
<1>4. PICK n : n = Len(queue[m])
  OBVIOUS
<1>5. /\ queue[m] \in Seq(Slots) /\ n \in 1..n /\ i = queue[m][n] /\ i \in Slots
      /\ x \in Node /\ s \in Sectors /\ Owner[s] = m
  BY <1>0, <1>1, <1>2, <1>3, <1>4, OpIsOldest
<1>6. n \in Nat /\ x.type \in {"W", "E"} /\ x.buf \in Sector
  BY <1>4, <1>5 DEF Node
<1>7. PICK st : st = state[m]
  OBVIOUS
<1>8. /\ DevReady(st, x.type) /\ queue' = queue /\ node' = Taken(i)
      /\ \/ /\ x.type = "W"
            /\ \/ \E k \in WorkFrom(x, st)..WorkTo(x, st) : DevSuspendWrite(x, st, k)
               \/ flash' = flash /\ dev' = dev
         \/ x.type = "E" /\ DevSuspendErase(x, st)
  BY <1>1, <1>2, <1>7 DEF FlushSuspend
<1>9. /\ WorkSector(x, st) = s
      /\ dev.st # "NO" => dev.sec = s
      /\ WorkBase(x, st) \in Sector
      /\ x.type = "W" => /\ WorkBase(x, st) = NextBase(s)
                         /\ WorkFrom(x, st) = NextFrom(s, x)
                         /\ WorkTo(x, st) = NextTo(s, x)
  BY <1>0, <1>1, <1>2, <1>3, <1>7, <1>8, WorkIsNext
<1>10. \A j \in Slots :
         /\ node'[j].sec = node[j].sec /\ node'[j].type = node[j].type
         /\ node'[j].lo = node[j].lo /\ node'[j].hi = node[j].hi
         /\ node'[j].buf = node[j].buf
  BY <1>0, <1>5, <1>8 DEF Taken, TypeOK, Node
<1>11. \A z \in Sectors : Kept(z, 0, Hits(z)) /\ WritesApart(z) /\ WritesComplete(z)
  BY <1>0, <1>8, <1>10, SameList DEF DataInv
<1>12. n \in Hits(s) /\ NodeAt(s, n) = x /\ Hits(s) \subseteq Nat /\ \A p \in Hits(s) : p <= n
  <2>1. n \in Hits(s) /\ NodeAt(s, n) = x
    BY <1>2, <1>3, <1>4, <1>5 DEF Hits, NodeAt
  <2>2. Hits(s) \subseteq 1..n
    BY <1>0, <1>4, <1>5, HitsType
  <2> QED
    BY <1>6, <2>1, <2>2
<1>13. x.type = "W" => /\ Agrees(x.buf, NextBase(s), NextFrom(s, x), NextTo(s, x))
                       /\ \A c \in 1..Cells : x.buf[c] # Mixed
  <2>1. ~ \E r \in Hits(s) : n < r
    BY <1>6, <1>12
  <2> QED
    BY <1>5, <1>11, <1>12, <2>1 DEF WritesComplete
\* What the device leaves behind.
<1>14. CASE flash' = flash /\ dev' = dev
  <2>1. \A z \in Sectors : Untouched(z)
    BY <1>14 DEF Untouched
  <2>2. Unread
    BY <1>0, <1>11, <2>1, KeptSector DEF Unread
  <2>3. DamageOnlyInFlight'
    BY <1>0, <1>14 DEF DataInv, DamageOnlyInFlight
  <2> QED
    BY <2>2, <2>3
<1>15. ASSUME dev'.sec = s, \A z \in Sectors : z # s => flash'[z] = flash[z],
              \A c \in 1..Cells : flash'[s][c] = Mixed =>
                dev'.st = "ERASE" \/ (dev'.st = "PROGRAM" /\ dev'.at = c),
              x.type = "W" => Agrees(x.buf, NextBase(s)', NextFrom(s, x)', NextTo(s, x)')
       PROVE  Unread /\ DamageOnlyInFlight'
  <2>1. ASSUME NEW z \in Sectors, z # s
        PROVE  WritesApart(z)' /\ WritesComplete(z)' /\ View(z)' = View(z)
    <3>1. Untouched(z)
      BY <1>9, <1>15, <2>1 DEF Untouched, InProgram
    <3> QED
      BY <1>0, <1>11, <3>1, KeptSector
  <2>2. WritesApart(s)' /\ View(s)' = View(s)
    BY <1>0, <1>5, <1>11, <1>12, KeptApart, KeptView
  <2>3. ASSUME NEW p \in Hits(s), NodeAt(s, p).type = "W", \A r \in Hits(s) : ~(p < r)
        PROVE  Agrees(NodeAt(s, p).buf, NextBase(s)',
                      NextFrom(s, NodeAt(s, p + 0))', NextTo(s, NodeAt(s, p + 0))')
    <3>1. p = n /\ p + 0 = n
      BY <1>6, <1>12, <2>3
    <3>2. NextFrom(s, NodeAt(s, n))' = NextFrom(s, x)' /\ NextTo(s, NodeAt(s, n))' = NextTo(s, x)'
      <4>1. NodeAt(s, n + 0)'.lo = x.lo /\ NodeAt(s, n + 0)'.hi = x.hi /\ n + 0 = n
        BY <1>5, <1>6, <1>11, <1>12 DEF Kept
      <4> QED
        BY <4>1 DEF NextFrom, NextTo
    <3> QED
      BY <1>12, <1>15, <2>3, <3>1, <3>2
  <2>4. WritesComplete(s)'
    BY <1>0, <1>5, <1>11, <2>3, KeptComplete
  <2>5. DamageOnlyInFlight'
    <3> SUFFICES ASSUME NEW z \in Sectors, NEW c \in 1..Cells, flash'[z][c] = Mixed
                 PROVE  /\ dev'.sec = z
                        /\ dev'.st = "ERASE" \/ (dev'.st = "PROGRAM" /\ dev'.at = c)
      BY DEF DamageOnlyInFlight
    <3>1. z = s
      <4> SUFFICES ASSUME z # s PROVE FALSE
        OBVIOUS
      <4>1. flash[z][c] = Mixed
        BY <1>15
      <4>2. dev.sec = z /\ dev.st # "NO"
        BY <1>0, <4>1 DEF DataInv, DamageOnlyInFlight
      <4> QED
        BY <1>9, <4>2
    <3> QED
      BY <1>15, <3>1
  <2> QED
    BY <2>1, <2>2, <2>4, <2>5 DEF Unread
<1>16. CASE x.type = "W" /\ \E k \in WorkFrom(x, st)..WorkTo(x, st) : DevSuspendWrite(x, st, k)
  <2>1. PICK k \in NextFrom(s, x)..NextTo(s, x) : DevSuspendWrite(x, st, k)
    BY <1>9, <1>16
  <2>2. PICK base, lo, hi : base = NextBase(s) /\ lo = NextFrom(s, x) /\ hi = NextTo(s, x)
    OBVIOUS
  <2>3. PICK fin : fin = Programmed(ProgramRange(base, x.buf, lo, k - 1)[k], x.buf[k])
    OBVIOUS
  <2>4. PICK new : new = StoppedAt(base, x.buf, lo, k)
    OBVIOUS
  <2>5. lo \in Nat \ {0} /\ hi \in 0..Cells /\ k \in lo..hi
    <3>1. /\ dev.at \in 0..Cells /\ dev.hi \in 0..Cells
          /\ x.lo \in 1..Cells /\ x.hi \in 0..Cells
      BY <1>0, <1>5 DEF TypeOK, DevState, Node
    <3>2. lo = dev.at + 1 \/ lo = x.lo
      BY <2>2 DEF NextFrom
    <3>3. hi = dev.hi \/ hi = x.hi
      BY <2>2 DEF NextTo
    <3>4. k \in lo..hi
      BY <2>2
    <3> QED
      BY <3>1, <3>2, <3>3, <3>4, SizesAssumption
  <2>6. /\ flash' = [flash EXCEPT ![s] = new]
        /\ dev' = [st |-> "PROGRAM", sec |-> s, at |-> k, hi |-> hi, fin |-> fin]
    BY <1>9, <1>16, <2>1, <2>2, <2>3, <2>4 DEF DevSuspendWrite, StoppedAt
  <2>7. /\ base \in Sector /\ Agrees(x.buf, base, lo, hi)
        /\ \A c \in 1..Cells : x.buf[c] # Mixed
    BY <1>9, <1>13, <1>16, <2>2
  <2>8. /\ fin = x.buf[k]
        /\ \A c \in 1..Cells : new[c] = Mixed => c = k
        /\ Agrees(x.buf, [new EXCEPT ![k] = fin], k + 1, hi)
    <3>1. CanGoOn(base, x.buf, lo, hi, k)
      BY <1>6, <2>5, <2>7, ProgramStops
    <3> QED
      BY <2>3, <2>4, <3>1 DEF CanGoOn
  <2>9. flash'[s] = new /\ \A z \in Sectors : z # s => flash'[z] = flash[z]
    BY <1>0, <1>5, <2>6 DEF TypeOK
  <2>10. InProgram(s)' /\ dev'.sec = s /\ dev'.at = k /\ dev'.st = "PROGRAM" /\ dev'.hi = hi /\ dev'.fin = fin
    BY <2>6 DEF InProgram
  <2>11. NextBase(s)' = [new EXCEPT ![k] = fin] /\ NextFrom(s, x)' = k + 1 /\ NextTo(s, x)' = hi
    BY <2>9, <2>10 DEF NextBase, NextFrom, NextTo, FinishPage
  <2> QED
    BY <1>15, <2>8, <2>9, <2>10, <2>11
<1>17. CASE x.type = "E" /\ DevSuspendErase(x, st)
  <2>1. /\ dev'.sec = s /\ dev'.st = "ERASE"
        /\ \A z \in Sectors : z # s => flash'[z] = flash[z]
    BY <1>0, <1>9, <1>17 DEF DevSuspendErase, TypeOK
  <2> QED
    BY <1>15, <1>17, <2>1
<1> QED
  BY <1>8, <1>14, <1>16, <1>17

-----------------------------------------------------------------------------
(* A step of a client *)

\* Neither the lists nor the flash change.
LEMMA UnmovedStore ==
  ASSUME StoreInv, queue' = queue, node' = node, flash' = flash, dev' = dev
  PROVE  Unread /\ DamageOnlyInFlight'
<1>1. TypeOK /\ DataInv
  BY DEF StoreInv, IInv
<1>2. \A z \in Sectors : Kept(z, 0, Hits(z)) /\ Untouched(z)
  BY <1>1, SameList DEF Untouched
<1>3. Unread
  BY <1>1, <1>2, KeptSector DEF Unread, DataInv
<1> QED
  BY <1>1, <1>3 DEF DataInv, DamageOnlyInFlight

\* The node a write is merged into, or the erase it comes behind, is the newest
\* of its sector: only the oldest node of a list is ever locked.
LEMMA NewestStops ==
  ASSUME IInv, NEW s \in Sectors, Stops(s) # {}
  PROVE  MinOf(Stops(s)) \in Stops(s) /\ MinOf(Hits(s)) = MinOf(Stops(s))
<1> DEFINE t == MinOf(Stops(s))
           m == Owner[s]
<1>0. TypeOK /\ ListInv /\ m \in Modules
  BY OwnerAssumption DEF IInv
<1>1. /\ Hits(s) \subseteq 1..Len(queue[m]) /\ Len(queue[m]) \in Nat
      /\ Hits(s) \subseteq Nat /\ Stops(s) \subseteq Hits(s)
      /\ \A p \in Hits(s) : NodeAt(s, p) \in Node
  BY <1>0, HitsType DEF Stops
<1>2. t \in Stops(s) /\ \A q \in Stops(s) : t <= q
  BY <1>1, MinOfIsLeast
<1> HIDE DEF t
<1>3. ASSUME NEW q \in Hits(s), q < t PROVE FALSE
  <2>1. q \notin Stops(s)
    BY <1>1, <1>2, <1>3
  <2>2. NodeAt(s, q).lock
    BY <2>1 DEF Stops, Mergeable
  <2>3. queue[m][q] = queue[m][Len(queue[m])]
    BY <1>0, <1>1, <2>2, LockedIsLast DEF NodeAt
  <2>4. q = Len(queue[m])
    <3>1. q \in 1..Len(queue[m]) /\ Len(queue[m]) \in 1..Len(queue[m])
      BY <1>1
    <3> QED
      BY <1>0, <2>3, <3>1 DEF ListInv, ListsOwnTheirNodes, LinkedOnce
  <2> QED
    BY <1>1, <1>2, <1>3, <2>4
<1>4. \A q \in Hits(s) : t <= q
  BY <1>1, <1>2, <1>3
<1>5. MinOf(Hits(s)) = t
  BY <1>0, <1>1, <1>2, <1>4, NewestIs
<1> QED
  BY <1>2, <1>5 DEF t

\* Erased pages that a request adds to a buffer are erased in the sector too.
LEMMA MergeAgrees ==
  ASSUME NEW buf \in Sector, NEW sector, NEW nlo \in 1..Cells, NEW nhi \in 0..Cells,
         NEW lo \in 1..Cells, NEW hi \in 1..Cells, NEW v,
         Agrees(buf, sector, nlo, nhi), \A c \in lo..hi : buf[c] = FF
  PROVE  Agrees(Overwritten(buf, lo, hi, v), sector,
                IF nlo <= lo THEN nlo ELSE lo, IF nhi >= hi THEN nhi ELSE hi)
<1> DEFINE l == IF nlo <= lo THEN nlo ELSE lo
           h == IF nhi >= hi THEN nhi ELSE hi
           b == Overwritten(buf, lo, hi, v)
<1>1. /\ \A c \in 1..Cells : c \in lo..hi => c \in l..h
      /\ \A c \in 1..Cells : c \in nlo..nhi => c \in l..h
  BY SizesAssumption
<1>2. \A c \in 1..Cells : b[c] = IF c \in lo..hi THEN v ELSE buf[c]
  BY DEF Overwritten
<1> HIDE DEF l, h, b
<1>3. ASSUME NEW c \in 1..Cells PROVE sector[c] = b[c] \/ (c \in l..h /\ sector[c] = FF)
  <2>1. sector[c] = buf[c] \/ (c \in nlo..nhi /\ sector[c] = FF)
    BY DEF Agrees
  <2>2. CASE c \in lo..hi
    BY <1>1, <2>1, <2>2
  <2>3. CASE c \notin lo..hi
    BY <1>1, <1>2, <2>1, <2>3
  <2> QED
    BY <2>2, <2>3
<1>4. Agrees(b, sector, l, h)
  BY <1>3 DEF Agrees
<1> QED
  BY <1>4 DEF b, l, h

\* What every write comes to: its sector reads as before, but for its pages.
Written(s, lo, hi, v) ==
  /\ View(s)' = Overwritten(View(s), lo, hi, v)
  /\ \A z \in Sectors : WritesApart(z)' /\ WritesComplete(z)'
  /\ \A z \in Sectors : z # s => View(z)' = View(z)

LEMMA WriteMergeStore ==
  ASSUME StoreInv, NEW s \in Sectors, NEW lo \in 1..Cells, NEW hi \in 1..Cells, NEW v \in Data,
         \A c \in lo..hi : View(s)[c] = FF,
         WriteMerge(s, lo, hi, v), flash' = flash, dev' = dev
  PROVE  Written(s, lo, hi, v)
<1>0. /\ IInv /\ TypeOK /\ ListInv /\ DataInv /\ Owner[s] \in Modules
      /\ Stops(s) # {} /\ queue' = queue
  BY OwnerAssumption DEF StoreInv, IInv, WriteMerge
<1>1. PICK t \in Stops(s) : t = MinOf(Stops(s)) /\ t = MinOf(Hits(s))
  BY <1>0, NewestStops
<1>2. PICK i : i = queue[Owner[s]][t]
  OBVIOUS
<1>3. PICK n : n = node[i]
  OBVIOUS
<1>4. /\ t \in Hits(s) /\ Mergeable(NodeAt(s, t)) /\ NodeAt(s, t) = n
      /\ \A q \in Hits(s) : t <= q
  BY <1>0, <1>1, <1>2, <1>3, NewestHit DEF Stops, NodeAt
<1>5. /\ Hits(s) \subseteq 1..Len(queue[Owner[s]]) /\ Hits(s) \subseteq Nat
      /\ Len(queue[Owner[s]]) \in Nat
  BY <1>0, HitsType
<1>6. i \in Slots /\ n \in Node /\ n.sec = s
  BY <1>0, <1>2, <1>3, <1>4, <1>5, HitIsSlot DEF TypeOK, Hits
<1>7. n.type = "W" /\ ~n.lock
  BY <1>0, <1>1, <1>2, <1>3, <1>4 DEF WriteMerge, Mergeable
<1>8. PICK x : x = [type |-> n.type, sec |-> n.sec,
                    lo |-> IF n.lo <= lo THEN n.lo ELSE lo,
                    hi |-> IF n.hi >= hi THEN n.hi ELSE hi,
                    buf |-> Overwritten(n.buf, lo, hi, v), lock |-> n.lock]
  OBVIOUS
<1>9. node' = [node EXCEPT ![i] = x]
  BY <1>1, <1>2, <1>3, <1>8 DEF WriteMerge
<1>10. /\ x.type = "W" /\ x.sec = s /\ x.buf = Overwritten(n.buf, lo, hi, v)
       /\ x.lo = (IF n.lo <= lo THEN n.lo ELSE lo)
       /\ x.hi = (IF n.hi >= hi THEN n.hi ELSE hi)
  BY <1>6, <1>7, <1>8
<1>11. node'[i] = x /\ \A j \in Slots : j # i => node'[j] = node[j]
  BY <1>0, <1>6, <1>9 DEF TypeOK
<1>12. View(s) = n.buf
  BY <1>0, <1>1, <1>4, <1>7, NewestHit
\* The other sectors.
<1>13. ASSUME NEW z \in Sectors, z # s
       PROVE  WritesApart(z)' /\ WritesComplete(z)' /\ View(z)' = View(z)
  <2>1. \A j \in Slots : node'[j].sec = node[j].sec
    BY <1>3, <1>6, <1>10, <1>11
  <2>2. \A j \in Slots : node[j].sec = z => node'[j] = node[j]
    BY <1>3, <1>6, <1>11, <1>13
  <2>3. Kept(z, 0, Hits(z))
    BY <1>0, <2>1, <2>2, SameList
  <2>4. Untouched(z)
    BY DEF Untouched
  <2> QED
    BY <1>0, <2>3, <2>4, KeptSector DEF DataInv
\* The sector written.
<1>14. Hits(s)' = Hits(s)
  <2>1. \A p \in 1..Len(queue[Owner[s]]) : queue[Owner[s]][p] \in Slots
    BY <1>0, HitIsSlot
  <2> QED
    BY <1>0, <1>3, <1>6, <1>10, <1>11, <2>1 DEF Hits
<1>15. NodeAt(s, t)' = x
  BY <1>0, <1>2, <1>11 DEF NodeAt
<1>16. \A p \in Hits(s) : p # t => NodeAt(s, p)' = NodeAt(s, p)
  <2> TAKE p \in Hits(s)
  <2> HAVE p # t
  <2>1. queue[Owner[s]][p] # i
    BY <1>0, <1>2, <1>4, <1>5 DEF ListInv, ListsOwnTheirNodes, LinkedOnce
  <2>2. queue[Owner[s]][p] \in Slots
    BY <1>0, <1>5, HitIsSlot
  <2> QED
    BY <1>0, <1>11, <2>1, <2>2 DEF NodeAt
<1>17. \A p \in Hits(s) : NodeAt(s, p)'.type = NodeAt(s, p).type
  BY <1>4, <1>7, <1>10, <1>15, <1>16
<1>18. WritesApart(s)'
  BY <1>0, <1>14, <1>17 DEF DataInv, WritesApart
<1>19. /\ NextBase(s)' = NextBase(s)
       /\ \A p \in Hits(s) : p # t => /\ NextFrom(s, NodeAt(s, p))' = NextFrom(s, NodeAt(s, p))
                                      /\ NextTo(s, NodeAt(s, p))' = NextTo(s, NodeAt(s, p))
  BY <1>16 DEF NextBase, NextFrom, NextTo, InProgram, FinishPage
<1>20. /\ \A c \in 1..Cells : n.buf[c] # Mixed
       /\ IF \E r \in Hits(s) : t < r
          THEN Agrees(n.buf, ErasedSector, n.lo, n.hi)
          ELSE Agrees(n.buf, NextBase(s), NextFrom(s, n), NextTo(s, n))
  BY <1>0, <1>4, <1>7 DEF DataInv, WritesComplete
<1>21. /\ n.buf \in Sector /\ n.lo \in 1..Cells /\ n.hi \in 0..Cells
       /\ \A c \in lo..hi : n.buf[c] = FF
  BY <1>6, <1>12 DEF Node
<1>22. \A c \in 1..Cells : x.buf[c] # Mixed
  BY <1>10, <1>20, ValuesAssumption DEF Overwritten
<1>23. IF \E r \in Hits(s) : t < r
       THEN Agrees(x.buf, ErasedSector, x.lo, x.hi)
       ELSE Agrees(x.buf, NextBase(s)', NextFrom(s, x)', NextTo(s, x)')
  <2>1. CASE \E r \in Hits(s) : t < r
    BY <1>10, <1>20, <1>21, <2>1, MergeAgrees
  <2>2. CASE ~ \E r \in Hits(s) : t < r
    <3>1. ~InProgram(s)
      <4> SUFFICES ASSUME InProgram(s) PROVE FALSE
        OBVIOUS
      <4>1. dev.st # "NO" /\ dev.sec = s
        BY DEF InProgram
      <4>2. Len(queue[Owner[s]]) \in Hits(s) /\ NodeAt(s, Len(queue[Owner[s]])).lock
        BY <1>0, <4>1, DeviceWorks
      <4>3. Len(queue[Owner[s]]) = t
        BY <1>4, <1>5, <2>2, <4>2
      <4> QED
        BY <1>4, <1>7, <4>2, <4>3
    <3>2. Agrees(n.buf, flash[s], n.lo, n.hi)
      BY <1>20, <2>2, <3>1 DEF NextBase, NextFrom, NextTo
    <3>3. Agrees(x.buf, flash[s], x.lo, x.hi)
      BY <1>10, <1>21, <3>2, MergeAgrees
    <3>4. NextBase(s)' = flash[s] /\ NextFrom(s, x)' = x.lo /\ NextTo(s, x)' = x.hi
      BY <3>1 DEF NextBase, NextFrom, NextTo, InProgram
    <3> QED
      BY <2>2, <3>3, <3>4
  <2> QED
    BY <2>1, <2>2
<1>24. WritesComplete(s)'
  <2> SUFFICES ASSUME NEW p \in Hits(s), NodeAt(s, p)'.type = "W"
               PROVE  /\ \A c \in 1..Cells : NodeAt(s, p)'.buf[c] # Mixed
                      /\ IF \E r \in Hits(s) : p < r
                         THEN Agrees(NodeAt(s, p)'.buf, ErasedSector,
                                     NodeAt(s, p)'.lo, NodeAt(s, p)'.hi)
                         ELSE Agrees(NodeAt(s, p)'.buf, NextBase(s)',
                                     NextFrom(s, NodeAt(s, p))', NextTo(s, NodeAt(s, p))')
    BY <1>14 DEF WritesComplete, Agrees
  <2>1. CASE p = t
    <3>1. NextFrom(s, NodeAt(s, t))' = NextFrom(s, x)' /\ NextTo(s, NodeAt(s, t))' = NextTo(s, x)'
      BY <1>15 DEF NextFrom, NextTo
    <3> QED
      BY <1>15, <1>22, <1>23, <2>1, <3>1
  <2>2. CASE p # t
    BY <1>0, <1>16, <1>19, <2>2 DEF DataInv, WritesComplete
  <2> QED
    BY <2>1, <2>2
<1>25. View(s)' = Overwritten(View(s), lo, hi, v)
  <2>1. MinOf(Hits(s)') = t /\ Hits(s)' # {}
    BY <1>1, <1>4, <1>14
  <2>2. View(s)' = x.buf
    BY <1>10, <1>15, <2>1 DEF View
  <2> QED
    BY <1>10, <1>12, <2>2
<1> QED
  BY <1>13, <1>18, <1>24, <1>25 DEF Written

\* A new node changes the reads of its sector only.
LEMMA NewNodeStore ==
  ASSUME StoreInv, NEW s \in Sectors, FreeSlots # {}, NEW i, i = MinOf(FreeSlots),
         NEW x \in Node, x.sec = s,
         queue' = [queue EXCEPT ![Owner[s]] = <<i>> \o @],
         node' = [node EXCEPT ![i] = x], flash' = flash, dev' = dev,
         x.type = "W" =>
           /\ Hits(s) # {} => NodeAt(s, MinOf(Hits(s))).type = "E"
           /\ \A c \in 1..Cells : x.buf[c] # Mixed
           /\ Agrees(x.buf, View(s), x.lo, x.hi)
  PROVE  /\ \A z \in Sectors : WritesApart(z)' /\ WritesComplete(z)'
         /\ View(s)' = IF x.type = "W" THEN x.buf ELSE ErasedSector
         /\ \A z \in Sectors : z # s => View(z)' = View(z)
<1>1. TypeOK /\ ListInv /\ DataInv
  BY DEF StoreInv, IInv
<1>2. Headed(s, x) /\ \A z \in Sectors : z # s => \E d \in Int : Kept(z, d, Hits(z))
  BY <1>1, NewNodeHits
<1>3. /\ WritesApart(s)' /\ WritesComplete(s)'
      /\ View(s)' = IF x.type = "W" THEN x.buf ELSE ErasedSector
  BY <1>2, HeadedSector
<1>4. ASSUME NEW z \in Sectors, z # s
      PROVE  WritesApart(z)' /\ WritesComplete(z)' /\ View(z)' = View(z)
  <2>1. PICK d \in Int : Kept(z, d, Hits(z))
    BY <1>2, <1>4
  <2>2. Untouched(z) /\ WritesApart(z) /\ WritesComplete(z)
    BY <1>1 DEF Untouched, DataInv
  <2> QED
    BY <1>1, <2>1, <2>2, KeptSector
<1> QED
  BY <1>3, <1>4

\* Without Appending a new buffer starts from an erased sector, behind an erase,
\* or from the flash of a sector nothing is pending for.
LEMMA WriteNewStore ==
  ASSUME StoreInv, NEW s \in Sectors, NEW lo \in 1..Cells, NEW hi \in 1..Cells, NEW v \in Data,
         \A c \in lo..hi : View(s)[c] = FF,
         Stops(s) # {} \/ Hits(s) = {},
         WriteNew(s, lo, hi, v), flash' = flash, dev' = dev
  PROVE  \/ Written(s, lo, hi, v)
         \/ /\ FreeSlots = {} \/ ~(FreeBuffers > 0)
            /\ UNCHANGED <<queue, node, used>>
<1>0. IInv /\ TypeOK /\ ListInv /\ DataInv
  BY DEF StoreInv, IInv
<1>1. CASE ~(FreeSlots # {} /\ FreeBuffers > 0)
  BY <1>1 DEF WriteNew
<1>2. CASE FreeSlots # {} /\ FreeBuffers > 0
  <2>1. PICK i : i = MinOf(FreeSlots)
    OBVIOUS
  <2>2. PICK b : b = WriteBase(s)
    OBVIOUS
  <2>3. PICK x : x = [type |-> "W", sec |-> s, lo |-> lo, hi |-> hi,
                      buf |-> Overwritten(b, lo, hi, v), lock |-> FALSE]
    OBVIOUS
  <2>4. /\ queue' = [queue EXCEPT ![Owner[s]] = <<i>> \o @]
        /\ node' = [node EXCEPT ![i] = x]
    BY <1>2, <2>1, <2>2, <2>3 DEF WriteNew
  <2>5. /\ b = View(s) /\ b \in Sector /\ \A c \in 1..Cells : b[c] # Mixed
        /\ Hits(s) # {} => NodeAt(s, MinOf(Hits(s))).type = "E"
    <3>1. CASE Stops(s) # {}
      <4>1. MinOf(Hits(s)) = MinOf(Stops(s)) /\ MinOf(Stops(s)) \in Stops(s)
        BY <1>0, <3>1, NewestStops
      <4>2. NodeAt(s, MinOf(Hits(s))).type = "E" /\ Hits(s) # {}
        BY <3>1, <4>1 DEF WriteNew, Stops
      <4>3. View(s) = ErasedSector
        BY <1>0, <4>2, NewestHit
      <4>4. ErasedSector \in Sector /\ \A c \in 1..Cells : ErasedSector[c] # Mixed
        BY ValuesAssumption DEF ErasedSector, Sector, Cell
      <4> QED
        BY <2>2, <3>1, <4>2, <4>3, <4>4 DEF WriteBase
    <3>2. CASE Stops(s) = {}
      <4>1. Hits(s) = {}
        BY <3>2
      <4>2. View(s) = flash[s] /\ \A c \in 1..Cells : flash[s][c] # Mixed
        BY <4>1, QuietSector
      <4> QED
        BY <1>0, <2>2, <3>2, <4>1, <4>2 DEF WriteBase, TypeOK
    <3> QED
      BY <3>1, <3>2
  <2>6. Overwritten(b, lo, hi, v) \in Sector
    BY <2>5 DEF Overwritten, Sector, Cell
  <2>7. x \in Node /\ x.sec = s /\ x.type = "W" /\ x.lo = lo /\ x.hi = hi
        /\ x.buf = Overwritten(b, lo, hi, v)
    BY <2>3, <2>6, SizesAssumption DEF Node
  <2>8. \A c \in 1..Cells : x.buf[c] # Mixed
    BY <2>5, <2>7, ValuesAssumption DEF Overwritten
  <2>9. Agrees(x.buf, View(s), x.lo, x.hi)
    BY <2>5, <2>7 DEF Agrees, Overwritten
  <2>10. /\ \A z \in Sectors : WritesApart(z)' /\ WritesComplete(z)'
         /\ View(s)' = x.buf
         /\ \A z \in Sectors : z # s => View(z)' = View(z)
    BY <1>2, <2>1, <2>4, <2>5, <2>7, <2>8, <2>9, NewNodeStore
  <2> QED
    BY <2>5, <2>7, <2>10 DEF Written
<1> QED
  BY <1>1, <1>2

-----------------------------------------------------------------------------
(* What the clients see of a step *)

StoreStep == DataInv' /\ [Store!StoreNext]_(Store!storeVars)

\* What the store holds for a sector.
ContentOf(s) == IF StoreActed /\ cs.sec = s THEN ErasedSector ELSE View(s)

LEMMA ContentSame ==
  ASSUME \A z \in Sectors : ContentOf(z)' = ContentOf(z)
  PROVE  UNCHANGED StoreContent
BY DEF ContentOf, StoreContent

\* The effect of an erase, and that of a write, sector by sector.
LEMMA EraseEffect ==
  ASSUME NEW s \in Sectors, NEW c, c = [op |-> "erase", sec |-> s],
         ContentOf(s)' = ErasedSector,
         \A z \in Sectors : z # s => ContentOf(z)' = ContentOf(z)
  PROVE  StoreContent' = Store!Effect(c)
<1>1. StoreContent' = [StoreContent EXCEPT ![s] = ErasedSector]
  BY DEF StoreContent, ContentOf
<1>2. Store!ErasedSector = ErasedSector
  BY DEF Store!ErasedSector, ErasedSector
<1>3. c.op = "erase" /\ c.sec = s
  OBVIOUS
<1> QED
  BY <1>1, <1>2, <1>3 DEF Store!Effect

LEMMA WriteEffect ==
  ASSUME NEW s \in Sectors, NEW lo \in 1..Cells, NEW hi \in 1..Cells, NEW v \in Data,
         NEW c, c = [op |-> "write", sec |-> s, lo |-> lo, hi |-> hi, val |-> v],
         ContentOf(s)' = Overwritten(ContentOf(s), lo, hi, v),
         \A z \in Sectors : z # s => ContentOf(z)' = ContentOf(z)
  PROVE  StoreContent' = Store!Effect(c)
<1>1. StoreContent' = [StoreContent EXCEPT ![s] = Overwritten(ContentOf(s), lo, hi, v)]
  BY DEF StoreContent, ContentOf
<1>2. StoreContent[s] = ContentOf(s)
  BY DEF StoreContent, ContentOf
<1>3. Store!Overwrite(ContentOf(s), lo, hi, v) = Overwritten(ContentOf(s), lo, hi, v)
  BY DEF Store!Overwrite, Overwritten
<1>4. c.op = "write" /\ c.sec = s /\ c.lo = lo /\ c.hi = hi /\ c.val = v
  OBVIOUS
<1> QED
  BY <1>1, <1>2, <1>3, <1>4 DEF Store!Effect

\* What the calls are to the store.
LEMMA ClientCallIs ==
  /\ ClientCall(Outside) = Outside /\ Store!NoCall = Outside
  /\ \A c \in InErase : ClientCall(c) = [op |-> "erase", sec |-> c.sec]
  /\ \A c \in InWrite :
       ClientCall(c) = [op |-> "write", sec |-> c.sec, lo |-> c.lo, hi |-> c.hi, val |-> c.val]
  /\ \A c \in InSync :
       /\ c.type = "E" => ClientCall(c) = [op |-> "erase", sec |-> c.sec]
       /\ c.type = "W" =>
            ClientCall(c) = [op |-> "write", sec |-> c.sec, lo |-> c.lo, hi |-> c.hi, val |-> c.val]
<1>1. ClientCall(Outside) = Outside /\ Store!NoCall = Outside
  BY DEF ClientCall, Outside, Store!NoCall
<1>2. ASSUME NEW c \in InErase PROVE ClientCall(c) = [op |-> "erase", sec |-> c.sec]
  <2>1. c.op = "erase"
    BY DEF InErase
  <2> QED
    BY <2>1 DEF ClientCall
<1>3. ASSUME NEW c \in InWrite
      PROVE  ClientCall(c) = [op |-> "write", sec |-> c.sec, lo |-> c.lo, hi |-> c.hi, val |-> c.val]
  <2>1. c.op = "write"
    BY DEF InWrite
  <2> QED
    BY <2>1 DEF ClientCall
<1>4. ASSUME NEW c \in InSync
      PROVE  /\ c.type = "E" => ClientCall(c) = [op |-> "erase", sec |-> c.sec]
             /\ c.type = "W" =>
                  ClientCall(c) = [op |-> "write", sec |-> c.sec, lo |-> c.lo,
                                   hi |-> c.hi, val |-> c.val]
  <2>1. c.op = "sync"
    BY DEF InSync
  <2> QED
    BY <2>1 DEF ClientCall
<1> QED
  BY <1>1, <1>2, <1>3, <1>4

\* No erase of the store looks like its rest, nor does a write.
LEMMA CallIsNotNone ==
  /\ \A s : [op |-> "erase", sec |-> s] # Outside
  /\ \A s, lo, hi, v : [op |-> "write", sec |-> s, lo |-> lo, hi |-> hi, val |-> v] # Outside
<1>1. Outside.op = "none"
  BY DEF Outside
<1>2. ASSUME NEW s PROVE [op |-> "erase", sec |-> s].op = "erase"
  OBVIOUS
<1>3. ASSUME NEW s, NEW lo, NEW hi, NEW v
      PROVE  [op |-> "write", sec |-> s, lo |-> lo, hi |-> hi, val |-> v].op = "write"
  OBVIOUS
<1> QED
  BY <1>1, <1>2, <1>3

\* Outside an erase the store holds what a read returns.
LEMMA ContentReads ==
  ASSUME cs.op # "erase"
  PROVE  StoreActed = FALSE /\ \A z \in Sectors : ContentOf(z) = View(z)
BY DEF ContentOf, StoreActed

LEMMA ContentReadsNext ==
  ASSUME cs'.op # "erase"
  PROVE  StoreActed' = FALSE /\ \A z \in Sectors : ContentOf(z)' = View(z)'
BY DEF ContentOf, StoreActed

\* A step that neither changes a read nor enters or leaves a call.
LEMMA StillStep ==
  ASSUME DataInv', ClientCall(cs') = ClientCall(cs), StoreActed' = StoreActed,
         \A z \in Sectors : ContentOf(z)' = ContentOf(z)
  PROVE  StoreStep
<1>1. UNCHANGED StoreContent
  BY ContentSame
<1>2. UNCHANGED Store!storeVars
  BY <1>1 DEF Store!storeVars
<1> QED
  BY <1>2 DEF StoreStep

LEMMA UnreadStep ==
  ASSUME Unread, DamageOnlyInFlight', RequestInv', cs.op # "erase", cs' = cs
  PROVE  StoreStep
<1>1. StoreActed' = StoreActed /\ \A z \in Sectors : ContentOf(z)' = ContentOf(z)
  BY ContentReads, ContentReadsNext DEF Unread
<1>2. DataInv'
  BY DEF DataInv, Unread
<1> QED
  BY <1>1, <1>2, StillStep

\* A call enters the lock and has no effect yet.
LEMMA BeginStep ==
  ASSUME Unread, DamageOnlyInFlight', RequestInv', cs = Outside, cs'.op # "erase",
         NEW c \in Store!Erases \cup Store!Writes, c = ClientCall(cs'), Store!Allowed(c)
  PROVE  StoreStep
<1>1. cs.op # "erase"
  BY DEF Outside
<1>2. StoreActed' = FALSE /\ \A z \in Sectors : ContentOf(z)' = ContentOf(z)
  BY <1>1, ContentReads, ContentReadsNext DEF Unread
<1>3. StoreContent' = StoreContent
  BY <1>2, ContentSame
<1>4. ClientCall(cs) = Store!NoCall /\ ClientCall(cs)' = c
  BY ClientCallIs
<1>5. Store!Begin(c)
  BY <1>2, <1>3, <1>4 DEF Store!Begin
<1> QED
  BY <1>5 DEF StoreStep, Store!StoreNext, DataInv, Unread

\* It leaves the lock with its effect,
LEMMA ReturnStep ==
  ASSUME DataInv', cs' = Outside, ClientCall(cs) # Outside,
         StoreContent' = Store!Effect(ClientCall(cs))
  PROVE  StoreStep
<1>1. StoreActed' = FALSE
  BY ContentReadsNext DEF Outside
<1>2. ClientCall(cs)' = Store!NoCall /\ ClientCall(cs) # Store!NoCall
  BY ClientCallIs
<1>3. Store!Return
  BY <1>1, <1>2 DEF Store!Return
<1> QED
  BY <1>3 DEF StoreStep, Store!StoreNext

\* or without, refused.
LEMMA RefuseStep ==
  ASSUME Unread, DamageOnlyInFlight', cs' = Outside, ClientCall(cs) # Outside,
         PoolsFull, cs.op = "erase" => FreeSlots = {}
  PROVE  StoreStep
<1>1. cs'.op \notin {"erase", "write", "sync"}
  BY DEF Outside
<1>2. StoreActed' = FALSE /\ StoreActed = FALSE
  BY <1>1 DEF StoreActed
<1>3. \A z \in Sectors : ContentOf(z)' = ContentOf(z)
  BY <1>2 DEF ContentOf, Unread
<1>4. StoreContent' = StoreContent
  BY <1>3, ContentSame
<1>5. ClientCall(cs)' = Store!NoCall /\ ClientCall(cs) # Store!NoCall
  BY ClientCallIs
<1>6. Store!Refuse
  BY <1>2, <1>4, <1>5 DEF Store!Refuse
<1>7. RequestInv'
  BY <1>1 DEF RequestInv
<1> QED
  BY <1>6, <1>7 DEF StoreStep, Store!StoreNext, DataInv, Unread

\* A write reaches the store as its call returns.
LEMMA WrittenStep ==
  ASSUME NEW s \in Sectors, NEW lo \in 1..Cells, NEW hi \in 1..Cells, NEW v \in Data,
         ClientCall(cs) = [op |-> "write", sec |-> s, lo |-> lo, hi |-> hi, val |-> v],
         Written(s, lo, hi, v), DamageOnlyInFlight', cs' = Outside, cs.op # "erase"
  PROVE  StoreStep
<1>1. cs'.op \notin {"erase", "write", "sync"}
  BY DEF Outside
<1>2. /\ \A z \in Sectors : ContentOf(z) = View(z)
      /\ \A z \in Sectors : ContentOf(z)' = View(z)'
  BY <1>1, ContentReads, ContentReadsNext
<1>3. /\ ContentOf(s)' = Overwritten(ContentOf(s), lo, hi, v)
      /\ \A z \in Sectors : z # s => ContentOf(z)' = ContentOf(z)
  BY <1>2 DEF Written
<1>4. PICK c : c = [op |-> "write", sec |-> s, lo |-> lo, hi |-> hi, val |-> v]
  OBVIOUS
<1>5. StoreContent' = Store!Effect(c)
  BY <1>3, <1>4, WriteEffect
<1>6. RequestInv'
  BY <1>1 DEF RequestInv
<1>7. DataInv'
  BY <1>6 DEF DataInv, Written
<1>8. c = ClientCall(cs) /\ c # Outside
  BY <1>4, CallIsNotNone
<1> QED
  BY <1>5, <1>7, <1>8, ReturnStep

\* So does an erase.
LEMMA ErasedStep ==
  ASSUME NEW s \in Sectors, ClientCall(cs) = [op |-> "erase", sec |-> s],
         cs' = Outside, View(s)' = ErasedSector,
         \A z \in Sectors : z # s => View(z)' = View(z),
         StoreActed => cs.sec = s,
         \A z \in Sectors : WritesApart(z)' /\ WritesComplete(z)',
         DamageOnlyInFlight'
  PROVE  StoreStep
<1>1. cs'.op \notin {"erase", "write", "sync"}
  BY DEF Outside
<1>2. \A z \in Sectors : ContentOf(z)' = View(z)'
  BY <1>1, ContentReadsNext
<1>3. \A z \in Sectors : z # s => ContentOf(z) = View(z)
  BY DEF ContentOf
<1>4. PICK c : c = [op |-> "erase", sec |-> s]
  OBVIOUS
<1>5. StoreContent' = Store!Effect(c)
  BY <1>2, <1>3, <1>4, EraseEffect
<1>6. RequestInv'
  BY <1>1 DEF RequestInv
<1>7. DataInv'
  BY <1>6 DEF DataInv
<1>8. c = ClientCall(cs) /\ c # Outside
  BY <1>4, CallIsNotNone
<1> QED
  BY <1>5, <1>7, <1>8, ReturnStep

-----------------------------------------------------------------------------
(* One step of each action *)

LEMMA OutsideIs == Outside.op \notin {"erase", "write", "sync"}
BY DEF Outside

LEMMA FlushLockedStore ==
  ASSUME StoreInv, NEW m \in Modules, curMod \in {NONE, m}, cs = Outside, FlushLocked(m)
  PROVE  StoreStep
<1>1. cs' = cs /\ cs.op # "erase" /\ RequestInv'
  BY OutsideIs DEF FlushLocked, RequestInv
<1>2. CASE FlushDone(m)
  <2>1. Unread /\ DamageOnlyInFlight'
    BY <1>2, FlushDoneStore
  <2> QED
    BY <1>1, <2>1, UnreadStep
<1>3. CASE FlushSuspend(m)
  <2>1. Unread /\ DamageOnlyInFlight'
    BY <1>3, FlushSuspendStore
  <2> QED
    BY <1>1, <2>1, UnreadStep
<1>4. CASE UNCHANGED <<queue, node, used, cur, state, flash, dev, asserted>>
  <2>1. Unread /\ DamageOnlyInFlight'
    BY <1>4, UnmovedStore
  <2> QED
    BY <1>1, <2>1, UnreadStep
<1> QED
  BY <1>2, <1>3, <1>4 DEF FlushLocked

LEMMA FlushStore ==
  ASSUME StoreInv, Buffered, Flush
  PROVE  StoreStep
<1>0. IInv
  BY DEF StoreInv
<1>1. ASSUME FlushIdle, ~UNCHANGED vars PROVE StoreStep
  <2>1. NextModule # NONE /\ FlushLocked(NextModule) /\ cs = Outside
    BY <1>1 DEF FlushIdle, Unlocked
  <2>2. NextModule \in Modules /\ curMod \in {NONE, NextModule}
    BY <1>0, <2>1, NextModuleType DEF IInv
  <2> QED
    BY <2>1, <2>2, FlushLockedStore
<1>2. ASSUME NEW f \in Flushers, FlushThread(f) PROVE StoreStep
  <2>1. picked[f] \in Modules /\ cs = Outside /\ FlushLocked(picked[f])
    BY <1>0, <1>2 DEF FlushThread, Unlocked, IInv, TypeOK
  <2>2. curMod \in {NONE, picked[f]}
    BY <1>0, <1>2 DEF FlushThread, IInv, PickInv
  <2> QED
    BY <2>1, <2>2, FlushLockedStore
<1>3. ASSUME UNCHANGED <<queue, node, flash, dev>>, cs = Outside, cs' = Outside PROVE StoreStep
  <2>1. Unread /\ DamageOnlyInFlight'
    BY <1>3, UnmovedStore
  <2>2. cs' = cs /\ cs.op # "erase" /\ RequestInv'
    BY <1>3, OutsideIs DEF RequestInv
  <2> QED
    BY <2>1, <2>2, UnreadStep
<1>4. ASSUME NEW f \in Flushers, FlushPick(f) PROVE StoreStep
  BY <1>3, <1>4 DEF FlushPick, Unlocked, apiVars, devVars
<1>5. ASSUME FlushIdle, UNCHANGED vars PROVE StoreStep
  BY <1>3, <1>5 DEF FlushIdle, Unlocked, vars
<1> QED
  BY <1>1, <1>2, <1>4, <1>5 DEF Flush

LEMMA RegisterStore ==
  ASSUME StoreInv, NEW m \in Modules, Register(m)
  PROVE  StoreStep
<1>1. queue[m] = <<>>
  BY DEF Register, StoreInv, IInv, ListInv, UnregisteredEmpty
<1>2. queue' = queue /\ node' = node /\ flash' = flash /\ dev' = dev /\ cs' = Outside /\ cs = Outside
  BY <1>1 DEF Register, Unlocked, StoreInv, IInv, TypeOK, devVars
<1>3. Unread /\ DamageOnlyInFlight'
  BY <1>2, UnmovedStore
<1>4. cs' = cs /\ cs.op # "erase" /\ RequestInv'
  BY <1>2, OutsideIs DEF RequestInv
<1> QED
  BY <1>3, <1>4, UnreadStep

\* A client may ask for the write of erased pages.
LEMMA WriteIsAllowed ==
  ASSUME cs = Outside, NEW s \in Sectors, NEW lo \in 1..Cells, NEW hi \in 1..Cells,
         NEW v \in Data, lo <= hi, \A c \in lo..hi : View(s)[c] = FF,
         NEW c, c = [op |-> "write", sec |-> s, lo |-> lo, hi |-> hi, val |-> v]
  PROVE  c \in Store!Writes /\ Store!Allowed(c)
<1>1. c \in Store!Writes
  BY DEF Store!Writes
<1>2. StoreContent[s] = View(s)
  BY OutsideIs DEF StoreContent, StoreActed
<1>3. c.lo = lo /\ c.hi = hi /\ c.sec = s
  OBVIOUS
<1> QED
  BY <1>1, <1>2, <1>3 DEF Store!Allowed

LEMMA WriteAsyncStore ==
  ASSUME StoreInv, Buffered, NEW s \in Sectors, NEW lo \in 1..Cells, NEW hi \in 1..Cells,
         NEW v \in Data, WriteAsync(s, lo, hi, v)
  PROVE  StoreStep
<1>1. PICK c : c = [op |-> "write", sec |-> s, lo |-> lo, hi |-> hi, val |-> v]
  OBVIOUS
<1>2. /\ lo <= hi /\ \A k \in lo..hi : View(s)[k] = FF
      /\ Stops(s) # {} \/ Hits(s) = {}
      /\ UNCHANGED <<queue, node, flash, dev>> /\ cs = Outside /\ cs' = c
  BY <1>1 DEF WriteAsync, Request, Unlocked, Buffered, apiVars, devVars
<1>3. /\ cs' \in InWrite /\ cs'.op = "write" /\ cs'.sec = s
      /\ cs'.lo = lo /\ cs'.hi = hi /\ cs'.val = v
  BY <1>1, <1>2 DEF InWrite
<1>4. Unread /\ DamageOnlyInFlight'
  BY <1>2, UnmovedStore
<1>5. RequestInv'
  <2>1. View(s)' = View(s) /\ Stops(s)' = Stops(s) /\ Hits(s)' = Hits(s)
    BY <1>2, <1>4 DEF Unread, Stops, Hits, NodeAt
  <2>2. (\A k \in cs.lo..cs.hi : View(cs.sec)[k] = FF)'
    BY <1>2, <1>3, <2>1
  <2>3. (Stops(cs.sec) # {} \/ Hits(cs.sec) = {})'
    BY <1>2, <1>3, <2>1
  <2> QED
    BY <1>2, <1>3, <2>2, <2>3 DEF RequestInv
<1>6. c \in Store!Writes /\ Store!Allowed(c)
  BY <1>1, <1>2, WriteIsAllowed
<1>7. ClientCall(cs') = c
  BY <1>1, <1>3, ClientCallIs
<1> QED
  BY <1>2, <1>3, <1>4, <1>5, <1>6, <1>7, BeginStep

LEMMA WriteAddStore ==
  ASSUME StoreInv, Buffered, WriteAdd
  PROVE  StoreStep
<1>1. /\ cs.op = "write" /\ cs' = Outside /\ flash' = flash /\ dev' = dev
      /\ WriteMerge(cs.sec, cs.lo, cs.hi, cs.val) \/ WriteNew(cs.sec, cs.lo, cs.hi, cs.val)
  BY DEF WriteAdd, devVars
<1>2. /\ cs \in InWrite /\ cs.sec \in Sectors /\ cs.lo \in 1..Cells
      /\ cs.hi \in 1..Cells /\ cs.val \in Data
  BY <1>1, WriteCallType DEF StoreInv, IInv
<1>3. PICK s \in Sectors, lo \in 1..Cells, hi \in 1..Cells, v \in Data :
        s = cs.sec /\ lo = cs.lo /\ hi = cs.hi /\ v = cs.val
  BY <1>2
<1>4. /\ \A c \in lo..hi : View(s)[c] = FF
      /\ Stops(s) # {} \/ Hits(s) = {}
      /\ WriteMerge(s, lo, hi, v) \/ WriteNew(s, lo, hi, v)
  BY <1>1, <1>3 DEF StoreInv, DataInv, RequestInv, Buffered
<1>5. DamageOnlyInFlight'
  BY <1>1 DEF StoreInv, DataInv, DamageOnlyInFlight
<1>6. ClientCall(cs) = [op |-> "write", sec |-> s, lo |-> lo, hi |-> hi, val |-> v]
  BY <1>2, <1>3, ClientCallIs
<1>7. \/ Written(s, lo, hi, v)
      \/ (FreeSlots = {} \/ ~(FreeBuffers > 0)) /\ UNCHANGED <<queue, node, used>>
  BY <1>1, <1>4, WriteMergeStore, WriteNewStore
<1>8. CASE Written(s, lo, hi, v)
  BY <1>1, <1>5, <1>6, <1>8, WrittenStep
<1>9. CASE (FreeSlots = {} \/ ~(FreeBuffers > 0)) /\ UNCHANGED <<queue, node, used>>
  <2>1. Unread
    BY <1>1, <1>9, UnmovedStore
  <2>2. PoolsFull /\ (cs.op = "erase" => FreeSlots = {})
    BY <1>1, <1>9 DEF PoolsFull
  <2>3. ClientCall(cs) # Outside
    BY <1>6, CallIsNotNone
  <2> QED
    BY <1>1, <1>5, <2>1, <2>2, <2>3, RefuseStep
<1> QED
  BY <1>7, <1>8, <1>9

LEMMA EraseSyncStore ==
  ASSUME StoreInv, NEW s \in Sectors, EraseSync(s)
  PROVE  StoreStep
<1>1. /\ UNCHANGED <<queue, node, flash, dev>> /\ cs = Outside
      /\ cs' = [op |-> "sync", type |-> "E", sec |-> s, lo |-> 1, hi |-> 0, val |-> FF]
  BY DEF EraseSync, Unlocked, apiVars, devVars
<1>2. cs' \in InSync /\ cs'.op = "sync" /\ cs'.type = "E" /\ cs'.sec = s
  BY <1>1, SizesAssumption DEF InSync
<1>3. Unread /\ DamageOnlyInFlight'
  BY <1>1, UnmovedStore
<1>4. RequestInv'
  BY <1>2 DEF RequestInv
<1>5. PICK c : c = [op |-> "erase", sec |-> s]
  OBVIOUS
<1>6. c \in Store!Erases /\ Store!Allowed(c)
  BY <1>5 DEF Store!Erases, Store!Allowed
<1>7. ClientCall(cs') = c
  BY <1>2, <1>5, ClientCallIs
<1> QED
  BY <1>1, <1>2, <1>3, <1>4, <1>6, <1>7, BeginStep

LEMMA WriteSyncStore ==
  ASSUME StoreInv, NEW s \in Sectors, NEW lo \in 1..Cells, NEW hi \in 1..Cells, NEW v \in Data,
         WriteSync(s, lo, hi, v)
  PROVE  StoreStep
<1>1. /\ UNCHANGED <<queue, node, flash, dev>> /\ cs = Outside
      /\ cs' = [op |-> "sync", type |-> "W", sec |-> s, lo |-> lo, hi |-> hi, val |-> v]
      /\ lo <= hi /\ \A k \in lo..hi : View(s)[k] = FF
  BY DEF WriteSync, Request, Unlocked, apiVars, devVars
<1>2. /\ cs' \in InSync /\ cs'.op = "sync" /\ cs'.type = "W" /\ cs'.sec = s
      /\ cs'.lo = lo /\ cs'.hi = hi /\ cs'.val = v
  BY <1>1, SizesAssumption DEF InSync
<1>3. Unread /\ DamageOnlyInFlight'
  BY <1>1, UnmovedStore
<1>4. RequestInv'
  <2>1. View(cs.sec)' = View(s)
    BY <1>2, <1>3 DEF Unread
  <2> QED
    BY <1>1, <1>2, <2>1 DEF RequestInv
<1>5. PICK c : c = [op |-> "write", sec |-> s, lo |-> lo, hi |-> hi, val |-> v]
  OBVIOUS
<1>6. c \in Store!Writes /\ Store!Allowed(c)
  BY <1>1, <1>5, WriteIsAllowed
<1>7. ClientCall(cs') = c
  BY <1>2, <1>5, ClientCallIs
<1> QED
  BY <1>1, <1>2, <1>3, <1>4, <1>6, <1>7, BeginStep

\* An operation that completes inside a synchronous call.
LEMMA SyncFlushStore ==
  ASSUME StoreInv, NEW m \in Modules, FlushDone(m), cs.op = "sync", cs' = cs,
         curMod \in {NONE, m} \/ state[curMod] = "IDLE"
  PROVE  StoreStep
<1>1. Unread /\ DamageOnlyInFlight'
  BY FlushDoneStore
<1>2. cs.sec \in Sectors
  BY SyncCallType DEF StoreInv, IInv
<1>3. RequestInv'
  <2>1. View(cs.sec)' = View(cs.sec)
    BY <1>1, <1>2 DEF Unread
  <2> QED
    BY <2>1 DEF StoreInv, DataInv, RequestInv
<1> QED
  BY <1>1, <1>3, UnreadStep

LEMMA SyncDrainsStore ==
  ASSUME StoreInv, SyncForeign \/ SyncDrain
  PROVE  StoreStep
<1>1. CASE SyncForeign
  <2>1. curMod \in Modules
    BY <1>1 DEF SyncForeign, Foreign, StoreInv, IInv, TypeOK
  <2> QED
    BY <1>1, <2>1, SyncFlushStore DEF SyncForeign, InSyncCall
<1>2. CASE SyncDrain
  <2>1. Owner[cs.sec] \in Modules /\ cs.op = "sync"
    BY <1>2, SyncCallType DEF SyncDrain, InSyncCall, StoreInv, IInv
  <2>2. curMod \in {NONE, Owner[cs.sec]} \/ state[curMod] = "IDLE"
    BY <1>2 DEF SyncDrain, Foreign
  <2> QED
    BY <1>2, <2>1, <2>2, SyncFlushStore DEF SyncDrain
<1> QED
  BY <1>1, <1>2

\* By then nothing suspends the device: a suspended module is the current one,
\* and the two loops before have emptied its list.
LEMMA SyncFindsDeviceIdle ==
  ASSUME StoreInv, SyncFinish
  PROVE  dev.st = "NO"
<1>1. SUFFICES ASSUME dev.st # "NO" PROVE FALSE
  OBVIOUS
<1>2. PICK m \in Modules : state[m] # "IDLE"
  BY <1>1 DEF StoreInv, IInv, SuspendInv
<1>3. curMod = m /\ cur[m] # NONE
  BY <1>2 DEF StoreInv, IInv, SuspendInv
<1>4. m = Owner[cs.sec]
  BY <1>2, <1>3, ModuleIsNotNone DEF SyncFinish, Foreign
<1> QED
  BY <1>3, <1>4 DEF SyncFinish, HasOp

\* The list is empty, so what was read when the call came is in the flash.
LEMMA SyncFinishStore ==
  ASSUME StoreInv, SyncFinish
  PROVE  StoreStep
<1>0. /\ TypeOK /\ DataInv /\ cs.op = "sync" /\ cs' = Outside
      /\ UNCHANGED <<queue, node>> /\ ~HasOp(Owner[cs.sec])
  BY DEF StoreInv, IInv, SyncFinish, InSyncCall, apiVars
<1>1. PICK s \in Sectors : s = cs.sec
  BY <1>0, SyncCallType DEF StoreInv, IInv
<1>2. cs \in InSync /\ cs.op # "erase" /\ StoreActed = FALSE
  BY <1>0, SyncCallType, ContentReads DEF StoreInv, IInv
<1>3. dev.st = "NO"
  BY SyncFindsDeviceIdle
<1>4. Hits(s) = {}
  <2>1. queue[Owner[s]] = <<>> /\ Len(<<>>) = 0
    BY <1>0, <1>1 DEF HasOp
  <2>2. 1..0 = {}
    OBVIOUS
  <2> QED
    BY <2>1, <2>2 DEF Hits
<1>5. Hits(s)' = {}
  BY <1>0, <1>4 DEF Hits
<1>6. /\ View(s) = flash[s] /\ View(s)' = flash'[s]
  BY <1>4, <1>5 DEF View
<1>7. \A z \in Sectors, c \in 1..Cells : flash[z][c] # Mixed
  BY <1>0, <1>3 DEF DataInv, DamageOnlyInFlight
<1>8. PICK y : y = IF cs.type = "E" THEN ErasedSector
                   ELSE ProgramRange(flash[s], [c \in 1..Cells |-> cs.val], cs.lo, cs.hi)
  OBVIOUS
<1>9. flash' = [flash EXCEPT ![s] = y] /\ dev' = DevIdle
  BY <1>1, <1>3, <1>8 DEF SyncFinish, DevComplete, WorkSector, WorkBase, WorkFrom, WorkTo
<1>10. /\ flash'[s] = y /\ \A z \in Sectors : z # s => flash'[z] = flash[z]
       /\ dev'.st = "NO"
  BY <1>0, <1>9 DEF TypeOK, DevIdle
<1>11. ASSUME NEW z \in Sectors
      PROVE  /\ WritesApart(z)' /\ WritesComplete(z)'
             /\ z # s => View(z)' = View(z)
  <2>1. CASE z = s
    BY <1>5, <2>1 DEF WritesApart, WritesComplete
  <2>2. CASE z # s
    <3>1. Kept(z, 0, Hits(z))
      BY <1>0, SameList
    <3>2. Untouched(z)
      BY <1>3, <1>10, <2>2 DEF Untouched, InProgram
    <3> QED
      BY <1>0, <3>1, <3>2, KeptSector DEF DataInv
  <2> QED
    BY <2>1, <2>2
<1>12. CASE cs.type = "E"
  <2>1. View(s)' = ErasedSector
    BY <1>6, <1>8, <1>10, <1>12
  <2>2. \A c \in 1..Cells : y[c] # Mixed
    BY <1>8, <1>12, ValuesAssumption DEF ErasedSector
  <2>3. DamageOnlyInFlight'
    BY <1>7, <1>10, <2>2 DEF DamageOnlyInFlight
  <2>4. ClientCall(cs) = [op |-> "erase", sec |-> s]
    BY <1>1, <1>2, <1>12, ClientCallIs
  <2> QED
    BY <1>0, <1>1, <1>11, <2>1, <2>3, <2>4, ErasedStep
<1>13. CASE cs.type = "W"
  <2>1. /\ cs.val \in Data /\ cs.lo <= cs.hi /\ cs.lo \in 1..Cells /\ cs.hi \in 1..Cells
    BY <1>0, <1>2, <1>13, SizesAssumption DEF DataInv, RequestInv, InSync
  <2>2. PICK lo \in 1..Cells, hi \in 1..Cells, v \in Data : lo = cs.lo /\ hi = cs.hi /\ v = cs.val
    BY <2>1
  <2>3. \A c \in lo..hi : flash[s][c] = FF
    BY <1>0, <1>1, <1>6, <1>13, <2>2 DEF DataInv, RequestInv
  <2>4. y = Overwritten(flash[s], lo, hi, v)
    <3>1. y = [c \in 1..Cells |-> IF c \in lo..hi THEN Programmed(flash[s][c], v) ELSE flash[s][c]]
      BY <1>8, <1>13, <2>2 DEF ProgramRange
    <3>2. \A c \in 1..Cells : c \in lo..hi => Programmed(flash[s][c], v) = v
      BY <2>3 DEF Programmed
    <3> QED
      BY <3>1, <3>2 DEF Overwritten
  <2>5. Written(s, lo, hi, v)
    BY <1>6, <1>10, <1>11, <2>4 DEF Written
  <2>6. \A c \in 1..Cells : y[c] # Mixed
    BY <1>7, <2>4, ValuesAssumption DEF Overwritten
  <2>7. DamageOnlyInFlight'
    BY <1>7, <1>10, <2>6 DEF DamageOnlyInFlight
  <2>8. ClientCall(cs) = [op |-> "write", sec |-> s, lo |-> lo, hi |-> hi, val |-> v]
    BY <1>1, <1>2, <1>13, <2>2, ClientCallIs
  <2> QED
    BY <1>0, <1>2, <2>5, <2>7, <2>8, WrittenStep
<1> QED
  BY <1>2, <1>12, <1>13 DEF InSync

\* The erase counts as soon as a node is free for it, so that its end cannot
\* refuse it any more.
LEMMA EraseAsyncStore ==
  ASSUME StoreInv, NEW s \in Sectors, EraseAsync(s)
  PROVE  StoreStep
<1>1. /\ UNCHANGED <<queue, node, used, flash, dev>> /\ cs = Outside
      /\ cs' = [op |-> "erase", sec |-> s, pos |-> 1, gap |-> FALSE]
  BY DEF EraseAsync, Unlocked, apiVars, devVars
<1>2. cs' \in InErase /\ cs'.op = "erase" /\ cs'.sec = s
  BY <1>1 DEF InErase
<1>3. Unread /\ DamageOnlyInFlight' /\ RequestInv'
  BY <1>1, <1>2, UnmovedStore DEF RequestInv
<1>4. PICK c : c = [op |-> "erase", sec |-> s]
  OBVIOUS
<1>5. c \in Store!Erases /\ Store!Allowed(c)
  BY <1>4 DEF Store!Erases, Store!Allowed
<1>6. ClientCall(cs)' = c /\ ClientCall(cs) = Store!NoCall
  BY <1>1, <1>2, <1>4, ClientCallIs
<1>7. \A z \in Sectors : ContentOf(z) = View(z)
  BY <1>1, OutsideIs, ContentReads
<1>8. \A z \in Sectors : z # s => ContentOf(z)' = ContentOf(z)
  BY <1>2, <1>3, <1>7 DEF ContentOf, Unread
<1>9. StoreActed' \in BOOLEAN
  BY DEF StoreActed
<1>10. StoreContent' = IF StoreActed' THEN Store!Effect(c) ELSE StoreContent
  <2>1. CASE StoreActed'
    <3>1. ContentOf(s)' = ErasedSector
      BY <1>2, <2>1 DEF ContentOf
    <3>2. StoreContent' = Store!Effect(c)
      BY <1>4, <1>8, <3>1, EraseEffect
    <3> QED
      BY <2>1, <3>2
  <2>2. CASE ~StoreActed'
    <3>1. ContentOf(s)' = ContentOf(s)
      BY <1>3, <1>7, <2>2 DEF ContentOf, Unread
    <3>2. StoreContent' = StoreContent
      BY <1>8, <3>1, ContentSame
    <3> QED
      BY <2>2, <3>2
  <2> QED
    BY <2>1, <2>2
<1>11. Store!Begin(c)
  BY <1>5, <1>6, <1>9, <1>10 DEF Store!Begin
<1> QED
  BY <1>3, <1>5, <1>11 DEF StoreStep, Store!StoreNext, DataInv, Unread

LEMMA WalkRemoveStore ==
  ASSUME StoreInv, WalkRemove
  PROVE  StoreStep
<1>0. IInv /\ TypeOK /\ ListInv /\ DataInv
  BY DEF StoreInv, IInv
<1>1. PICK s, m, i : s = cs.sec /\ m = Owner[s] /\ i = queue[m][1]
  OBVIOUS
<1>2. /\ cs \in InErase /\ cs.op = "erase" /\ s \in Sectors
      /\ m \in Modules /\ queue[m] # <<>> /\ i \in Slots
      /\ \A r \in 1..Len(queue[m]) : node[queue[m][r]].sec = s
      /\ used' = used \ {i}
      /\ queue' = [queue EXCEPT ![m] = WithoutPos(@, 1)]
      /\ node' = [node EXCEPT ![i] = FreeNode]
      /\ cs' = [cs EXCEPT !.gap = TRUE]
      /\ UNCHANGED <<flash, dev>>
  BY <1>0, <1>1, WalkRemovesHead DEF devVars
<1>3. cs'.op = "erase" /\ cs'.sec = s
  BY <1>1, <1>2 DEF InErase
<1>4. StoreActed' = TRUE
  BY <1>2, <1>3 DEF StoreActed, FreeSlots
<1>5. \A z \in Sectors : IF Owner[z] = m THEN Kept(z, -1, Hits(z) \ {1}) ELSE Kept(z, 0, Hits(z))
  BY <1>0, <1>1, <1>2, RemoveHeadHits
<1>6. ASSUME NEW z \in Sectors
      PROVE  WritesApart(z)' /\ WritesComplete(z)' /\ (z # s => View(z)' = View(z))
  <2>1. Untouched(z) /\ WritesApart(z) /\ WritesComplete(z)
    BY <1>0, <1>2 DEF Untouched, DataInv
  <2>2. CASE Owner[z] = m
    <3>1. Kept(z, -1, Hits(z) \ {1}) /\ -1 \in Int
      BY <1>5, <2>2
    <3>2. z # s => Hits(z) \ {1} = Hits(z)
      BY <1>2, <2>2 DEF Hits
    <3> QED
      BY <1>0, <2>1, <3>1, <3>2, KeptSector
  <2>3. CASE Owner[z] # m
    <3>1. Kept(z, 0, Hits(z))
      BY <1>5, <2>3
    <3> QED
      BY <1>0, <2>1, <3>1, KeptSector
  <2> QED
    BY <2>2, <2>3
<1>7. DamageOnlyInFlight' /\ RequestInv'
  BY <1>0, <1>2, <1>3 DEF DataInv, DamageOnlyInFlight, RequestInv
<1>8. ContentOf(s)' = ErasedSector /\ \A z \in Sectors : z # s => ContentOf(z)' = ContentOf(z)
  BY <1>1, <1>3, <1>4, <1>6 DEF ContentOf
<1>9. PICK c : c = [op |-> "erase", sec |-> s]
  OBVIOUS
<1>10. StoreContent' = Store!Effect(c)
  BY <1>2, <1>8, <1>9, EraseEffect
<1>11. ClientCall(cs) = c /\ ClientCall(cs)' = c /\ c # Store!NoCall
  <2>1. cs' \in InErase
    BY <1>2 DEF InErase
  <2> QED
    BY <1>1, <1>2, <1>3, <1>9, <2>1, ClientCallIs, CallIsNotNone
<1>12. Store!Act
  BY <1>4, <1>10, <1>11 DEF Store!Act
<1> QED
  BY <1>6, <1>7, <1>12 DEF StoreStep, Store!StoreNext, DataInv

LEMMA WalkOnStore ==
  ASSUME StoreInv, WalkOn
  PROVE  StoreStep
<1>0. cs \in InErase /\ cs.op = "erase"
  BY EraseCallType DEF WalkOn, Walking, StoreInv, IInv
<1>1. /\ UNCHANGED <<queue, node, used, flash, dev>>
      /\ cs' \in InErase /\ cs'.op = "erase" /\ cs'.sec = cs.sec
  <2>1. cs' = NextNode /\ UNCHANGED <<queue, node, used, flash, dev>>
    BY DEF WalkOn, apiVars, devVars
  <2>2. cs.sec \in Sectors /\ cs.pos + 1 \in Nat \ {0}
    BY <1>0 DEF InErase
  <2> QED
    BY <2>1, <2>2 DEF NextNode, InErase
<1>2. Unread /\ DamageOnlyInFlight' /\ RequestInv'
  BY <1>1, UnmovedStore DEF RequestInv
<1>3. StoreActed' = StoreActed
  BY <1>0, <1>1 DEF StoreActed, FreeSlots
<1>4. \A z \in Sectors : ContentOf(z)' = ContentOf(z)
  BY <1>1, <1>2, <1>3 DEF ContentOf, Unread
<1>5. ClientCall(cs') = ClientCall(cs)
  BY <1>0, <1>1, ClientCallIs
<1>6. DataInv'
  BY <1>2 DEF DataInv, Unread
<1> QED
  BY <1>3, <1>4, <1>5, <1>6, StillStep

\* The erase already under way is the newest node of the sector: a read returns
\* an erased sector before and after.
LEMMA WalkMergeStore ==
  ASSUME StoreInv, WalkMerge
  PROVE  StoreStep
<1>0. /\ IInv /\ TypeOK /\ ListInv /\ WalkInv
      /\ UNCHANGED <<queue, node, used, flash, dev>> /\ cs' = Outside /\ cs.op = "erase"
  BY DEF StoreInv, IInv, WalkMerge, Walking, apiVars, devVars
<1>1. PICK s, m, p : s = cs.sec /\ m = Owner[s] /\ p = cs.pos
  OBVIOUS
<1>2. s \in Sectors /\ m \in Modules /\ p \in 1..Len(queue[m]) /\ Len(queue[m]) \in Nat
  <2>1. cs \in InErase /\ s \in Sectors /\ m \in Modules /\ p \in Nat \ {0}
    BY <1>0, <1>1, EraseCallType DEF InErase
  <2>2. p <= Len(queue[m])
    BY <1>1 DEF WalkMerge, Walking
  <2>3. Len(queue[m]) \in Nat
    BY <1>0, <2>1 DEF TypeOK
  <2> QED
    BY <2>1, <2>2, <2>3
<1>3. p \in Hits(s) /\ NodeAt(s, p).lock /\ NodeAt(s, p).type = "E" /\ Hits(s) \subseteq 1..Len(queue[m])
  BY <1>1, <1>2 DEF WalkMerge, ErasePending, Hits, NodeAt
<1>4. ASSUME NEW q \in Hits(s), q < p PROVE FALSE
  <2>1. NodeAt(s, q).lock
    BY <1>0, <1>1, <1>4 DEF WalkInv, Hits, NodeAt
  <2>2. queue[m][q] = queue[m][Len(queue[m])] /\ queue[m][p] = queue[m][Len(queue[m])]
    BY <1>0, <1>1, <1>2, <1>3, <2>1, LockedIsLast DEF NodeAt
  <2>3. q = p
    BY <1>0, <1>2, <1>3, <2>2 DEF ListInv, ListsOwnTheirNodes, LinkedOnce
  <2> QED
    BY <1>2, <1>4, <2>3
<1>5. \A q \in Hits(s) : p <= q
  BY <1>2, <1>3, <1>4
<1>6. View(s) = ErasedSector
  BY <1>0, <1>2, <1>3, <1>5, NewestIs, NewestHit
<1>7. Unread /\ DamageOnlyInFlight'
  BY <1>0, UnmovedStore
<1>8. ClientCall(cs) = [op |-> "erase", sec |-> s]
  BY <1>0, <1>1, EraseCallType, ClientCallIs
<1> QED
  BY <1>0, <1>1, <1>2, <1>6, <1>7, <1>8, ErasedStep DEF Unread

LEMMA WalkEndStore ==
  ASSUME StoreInv, WalkEnd
  PROVE  StoreStep
<1>0. /\ IInv /\ TypeOK /\ ListInv /\ DataInv /\ used \subseteq Slots
      /\ UNCHANGED <<flash, dev>> /\ cs' = Outside /\ cs.op = "erase"
  BY DEF StoreInv, IInv, TypeOK, WalkEnd, devVars
<1>1. PICK s \in Sectors : s = cs.sec
  BY <1>0, EraseCallType
<1>2. ClientCall(cs) = [op |-> "erase", sec |-> s]
  BY <1>0, <1>1, EraseCallType, ClientCallIs
<1>3. CASE FreeSlots # {}
  <2>1. PICK i : i = MinOf(FreeSlots)
    OBVIOUS
  <2>2. PICK x : x = [type |-> "E", sec |-> s, lo |-> 1, hi |-> 0,
                      buf |-> ErasedSector, lock |-> FALSE]
    OBVIOUS
  <2>3. /\ node' = [node EXCEPT ![i] = x]
        /\ queue' = [queue EXCEPT ![Owner[s]] = <<i>> \o @]
    BY <1>1, <1>3, <2>1, <2>2 DEF WalkEnd, EraseNode
  <2>4. x \in Node /\ x.sec = s /\ x.type = "E"
    <3>1. ErasedSector \in Sector
      BY DEF ErasedSector, Sector, Cell
    <3> QED
      BY <2>2, <3>1, SizesAssumption DEF Node
  <2>5. /\ \A z \in Sectors : WritesApart(z)' /\ WritesComplete(z)'
        /\ View(s)' = ErasedSector
        /\ \A z \in Sectors : z # s => View(z)' = View(z)
    BY <1>0, <1>3, <2>1, <2>3, <2>4, NewNodeStore
  <2>6. DamageOnlyInFlight'
    BY <1>0 DEF DataInv, DamageOnlyInFlight
  <2> QED
    BY <1>0, <1>1, <1>2, <2>5, <2>6, ErasedStep
<1>4. CASE FreeSlots = {}
  <2>1. UNCHANGED <<queue, node, used>> /\ PoolsFull
    BY <1>0, <1>4 DEF WalkEnd, PoolsFull
  <2>2. Unread /\ DamageOnlyInFlight'
    BY <1>0, <2>1, UnmovedStore
  <2>3. ClientCall(cs) # Outside
    BY <1>2, CallIsNotNone
  <2> QED
    BY <1>0, <1>4, <2>1, <2>2, <2>3, RefuseStep
<1> QED
  BY <1>3, <1>4

-----------------------------------------------------------------------------
(* The theorems *)

LEMMA InitStore ==
  ASSUME Init
  PROVE  StoreInv /\ Store!StoreInit
<1>1. IInv
  BY InitInvariant
<1>2. \A s \in Sectors : Hits(s) = {}
  <2>1. \A m \in Modules : queue[m] = <<>>
    BY DEF Init
  <2>2. Len(<<>>) = 0 /\ 1..0 = {}
    OBVIOUS
  <2> QED
    BY <2>1, <2>2, OwnerAssumption DEF Hits
<1>3. \A s \in Sectors : WritesApart(s) /\ WritesComplete(s)
  BY <1>2 DEF WritesApart, WritesComplete
<1>4. flash \in [Sectors -> [1..Cells -> Data \cup {FF}]] /\ cs = Outside
  BY DEF Init
<1>5. DamageOnlyInFlight /\ RequestInv
  BY <1>4, OutsideIs, ValuesAssumption DEF DamageOnlyInFlight, RequestInv
<1>6. StoreContent = [s \in Sectors |-> flash[s]] /\ StoreActed = FALSE
  BY <1>2, <1>4, OutsideIs DEF StoreContent, StoreActed, View
<1>7. Store!StoreInit
  BY <1>4, <1>6, ClientCallIs DEF Store!StoreInit, Store!Contents
<1> QED
  BY <1>1, <1>3, <1>5, <1>7 DEF StoreInv, DataInv

LEMMA NextStore ==
  ASSUME StoreInv, Buffered, [Next]_vars
  PROVE  StoreStep
<1>1. CASE UNCHANGED vars
  <2>1. UNCHANGED <<queue, node, used, flash, dev, cs>>
    BY <1>1 DEF vars
  <2>2. Unread /\ DamageOnlyInFlight'
    BY <2>1, UnmovedStore
  <2>3. StoreActed' = StoreActed
    BY <2>1 DEF StoreActed, FreeSlots
  <2>4. \A z \in Sectors : ContentOf(z)' = ContentOf(z)
    BY <2>1, <2>2, <2>3 DEF ContentOf, Unread
  <2>5. RequestInv'
    <3>1. cs.op \in {"sync", "write"} => cs.sec \in Sectors
      BY SyncCallType, WriteCallType DEF StoreInv, IInv
    <3>2. cs.op \in {"sync", "write"} => View(cs.sec)' = View(cs.sec)
      BY <2>1, <2>2, <3>1 DEF Unread
    <3>3. Stops(cs.sec)' = Stops(cs.sec) /\ Hits(cs.sec)' = Hits(cs.sec)
      BY <2>1 DEF Stops, Hits, NodeAt
    <3> QED
      BY <2>1, <3>2, <3>3 DEF StoreInv, DataInv, RequestInv
  <2>6. DataInv'
    BY <2>2, <2>5 DEF DataInv, Unread
  <2> QED
    BY <2>1, <2>3, <2>4, <2>6, StillStep
<1>2. CASE Client
  <2>1. ASSUME NEW s \in Sectors, EraseAsync(s) \/ EraseSync(s) PROVE StoreStep
    BY <2>1, EraseAsyncStore, EraseSyncStore
  <2>2. ASSUME NEW s \in Sectors, NEW lo \in 1..Cells, NEW hi \in 1..Cells, NEW v \in Data,
               WriteAsync(s, lo, hi, v) \/ WriteSync(s, lo, hi, v)
        PROVE  StoreStep
    BY <2>2, WriteAsyncStore, WriteSyncStore
  <2> QED
    BY <1>2, <2>1, <2>2, RegisterStore DEF Client
<1>3. CASE Flush
  BY <1>3, FlushStore
<1>4. CASE Locked
  BY <1>4, WriteAddStore, WalkRemoveStore, WalkMergeStore, WalkOnStore, WalkEndStore,
     SyncDrainsStore, SyncFinishStore DEF Locked
<1> QED
  BY <1>1, <1>2, <1>3, <1>4 DEF Next

\* Whatever is pending, suspended or half programmed, every buffer completes
\* the sector it was made for: the invariant on which the theorems below rest.
THEOREM StoreInvariant ==
  ASSUME Buffered
  PROVE  Spec => []StoreInv
<1>1. Init => StoreInv
  BY InitStore
<1>2. StoreInv /\ [Next]_vars => StoreInv'
  <2> SUFFICES ASSUME StoreInv, [Next]_vars PROVE StoreInv'
    OBVIOUS
  <2>1. IInv'
    BY NextInvariant DEF StoreInv, Buffered
  <2>2. DataInv'
    BY NextStore DEF StoreStep
  <2> QED
    BY <2>1, <2>2 DEF StoreInv
<1> QED
  BY <1>1, <1>2, PTL DEF Spec

\* No page is programmed over another with different data: one that is neither
\* old nor new is the one a suspended operation is at.
THEOREM FlashIsWhole ==
  ASSUME Buffered
  PROVE  Spec => []DamageOnlyInFlight
<1>1. StoreInv => DamageOnlyInFlight
  BY DEF StoreInv, DataInv
<1> QED
  BY <1>1, StoreInvariant, PTL

\* norflash_api_read: the pages of the last write to a sector read back from
\* its buffer until they are in the flash.
THEOREM ReadsComeFromBuffer ==
  ASSUME Buffered
  PROVE  Spec => []ReadsBuffer
<1>1. ASSUME StoreInv PROVE ReadsBuffer
  <2> SUFFICES ASSUME NEW s \in Sectors, NEW p \in Hits(s), NodeAt(s, p).type = "W",
                      \A q \in Hits(s) : q < p => NodeAt(s, q).type = "W"
               PROVE  View(s) = NodeAt(s, p).buf
    BY DEF ReadsBuffer
  <2>0. TypeOK /\ WritesApart(s)
    BY <1>1 DEF StoreInv, IInv, DataInv
  <2>1. Hits(s) \subseteq Nat
    BY <2>0, HitsType
  <2>2. ASSUME NEW q \in Hits(s), q < p PROVE FALSE
    <3>1. PICK r \in Hits(s) : r < p /\ NodeAt(s, r).type = "E"
      BY <2>0, <2>2 DEF WritesApart
    <3>2. NodeAt(s, r).type = "W"
      BY <3>1
    <3> QED
      BY <3>1, <3>2
  <2>3. \A q \in Hits(s) : p <= q
    BY <2>1, <2>2
  <2> QED
    BY <2>0, <2>3, NewestIs, NewestHit
<1> QED
  BY <1>1, StoreInvariant, PTL

\* The refinement: to its clients norflash_api is the store of sectors in which
\* an accepted call has its effect when it returns and a refused one none, and
\* which no flush, suspension or resumption changes.
THEOREM ImplementsFlashStore ==
  ASSUME Buffered
  PROVE  Spec => ImplementsStore
<1>1. Init => Store!StoreInit
  BY InitStore
<1>2. StoreInv /\ [Next]_vars => [Store!StoreNext]_(Store!storeVars)
  BY NextStore DEF StoreStep
<1> QED
  BY <1>1, <1>2, StoreInvariant, PTL DEF Spec, ImplementsStore, Store!StoreSpec

=============================================================================
