-------------------------- MODULE LogSection_proofs --------------------------
(***************************************************************************)
(* Theorems about LogSection for every size and number of buffers and      *)
(* sectors, every number of headers and of power losses.                   *)
(***************************************************************************)
EXTENDS LogSection, NaturalsInduction, WellFoundedInduction, TLAPS

-----------------------------------------------------------------------------
(* Division *)

LEMMA DivMod ==
  ASSUME NEW a \in Nat, NEW d \in Nat \ {0}
  PROVE  /\ a \div d \in Nat /\ a % d \in 0 .. d - 1
         /\ a = d * (a \div d) + (a % d)
OBVIOUS

LEMMA DivUnique ==
  ASSUME NEW q \in Nat, NEW d \in Nat \ {0}, NEW r \in 0 .. d - 1
  PROVE  (d * q + r) \div d = q /\ (d * q + r) % d = r
OBVIOUS

LEMMA MulMono ==
  ASSUME NEW a \in Nat, NEW b \in Nat, NEW d \in Nat, a <= b
  PROVE  d * a <= d * b
OBVIOUS

\* The remainder of a number below twice the divisor.
LEMMA ModBelow ==
  ASSUME NEW d \in Nat \ {0}, NEW a \in 0 .. 2 * d - 1
  PROVE  a % d = IF a < d THEN a ELSE a - d
<1>1. CASE a < d
  <2>1. a \in 0 .. d - 1 /\ a = d * 0 + a
    BY <1>1
  <2> QED
    BY <1>1, <2>1, DivUnique
<1>2. CASE ~(a < d)
  <2>1. a - d \in 0 .. d - 1 /\ a = d * 1 + (a - d)
    BY <1>2
  <2> QED
    BY <1>2, <2>1, DivUnique
<1> QED
  BY <1>1, <1>2

LEMMA AfterIs ==
  ASSUME NEW i \in Bufs
  PROVE  After(i) \in Bufs /\ After(i) = IF i = BufferCount - 1 THEN 0 ELSE i + 1
<1>1. BufferCount \in Nat \ {0} /\ i + 1 \in 0 .. 2 * BufferCount - 1
  BY SizesAssumption DEF Bufs
<1>2. (i + 1) % BufferCount = IF i + 1 < BufferCount THEN i + 1 ELSE (i + 1) - BufferCount
  BY <1>1, ModBelow
<1>3. i \in Int /\ 0 <= i /\ i <= BufferCount - 1
  BY <1>1 DEF Bufs
<1>4. CASE i = BufferCount - 1
  BY <1>1, <1>2, <1>4 DEF After, Bufs
<1>5. CASE i < BufferCount - 1
  BY <1>1, <1>2, <1>3, <1>5 DEF After, Bufs
<1> QED
  BY <1>1, <1>3, <1>4, <1>5

LEMMA SectorAfter ==
  ASSUME NEW s \in Sectors
  PROVE  /\ (s + 1) % SectorCount \in Sectors
         /\ (s + 1) % SectorCount = IF s = SectorCount - 1 THEN 0 ELSE s + 1
<1>1. SectorCount \in Nat \ {0} /\ s + 1 \in 0 .. 2 * SectorCount - 1
  BY SizesAssumption DEF Sectors
<1>2. (s + 1) % SectorCount = IF s + 1 < SectorCount THEN s + 1 ELSE (s + 1) - SectorCount
  BY <1>1, ModBelow
<1>3. s \in Int /\ 0 <= s /\ s <= SectorCount - 1
  BY <1>1 DEF Sectors
<1>4. CASE s = SectorCount - 1
  BY <1>1, <1>2, <1>4 DEF Sectors
<1>5. CASE s < SectorCount - 1
  BY <1>1, <1>2, <1>3, <1>5 DEF Sectors
<1> QED
  BY <1>1, <1>3, <1>4, <1>5

\* The offset is in a sector of the ring.
LEMMA SectorIs ==
  ASSUME offs \in 0 .. SectorCount * Size - 1
  PROVE  /\ Sector \in Sectors /\ NextDue \in Sectors
         /\ offs = Size * Sector + (offs % Size)
         /\ Aligned => NextDue = Sector /\ offs = Size * Sector
<1>1. /\ Size \in Nat \ {0} /\ SectorCount \in Nat \ {0} /\ offs \in Nat
  <2>1. Size \in Nat \ {0} /\ SectorCount \in Nat \ {0}
    BY SizesAssumption
  <2>2. SectorCount * Size \in Nat
    BY <2>1
  <2> QED
    BY <2>1, <2>2
<1>2. Sector \in Nat /\ offs % Size \in 0 .. Size - 1 /\ offs = Size * Sector + (offs % Size)
  BY <1>1, DivMod DEF Sector
<1>3. Sector < SectorCount
  <2> SUFFICES ASSUME SectorCount <= Sector PROVE FALSE
    BY <1>1, <1>2
  <2>1. Size * SectorCount <= Size * Sector
    BY <1>1, <1>2, MulMono
  <2>2. Size * SectorCount = SectorCount * Size /\ SectorCount * Size \in Nat /\ Size * Sector \in Nat
    BY <1>1, <1>2
  <2> QED
    BY <1>1, <1>2, <2>1, <2>2
<1>4. Sector \in Sectors
  BY <1>1, <1>2, <1>3 DEF Sectors
<1>5. (Sector + 1) % SectorCount \in Sectors
  BY <1>4, SectorAfter
<1>6. Aligned => offs % Size = 0 /\ NextDue = Sector
  BY DEF NextDue, Aligned
<1>7. Aligned => offs = Size * Sector
  BY <1>1, <1>2, <1>6
<1>8. NextDue \in Sectors
  BY <1>4, <1>5 DEF NextDue
<1> QED
  BY <1>2, <1>4, <1>6, <1>7, <1>8

\* A write from the beginning of a sector, of a sector or less, leaves the
\* offset in the ring and the next sector due.
LEMMA OffsetMoves ==
  ASSUME offs \in 0 .. SectorCount * Size - 1, Aligned, NEW k \in 1 .. Size,
         offs' = (offs + k) % (SectorCount * Size)
  PROVE  /\ offs' \in 0 .. SectorCount * Size - 1
         /\ NextDue' = (Sector + 1) % SectorCount
         /\ k = Size => Aligned'
<1>0. Size \in Nat \ {0} /\ SectorCount \in Nat \ {0}
  BY SizesAssumption
<1>1. PICK q \in Sectors : q = Sector
  BY SectorIs
<1>2. PICK r \in Nat \ {0} : r = SectorCount * Size
  BY <1>0
<1>3. offs = Size * q /\ q \in Nat
  BY <1>1, SectorIs DEF Sectors
<1>4. CASE k < Size
  <2>1. Size * (q + 1) <= Size * SectorCount
    BY <1>0, <1>3, MulMono DEF Sectors
  <2>2. Size * (q + 1) = Size * q + Size /\ Size * SectorCount = r /\ Size * q \in Nat
    BY <1>0, <1>2, <1>3
  <2>3. offs + k = Size * q + k /\ offs + k < r /\ offs + k \in Nat
    BY <1>0, <1>3, <1>4, <2>1, <2>2
  <2>4. offs' = offs + k
    <3>1. offs + k \in 0 .. 2 * r - 1
      BY <2>3
    <3> QED
      BY <1>2, <2>3, <3>1, ModBelow
  <2>5. k \in 0 .. Size - 1
    BY <1>0, <1>4
  <2>6. offs' \div Size = q /\ offs' % Size = k
    BY <1>0, <1>3, <2>3, <2>4, <2>5, DivUnique
  <2>7. NextDue' = (q + 1) % SectorCount
    BY <2>6 DEF NextDue, Aligned, Sector
  <2> QED
    BY <1>1, <1>2, <1>4, <2>3, <2>4, <2>7
<1>5. CASE k = Size /\ q < SectorCount - 1
  <2>1. Size * (q + 2) <= Size * SectorCount
    BY <1>0, <1>3, <1>5, MulMono
  <2>2. Size * (q + 1) = Size * q + Size /\ Size * SectorCount = r /\ Size * q \in Nat
        /\ Size * (q + 2) = Size * (q + 1) + Size
    BY <1>0, <1>2, <1>3
  <2>3. offs + k = Size * (q + 1) /\ offs + k < r /\ offs + k \in Nat
    BY <1>0, <1>3, <1>5, <2>1, <2>2
  <2>4. offs' = offs + k
    <3>1. offs + k \in 0 .. 2 * r - 1
      BY <2>3
    <3> QED
      BY <1>2, <2>3, <3>1, ModBelow
  <2>5. offs' = Size * (q + 1) + 0 /\ 0 \in 0 .. Size - 1 /\ q + 1 \in Nat
    BY <1>0, <1>3, <2>3, <2>4
  <2>6. offs' \div Size = q + 1 /\ offs' % Size = 0
    <3>1. (Size * (q + 1) + 0) \div Size = q + 1 /\ (Size * (q + 1) + 0) % Size = 0
      <4>1. q + 1 \in Nat /\ 0 \in 0 .. Size - 1
        BY <2>5
      <4> QED
        BY <1>0, <4>1, DivUnique
    <3> QED
      BY <2>5, <3>1
  <2>7. NextDue' = q + 1 /\ Aligned'
    BY <2>6 DEF NextDue, Aligned, Sector
  <2>8. (q + 1) % SectorCount = q + 1
    BY <1>1, <1>3, <1>5, SectorAfter
  <2> QED
    BY <1>1, <1>2, <2>3, <2>4, <2>7, <2>8
<1>6. CASE k = Size /\ q = SectorCount - 1
  <2>1. offs + k = r
    <3>1. Size * (q + 1) = Size * q + Size /\ Size * SectorCount = r
      BY <1>0, <1>2, <1>3
    <3> QED
      BY <1>0, <1>3, <1>6, <3>1
  <2>2. offs' = 0
    <3>1. offs + k \in 0 .. 2 * r - 1 /\ r - r = 0
      BY <2>1
    <3> QED
      BY <1>2, <2>1, <3>1, ModBelow
  <2>3. offs' = Size * 0 + 0 /\ 0 \in 0 .. Size - 1
    BY <1>0, <2>2
  <2>4. offs' \div Size = 0 /\ offs' % Size = 0
    BY <1>0, <2>3, DivUnique
  <2>5. NextDue' = 0 /\ Aligned'
    BY <2>4 DEF NextDue, Aligned, Sector
  <2>6. (q + 1) % SectorCount = 0
    BY <1>6, SectorAfter
  <2> QED
    BY <1>1, <1>2, <2>2, <2>5, <2>6
<1>7. k < Size \/ (k = Size /\ q < SectorCount - 1) \/ (k = Size /\ q = SectorCount - 1)
  BY <1>0, <1>3 DEF Sectors
<1> QED
  BY <1>4, <1>5, <1>6, <1>7

-----------------------------------------------------------------------------
(* The number found in the flash *)

LEMMA LeastOf ==
  ASSUME NEW S, S \subseteq Nat, S # {}
  PROVE  \E x \in S : \A y \in S : x <= y
<1> DEFINE R == OpToRel(<, Nat)
<1>1. PICK x \in S : \A y \in S : ~(<<y, x>> \in R)
  <2> HIDE DEF R
  <2>1. IsWellFoundedOn(R, Nat)
    BY NatLessThanWellFounded DEF R
  <2> QED
    BY <2>1, WFMin
<1>2. \A y \in S : x <= y
  <2> TAKE y \in S
  <2>1. y < x => <<y, x>> \in R
    BY DEF OpToRel
  <2>2. ~(y < x)
    BY <1>1, <2>1
  <2> QED
    BY <2>2
<1> QED
  BY <1>2

LEMMA MinIs ==
  ASSUME NEW S, S \subseteq Nat, S # {}
  PROVE  Min(S) \in S /\ \A y \in S : Min(S) <= y
BY LeastOf DEF Min

\* A set that is bounded has a greatest element.
LEMMA MaxIs ==
  ASSUME NEW S, S \subseteq Nat, S # {}, NEW n \in Nat, \A x \in S : x < n
  PROVE  Max(S) \in S /\ \A y \in S : y <= Max(S)
<1> DEFINE T == {n - x : x \in S}
<1>0. \A x \in S : x \in Nat /\ n - x \in Nat
  OBVIOUS
<1>1. T \subseteq Nat /\ T # {}
  BY <1>0
<1>2. PICK t \in T : \A u \in T : t <= u
  BY <1>1, LeastOf
<1>3. PICK x \in S : t = n - x
  OBVIOUS
<1>4. \A y \in S : n - x <= n - y
  BY <1>2, <1>3
<1>5. \A y \in S : x >= y
  BY <1>0, <1>4
<1>6. Max(S) \in S /\ \A y \in S : Max(S) >= y
  BY <1>5 DEF Max
<1> QED
  BY <1>6

LEMMA WrittenIs ==
  ASSUME TypeOK
  PROVE  /\ Written \subseteq Sectors
         /\ \A s \in Written : flash[s] \in Nat
         /\ \A s \in Sectors : flash[s] \in Nat => s \in Written
BY ImagesAssumption DEF Written, TypeOK

\* The sector with the highest number, where the numbers differ, is the last
\* that was written.
LEMMA LastWritten ==
  ASSUME TypeOK, Newer(seq), Written # {}
  PROVE  /\ NextSeq \in Nat /\ NextSector \in Sectors
         /\ \A s \in Written : flash[s] < NextSeq
         /\ (\A s, t \in Written : flash[s] = flash[t] => s = t) /\ (\A s \in Written : flash[s] = 0 => s = 0)
              => \E last \in Written :
                   /\ NextSector = (last + 1) % SectorCount
                   /\ \A s \in Written : flash[s] <= flash[last]
<1> DEFINE F == {flash[s] : s \in Written}
<1>1. F \subseteq Nat /\ F # {} /\ seq \in Nat /\ \A x \in F : x < seq
  BY WrittenIs DEF TypeOK, Newer
<1>2. PICK top : top = Max(F)
  OBVIOUS
<1>3. top \in F /\ top \in Nat /\ \A s \in Written : flash[s] <= top
  <2>1. Max(F) \in F /\ \A y \in F : y <= Max(F)
    BY <1>1, MaxIs
  <2> QED
    BY <1>1, <1>2, <2>1
<1>4. {s \in Written : flash[s] = top} # {} /\ {s \in Written : flash[s] = top} \subseteq Nat
  BY <1>3, WrittenIs DEF Sectors
<1>5. PICK m \in Written : m = Min({s \in Written : flash[s] = top}) /\ flash[m] = top
  <2>1. Min({s \in Written : flash[s] = top}) \in {s \in Written : flash[s] = top}
    BY <1>4, MinIs
  <2> QED
    BY <2>1
<1>6. PICK last : last = IF top = 0 THEN 0 ELSE m
  OBVIOUS
<1>7. NextSector = (last + 1) % SectorCount /\ NextSeq = top + 1
  BY <1>2, <1>5, <1>6, <1>1 DEF NextSector, NextSeq
<1>8. last \in Sectors /\ m \in Sectors
  BY <1>5, <1>6, WrittenIs, SizesAssumption DEF Sectors
<1>9. NextSector \in Sectors
  BY <1>7, <1>8, SectorAfter
<1>10. ASSUME NEW s \in Written PROVE flash[s] < NextSeq
  <2>1. PICK k \in Nat : k = flash[s] /\ k <= top
    BY <1>3, WrittenIs
  <2>2. k < top + 1
    BY <1>3, <2>1
  <2> QED
    BY <1>7, <2>1, <2>2
<1>11. ASSUME \A s \in Written : flash[s] = 0 => s = 0
       PROVE  last = m
  BY <1>5, <1>6, <1>11
<1>12. \A s \in Written : flash[s] <= flash[m]
  BY <1>3, <1>5
<1> QED
  BY <1>3, <1>5, <1>7, <1>9, <1>10, <1>11, <1>12

-----------------------------------------------------------------------------
(* The two rings *)

LEMMA RankIs ==
  ASSUME TypeOK, NEW s \in Sectors
  PROVE  /\ Rank(s) \in 0 .. SectorCount - 1
         /\ s = NextDue <=> Rank(s) = 0
<1>1. NextDue \in Sectors
  BY SectorIs DEF TypeOK
<1> QED
  BY <1>1, SizesAssumption DEF Rank, Sectors

LEMMA RankMoves ==
  ASSUME TypeOK, NextDue' = (NextDue + 1) % SectorCount, NEW s \in Sectors
  PROVE  Rank(s)' = IF s = NextDue THEN SectorCount - 1 ELSE Rank(s) - 1
<1>1. PICK p \in Sectors : p = NextDue
  BY SectorIs DEF TypeOK
<1>2. NextDue' = IF p = SectorCount - 1 THEN 0 ELSE p + 1
  BY <1>1, SectorAfter
<1>3. /\ Rank(s) = IF s >= p THEN s - p ELSE s - p + SectorCount
      /\ Rank(s)' = IF s >= NextDue' THEN s - NextDue' ELSE s - NextDue' + SectorCount
  BY <1>1 DEF Rank
<1>4. s \in 0 .. SectorCount - 1 /\ p \in 0 .. SectorCount - 1 /\ SectorCount \in Nat
  BY SizesAssumption DEF Sectors
<1>5. CASE p = SectorCount - 1
  BY <1>1, <1>2, <1>3, <1>4, <1>5
<1>6. CASE p # SectorCount - 1
  BY <1>1, <1>2, <1>3, <1>4, <1>6
<1> QED
  BY <1>5, <1>6

LEMMA AheadIs ==
  ASSUME f \in Bufs, NEW i \in Bufs
  PROVE  /\ Ahead(i) \in 0 .. BufferCount - 1
         /\ i = f <=> Ahead(i) = 0
         /\ \A j \in Bufs : Ahead(i) = Ahead(j) => i = j
BY SizesAssumption DEF Ahead, Bufs

LEMMA AheadMoves ==
  ASSUME f \in Bufs, f' = After(f), NEW i \in Bufs
  PROVE  Ahead(i)' = IF i = f THEN BufferCount - 1 ELSE Ahead(i) - 1
<1>1. f' = IF f = BufferCount - 1 THEN 0 ELSE f + 1
  BY AfterIs
<1>2. i \in 0 .. BufferCount - 1 /\ f \in 0 .. BufferCount - 1 /\ BufferCount \in Nat
  BY SizesAssumption DEF Bufs
<1>3. /\ Ahead(i) = IF i >= f THEN i - f ELSE i - f + BufferCount
      /\ Ahead(i)' = IF i >= f' THEN i - f' ELSE i - f' + BufferCount
  BY DEF Ahead
<1>4. CASE f = BufferCount - 1
  BY <1>1, <1>2, <1>3, <1>4
<1>5. CASE f # BufferCount - 1
  BY <1>1, <1>2, <1>3, <1>5
<1> QED
  BY <1>4, <1>5

\* The buffer the output goes on to is one further, or the one to be flushed.
LEMMA AheadAfter ==
  ASSUME f \in Bufs, NEW i \in Bufs
  PROVE  IF Ahead(i) = BufferCount - 1 THEN After(i) = f ELSE Ahead(After(i)) = Ahead(i) + 1
<1>1. PICK a \in Bufs : a = After(i) /\ a = IF i = BufferCount - 1 THEN 0 ELSE i + 1
  BY AfterIs
<1>2. /\ i \in 0 .. BufferCount - 1 /\ f \in 0 .. BufferCount - 1 /\ BufferCount \in Nat
      /\ a \in 0 .. BufferCount - 1
  BY SizesAssumption DEF Bufs
<1>3. /\ Ahead(i) = IF i >= f THEN i - f ELSE i - f + BufferCount
      /\ Ahead(a) = IF a >= f THEN a - f ELSE a - f + BufferCount
  BY DEF Ahead
<1>4. CASE i = BufferCount - 1
  BY <1>1, <1>2, <1>3, <1>4
<1>5. CASE i # BufferCount - 1
  BY <1>1, <1>2, <1>3, <1>5
<1> QED
  BY <1>4, <1>5

-----------------------------------------------------------------------------
(* What is queued reaches the flash, in whole, torn, or not at all *)

Settled ==
  /\ op' = NoOp
  /\ \A s \in Sectors :
       \/ flash'[s] \in {flash[s], Empty, Torn}
       \/ op.type = "write" /\ s = op.sector /\ flash'[s] = op.image

LEMMA SettledKeeps ==
  ASSUME TypeOK, QueueInv, Settled, offs' = offs
  PROVE  /\ \A n \in Nat : Newer(n) => Newer(n)'
         /\ FlashRing => FlashRing'
         /\ ZeroFirst => ZeroFirst'
<1>1. op'.type # "write"
  BY DEF Settled, NoOp
<1>2. \A s \in Written' :
        /\ s \in Sectors
        /\ \/ s \in Written /\ flash'[s] = flash[s]
           \/ op.type = "write" /\ s = op.sector /\ flash'[s] = op.image
  BY DEF Settled, Written
<1>3. ASSUME NEW n \in Nat, Newer(n) PROVE Newer(n)'
  BY <1>1, <1>2, <1>3 DEF Newer
<1>4. ASSUME FlashRing PROVE FlashRing'
  <2>1. \A s \in Sectors : Rank(s)' = Rank(s) /\ Rank(s) \in 0 .. SectorCount - 1
    BY RankIs DEF Rank, NextDue, Aligned, Sector
  <2>2. SectorCount \in Nat
    BY SizesAssumption
  <2> SUFFICES ASSUME NEW s \in Written', NEW t \in Written', Rank(s) < Rank(t)
               PROVE  flash'[s] < flash'[t]
    BY <1>1, <1>2, <2>1 DEF FlashRing
  <2>3. CASE s \in Written /\ flash'[s] = flash[s]
    BY <1>2, <1>4, <2>3 DEF FlashRing
  <2>4. CASE op.type = "write" /\ s = op.sector
    <3>1. Rank(s) = SectorCount - 1
      BY <1>4, <2>4 DEF FlashRing
    <3> QED
      BY <1>2, <2>1, <2>2, <3>1
  <2> QED
    BY <1>2, <2>3, <2>4
<1>5. ASSUME ZeroFirst PROVE ZeroFirst'
  BY <1>1, <1>2, <1>5 DEF ZeroFirst
<1> QED
  BY <1>3, <1>4, <1>5

\* norflash_api is settled by what it does with its queue.
LEMMA ProgramSettles ==
  ASSUME TypeOK, QueueInv
  PROVE  /\ Program(op) \in [Sectors -> Nat \cup {Empty, Torn}]
         /\ \A s \in Sectors :
              \/ Program(op)[s] \in {flash[s], Empty, Torn}
              \/ op.type = "write" /\ s = op.sector /\ Program(op)[s] = op.image
         /\ op = NoOp => Program(op) = flash
<1>1. op.type \in {"none", "erase", "write"} /\ op.sector \in Sectors /\ flash \in [Sectors -> Nat \cup {Empty, Torn}]
  BY DEF TypeOK
<1>2. CASE op.type = "none"
  BY <1>1, <1>2 DEF Program
<1>3. CASE op.type = "erase"
  <2>1. Program(op) = [flash EXCEPT ![op.sector] = Empty]
    BY <1>3 DEF Program
  <2> QED
    BY <1>1, <1>3, <2>1 DEF NoOp
<1>4. CASE op.type = "write"
  <2>1. Program(op) = [flash EXCEPT ![op.sector] = IF @ = Empty THEN op.image ELSE Torn]
    BY <1>4 DEF Program
  <2>2. op.image \in Nat
    BY <1>4 DEF QueueInv
  <2> QED
    BY <1>1, <1>4, <2>1, <2>2 DEF NoOp
<1> QED
  BY <1>1, <1>2, <1>3, <1>4

-----------------------------------------------------------------------------
(* Steps that leave the buffers and the offset alone *)

Onwards ==
  /\ UNCHANGED <<buf, w, f, seq, offs, lost, asserted>>
  /\ Settled \/ (flash' = flash /\ (op' = op \/ op'.type # "write"))
  /\ mode' # "off" => mode # "off"
  /\ mode' \in {"run", "crash"} => mode \in {"run", "crash"}

LEMMA OnwardsStep ==
  ASSUME LogInv, Onwards, TypeOK', QueueInv', ErasedAhead'
  PROVE  LogInv'
<1>0. /\ TypeOK /\ FillInv /\ QueueInv /\ StateAsserted /\ Newer(seq) /\ seq \in Nat
      /\ \A i \in Bufs : buf[i].seq \in Nat
  BY DEF LogInv, TypeOK
<1>1. /\ \A n \in Nat : Newer(n) => Newer(n)'
      /\ FlashRing => FlashRing'
      /\ ZeroFirst => ZeroFirst'
  <2>1. CASE Settled
    BY <1>0, <2>1, SettledKeeps DEF Onwards
  <2>2. CASE flash' = flash /\ (op' = op \/ op'.type # "write")
    <3>2. \A s : Rank(s)' = Rank(s)
      BY DEF Onwards, Rank, NextDue, Aligned, Sector
    <3>3. Written' = Written
      BY <2>2 DEF Written
    <3>4. \A n \in Nat : Newer(n) => Newer(n)'
      BY <2>2, <3>3 DEF Newer
    <3>5. FlashRing => FlashRing'
      BY <2>2, <3>2, <3>3 DEF FlashRing
    <3>6. ZeroFirst => ZeroFirst'
      BY <2>2, <3>3 DEF ZeroFirst
    <3> QED
      BY <3>4, <3>5, <3>6
  <2> QED
    BY <2>1, <2>2 DEF Onwards
<1>2. FillInv' /\ StateAsserted' /\ Newer(seq)'
  <2>1. Newer(seq)'
    <3>1. PICK n \in Nat : n = seq
      BY <1>0
    <3>2. Newer(n)' /\ seq' = n
      BY <1>0, <1>1, <3>1 DEF Onwards
    <3> QED
      BY <3>2 DEF Newer
  <2> QED
    BY <1>0, <2>1 DEF Onwards, FillInv, StateAsserted
<1>3. BufferRing => BufferRing'
  <2> SUFFICES ASSUME BufferRing, mode' # "off" PROVE BufferRing'
    BY DEF BufferRing
  <2>1. mode # "off" /\ Ordered(buf) /\ \A i \in Busy(buf) : Newer(buf[i].seq)
    BY DEF Onwards, BufferRing
  <2>2. Ordered(buf)'
    BY <2>1 DEF Onwards, Ordered, Busy, Ahead
  <2>3. \A i \in Busy(buf)' : Newer(buf[i].seq)'
    <3> SUFFICES ASSUME NEW i \in Busy(buf) PROVE Newer(buf[i].seq)'
      BY DEF Onwards, Busy
    <3>1. PICK n \in Nat : n = buf[i].seq
      BY <1>0 DEF Busy
    <3>2. Newer(n)' /\ buf'[i].seq = n
      BY <1>1, <2>1, <3>1 DEF Onwards
    <3> QED
      BY <3>2 DEF Newer
  <2>4. mode' \in {"run", "crash"} => FillsNext(buf, w)'
    <3>1. mode' \in {"run", "crash"} => FillsNext(buf, w)
      BY <2>1 DEF Onwards, BufferRing
    <3> QED
      BY <3>1 DEF Onwards, FillsNext, Busy, Ahead
  <2> QED
    BY <2>2, <2>3, <2>4 DEF BufferRing
<1>4. ZeroStarts => ZeroStarts'
  BY DEF ZeroStarts, Onwards, Busy
<1> QED
  BY <1>0, <1>1, <1>2, <1>3, <1>4 DEF LogInv, Onwards

LEMMA SleepEraseStep ==
  ASSUME LogInv, SleepErase
  PROVE  LogInv'
<1>0. /\ TypeOK /\ QueueInv /\ ErasedAhead /\ mode = "run" /\ fstate = "IDLE" /\ Aligned /\ op = NoOp
      /\ UNCHANGED <<buffers, offs, unfree, mode, flash, ghosts>> /\ fstate' = "ERASED"
  BY DEF LogInv, SleepErase, CanErase, Aligned
<1>1. PICK s \in Sectors : s = Sector /\ s = Sector'
  BY <1>0, SectorIs DEF TypeOK, Sector
<1>2. op' = [type |-> "erase", sector |-> s, image |-> Empty]
  BY <1>1 DEF SleepErase
<1>3. TypeOK'
  BY <1>0, <1>2 DEF TypeOK, buffers, ghosts
<1>4. QueueInv'
  BY <1>0, <1>1, <1>2 DEF QueueInv, Aligned, NoOp
<1>5. ErasedAhead'
  <2>1. op'.type = "erase" /\ op'.sector = s
    BY <1>2
  <2>2. Program(op)' = [flash EXCEPT ![s] = Empty]
    BY <1>0, <2>1 DEF Program
  <2>3. Program(op)'[s] = Empty
    BY <1>0, <2>2 DEF TypeOK
  <2> QED
    BY <1>1, <2>1, <2>3 DEF ErasedAhead
<1>6. Onwards
  BY <1>0, <1>2 DEF Onwards, buffers, ghosts
<1> QED
  BY <1>3, <1>4, <1>5, <1>6, OnwardsStep

LEMMA SleepWriteStep ==
  ASSUME LogInv, SleepWrite
  PROVE  LogInv'
<1>0. /\ TypeOK /\ QueueInv /\ ErasedAhead /\ mode = "run" /\ op = NoOp
      /\ fstate = "ERASED" /\ buf[f].state = "WRITTEN"
      /\ UNCHANGED <<buffers, offs, unfree, mode, device, ghosts>> /\ fstate' = "WRITTING"
  BY DEF LogInv, SleepWrite, CanWrite
<1>1. TypeOK'
  BY <1>0 DEF TypeOK, buffers, ghosts, device
<1>2. QueueInv'
  BY <1>0 DEF QueueInv, Aligned, NoOp, buffers, device, Sector
<1>3. ErasedAhead'
  <2>1. Program(op)' = Program(op)
    BY <1>0 DEF Program, device
  <2> QED
    BY <1>0, <2>1 DEF ErasedAhead, device, Sector, NoOp
<1>4. Onwards
  BY <1>0 DEF Onwards, buffers, ghosts, device
<1> QED
  BY <1>1, <1>2, <1>3, <1>4, OnwardsStep

\* What was queued is done.
LEMMA NorflashFlushStep ==
  ASSUME LogInv, NorflashFlush
  PROVE  LogInv'
<1>0. /\ TypeOK /\ QueueInv /\ ErasedAhead /\ mode = "run"
      /\ flash' = Program(op) /\ op' = NoOp
      /\ UNCHANGED <<buffers, flusher, mode, ghosts>>
  BY DEF LogInv, NorflashFlush
<1>1. TypeOK'
  <2>1. NoOp \in [type : {"none", "erase", "write"}, sector : Sectors, image : Nat \cup {Empty}]
    BY SizesAssumption DEF NoOp, Sectors
  <2>2. flash' \in [Sectors -> Nat \cup {Empty, Torn}]
    BY <1>0, ProgramSettles
  <2> QED
    BY <1>0, <2>1, <2>2 DEF TypeOK, buffers, ghosts, flusher
<1>2. QueueInv'
  BY <1>0 DEF QueueInv, Aligned, NoOp, buffers, flusher, NorflashFlush
<1>3. ErasedAhead'
  <2>1. op'.type = "none"
    BY <1>0 DEF NoOp
  <2>2. Program(op)' = flash'
    BY <2>1 DEF Program
  <2> QED
    BY <1>0, <2>1, <2>2 DEF ErasedAhead, Sector, flusher
<1>4. Onwards
  <2>1. Settled
    BY <1>0, ProgramSettles DEF Settled
  <2> QED
    BY <1>0, <2>1 DEF Onwards, buffers, ghosts, flusher
<1> QED
  BY <1>1, <1>2, <1>3, <1>4, OnwardsStep

\* Only the mode changes, and the count of _log_dump_flush_remain.
LEMMA ModeStep ==
  ASSUME LogInv, CrashStart \/ CrashEnd \/ RemainNothing \/ Reboot
  PROVE  LogInv'
<1>0. /\ TypeOK /\ QueueInv /\ ErasedAhead
      /\ UNCHANGED <<buffers, offs, fstate, device, ghosts>>
      /\ mode # "off" /\ mode' \in {"off", "run", "crash", "remain", "reboot"}
      /\ mode' # "run" /\ (mode' = "crash" => mode = "run")
      /\ mode' \in {"off", "reboot"} => mode = "reboot"
  BY DEF LogInv, CrashStart, CrashEnd, RemainNothing, Reboot, flusher
<1>1. unfree' \in BOOLEAN
  BY <1>0 DEF TypeOK, CrashStart, CrashEnd, RemainNothing, Reboot, flusher, Counted, SomeUnfree
<1>2. TypeOK'
  BY <1>0, <1>1 DEF TypeOK, buffers, ghosts, device
<1>3. QueueInv'
  BY <1>0 DEF QueueInv, Aligned, NoOp, buffers, device, Sector
<1>4. ErasedAhead'
  <2>1. Program(op)' = Program(op)
    BY <1>0 DEF Program, device
  <2> QED
    BY <1>0, <2>1 DEF ErasedAhead, device, Sector
<1>5. Onwards
  BY <1>0 DEF Onwards, buffers, ghosts, device
<1> QED
  BY <1>2, <1>3, <1>4, <1>5, OnwardsStep

LEMMA RemainEraseStep ==
  ASSUME LogInv, RemainErase
  PROVE  LogInv'
<1>0. /\ TypeOK /\ QueueInv /\ mode = "remain" /\ Aligned
      /\ fstate' = "ERASED" /\ unfree' \in BOOLEAN /\ op' = NoOp
      /\ UNCHANGED <<buffers, offs, mode, ghosts>>
  BY DEF LogInv, TypeOK, RemainErase, CanErase, Aligned, Counted, SomeUnfree
<1>1. PICK s \in Sectors : s = Sector /\ s = Sector'
  BY <1>0, SectorIs DEF TypeOK, Sector
<1>2. PICK g \in [Sectors -> Nat \cup {Empty, Torn}] : g = Program(op)
  BY <1>0, ProgramSettles
<1>3. flash' = [g EXCEPT ![s] = Empty]
  BY <1>1, <1>2 DEF RemainErase
<1>4. TypeOK'
  <2>1. NoOp \in [type : {"none", "erase", "write"}, sector : Sectors, image : Nat \cup {Empty}]
    BY SizesAssumption DEF NoOp, Sectors
  <2> QED
    BY <1>0, <1>3, <2>1 DEF TypeOK, buffers, ghosts
<1>5. QueueInv'
  BY <1>0 DEF QueueInv, Aligned, NoOp
<1>6. ErasedAhead'
  <2>1. op'.type = "none"
    BY <1>0 DEF NoOp
  <2>2. Program(op)' = flash'
    BY <2>1 DEF Program
  <2> QED
    BY <1>1, <1>3, <2>1, <2>2 DEF ErasedAhead
<1>7. Onwards
  <2>1. Settled
    <3>1. \A z \in Sectors : flash'[z] = IF z = s THEN Empty ELSE g[z]
      BY <1>3
    <3> QED
      BY <1>0, <1>2, <3>1, ProgramSettles DEF Settled
  <2> QED
    BY <1>0, <2>1 DEF Onwards, buffers, ghosts
<1> QED
  BY <1>4, <1>5, <1>6, <1>7, OnwardsStep

LEMMA RemainDoneStep ==
  ASSUME LogInv, RemainDone
  PROVE  LogInv'
<1>0. /\ TypeOK /\ QueueInv /\ ErasedAhead /\ mode = "remain" /\ mode' = "reboot"
      /\ flash' = Program(op) /\ op' = NoOp
      /\ UNCHANGED <<buffers, flusher, ghosts>>
  BY DEF LogInv, RemainDone
<1>1. TypeOK'
  <2>1. NoOp \in [type : {"none", "erase", "write"}, sector : Sectors, image : Nat \cup {Empty}]
    BY SizesAssumption DEF NoOp, Sectors
  <2>2. flash' \in [Sectors -> Nat \cup {Empty, Torn}]
    BY <1>0, ProgramSettles
  <2> QED
    BY <1>0, <2>1, <2>2 DEF TypeOK, buffers, ghosts, flusher
<1>2. QueueInv'
  BY <1>0 DEF QueueInv, Aligned, NoOp, buffers, flusher
<1>3. ErasedAhead'
  <2>1. op'.type = "none"
    BY <1>0 DEF NoOp
  <2>2. Program(op)' = flash'
    BY <2>1 DEF Program
  <2> QED
    BY <1>0, <2>1, <2>2 DEF ErasedAhead, Sector, flusher
<1>4. Onwards
  <2>1. Settled
    BY <1>0, ProgramSettles DEF Settled
  <2> QED
    BY <1>0, <2>1 DEF Onwards, buffers, ghosts, flusher
<1> QED
  BY <1>1, <1>2, <1>3, <1>4, OnwardsStep

\* Whatever the power loss tears, nothing is written.
LEMMA PowerLossStep ==
  ASSUME LogInv, PowerLoss
  PROVE  LogInv'
<1>0. /\ TypeOK /\ QueueInv /\ mode' = "off" /\ op' = NoOp /\ losses' = losses + 1
      /\ UNCHANGED <<buffers, flusher, lost, asserted>>
  BY DEF LogInv, PowerLoss
<1>1. PICK s \in Sectors : s = Sector
  BY <1>0, SectorIs DEF TypeOK
<1>2. PICK g \in [Sectors -> Nat \cup {Empty, Torn}] : g = Program(op)
  BY <1>0, ProgramSettles
<1>3. \E z \in Sectors : flash' \in {flash, g, [flash EXCEPT ![z] = Torn]}
  <2>1. op.sector \in Sectors
    BY <1>0 DEF TypeOK
  <2> QED
    BY <1>1, <1>2, <2>1 DEF PowerLoss
<1>4. flash' \in [Sectors -> Nat \cup {Empty, Torn}]
  BY <1>0, <1>3 DEF TypeOK
<1>5. TypeOK'
  <2>1. NoOp \in [type : {"none", "erase", "write"}, sector : Sectors, image : Nat \cup {Empty}]
    BY SizesAssumption DEF NoOp, Sectors
  <2> QED
    BY <1>0, <1>4, <2>1 DEF TypeOK, buffers, flusher
<1>6. QueueInv'
  BY <1>0 DEF QueueInv, Aligned, NoOp, buffers, flusher
<1>7. ErasedAhead'
  BY <1>0 DEF ErasedAhead
<1>8. Onwards
  <2>1. Settled
    <3>1. PICK z \in Sectors : flash' \in {flash, g, [flash EXCEPT ![z] = Torn]}
      BY <1>3
    <3>2. CASE flash' = g
      BY <1>0, <1>2, <3>2, ProgramSettles DEF Settled
    <3>3. CASE flash' \in {flash, [flash EXCEPT ![z] = Torn]}
      BY <1>0, <3>3 DEF Settled, TypeOK
    <3> QED
      BY <3>1, <3>2, <3>3
  <2> QED
    BY <1>0, <2>1 DEF Onwards, buffers, flusher
<1> QED
  BY <1>5, <1>6, <1>7, <1>8, OnwardsStep

-----------------------------------------------------------------------------
(* Steps that write the next buffer *)

\* The buffer written is the oldest.
LEMMA OthersAreNewer ==
  ASSUME TypeOK, Ordered(buf), buf[f].state # "FREE", NEW i \in Busy(buf), i # f
  PROVE  buf[f].seq < buf[i].seq
<1>1. f \in Bufs /\ i \in Bufs /\ f \in Busy(buf)
  BY DEF TypeOK, Busy
<1>2. Ahead(f) = 0 /\ Ahead(i) \in Nat /\ Ahead(i) # 0
  BY <1>1, AheadIs
<1> QED
  BY <1>1, <1>2 DEF Ordered

\* WriteDone on the buffers.
Freed ==
  /\ buf[f].state # "FREE"
  /\ buf' = [buf EXCEPT ![f].state = "FREE"]
  /\ f' = After(f) /\ w' = w /\ seq' = seq

LEMMA FreedKeeps ==
  ASSUME TypeOK, FillInv, Freed
  PROVE  /\ buf' \in [Bufs -> [state : {"FREE", "WRITTING", "WRITTEN"}, offset : 0 .. Size, seq : Nat]]
         /\ f' \in Bufs /\ FillInv'
         /\ Busy(buf)' = Busy(buf) \ {f}
         /\ \A i \in Bufs : i # f => buf'[i] = buf[i]
         /\ Ordered(buf) => Ordered(buf)'
         /\ buf[f].state = "WRITTEN" /\ FillsNext(buf, w) => FillsNext(buf, w)'
<1>1. f \in Bufs /\ w \in Bufs /\ f' \in Bufs
  BY AfterIs DEF TypeOK, Freed
<1>2. buf' \in [Bufs -> [state : {"FREE", "WRITTING", "WRITTEN"}, offset : 0 .. Size, seq : Nat]]
  BY <1>1 DEF TypeOK, Freed
<1>3. buf'[f].state = "FREE" /\ \A i \in Bufs : i # f => buf'[i] = buf[i]
  BY <1>1 DEF TypeOK, Freed
<1>4. FillInv'
  BY <1>3 DEF FillInv, Freed
<1>5. Busy(buf)' = Busy(buf) \ {f}
  BY <1>3 DEF Busy
<1>6. \A i \in Bufs : Ahead(i)' = IF i = f THEN BufferCount - 1 ELSE Ahead(i) - 1
  BY <1>1, AheadMoves DEF Freed
<1>7. /\ \A i \in Bufs : Ahead(i) \in 0 .. BufferCount - 1 /\ (Ahead(i) = 0 <=> i = f)
      /\ BufferCount \in Nat
  BY <1>1, AheadIs, SizesAssumption
<1>8. ASSUME Ordered(buf) PROVE Ordered(buf)'
  <2>1. ASSUME NEW i \in Busy(buf)', NEW j \in Bufs \ Busy(buf)' PROVE Ahead(i)' < Ahead(j)'
    <3>1. i \in Busy(buf) /\ i # f /\ i \in Bufs
      BY <1>5 DEF Busy
    <3>2. CASE j = f
      BY <1>6, <1>7, <3>1, <3>2
    <3>3. CASE j # f
      <4>1. Ahead(i) < Ahead(j)
        BY <1>5, <1>8, <3>1, <3>3 DEF Ordered
      <4> QED
        BY <1>6, <1>7, <3>1, <3>3, <4>1
    <3> QED
      BY <3>2, <3>3
  <2>2. ASSUME NEW i \in Busy(buf)', NEW j \in Busy(buf)', Ahead(i)' < Ahead(j)'
        PROVE  buf'[i].seq < buf'[j].seq
    <3>1. i \in Busy(buf) /\ i # f /\ i \in Bufs /\ j \in Busy(buf) /\ j # f /\ j \in Bufs
      BY <1>5 DEF Busy
    <3>2. Ahead(i) < Ahead(j)
      BY <1>6, <1>7, <2>2, <3>1
    <3> QED
      BY <1>3, <1>8, <3>1, <3>2 DEF Ordered
  <2> QED
    BY <2>1, <2>2 DEF Ordered
<1>9. ASSUME buf[f].state = "WRITTEN", FillsNext(buf, w) PROVE FillsNext(buf, w)'
  <2>0. PICK x \in Bufs : x = w /\ x = w'
    BY <1>1 DEF Freed
  <2>1. buf'[x].state = "FREE" => \A j \in Bufs \ Busy(buf)' : Ahead(x)' <= Ahead(j)'
    <3> SUFFICES ASSUME buf'[x].state = "FREE", NEW j \in Bufs \ Busy(buf)'
                 PROVE  Ahead(x)' <= Ahead(j)'
      OBVIOUS
    <3>1. CASE x = f
      <4>1. j = f
        BY <1>5, <1>9, <2>0, <3>1 DEF FillsNext
      <4> QED
        BY <1>6, <1>7, <3>1, <4>1
    <3>2. CASE x # f
      <4>1. j = f \/ Ahead(x) <= Ahead(j)
        BY <1>3, <1>5, <1>9, <2>0, <3>2 DEF FillsNext
      <4> QED
        BY <1>6, <1>7, <3>2, <4>1
    <3> QED
      BY <3>1, <3>2
  <2>2. buf'[x].state = "WRITTING" => \A i \in Busy(buf)' : Ahead(i)' <= Ahead(x)'
    <3> SUFFICES ASSUME buf'[x].state = "WRITTING", NEW i \in Busy(buf)'
                 PROVE  Ahead(i)' <= Ahead(x)'
      OBVIOUS
    <3>1. x # f
      BY <1>3
    <3>2. i \in Bufs /\ i # f /\ Ahead(i) <= Ahead(x)
      BY <1>3, <1>5, <1>9, <2>0, <3>1 DEF FillsNext, Busy
    <3> QED
      BY <1>6, <1>7, <3>1, <3>2
  <2>3. buf'[x].state # "WRITTEN"
    BY <1>3, <1>9, <2>0 DEF FillsNext
  <2> QED
    BY <2>0, <2>1, <2>2, <2>3 DEF FillsNext
<1> QED
  BY <1>1, <1>2, <1>3, <1>4, <1>5, <1>8, <1>9

\* Number n is written to sector p, or on its way there.
Appended(p, n) ==
  /\ \A s \in Written' :
       /\ s \in Sectors
       /\ IF s = p THEN flash'[s] = n ELSE s \in Written /\ flash'[s] = flash[s]
  /\ op'.type = "write" => op'.sector = p /\ op'.image = n /\ p \notin Written'

LEMMA AppendedIsNewer ==
  ASSUME TypeOK, NEW p \in Sectors, NEW n \in Nat, Appended(p, n),
         NEW k \in Nat, Newer(k), n < k
  PROVE  Newer(k)'
BY DEF Newer, Appended

LEMMA AppendedKeeps ==
  ASSUME TypeOK, NEW p \in Sectors, NEW n \in Nat, Appended(p, n), Newer(n),
         p = NextDue, NextDue' = (NextDue + 1) % SectorCount,
         FlashRing, ZeroFirst, n = 0 => p = 0
  PROVE  FlashRing' /\ ZeroFirst'
<1>1. \A s \in Sectors : /\ Rank(s)' = IF s = p THEN SectorCount - 1 ELSE Rank(s) - 1
                         /\ Rank(s) \in 0 .. SectorCount - 1
  BY RankMoves, RankIs
<1>2. SectorCount \in Nat /\ \A s \in Written : s \in Sectors /\ flash[s] \in Nat
  BY SizesAssumption, WrittenIs
<1>3. ASSUME NEW s \in Written', NEW t \in Written', Rank(s)' < Rank(t)'
      PROVE  flash'[s] < flash'[t]
  <2>1. CASE s = p
    BY <1>1, <1>2, <1>3, <2>1 DEF Appended
  <2>2. CASE s # p /\ t = p
    BY <2>2 DEF Appended, Newer
  <2>3. CASE s # p /\ t # p
    <3>1. /\ s \in Written /\ t \in Written /\ flash'[s] = flash[s] /\ flash'[t] = flash[t]
          /\ s \in Sectors /\ t \in Sectors
      BY <2>3 DEF Appended
    <3>2. Rank(s) < Rank(t)
      BY <1>1, <1>2, <1>3, <2>3, <3>1
    <3> QED
      BY <3>1, <3>2 DEF FlashRing
  <2> QED
    BY <2>1, <2>2, <2>3
<1>4. ASSUME op'.type = "write"
      PROVE  Rank(op.sector)' = SectorCount - 1 /\ \A s \in Written' : flash'[s] < op'.image
  <2>1. op'.sector = p /\ op'.image = n /\ \A s \in Written' : s # p
    BY <1>4 DEF Appended
  <2>2. Rank(op.sector)' = Rank(p)'
    BY <2>1 DEF Rank
  <2>3. \A s \in Written' : flash'[s] < op'.image
    BY <2>1 DEF Appended, Newer
  <2> QED
    BY <1>1, <2>2, <2>3
<1>5. ZeroFirst'
  BY DEF ZeroFirst, Appended
<1> QED
  BY <1>3, <1>4, <1>5 DEF FlashRing

\* The offset moves on to the next sector due.
LEMMA OffsetAdvances ==
  ASSUME LogInv, buf[f].state # "FREE", buf[f].offset > 0, Aligned, offs' = Advance
  PROVE  /\ offs' \in 0 .. SectorCount * Size - 1
         /\ NextDue = Sector /\ NextDue' = (NextDue + 1) % SectorCount
         /\ buf[f].state = "WRITTEN" => Aligned'
<1>1. f \in Bufs /\ buf[f].offset \in 0 .. Size /\ offs \in 0 .. SectorCount * Size - 1 /\ Size \in Nat
  BY SizesAssumption DEF LogInv, TypeOK
<1>2. PICK k \in 1 .. Size : k = buf[f].offset
  BY <1>1
<1>3. offs' = (offs + k) % (SectorCount * Size)
  BY <1>2 DEF Advance
<1>4. buf[f].state = "WRITTEN" => k = Size
  BY <1>1, <1>2 DEF LogInv, FillInv
<1>5. NextDue = Sector
  BY <1>1, SectorIs
<1>6. /\ offs' \in 0 .. SectorCount * Size - 1
      /\ NextDue' = (Sector + 1) % SectorCount
      /\ k = Size => Aligned'
  BY <1>1, <1>3, OffsetMoves
<1> QED
  BY <1>4, <1>5, <1>6

LEMMA WrittenStep ==
  ASSUME LogInv, Freed, buf[f].offset > 0, Aligned, offs' = Advance, fstate' = "IDLE",
         Appended(Sector, buf[f].seq), mode # "off", mode' = mode,
         mode \in {"run", "crash"} => buf[f].state = "WRITTEN",
         lost' = lost, asserted' = asserted, TypeOK', QueueInv', ErasedAhead'
  PROVE  LogInv'
<1>0. /\ TypeOK /\ FillInv /\ Newer(seq) /\ StateAsserted /\ seq \in Nat /\ f \in Bufs
      /\ \A i \in Bufs : buf[i].seq \in Nat
  BY DEF LogInv, TypeOK
<1>1. PICK p \in Sectors, n \in Nat : p = Sector /\ n = buf[f].seq
  BY <1>0, SectorIs DEF TypeOK
<1>2. /\ FillInv'
      /\ Busy(buf)' = Busy(buf) \ {f}
      /\ \A i \in Bufs : i # f => buf'[i] = buf[i]
      /\ Ordered(buf) => Ordered(buf)'
      /\ buf[f].state = "WRITTEN" /\ FillsNext(buf, w) => FillsNext(buf, w)'
  BY <1>0, FreedKeeps
<1>3. NextDue = p /\ NextDue' = (NextDue + 1) % SectorCount
  BY <1>1, OffsetAdvances DEF Freed
<1>4. Appended(p, n) /\ n < seq /\ f \in Busy(buf)
  BY <1>0, <1>1 DEF FillInv, Freed, Busy
<1>5. Newer(seq)'
  <2>1. PICK k \in Nat : k = seq /\ k = seq'
    BY <1>0 DEF Freed
  <2>2. Newer(k)'
    BY <1>0, <1>4, <2>1, AppendedIsNewer
  <2> QED
    BY <2>1, <2>2 DEF Newer
<1>6. ASSUME BufferRing, FlashRing, ZeroFirst, ZeroStarts
      PROVE  BufferRing' /\ FlashRing' /\ ZeroFirst' /\ ZeroStarts'
  <2>1. Ordered(buf) /\ \A i \in Busy(buf) : Newer(buf[i].seq)
    BY <1>6 DEF BufferRing
  <2>2. Newer(n) /\ \A i \in Busy(buf) : i # f => n < buf[i].seq
    BY <1>0, <1>1, <1>4, <2>1, OthersAreNewer DEF Freed
  <2>3. n = 0 => p = 0
    <3>1. n = 0 => offs = 0
      BY <1>1, <1>4, <1>6 DEF ZeroStarts
    <3>2. 0 = Size * 0 + 0 /\ 0 \in 0 .. Size - 1 /\ Size \in Nat \ {0}
      BY SizesAssumption
    <3>3. 0 \div Size = 0
      BY <3>2, DivUnique
    <3> QED
      BY <1>1, <3>1, <3>3 DEF Sector
  <2>4. FlashRing' /\ ZeroFirst'
    BY <1>0, <1>3, <1>4, <1>6, <2>2, <2>3, AppendedKeeps
  <2>5. \A i \in Busy(buf)' : Newer(buf[i].seq)'
    <3> SUFFICES ASSUME NEW i \in Busy(buf), i # f PROVE Newer(buf[i].seq)'
      BY <1>2
    <3>1. PICK k \in Nat : k = buf[i].seq /\ k = buf'[i].seq
      BY <1>0, <1>2 DEF Busy
    <3>2. Newer(k)'
      BY <1>0, <1>4, <2>1, <2>2, <3>1, AppendedIsNewer
    <3> QED
      BY <3>1, <3>2 DEF Newer
  <2>6. mode' \in {"run", "crash"} => FillsNext(buf, w)'
    BY <1>2, <1>6 DEF BufferRing
  <2>7. BufferRing'
    BY <1>2, <2>1, <2>5, <2>6 DEF BufferRing
  <2>8. ZeroStarts'
    <3>1. seq' # 0
      BY <1>0, <1>4 DEF Freed
    <3>2. \A i \in Busy(buf)' : buf'[i].seq # 0
      BY <1>0, <1>2, <2>2 DEF Busy
    <3> QED
      BY <3>1, <3>2 DEF ZeroStarts
  <2> QED
    BY <2>4, <2>7, <2>8
<1> QED
  BY <1>0, <1>2, <1>5, <1>6 DEF LogInv, StateAsserted

LEMMA SleepWrittenStep ==
  ASSUME LogInv, SleepWritten
  PROVE  LogInv'
<1>0. /\ TypeOK /\ FillInv /\ QueueInv /\ ErasedAhead /\ mode = "run" /\ fstate = "WRITTING"
      /\ fstate' = "IDLE" /\ offs' = Advance
      /\ UNCHANGED <<w, seq, unfree, mode, flash, ghosts>>
  BY DEF LogInv, SleepWritten, WriteDone
<1>1. op = NoOp /\ buf[f].state = "WRITTEN" /\ Aligned /\ f \in Bufs
  BY <1>0 DEF QueueInv, TypeOK
<1>2. Freed /\ buf[f].offset > 0
  BY <1>0, <1>1, SizesAssumption DEF Freed, SleepWritten, WriteDone, FillInv
<1>3. PICK p \in Sectors, n \in Nat : p = Sector /\ n = buf[f].seq
  BY <1>0, <1>1, SectorIs DEF TypeOK
<1>4. op' = [type |-> "write", sector |-> p, image |-> n]
  BY <1>3 DEF SleepWritten
<1>5. flash[p] = Empty
  BY <1>0, <1>1, <1>3, ProgramSettles DEF ErasedAhead
<1>6. Appended(p, n)
  BY <1>0, <1>4, <1>5 DEF Appended, Written
<1>7. offs' \in 0 .. SectorCount * Size - 1 /\ Aligned'
  BY <1>0, <1>1, <1>2, OffsetAdvances
<1>8. TypeOK'
  BY <1>0, <1>2, <1>4, <1>7, FreedKeeps DEF TypeOK, ghosts
<1>9. QueueInv'
  BY <1>0, <1>4, <1>5, <1>7 DEF QueueInv
<1>10. ErasedAhead'
  BY <1>0, <1>4, <1>5 DEF ErasedAhead
<1> QED
  BY <1>0, <1>1, <1>2, <1>3, <1>6, <1>8, <1>9, <1>10, WrittenStep DEF ghosts

LEMMA RemainWriteStep ==
  ASSUME LogInv, RemainWrite
  PROVE  LogInv'
<1>0. /\ TypeOK /\ FillInv /\ QueueInv /\ ErasedAhead /\ mode = "remain" /\ fstate = "ERASED"
      /\ fstate' = "IDLE" /\ offs' = Advance /\ op' = NoOp
      /\ buf[f].state # "FREE" /\ buf[f].offset > 0
      /\ UNCHANGED <<w, seq, mode, ghosts>> /\ unfree' \in BOOLEAN
  BY DEF LogInv, RemainWrite, CanWrite, TypeOK, Counted, SomeUnfree
<1>1. Aligned /\ f \in Bufs
  BY <1>0 DEF QueueInv, TypeOK
<1>2. Freed
  BY <1>0 DEF Freed, RemainWrite
<1>3. PICK p \in Sectors, n \in Nat : p = Sector /\ n = buf[f].seq
  BY <1>0, <1>1, SectorIs DEF TypeOK
<1>4. PICK g \in [Sectors -> Nat \cup {Empty, Torn}] : g = Program(op)
  BY <1>0, ProgramSettles
<1>5. g[p] = Empty
  BY <1>0, <1>3, <1>4 DEF ErasedAhead
<1>6. flash' = [g EXCEPT ![p] = n]
  BY <1>3, <1>4, <1>5 DEF RemainWrite
<1>7. Appended(p, n)
  <2>1. \A s \in Sectors : s # p => flash'[s] = g[s] /\ g[s] \in {flash[s], Empty, Torn}
    BY <1>0, <1>4, <1>6, ProgramSettles DEF QueueInv
  <2>2. flash'[p] = n /\ op'.type # "write"
    BY <1>0, <1>6 DEF NoOp
  <2> QED
    BY <2>1, <2>2 DEF Appended, Written
<1>8. offs' \in 0 .. SectorCount * Size - 1
  BY <1>0, <1>1, OffsetAdvances
<1>9. TypeOK'
  <2>1. NoOp \in [type : {"none", "erase", "write"}, sector : Sectors, image : Nat \cup {Empty}]
    BY SizesAssumption DEF NoOp, Sectors
  <2> QED
    BY <1>0, <1>2, <1>6, <1>8, <2>1, FreedKeeps DEF TypeOK, ghosts
<1>10. QueueInv'
  BY <1>0 DEF QueueInv, NoOp
<1>11. ErasedAhead'
  BY <1>0 DEF ErasedAhead, NoOp
<1> QED
  BY <1>0, <1>1, <1>2, <1>3, <1>7, <1>9, <1>10, <1>11, WrittenStep DEF ghosts

-----------------------------------------------------------------------------
(* A restart *)

\* The ring of sectors, seen from behind the last that was written.
LEMMA RankRestarts ==
  ASSUME TypeOK, NEW last \in Sectors, NextDue' = (last + 1) % SectorCount,
         NEW s \in Sectors, Rank(s) <= Rank(last)
  PROVE  Rank(s)' = Rank(s) - Rank(last) - 1 + SectorCount
<1>1. PICK p \in Sectors, q \in Sectors : p = NextDue /\ q = NextDue' /\ q = IF last = SectorCount - 1 THEN 0 ELSE last + 1
  BY SectorIs, SectorAfter DEF TypeOK
<1>2. /\ s \in 0 .. SectorCount - 1 /\ p \in 0 .. SectorCount - 1 /\ q \in 0 .. SectorCount - 1
      /\ last \in 0 .. SectorCount - 1 /\ SectorCount \in Nat
  BY SizesAssumption DEF Sectors
<1>3. /\ Rank(s) = IF s >= p THEN s - p ELSE s - p + SectorCount
      /\ Rank(last) = IF last >= p THEN last - p ELSE last - p + SectorCount
      /\ Rank(s)' = IF s >= q THEN s - q ELSE s - q + SectorCount
  BY <1>1 DEF Rank
<1>4. CASE last = SectorCount - 1
  BY <1>1, <1>2, <1>3, <1>4
<1>5. CASE last # SectorCount - 1
  BY <1>1, <1>2, <1>3, <1>5
<1> QED
  BY <1>4, <1>5

\* The start of a sector.
LEMMA StartOf ==
  ASSUME NEW s \in Sectors, offs' = s * Size
  PROVE  offs' \in 0 .. SectorCount * Size - 1 /\ Aligned' /\ NextDue' = s
<1>0. Size \in Nat \ {0} /\ SectorCount \in Nat \ {0} /\ s \in Nat /\ s + 1 <= SectorCount
  BY SizesAssumption DEF Sectors
<1>1. offs' = Size * s + 0 /\ 0 \in 0 .. Size - 1
  BY <1>0
<1>2. offs' \div Size = s /\ offs' % Size = 0
  <2>1. (Size * s + 0) \div Size = s /\ (Size * s + 0) % Size = 0
    BY <1>0, <1>1, DivUnique
  <2> QED
    BY <1>1, <2>1
<1>3. offs' \in 0 .. SectorCount * Size - 1
  <2>1. Size * (s + 1) <= Size * SectorCount
    BY <1>0, MulMono
  <2>2. Size * (s + 1) = Size * s + Size /\ Size * SectorCount = SectorCount * Size /\ Size * s \in Nat
    BY <1>0
  <2> QED
    BY <1>0, <1>1, <2>1, <2>2
<1> QED
  BY <1>2, <1>3 DEF Aligned, NextDue, Sector

\* Numbering goes on above all that is found, behind the highest.
LEMMA LogInitStep ==
  ASSUME LogInv, LogInit
  PROVE  LogInv'
<1>0. /\ TypeOK /\ QueueInv /\ Newer(seq) /\ StateAsserted /\ op = NoOp
      /\ mode = "off" /\ mode' = "run" /\ fstate' = "IDLE" /\ unfree' = FALSE
      /\ w' = 0 /\ f' = 0 /\ seq' = NextSeq
      /\ UNCHANGED <<flash, op, lost, asserted, losses>>
  BY DEF LogInv, LogInit, QueueInv, device, ghosts
<1>1. /\ 0 \in Bufs /\ Bufs \subseteq Nat /\ 0 \in Sectors /\ 0 \in 0 .. Size /\ 0 = 0 * Size
      /\ Size \in Nat /\ SectorCount \in Nat
  BY SizesAssumption DEF Bufs, Sectors
<1>2. /\ buf' \in [Bufs -> [state : {"FREE", "WRITTING", "WRITTEN"}, offset : 0 .. Size, seq : Nat]]
      /\ \A i \in Bufs : buf'[i].state = "FREE"
  BY <1>1 DEF LogInit, Free
<1>3. Written' = Written /\ op'.type = "none"
  BY <1>0 DEF Written, NoOp
<1>4. /\ offs' \in 0 .. SectorCount * Size - 1 /\ Aligned' /\ seq' \in Nat
      /\ \A s \in Written : flash[s] < seq'
  <2>1. CASE Written = {}
    <3>1. offs' = 0 * Size /\ seq' = 0
      BY <1>0, <1>1, <2>1 DEF LogInit, NextSeq
    <3> QED
      BY <1>1, <2>1, <3>1, StartOf
  <2>2. CASE Written # {}
    <3>1. NextSeq \in Nat /\ NextSector \in Sectors /\ \A s \in Written : flash[s] < NextSeq
      BY <1>0, <2>2, LastWritten
    <3>2. PICK s \in Sectors : offs' = s * Size
      BY <2>2, <3>1 DEF LogInit
    <3> QED
      BY <1>0, <3>1, <3>2, StartOf
  <2> QED
    BY <2>1, <2>2
<1>5. TypeOK'
  BY <1>0, <1>1, <1>2, <1>4 DEF TypeOK
<1>6. FillInv' /\ StateAsserted' /\ Busy(buf)' = {}
  BY <1>0, <1>2 DEF FillInv, StateAsserted, Busy
<1>7. QueueInv' /\ ErasedAhead'
  BY <1>0, <1>3, <1>4 DEF QueueInv, ErasedAhead, NoOp
<1>8. Newer(seq)'
  BY <1>0, <1>3, <1>4 DEF Newer
<1>9. BufferRing'
  <2>1. \A i \in Bufs : Ahead(i)' = i - 0
    BY <1>0, <1>1 DEF Ahead
  <2>2. w' = 0 /\ buf'[w'].state = "FREE" /\ Ahead(w)' = 0 /\ \A j \in Bufs : 0 <= j
    BY <1>0, <1>1, <1>2 DEF Ahead
  <2>3. FillsNext(buf, w)'
    <3>1. \A j \in Bufs \ Busy(buf)' : Ahead(w)' <= Ahead(j)'
      BY <1>1, <2>1, <2>2
    <3> QED
      BY <2>2, <3>1 DEF FillsNext
  <2>4. Ordered(buf)'
    BY <1>6 DEF Ordered
  <2> QED
    BY <1>6, <2>3, <2>4 DEF BufferRing
<1>10. ASSUME FlashRing, ZeroFirst PROVE FlashRing' /\ ZeroFirst' /\ ZeroStarts'
  <2>1. ZeroFirst'
    BY <1>0, <1>3, <1>10 DEF ZeroFirst
  <2>2. ZeroStarts'
    <3>1. seq' = 0 => Written = {}
      BY <1>0, <1>4, WrittenIs
    <3>2. Written = {} => offs' = 0
      BY DEF LogInit
    <3> QED
      BY <1>6, <3>1, <3>2 DEF ZeroStarts
  <2>3. FlashRing'
    <3> SUFFICES ASSUME NEW s \in Written, NEW t \in Written, Rank(s)' < Rank(t)'
                 PROVE  flash[s] < flash[t]
      BY <1>0, <1>3 DEF FlashRing
    <3>1. \A y \in Written : /\ y \in Sectors /\ flash[y] \in Nat
                             /\ Rank(y) \in 0 .. SectorCount - 1
      BY <1>0, WrittenIs, RankIs
    <3>2. \A y, z \in Written : flash[y] = flash[z] => y = z
      <4> SUFFICES ASSUME NEW y \in Written, NEW z \in Written, flash[y] = flash[z] PROVE y = z
        OBVIOUS
      <4>1. ~(Rank(y) < Rank(z)) /\ ~(Rank(z) < Rank(y))
        BY <1>10, <3>1 DEF FlashRing
      <4>2. Rank(y) = Rank(z)
        BY <1>1, <3>1, <4>1
      <4>3. NextDue \in Sectors
        BY <1>0, SectorIs DEF TypeOK
      <4> QED
        BY <1>1, <3>1, <4>2, <4>3 DEF Rank, Sectors
    <3>3. PICK last \in Written : /\ NextSector = (last + 1) % SectorCount
                                  /\ \A y \in Written : flash[y] <= flash[last]
      BY <1>0, <1>10, <3>2, LastWritten DEF ZeroFirst
    <3>4. NextDue' = (last + 1) % SectorCount
      <4>1. NextSector \in Sectors /\ offs' = NextSector * Size
        BY <1>0, LastWritten DEF LogInit
      <4>2. PICK z \in Sectors : z = NextSector /\ offs' = z * Size
        BY <4>1
      <4> QED
        BY <3>3, <4>2, StartOf
    <3>5. \A y \in Written : Rank(y) <= Rank(last)
      <4> SUFFICES ASSUME NEW y \in Written, ~(Rank(y) <= Rank(last)) PROVE FALSE
        OBVIOUS
      <4>1. flash[last] < flash[y]
        BY <1>1, <1>10, <3>1 DEF FlashRing
      <4> QED
        BY <3>1, <3>3, <4>1
    <3>6. \A y \in Written : Rank(y)' = Rank(y) - Rank(last) - 1 + SectorCount
      BY <1>0, <3>1, <3>4, <3>5, RankRestarts
    <3>7. Rank(s) < Rank(t)
      BY <1>1, <3>1, <3>6
    <3> QED
      BY <1>10, <3>7 DEF FlashRing
  <2> QED
    BY <2>1, <2>2, <2>3
<1> QED
  BY <1>0, <1>5, <1>6, <1>7, <1>8, <1>9, <1>10 DEF LogInv

-----------------------------------------------------------------------------
(* The output handler *)

BufferRecord == [state : {"FREE", "WRITTING", "WRITTEN"}, offset : 0 .. Size, seq : Nat]

\* The buffer being filled is behind all that are in use: filling it, or going
\* on to the next when it is full, keeps the order.
LEMMA RingFills ==
  ASSUME f \in Bufs, NEW b \in [Bufs -> BufferRecord], NEW x \in Bufs,
         Ordered(b), FillsNext(b, x), b[x].state # "WRITTEN",
         NEW new \in BufferRecord, new.state # "FREE",
         IF b[x].state = "FREE" THEN \A i \in Busy(b) : b[i].seq < new.seq ELSE new.seq = b[x].seq,
         NEW d, d = [b EXCEPT ![x] = new]
  PROVE  /\ Ordered(d)
         /\ new.state = "WRITTING" => FillsNext(d, x)
         /\ new.state = "WRITTEN" /\ (\A i \in Bufs : b[i].state = "WRITTING" => i = x)
              => FillsNext(d, After(x))
<1>1. d[x] = new /\ \A i \in Bufs : i # x => d[i] = b[i]
  OBVIOUS
<1>2. Busy(d) = Busy(b) \cup {x} /\ Busy(b) \subseteq Bufs
  BY <1>1 DEF Busy
<1>3. /\ \A i \in Bufs : Ahead(i) \in 0 .. BufferCount - 1
      /\ \A i, j \in Bufs : Ahead(i) = Ahead(j) => i = j
      /\ BufferCount \in Nat
  BY AheadIs, SizesAssumption
<1>4. b[x].state \in {"FREE", "WRITTING"}
  BY DEF BufferRecord
<1>5. ASSUME NEW i \in Busy(d) PROVE Ahead(i) <= Ahead(x)
  <2>1. CASE i = x
    BY <1>3, <2>1
  <2>2. CASE i # x /\ b[x].state = "FREE"
    <3>1. i \in Busy(b) /\ x \in Bufs \ Busy(b) /\ i \in Bufs
      BY <1>2, <2>2 DEF Busy
    <3>2. Ahead(i) < Ahead(x)
      BY <3>1 DEF Ordered
    <3> QED
      BY <1>3, <3>1, <3>2
  <2>3. CASE i # x /\ b[x].state = "WRITTING"
    BY <1>2, <2>3 DEF FillsNext
  <2> QED
    BY <1>4, <2>1, <2>2, <2>3
<1>6. ASSUME NEW j \in Bufs \ Busy(d) PROVE Ahead(x) < Ahead(j)
  <2>1. j # x /\ j \in Bufs \ Busy(b)
    BY <1>2
  <2>2. CASE b[x].state = "FREE"
    <3>1. Ahead(x) <= Ahead(j) /\ Ahead(x) # Ahead(j)
      BY <1>3, <2>1, <2>2 DEF FillsNext
    <3> QED
      BY <1>3, <2>1, <3>1
  <2>3. CASE b[x].state = "WRITTING"
    <3>1. x \in Busy(b)
      BY <2>3 DEF Busy
    <3> QED
      BY <2>1, <3>1 DEF Ordered
  <2> QED
    BY <1>4, <2>2, <2>3
<1>7. Ordered(d)
  <2>1. ASSUME NEW i \in Busy(d), NEW j \in Bufs \ Busy(d) PROVE Ahead(i) < Ahead(j)
    <3>1. Ahead(i) <= Ahead(x) /\ Ahead(x) < Ahead(j) /\ i \in Bufs
      BY <1>2, <1>5, <1>6
    <3> QED
      BY <1>3, <3>1
  <2>2. ASSUME NEW i \in Busy(d), NEW j \in Busy(d), Ahead(i) < Ahead(j)
        PROVE  d[i].seq < d[j].seq
    <3>0. i \in Bufs /\ j \in Bufs
      BY <1>2
    <3>1. CASE b[x].state # "FREE"
      <4>1. \A y \in Bufs : d[y].seq = b[y].seq
        BY <1>1, <3>1
      <4>2. Busy(d) = Busy(b)
        BY <1>2, <3>1 DEF Busy
      <4> QED
        BY <2>2, <3>0, <4>1, <4>2 DEF Ordered
    <3>2. CASE b[x].state = "FREE"
      <4>1. i # x
        <5>1. Ahead(j) <= Ahead(x)
          BY <1>5
        <5> QED
          BY <1>3, <2>2, <3>0, <5>1
      <4>2. i \in Busy(b) /\ d[i] = b[i]
        BY <1>1, <1>2, <3>0, <4>1
      <4>3. CASE j = x
        BY <1>1, <3>2, <4>2, <4>3
      <4>4. CASE j # x
        BY <1>1, <1>2, <2>2, <3>0, <4>2, <4>4 DEF Ordered
      <4> QED
        BY <4>3, <4>4
    <3> QED
      BY <3>1, <3>2
  <2> QED
    BY <2>1, <2>2 DEF Ordered
<1>8. ASSUME new.state = "WRITTING" PROVE FillsNext(d, x)
  BY <1>1, <1>5, <1>8 DEF FillsNext
<1>9. ASSUME new.state = "WRITTEN", \A i \in Bufs : b[i].state = "WRITTING" => i = x
      PROVE  FillsNext(d, After(x))
  <2>1. PICK a \in Bufs : a = After(x)
    BY AfterIs
  <2>2. CASE Ahead(x) = BufferCount - 1
    <3>1. a = f
      BY <2>1, <2>2, AheadAfter
    <3>2. Busy(d) = Bufs
      <4> SUFFICES ASSUME NEW j \in Bufs \ Busy(d) PROVE FALSE
        BY <1>2
      <4>1. Ahead(x) < Ahead(j)
        BY <1>6
      <4>2. Ahead(j) \in 0 .. BufferCount - 1 /\ BufferCount \in Nat
        BY <1>3
      <4> QED
        BY <2>2, <4>1, <4>2
    <3>3. d[a].state # "FREE" /\ d[a].state # "WRITTING"
      <4>1. d[a].state # "FREE"
        BY <3>2 DEF Busy
      <4>2. d[a].state # "WRITTING"
        BY <1>1, <1>9
      <4> QED
        BY <4>1, <4>2
    <3> QED
      BY <2>1, <3>1, <3>2, <3>3 DEF FillsNext
  <2>3. CASE Ahead(x) # BufferCount - 1
    <3>1. Ahead(a) = Ahead(x) + 1
      BY <2>1, <2>3, AheadAfter
    <3>2. a \notin Busy(d)
      <4> SUFFICES ASSUME a \in Busy(d) PROVE FALSE
        OBVIOUS
      <4>1. Ahead(a) <= Ahead(x)
        BY <1>5
      <4>2. Ahead(x) \in 0 .. BufferCount - 1 /\ BufferCount \in Nat
        BY <1>3
      <4> QED
        BY <3>1, <4>1, <4>2
    <3>3. \A j \in Bufs \ Busy(d) : Ahead(a) <= Ahead(j)
      BY <1>3, <1>6, <3>1
    <3>4. d[a].state = "FREE"
      BY <3>2 DEF Busy
    <3> QED
      BY <2>1, <3>3, <3>4 DEF FillsNext
  <2> QED
    BY <2>2, <2>3
<1> QED
  BY <1>7, <1>8, <1>9

\* What the loop has stored so far keeps to the rules of the two cursors.
Sound(c) ==
  /\ c.buf \in [Bufs -> BufferRecord] /\ c.w \in Bufs /\ c.seq \in Nat /\ seq <= c.seq
  /\ c.remain \in 0 .. Size - 1 /\ c.lost \in BOOLEAN /\ c.asserted = FALSE
  /\ \A i \in Bufs : /\ c.buf[i].state = "WRITTING" => i = c.w /\ c.buf[i].offset \in 1 .. Size - 1
                     /\ c.buf[i].state = "WRITTEN" => c.buf[i].offset = Size
                     /\ c.buf[i].state # "FREE" => c.buf[i].seq < c.seq
                     /\ buf[i].state = "WRITTEN" => c.buf[i].state = "WRITTEN"
  /\ ~c.lost =>
       /\ ~lost /\ Ordered(c.buf) /\ FillsNext(c.buf, c.w)
       /\ \A i \in Busy(c.buf) : \/ i \in Busy(buf) /\ c.buf[i].seq = buf[i].seq
                                 \/ seq <= c.buf[i].seq

LEMMA RoundKeeps ==
  ASSUME f \in Bufs, seq \in Nat, NEW c, Sound(c), c.remain > 0, NEW e, e = Round(c)
  PROVE  Sound(e)
<1> DEFINE b == c.buf[c.w]
           fresh == Begun(b)
           start == From(b)
           taken == Taken(b, c.remain)
           full == Fills(b, c.remain)
           new == [state |-> Filled(b, full), offset |-> start + taken,
                   seq |-> IF fresh THEN c.seq ELSE b.seq]
           next == c.buf[After(c.w)].state
<1>0. /\ c.buf \in [Bufs -> BufferRecord] /\ c.w \in Bufs /\ c.seq \in Nat /\ seq <= c.seq
      /\ c.remain \in 1 .. Size - 1 /\ c.lost \in BOOLEAN /\ c.asserted = FALSE
      /\ b \in BufferRecord /\ Size \in Nat
  BY SizesAssumption DEF Sound
<1>1. /\ e.buf = [c.buf EXCEPT ![c.w] = new]
      /\ e.w = IF full THEN After(c.w) ELSE c.w
      /\ e.seq = IF fresh THEN c.seq + 1 ELSE c.seq
      /\ e.remain = IF full /\ next # "FREE" THEN 0 ELSE c.remain - taken
      /\ e.lost = (c.lost \/ (full /\ next # "FREE" /\ c.remain > taken))
      /\ e.asserted = (c.asserted \/ (full /\ next = "WRITTING"))
  BY DEF Round
<1>a. fresh <=> b.state = "FREE" \/ b.offset = 0
  BY DEF Begun
<1>b. start = IF fresh THEN 1 ELSE b.offset
  BY DEF From
<1>c. taken = IF start + c.remain > Size THEN Size - start ELSE c.remain
  BY DEF Taken
<1>d. full <=> start + taken = Size
  BY DEF Fills
<1>2. \A i \in Bufs : /\ c.buf[i].state = "WRITTING" => i = c.w /\ c.buf[i].offset \in 1 .. Size - 1
                      /\ c.buf[i].state = "WRITTEN" => c.buf[i].offset = Size
                      /\ c.buf[i].state # "FREE" => c.buf[i].seq < c.seq
                      /\ buf[i].state = "WRITTEN" => c.buf[i].state = "WRITTEN"
  BY DEF Sound
<1>3. /\ After(c.w) \in Bufs /\ After(c.w) # c.w
  BY <1>0, AfterIs, SizesAssumption DEF Bufs
<1>4. b.state \in {"FREE", "WRITTING", "WRITTEN"} /\ (fresh <=> b.state = "FREE")
  BY <1>0, <1>2, <1>a, SizesAssumption DEF BufferRecord
<1>5. start \in 1 .. Size /\ (b.state = "WRITTEN" => start = Size) /\ (b.state # "WRITTEN" => start < Size)
  BY <1>0, <1>2, <1>4, <1>b, SizesAssumption
<1> HIDE DEF fresh, b, start, taken, full
<1>6. taken \in 0 .. c.remain /\ start + taken \in 1 .. Size /\ (b.state = "WRITTEN" => full /\ taken = 0)
  <2>1. taken \in 0 .. c.remain /\ start + taken \in 1 .. Size
    BY <1>0, <1>5, <1>c
  <2>2. start = Size => full /\ taken = 0
    BY <1>0, <1>c, <1>d
  <2> QED
    BY <1>5, <2>1, <2>2
<1>7. /\ new.state = (IF full THEN "WRITTEN" ELSE "WRITTING")
      /\ new.offset = start + taken
      /\ new.seq = IF fresh THEN c.seq ELSE b.seq
  BY <1>4, <1>6 DEF Filled
<1>8. new \in BufferRecord
  <2>1. b.seq \in Nat
    BY <1>0 DEF BufferRecord
  <2>2. new.offset \in 0 .. Size
    BY <1>0, <1>6, <1>7
  <2>3. new.seq \in Nat /\ new.state \in {"FREE", "WRITTING", "WRITTEN"}
    BY <1>0, <1>7, <2>1
  <2> QED
    BY <2>2, <2>3 DEF BufferRecord
<1> HIDE DEF new
<1>9. next # "WRITTING"
  BY <1>2, <1>3
<1>10. /\ e.buf \in [Bufs -> BufferRecord] /\ e.w \in Bufs /\ e.seq \in Nat /\ seq <= e.seq
       /\ e.remain \in 0 .. Size - 1
  BY <1>0, <1>1, <1>3, <1>6, <1>8
<1>11. e.lost \in BOOLEAN /\ e.asserted = FALSE
  BY <1>0, <1>1, <1>9
<1>12. e.buf[c.w] = new /\ \A i \in Bufs : i # c.w => e.buf[i] = c.buf[i]
  BY <1>0, <1>1
<1>13. ASSUME NEW i \in Bufs
       PROVE  /\ e.buf[i].state = "WRITTING" => i = e.w /\ e.buf[i].offset \in 1 .. Size - 1
              /\ e.buf[i].state = "WRITTEN" => e.buf[i].offset = Size
              /\ e.buf[i].state # "FREE" => e.buf[i].seq < e.seq
              /\ buf[i].state = "WRITTEN" => e.buf[i].state = "WRITTEN"
  <2>1. CASE i = c.w
    <3>1. full <=> new.offset = Size
      BY <1>7, <1>d
    <3>2. new.seq < e.seq
      <4>1. CASE fresh
        BY <1>0, <1>1, <1>7, <4>1
      <4>2. CASE ~fresh
        <5>1. b.seq < c.seq
          BY <1>0, <1>2, <1>4, <4>2 DEF b
        <5> QED
          BY <1>1, <1>7, <4>2, <5>1
      <4> QED
        BY <4>1, <4>2
    <3>3. buf[i].state = "WRITTEN" => new.state = "WRITTEN"
      BY <1>2, <1>6, <1>7, <2>1 DEF b
    <3>4. new.state = "WRITTING" => i = e.w /\ new.offset \in 1 .. Size - 1
      <4>1. new.state = "WRITTING" => ~full
        BY <1>7
      <4>2. ~full => i = e.w /\ new.offset # Size /\ new.offset \in 1 .. Size
        BY <1>1, <1>6, <1>7, <2>1, <3>1
      <4> QED
        BY <1>0, <4>1, <4>2
    <3>5. new.state = "WRITTEN" => new.offset = Size
      BY <1>7, <3>1
    <3> QED
      BY <1>12, <2>1, <3>2, <3>3, <3>4, <3>5
  <2>2. CASE i # c.w
    <3>1. e.buf[i] = c.buf[i] /\ c.buf[i].state # "WRITTING"
      BY <1>2, <1>12, <2>2
    <3>2. c.buf[i].seq \in Nat
      BY <1>0 DEF BufferRecord
    <3>3. c.buf[i].seq < c.seq => c.buf[i].seq < e.seq
      BY <1>0, <1>1, <3>2
    <3> QED
      BY <1>2, <3>1, <3>3
  <2> QED
    BY <2>1, <2>2
<1>14. ASSUME ~e.lost
       PROVE  /\ ~lost /\ Ordered(e.buf) /\ FillsNext(e.buf, e.w)
              /\ \A i \in Busy(e.buf) : \/ i \in Busy(buf) /\ e.buf[i].seq = buf[i].seq
                                        \/ seq <= e.buf[i].seq
  <2>1. /\ ~lost /\ Ordered(c.buf) /\ FillsNext(c.buf, c.w)
        /\ \A i \in Busy(c.buf) : \/ i \in Busy(buf) /\ c.buf[i].seq = buf[i].seq
                                  \/ seq <= c.buf[i].seq
        /\ ~(full /\ next # "FREE" /\ c.remain > taken)
    BY <1>1, <1>14 DEF Sound
  <2>2. b.state # "WRITTEN"
    <3> SUFFICES ASSUME b.state = "WRITTEN" PROVE FALSE
      OBVIOUS
    <3>1. Busy(c.buf) = Bufs
      BY <2>1 DEF FillsNext, b
    <3>2. next # "FREE"
      BY <1>3, <3>1 DEF Busy
    <3>3. full /\ taken = 0
      BY <1>6
    <3> QED
      BY <1>0, <2>1, <3>2, <3>3
  <2>3. IF c.buf[c.w].state = "FREE" THEN \A i \in Busy(c.buf) : c.buf[i].seq < new.seq
                                     ELSE new.seq = c.buf[c.w].seq
    BY <1>2, <1>4, <1>7 DEF b, Busy
  <2>4. /\ Ordered(e.buf)
        /\ new.state = "WRITTING" => FillsNext(e.buf, c.w)
        /\ new.state = "WRITTEN" => FillsNext(e.buf, After(c.w))
    <3>1. \A i \in Bufs : c.buf[i].state = "WRITTING" => i = c.w
      BY <1>2
    <3>2. c.buf[c.w].state # "WRITTEN" /\ new.state # "FREE"
      BY <1>7, <2>2 DEF b
    <3> QED
      BY <1>0, <1>1, <1>8, <2>1, <2>3, <3>1, <3>2, RingFills
  <2>5. FillsNext(e.buf, e.w)
    BY <1>1, <1>7, <2>4
  <2>6. ASSUME NEW i \in Busy(e.buf)
        PROVE  \/ i \in Busy(buf) /\ e.buf[i].seq = buf[i].seq
               \/ seq <= e.buf[i].seq
    <3>1. i \in Bufs
      BY DEF Busy
    <3>2. CASE i # c.w \/ ~fresh
      <4>1. i \in Busy(c.buf) /\ e.buf[i].seq = c.buf[i].seq
        BY <1>4, <1>7, <1>12, <3>1, <3>2 DEF Busy, b
      <4> QED
        BY <2>1, <4>1
    <3>3. CASE i = c.w /\ fresh
      BY <1>0, <1>7, <1>12, <3>3
    <3> QED
      BY <3>2, <3>3
  <2> QED
    BY <2>1, <2>4, <2>5, <2>6
<1> QED
  BY <1>10, <1>11, <1>13, <1>14 DEF Sound

LEMMA NewerOnes ==
  ASSUME TypeOK, QueueInv, NEW k \in Nat, Newer(k), NEW n \in Nat, k <= n
  PROVE  Newer(n)
<1>1. \A s \in Written : flash[s] \in Nat
  BY WrittenIs
<1>2. op.type = "write" => op.image \in Nat
  BY DEF QueueInv
<1> QED
  BY <1>1, <1>2 DEF Newer

LEMMA OutputStep ==
  ASSUME LogInv, NEW n \in 1 .. Size - 1, Output(n)
  PROVE  LogInv'
<1>0. /\ TypeOK /\ FillInv /\ QueueInv /\ StateAsserted /\ ErasedAhead /\ Newer(seq)
      /\ ~lost => BufferRing /\ FlashRing /\ ZeroFirst /\ ZeroStarts
      /\ mode \in {"run", "crash"} /\ seq \in Nat /\ lost \in BOOLEAN
      /\ buf \in [Bufs -> BufferRecord] /\ w \in Bufs /\ f \in Bufs
  BY DEF LogInv, TypeOK, Output, BufferRecord
<1>1. UNCHANGED <<f, offs, fstate, unfree, mode, flash, op, losses>>
  BY DEF Output, flusher, device
<1>2. PICK c : c = [buf |-> buf, w |-> w, seq |-> seq, remain |-> n,
                    lost |-> lost, asserted |-> asserted]
  OBVIOUS
<1>3. Sound(c) /\ c.remain > 0
  <2>1. /\ c.buf = buf /\ c.w = w /\ c.seq = seq /\ c.remain = n
        /\ c.lost = lost /\ c.asserted = asserted
    BY <1>2
  <2>2. /\ c.remain \in 0 .. Size - 1 /\ c.remain > 0 /\ seq <= c.seq
    BY <1>0, <2>1, SizesAssumption
  <2>3. c.asserted = FALSE
    BY <1>0, <2>1 DEF StateAsserted, TypeOK
  <2>4. ASSUME ~c.lost PROVE ~lost /\ Ordered(c.buf) /\ FillsNext(c.buf, c.w)
    BY <1>0, <2>1, <2>4 DEF BufferRing
  <2> QED
    BY <1>0, <2>1, <2>2, <2>3, <2>4 DEF Sound, FillInv
<1>4. PICK e : /\ Sound(e)
               /\ buf' = e.buf /\ w' = e.w /\ seq' = e.seq /\ lost' = e.lost /\ asserted' = e.asserted
  <2>1. PICK one : one = Round(c) /\ Sound(one)
    BY <1>0, <1>3, RoundKeeps
  <2>2. PICK e : e = IF one.remain > 0 THEN Round(one) ELSE one
    OBVIOUS
  <2>3. Sound(e)
    BY <1>0, <2>1, <2>2, RoundKeeps
  <2>4. buf' = e.buf /\ w' = e.w /\ seq' = e.seq /\ lost' = e.lost /\ asserted' = e.asserted
    BY <1>2, <2>1, <2>2 DEF Output
  <2> QED
    BY <2>3, <2>4
<1>5. TypeOK'
  <2>1. /\ buf' \in [Bufs -> BufferRecord] /\ w' \in Bufs /\ seq' \in Nat
        /\ lost' \in BOOLEAN /\ asserted' \in BOOLEAN
    BY <1>4 DEF Sound
  <2> QED
    BY <1>0, <1>1, <2>1 DEF TypeOK, BufferRecord
<1>6. FillInv' /\ StateAsserted'
  BY <1>4 DEF Sound, FillInv, StateAsserted
<1>7. QueueInv'
  <2>1. fstate = "WRITTING" => buf'[f].state = "WRITTEN"
    BY <1>0, <1>4 DEF Sound, QueueInv
  <2> QED
    BY <1>0, <1>1, <2>1 DEF QueueInv, Sector, Aligned
<1>8. ErasedAhead'
  BY <1>0, <1>1 DEF ErasedAhead, Sector, Program
<1>9. Written' = Written
  BY <1>1 DEF Written
<1>10. \A k \in Nat : Newer(k) <=> Newer(k)'
  BY <1>1, <1>9 DEF Newer
<1>11. seq' \in Nat /\ seq <= seq'
  BY <1>4 DEF Sound
<1>12. Newer(seq)'
  <2>1. Newer(seq')
    BY <1>0, <1>11, NewerOnes
  <2> QED
    BY <1>1, <1>9, <2>1 DEF Newer
<1>13. ASSUME ~lost' PROVE BufferRing' /\ FlashRing' /\ ZeroFirst' /\ ZeroStarts'
  <2>1. /\ ~lost /\ Ordered(e.buf) /\ FillsNext(e.buf, e.w)
        /\ \A i \in Busy(e.buf) : \/ i \in Busy(buf) /\ e.buf[i].seq = buf[i].seq
                                  \/ seq <= e.buf[i].seq
    BY <1>4, <1>13 DEF Sound
  <2>2. \A i \in Bufs : Ahead(i)' = Ahead(i)
    BY <1>1 DEF Ahead
  <2>3. Ordered(buf)' /\ FillsNext(buf, w)'
    <3>1. Busy(buf)' = Busy(e.buf) /\ Busy(e.buf) \subseteq Bufs
      BY <1>4 DEF Busy
    <3>2. Ordered(buf)'
      BY <1>4, <2>1, <2>2, <3>1 DEF Ordered
    <3>3. FillsNext(buf, w)'
      BY <1>1, <1>4, <2>1, <2>2, <3>1 DEF FillsNext, Sound
    <3> QED
      BY <3>2, <3>3
  <2>4. ASSUME NEW i \in Bufs, e.buf[i].state # "FREE" PROVE Newer(e.buf[i].seq)
    <3>1. i \in Busy(e.buf) /\ e.buf[i].seq \in Nat
      BY <1>4, <2>4 DEF Busy, Sound, BufferRecord
    <3>2. CASE i \in Busy(buf) /\ e.buf[i].seq = buf[i].seq
      BY <1>0, <2>1, <3>2 DEF BufferRing
    <3>3. CASE seq <= e.buf[i].seq
      BY <1>0, <3>1, <3>3, NewerOnes
    <3> QED
      BY <2>1, <3>1, <3>2, <3>3
  <2>5. ASSUME NEW i \in Busy(buf)' PROVE Newer(buf[i].seq)'
    <3>1. i \in Bufs /\ e.buf[i].state # "FREE" /\ buf'[i] = e.buf[i]
      BY <1>4 DEF Busy
    <3>2. Newer(e.buf[i].seq)
      BY <2>4, <3>1
    <3> QED
      BY <1>1, <1>9, <3>1, <3>2 DEF Newer
  <2>6. BufferRing'
    BY <2>3, <2>5 DEF BufferRing
  <2>7. FlashRing' /\ ZeroFirst'
    <3>1. NextDue' = NextDue
      BY <1>1 DEF NextDue, Aligned, Sector
    <3>2. \A s : Rank(s)' = Rank(s)
      BY <3>1 DEF Rank
    <3>3. op.type = "write" => Rank(op.sector)' = Rank(op.sector)
      BY <1>1, <3>1 DEF Rank
    <3> QED
      BY <1>0, <1>1, <1>9, <2>1, <3>2, <3>3 DEF FlashRing, ZeroFirst
  <2>8. ZeroStarts'
    <3> SUFFICES ASSUME seq' = 0 \/ \E i \in Busy(buf)' : buf'[i].seq = 0 PROVE offs = 0
      BY <1>1 DEF ZeroStarts
    <3>1. CASE seq' = 0
      BY <1>0, <1>11, <2>1, <3>1 DEF ZeroStarts
    <3>2. CASE \E i \in Busy(buf)' : buf'[i].seq = 0
      <4>1. PICK i \in Busy(buf)' : buf'[i].seq = 0
        BY <3>2
      <4>2. i \in Busy(e.buf) /\ e.buf[i].seq = 0
        BY <1>4, <4>1 DEF Busy
      <4>3. (i \in Busy(buf) /\ buf[i].seq = 0) \/ seq = 0
        BY <1>0, <2>1, <4>2
      <4> QED
        BY <1>0, <2>1, <4>3 DEF ZeroStarts
    <3> QED
      BY <3>1, <3>2
  <2> QED
    BY <2>6, <2>7, <2>8
<1> QED
  BY <1>5, <1>6, <1>7, <1>8, <1>12, <1>13 DEF LogInv

-----------------------------------------------------------------------------
(* The invariant, and what it is for *)

LEMMA InitLog == Init => LogInv
<1> SUFFICES ASSUME Init PROVE LogInv
  OBVIOUS
<1>1. /\ Written = {} /\ Busy(buf) = {} /\ op = NoOp /\ offs = 0 /\ mode = "off"
      /\ seq = 0 /\ fstate = "IDLE" /\ ~asserted
  BY DEF Init, Written, Busy, Free
<1>2. TypeOK
  <2>1. 0 \in Bufs /\ 0 \in Sectors /\ 0 \in 0 .. SectorCount * Size - 1 /\ 0 \in 0 .. Size
    <3>1. SectorCount * Size \in Nat /\ SectorCount * Size > 0
      BY SizesAssumption
    <3> QED
      BY <3>1, SizesAssumption DEF Bufs, Sectors
  <2> QED
    BY <2>1 DEF Init, TypeOK, Free, NoOp
<1>3. FillInv
  BY DEF Init, FillInv, Free
<1>4. Aligned
  <2>1. 0 % Size = 0
    BY SizesAssumption
  <2> QED
    BY <1>1, <2>1 DEF Aligned
<1>5. QueueInv
  BY <1>1, <1>4 DEF QueueInv, NoOp
<1>6. ErasedAhead /\ Newer(seq) /\ BufferRing /\ FlashRing /\ ZeroFirst /\ ZeroStarts
  BY <1>1 DEF ErasedAhead, Newer, BufferRing, FlashRing, ZeroFirst, ZeroStarts, NoOp
<1> QED
  BY <1>1, <1>2, <1>3, <1>5, <1>6 DEF LogInv, StateAsserted

LEMMA NextLog == LogInv /\ [Next]_vars => LogInv'
<1> SUFFICES ASSUME LogInv, [Next]_vars PROVE LogInv'
  OBVIOUS
<1>1. CASE LogInit
  BY <1>1, LogInitStep
<1>2. ASSUME NEW n \in 1 .. Size - 1, Output(n) PROVE LogInv'
  BY <1>2, OutputStep
<1>3. CASE SleepErase
  BY <1>3, SleepEraseStep
<1>4. CASE SleepWrite
  BY <1>4, SleepWriteStep
<1>5. CASE SleepWritten
  BY <1>5, SleepWrittenStep
<1>6. CASE NorflashFlush
  BY <1>6, NorflashFlushStep
<1>7. CASE CrashStart \/ CrashEnd \/ RemainNothing \/ Reboot
  BY <1>7, ModeStep
<1>8. CASE RemainErase
  BY <1>8, RemainEraseStep
<1>9. CASE RemainWrite
  BY <1>9, RemainWriteStep
<1>10. CASE RemainDone
  BY <1>10, RemainDoneStep
<1>11. CASE PowerLoss
  BY <1>11, PowerLossStep
<1>12. CASE UNCHANGED vars
  BY <1>12 DEF vars, buffers, flusher, device, ghosts, LogInv, TypeOK, FillInv, QueueInv,
     StateAsserted, ErasedAhead, Newer, BufferRing, FlashRing, ZeroFirst, ZeroStarts, Written,
     Busy, Ordered, FillsNext, Ahead, Rank, NextDue, Aligned, Sector, Program
<1> QED
  BY <1>1, <1>2, <1>3, <1>4, <1>5, <1>6, <1>7, <1>8, <1>9, <1>10, <1>11, <1>12 DEF Next

\* The inductive invariant of the log: what the two cursors over the buffers,
\* the queue of norflash_api and the sectors on flash keep to, across crashes
\* in the middle of a flush, power losses and restarts.
THEOREM LogInvariant == Spec => []LogInv
<1> QED
  BY InitLog, NextLog, PTL DEF Spec

\* The state of the log keeps its type: the cursors stay within their rings and
\* the offset within the section.
THEOREM LogType == Spec => []TypeOK
<1>1. LogInv => TypeOK
  BY DEF LogInv
<1> QED
  BY <1>1, LogInvariant, PTL

\* The assertion of log_dump_output_handler holds: the buffer it goes on to is
\* never part-filled, also when the flusher frees buffers behind it.
THEOREM NeverAsserts == Spec => []StateAsserted
<1>1. LogInv => StateAsserted
  BY DEF LogInv
<1> QED
  BY <1>1, LogInvariant, PTL

\* No sector is written that is not erased, whatever stopped the flush before.
THEOREM WritesFindErased == Spec => []ErasedAhead
<1>1. LogInv => ErasedAhead
  BY DEF LogInv
<1> QED
  BY <1>1, LogInvariant, PTL

\* As long as no output was dropped, the buffers are flushed in the order they
\* were filled, after all that is in flash.
THEOREM FlushesInOrder == Spec => []InOrder
<1>1. LogInv => InOrder
  <2> SUFFICES ASSUME LogInv, mode # "off", ~lost, NEW i \in Bufs, buf[i].state # "FREE"
               PROVE  /\ buf[f].state # "FREE" /\ buf[f].seq <= buf[i].seq
                      /\ \A s \in Written : flash[s] < buf[i].seq
                      /\ op.type = "write" => op.image < buf[i].seq
    BY DEF InOrder
  <2>1. TypeOK /\ f \in Bufs /\ Ordered(buf) /\ Newer(buf[i].seq) /\ i \in Busy(buf)
    BY DEF LogInv, BufferRing, TypeOK, Busy
  <2>2. buf[f].state # "FREE"
    <3> SUFFICES ASSUME buf[f].state = "FREE" PROVE FALSE
      OBVIOUS
    <3>1. Ahead(i) < Ahead(f)
      <4>1. f \in Bufs \ Busy(buf)
        BY <2>1 DEF Busy
      <4> QED
        BY <2>1, <4>1 DEF Ordered
    <3>2. Ahead(f) = 0 /\ Ahead(i) \in Nat
      BY <2>1, AheadIs
    <3> QED
      BY <3>1, <3>2
  <2>3. buf[f].seq <= buf[i].seq
    <3>1. buf[f].seq \in Nat /\ buf[i].seq \in Nat
      BY <2>1 DEF TypeOK
    <3>2. i # f => buf[f].seq < buf[i].seq
      BY <2>1, <2>2, OthersAreNewer
    <3> QED
      BY <3>1, <3>2
  <2> QED
    BY <2>1, <2>2, <2>3 DEF Newer
<1> QED
  BY <1>1, LogInvariant, PTL

\* As long as no output was dropped, the sector that is erased next holds the
\* oldest part of the log.
THEOREM ErasesOldest == Spec => []OldestGoes
<1>1. LogInv => OldestGoes
  <2> SUFFICES ASSUME LogInv, mode = "run", ~lost, Sector \in Written, NEW s \in Written
               PROVE  flash[Sector] <= flash[s]
    BY DEF OldestGoes
  <2>1. TypeOK /\ FlashRing /\ Aligned
    BY DEF LogInv, QueueInv
  <2>2. PICK due \in Sectors : due = Sector /\ due = NextDue
    <3>1. Sector = NextDue
      BY <2>1 DEF NextDue
    <3> QED
      BY <3>1 DEF Written
  <2>3. Rank(due) = 0
    BY <2>1, <2>2, RankIs
  <2>4. s \in Sectors /\ flash[s] \in Nat /\ flash[due] \in Nat
    BY <2>1, <2>2, WrittenIs
  <2>5. Rank(s) \in Nat /\ (s # due => Rank(s) # 0)
    BY <2>1, <2>2, <2>4, RankIs
  <2>6. s # due => flash[due] < flash[s]
    BY <2>1, <2>2, <2>3, <2>5 DEF FlashRing
  <2> QED
    BY <2>2, <2>4, <2>6
<1> QED
  BY <1>1, LogInvariant, PTL

=============================================================================
