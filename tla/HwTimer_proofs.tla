---------------------------- MODULE HwTimer_proofs ----------------------------
(***************************************************************************)
(* Theorems about HwTimer for any set of timers, any times they are        *)
(* started for, and interrupts of any lateness.                            *)
(***************************************************************************)
EXTENDS HwTimer, SequenceTheorems, FiniteSetTheorems, WellFoundedInduction, TLAPS

-----------------------------------------------------------------------------
(* Sums of differences                                                       *)

LEMMA LeastOf ==
  ASSUME NEW S, S \subseteq Nat, S # {}
  PROVE  \E x \in S : \A y \in S : x <= y
<1> DEFINE R == OpToRel(<, Nat)
<1>1. PICK x \in S : \A y \in S : ~(<<y, x>> \in R)
  <2> HIDE DEF R
  <2>1. IsWellFoundedOn(R, Nat)
    BY NatLessThanWellFounded DEF R
  <2> QED
    BY <2>1, WFMin
<1>2. ASSUME NEW y \in S PROVE x <= y
  <2>1. y < x => <<y, x>> \in R
    BY DEF OpToRel
  <2>2. ~(y < x)
    BY <1>1, <2>1
  <2> QED
    BY <2>2
<1> QED
  BY <1>2

\* The sums as far as n, which determine each other.
UpTo(f, s, n, g) == g = [k \in 0 .. n |-> IF k < 2 THEN 0 ELSE g[k - 1] + f[s[k]]]

LEMMA UpToExists ==
  ASSUME NEW f, NEW s, NEW n \in Nat
  PROVE  \E g : UpTo(f, s, n, g)
<1> DEFINE Missing == {m \in Nat : ~ \E g : UpTo(f, s, m, g)}
<1> SUFFICES ASSUME Missing # {} PROVE FALSE
  OBVIOUS
<1>1. PICK m \in Missing : \A y \in Missing : m <= y
  BY LeastOf
<1>2. CASE m = 0
  <2>1. UpTo(f, s, 0, [k \in 0 .. 0 |-> 0])
    BY DEF UpTo
  <2> QED
    BY <1>2, <2>1
<1>3. CASE m # 0
  <2>1. m - 1 \in Nat /\ m - 1 \notin Missing
    BY <1>1, <1>3
  <2>2. PICK g : UpTo(f, s, m - 1, g)
    BY <2>1
  <2> DEFINE h == [k \in 0 .. m |-> IF k < m THEN g[k] ELSE IF k < 2 THEN 0 ELSE g[k - 1] + f[s[k]]]
  <2>3. \A k \in 0 .. m - 1 : g[k] = IF k < 2 THEN 0 ELSE g[k - 1] + f[s[k]]
    BY <2>2 DEF UpTo
  <2>4. ASSUME NEW k \in 0 .. m
        PROVE  h[k] = IF k < 2 THEN 0 ELSE h[k - 1] + f[s[k]]
    <3>1. CASE k < m
      BY <2>1, <2>3, <3>1
    <3>2. CASE k = m
      BY <2>1, <3>2
    <3> QED
      BY <3>1, <3>2
  <2>5. UpTo(f, s, m, h)
    <3>1. h = [k \in 0 .. m |-> h[k]]
      OBVIOUS
    <3> HIDE DEF h
    <3> QED
      BY <2>4, <3>1 DEF UpTo
  <2> QED
    BY <2>5
<1> QED
  BY <1>2, <1>3

LEMMA UpToUnique ==
  ASSUME NEW f, NEW s, NEW n \in Nat, NEW m \in Nat, NEW g, NEW h,
         UpTo(f, s, n, g), UpTo(f, s, m, h), NEW k \in Nat, k <= n, k <= m
  PROVE  g[k] = h[k]
<1> DEFINE Differ == {j \in Nat : j <= n /\ j <= m /\ g[j] # h[j]}
<1> SUFFICES ASSUME Differ # {} PROVE FALSE
  OBVIOUS
<1>1. PICK j \in Differ : \A y \in Differ : j <= y
  BY LeastOf
<1>2. /\ g[j] = IF j < 2 THEN 0 ELSE g[j - 1] + f[s[j]]
      /\ h[j] = IF j < 2 THEN 0 ELSE h[j - 1] + f[s[j]]
  BY DEF UpTo
<1>3. j >= 2 => g[j - 1] = h[j - 1]
  BY <1>1
<1> QED
  BY <1>2, <1>3

LEMMA SumsIs ==
  ASSUME NEW f, NEW s
  PROVE  \A k \in Nat : Sums(f, s)[k] = IF k < 2 THEN 0 ELSE Sums(f, s)[k - 1] + f[s[k]]
<1> DEFINE G(n) == CHOOSE g : UpTo(f, s, n, g)
           sum == [k \in Nat |-> G(k)[k]]
<1>1. \A n \in Nat : UpTo(f, s, n, G(n))
  BY UpToExists
<1>2. ASSUME NEW k \in Nat PROVE sum[k] = IF k < 2 THEN 0 ELSE sum[k - 1] + f[s[k]]
  <2>1. G(k)[k] = IF k < 2 THEN 0 ELSE G(k)[k - 1] + f[s[k]]
    <3> HIDE DEF G
    <3> QED
      BY <1>1 DEF UpTo
  <2>2. k >= 2 => G(k)[k - 1] = G(k - 1)[k - 1]
    <3> HIDE DEF G
    <3> SUFFICES ASSUME k >= 2 PROVE G(k)[k - 1] = G(k - 1)[k - 1]
      OBVIOUS
    <3>1. k - 1 \in Nat /\ k - 1 <= k
      OBVIOUS
    <3> QED
      BY <1>1, <3>1, UpToUnique
  <2> QED
    BY <2>1, <2>2
<1>3. sum = [k \in Nat |-> IF k < 2 THEN 0 ELSE sum[k - 1] + f[s[k]]]
  <2>1. sum = [k \in Nat |-> sum[k]]
    OBVIOUS
  <2> HIDE DEF sum
  <2> QED
    BY <1>2, <2>1
<1>4. Sums(f, s) = [k \in Nat |-> IF k < 2 THEN 0 ELSE Sums(f, s)[k - 1] + f[s[k]]]
  <2> HIDE DEF sum
  <2> QED
    BY <1>3 DEF Sums
<1> QED
  BY <1>4

LEMMA SumsFirst ==
  ASSUME NEW f, NEW s
  PROVE  Sums(f, s)[1] = 0
<1>1. 1 \in Nat /\ 1 < 2
  OBVIOUS
<1> QED
  BY <1>1, SumsIs

LEMMA SumsType ==
  ASSUME NEW f \in [Timers -> Nat], NEW s \in Seq(Timers), NEW k \in 0 .. Len(s)
  PROVE  Sums(f, s)[k] \in Nat
<1> DEFINE B == Sums(f, s)
           Bad == {j \in Nat : j <= Len(s) /\ B[j] \notin Nat}
<1>0. \A j \in Nat : B[j] = IF j < 2 THEN 0 ELSE B[j - 1] + f[s[j]]
  BY SumsIs
<1> HIDE DEF B
<1> SUFFICES ASSUME Bad # {} PROVE FALSE
  BY DEF B
<1>1. PICK j \in Bad : \A y \in Bad : j <= y
  BY LeastOf
<1>2. j >= 2 => B[j - 1] \in Nat
  BY <1>1
<1>3. j >= 2 => f[s[j]] \in Nat
  <2> SUFFICES ASSUME j >= 2 PROVE f[s[j]] \in Nat
    OBVIOUS
  <2>1. j \in 1 .. Len(s)
    BY <1>1
  <2> QED
    BY <2>1
<1> QED
  BY <1>0, <1>1, <1>2, <1>3

LEMMA SumsGrow ==
  ASSUME NEW f \in [Timers -> Nat], NEW s \in Seq(Timers),
         NEW k \in 0 .. Len(s), NEW j \in 0 .. k
  PROVE  Sums(f, s)[j] <= Sums(f, s)[k]
<1> DEFINE B == Sums(f, s)
           Bad == {i \in Nat : i <= Len(s) /\ j <= i /\ ~(B[j] <= B[i])}
<1>0. /\ \A i \in Nat : B[i] = IF i < 2 THEN 0 ELSE B[i - 1] + f[s[i]]
      /\ \A i \in 0 .. Len(s) : B[i] \in Nat
  BY SumsIs, SumsType
<1> HIDE DEF B
<1> SUFFICES ASSUME Bad # {} PROVE FALSE
  BY DEF B
<1>1. PICK i \in Bad : \A y \in Bad : i <= y
  BY LeastOf
<1>2. i # j /\ i \in 1 .. Len(s)
  BY <1>0, <1>1
<1>3. i - 1 \in Nat /\ i - 1 \notin Bad /\ j <= i - 1
  BY <1>1, <1>2
<1>4. B[j] <= B[i - 1]
  BY <1>1, <1>3
<1>5. f[s[i]] \in Nat
  BY <1>2
<1>6. B[i] = IF i < 2 THEN 0 ELSE B[i - 1] + f[s[i]]
  BY <1>0, <1>2
<1>7. B[i] \in Nat /\ B[j] \in Nat /\ B[i - 1] \in Nat
  BY <1>0, <1>2
<1>8. CASE i < 2
  <2>1. B[i] = 0 /\ B[j] = 0
    BY <1>0, <1>1, <1>2, <1>8
  <2> QED
    BY <1>1, <2>1
<1> QED
  BY <1>1, <1>4, <1>5, <1>6, <1>7, <1>8

\* The n timers behind s[a] have the differences of those behind r[b].
Alike(f, s, a, g, r, b, n) ==
  /\ a + n <= Len(s) /\ b + n <= Len(r)
  /\ \A i \in 1 .. n : g[r[b + i]] = f[s[a + i]]

\* So they have the same sums, from there on.
SumAlike(f, s, a, g, r, b, n) ==
  \A i \in 0 .. n : Sums(g, r)[b + i] - Sums(g, r)[b] = Sums(f, s)[a + i] - Sums(f, s)[a]

LEMMA SumsAlike ==
  ASSUME NEW f \in [Timers -> Nat], NEW s \in Seq(Timers),
         NEW g \in [Timers -> Nat], NEW r \in Seq(Timers),
         NEW a \in 1 .. Len(s), NEW b \in 1 .. Len(r), NEW n \in Nat,
         Alike(f, s, a, g, r, b, n)
  PROVE  SumAlike(f, s, a, g, r, b, n)
<1> DEFINE F == Sums(f, s)
           G == Sums(g, r)
           Same(i) == G[b + i] - G[b] = F[a + i] - F[a]
           Bad == {i \in 0 .. n : ~Same(i)}
<1>0. /\ \A i \in Nat : F[i] = IF i < 2 THEN 0 ELSE F[i - 1] + f[s[i]]
      /\ \A i \in 0 .. Len(s) : F[i] \in Nat
      /\ \A i \in Nat : G[i] = IF i < 2 THEN 0 ELSE G[i - 1] + g[r[i]]
      /\ \A i \in 0 .. Len(r) : G[i] \in Nat
  BY ZenonT(30), SumsIs, SumsType
<1>1. PICK ls \in Nat, lr \in Nat : ls = Len(s) /\ lr = Len(r)
  OBVIOUS
<1>2. /\ a \in 1 .. ls /\ b \in 1 .. lr /\ a + n <= ls /\ b + n <= lr
      /\ \A i \in 1 .. n : g[r[b + i]] = f[s[a + i]]
  BY <1>1 DEF Alike
<1> HIDE DEF F, G, Bad
<1>3. Same(0)
  <2>1. b + 0 = b /\ a + 0 = a /\ F[a] \in Nat /\ G[b] \in Nat
    BY <1>0
  <2> QED
    BY <2>1
<1>4. ASSUME NEW i \in 1 .. n, Same(i - 1) PROVE Same(i)
  <2>1. PICK x \in 2 .. ls, y \in 2 .. lr : x = a + i /\ y = b + i
    BY <1>2
  <2>2. x - 1 = a + (i - 1) /\ y - 1 = b + (i - 1) /\ x \in Nat /\ y \in Nat
    BY <1>2, <2>1
  <2>3. F[x] = F[x - 1] + f[s[x]] /\ G[y] = G[y - 1] + g[r[y]]
    BY <1>0, <2>1
  <2>4. g[r[y]] = f[s[x]]
    BY <1>2, <2>1
  <2>5. s[x] \in Timers
    BY <1>1, <2>1, ElementOfSeq
  <2>6. f[s[x]] \in Nat
    BY <2>5
  <2>7. /\ F[x - 1] \in Nat /\ G[y - 1] \in Nat /\ F[a] \in Nat /\ G[b] \in Nat
        /\ F[x] \in Nat /\ G[y] \in Nat
    <3>1. x \in 0 .. Len(s) /\ y \in 0 .. Len(r) /\ a \in 0 .. Len(s) /\ b \in 0 .. Len(r)
      BY <1>1, <2>1
    <3>2. x - 1 \in 0 .. Len(s) /\ y - 1 \in 0 .. Len(r)
      <4>1. x - 1 \in 0 .. ls
        BY <2>1
      <4>2. y - 1 \in 0 .. lr
        BY <2>1
      <4> QED
        BY <1>1, <4>1, <4>2
    <3> QED
      BY <1>0, <3>1, <3>2
  <2>8. G[y - 1] - G[b] = F[x - 1] - F[a]
    BY <1>4, <2>2
  <2>9. G[y] - G[b] = F[x] - F[a]
    <3>1. PICK d \in Nat : d = f[s[x]]
      BY <2>6
    <3>2. F[x] = F[x - 1] + d /\ G[y] = G[y - 1] + d
      BY <2>3, <2>4, <3>1
    <3>3. PICK fa \in Nat, gb \in Nat, fp \in Nat, gp \in Nat :
            fa = F[a] /\ gb = G[b] /\ fp = F[x - 1] /\ gp = G[y - 1]
      BY <2>7
    <3>4. gp - gb = fp - fa
      BY <2>8, <3>3
    <3>5. (gp + d) - gb = (fp + d) - fa
      BY <3>4
    <3> QED
      BY <3>2, <3>3, <3>5
  <2> QED
    BY <2>1, <2>9
<1> HIDE DEF Same
<1>5. Bad = {}
  <2> SUFFICES ASSUME Bad # {} PROVE FALSE
    OBVIOUS
  <2>1. PICK i \in Bad : \A y \in Bad : i <= y
    <3>1. Bad \subseteq Nat
      BY DEF Bad
    <3> QED
      BY <3>1, LeastOf
  <2>2. i - 1 \in 0 .. n /\ i - 1 \notin Bad /\ i \in 1 .. n
    BY SMTT(30), <1>3, <2>1 DEF Bad
  <2> QED
    BY <1>4, <2>1, <2>2 DEF Bad
<1>6. \A i \in 0 .. n : Same(i)
  BY <1>5 DEF Bad
<1> QED
  BY <1>6 DEF SumAlike, Same, F, G

\* What is due within some time is a first part of the list.
LEMMA FirstPart ==
  ASSUME NEW n \in Nat \ {0}, NEW S, S \subseteq 2 .. n,
         \A j \in S : \A i \in 2 .. j : i \in S
  PROVE  /\ 1 + Cardinality(S) \in 1 .. n
         /\ S = 2 .. 1 + Cardinality(S)
<1> DEFINE Gaps == {j \in Nat : j > 1 /\ j \notin S}
<1>1. PICK m \in Gaps : \A y \in Gaps : m <= y
  <2>1. n + 1 \in Gaps
    OBVIOUS
  <2>2. Gaps # {} /\ Gaps \subseteq Nat
    BY <2>1
  <2> HIDE DEF Gaps
  <2> QED
    BY <2>2, LeastOf
<1>2. S = 2 .. m - 1
  <2>1. ASSUME NEW j \in S PROVE j \in 2 .. m - 1
    <3>1. j \in 2 .. n /\ m \notin S /\ m > 1
      BY <1>1
    <3>2. ~(m <= j)
      BY <1>1, <3>1
    <3> QED
      BY <1>1, <3>1, <3>2
  <2>2. ASSUME NEW j \in 2 .. m - 1 PROVE j \in S
    BY <1>1
  <2> QED
    BY <2>1, <2>2
<1>3. m - 1 \in 1 .. n
  <2>1. n + 1 \in Gaps
    OBVIOUS
  <2> QED
    BY <1>1, <2>1
<1>4. Cardinality(S) = m - 2
  <2>1. Cardinality(2 .. m - 1) = IF 2 > m - 1 THEN 0 ELSE (m - 1) - 2 + 1
    BY <1>3, FS_Interval
  <2> QED
    BY <1>2, <1>3, <2>1
<1>5. 1 + Cardinality(S) = m - 1
  BY <1>3, <1>4
<1> QED
  BY <1>2, <1>3, <1>5

-----------------------------------------------------------------------------
(* Lists of timers                                                           *)

LEMMA Inserted ==
  ASSUME NEW s \in Seq(Timers), NEW t \in Timers, NEW i \in 1 .. Len(s) + 1
  PROVE  /\ InsertAt(s, i, t) \in Seq(Timers) /\ Len(InsertAt(s, i, t)) = Len(s) + 1
         /\ \A j \in 1 .. Len(s) + 1 :
              InsertAt(s, i, t)[j] = IF j < i THEN s[j] ELSE IF j = i THEN t ELSE s[j - 1]
<1>1. PICK n \in Nat : n = Len(s)
  OBVIOUS
<1>2. PICK a, b : a = SubSeq(s, 1, i - 1) /\ b = SubSeq(s, i, Len(s))
  OBVIOUS
<1>3. /\ a \in Seq(Timers) /\ Len(a) = i - 1
      /\ \A j \in 1 .. i - 1 : a[j] = s[j]
  <2>1. \A j \in 1 .. i - 1 : s[j] \in Timers
    BY <1>1
  <2>2. /\ SubSeq(s, 1, i - 1) \in Seq(Timers)
        /\ Len(SubSeq(s, 1, i - 1)) = IF 1 <= i - 1 THEN i - 1 - 1 + 1 ELSE 0
        /\ \A j \in 1 .. i - 1 - 1 + 1 : SubSeq(s, 1, i - 1)[j] = s[1 + j - 1]
    BY <1>1, <2>1, SubSeqProperties
  <2> QED
    BY <1>1, <1>2, <2>2
<1>4. /\ b \in Seq(Timers) /\ Len(b) = n - i + 1
      /\ \A j \in 1 .. n - i + 1 : b[j] = s[i + j - 1]
  <2>1. \A j \in i .. n : s[j] \in Timers
    BY <1>1
  <2>2. /\ SubSeq(s, i, n) \in Seq(Timers)
        /\ Len(SubSeq(s, i, n)) = IF i <= n THEN n - i + 1 ELSE 0
        /\ \A j \in 1 .. n - i + 1 : SubSeq(s, i, n)[j] = s[i + j - 1]
    BY <1>1, <2>1, SubSeqProperties
  <2> QED
    BY <1>1, <1>2, <2>2
<1>5. PICK c : /\ c = a \o <<t>> /\ c \in Seq(Timers) /\ Len(c) = i
               /\ \A j \in 1 .. i : c[j] = IF j < i THEN s[j] ELSE t
  <2>1. <<t>> \in Seq(Timers) /\ Len(<<t>>) = 1 /\ <<t>>[1] = t
    OBVIOUS
  <2>2. /\ a \o <<t>> \in Seq(Timers) /\ Len(a \o <<t>>) = i - 1 + 1
        /\ \A j \in 1 .. i - 1 + 1 :
             (a \o <<t>>)[j] = IF j <= i - 1 THEN a[j] ELSE <<t>>[j - (i - 1)]
    <3>1. /\ a \o <<t>> \in Seq(Timers) /\ Len(a \o <<t>>) = Len(a) + Len(<<t>>)
          /\ \A j \in 1 .. Len(a) + Len(<<t>>) :
               (a \o <<t>>)[j] = IF j <= Len(a) THEN a[j] ELSE <<t>>[j - Len(a)]
      BY <1>3, <2>1, ConcatProperties
    <3> QED
      BY <1>3, <2>1, <3>1
  <2>3. ASSUME NEW j \in 1 .. i PROVE (a \o <<t>>)[j] = IF j < i THEN s[j] ELSE t
    <3>1. CASE j < i
      BY <1>1, <1>3, <2>2, <3>1
    <3>2. CASE j = i
      <4>1. j \in 1 .. i - 1 + 1 /\ ~(j <= i - 1) /\ j - (i - 1) = 1
        BY <1>1, <3>2
      <4> QED
        BY <2>1, <2>2, <3>2, <4>1
    <3>3. j < i \/ (j = i /\ ~(j < i))
      BY <1>1
    <3> QED
      BY <3>1, <3>2, <3>3
  <2>4. i - 1 + 1 = i
    BY <1>1
  <2> QED
    BY <2>2, <2>3, <2>4
<1>6. /\ c \o b \in Seq(Timers) /\ Len(c \o b) = i + (n - i + 1)
      /\ \A j \in 1 .. i + (n - i + 1) : (c \o b)[j] = IF j <= i THEN c[j] ELSE b[j - i]
  <2>1. /\ c \o b \in Seq(Timers) /\ Len(c \o b) = Len(c) + Len(b)
        /\ \A j \in 1 .. Len(c) + Len(b) : (c \o b)[j] = IF j <= Len(c) THEN c[j] ELSE b[j - Len(c)]
    <3>1. c \in Seq(Timers) /\ b \in Seq(Timers)
      BY <1>4, <1>5
    <3> QED
      BY <3>1, ConcatProperties
  <2> QED
    BY <1>4, <1>5, <2>1
<1>7. InsertAt(s, i, t) = c \o b
  BY <1>2, <1>5 DEF InsertAt
<1>8. i + (n - i + 1) = n + 1 /\ i \in 1 .. n + 1
  BY <1>1
<1>9. ASSUME NEW j \in 1 .. n + 1
      PROVE  (c \o b)[j] = IF j < i THEN s[j] ELSE IF j = i THEN t ELSE s[j - 1]
  <2>1. CASE j <= i
    <3>1. (c \o b)[j] = c[j]
      BY <1>6, <1>8, <2>1
    <3>2. c[j] = IF j < i THEN s[j] ELSE t
      BY <1>5, <1>8, <2>1
    <3>3. j < i \/ (j = i /\ ~(j < i))
      BY <1>8, <2>1
    <3> QED
      BY <3>1, <3>2, <3>3
  <2>2. CASE j > i
    <3>1. (c \o b)[j] = b[j - i] /\ j - i \in 1 .. n - i + 1
      BY <1>6, <1>8, <2>2
    <3>2. b[j - i] = s[i + (j - i) - 1]
      BY <1>4, <3>1
    <3>3. i + (j - i) - 1 = j - 1
      BY <1>8
    <3>4. ~(j < i) /\ j # i
      BY <1>8, <2>2
    <3> QED
      BY <3>1, <3>2, <3>3, <3>4
  <2>3. j <= i \/ j > i
    BY <1>8
  <2> QED
    BY <2>1, <2>2, <2>3
<1> QED
  BY <1>1, <1>6, <1>7, <1>8, <1>9

LEMMA Removed ==
  ASSUME NEW s \in Seq(Timers), NEW i \in 1 .. Len(s)
  PROVE  /\ RemoveAt(s, i) \in Seq(Timers) /\ Len(RemoveAt(s, i)) = Len(s) - 1
         /\ \A j \in 1 .. Len(s) - 1 : RemoveAt(s, i)[j] = IF j < i THEN s[j] ELSE s[j + 1]
<1>1. PICK n \in Nat : n = Len(s)
  OBVIOUS
<1>2. PICK a, b : a = SubSeq(s, 1, i - 1) /\ b = SubSeq(s, i + 1, Len(s))
  OBVIOUS
<1>3. /\ a \in Seq(Timers) /\ Len(a) = i - 1
      /\ \A j \in 1 .. i - 1 : a[j] = s[j]
  <2>1. \A j \in 1 .. i - 1 : s[j] \in Timers
    BY <1>1
  <2>2. /\ SubSeq(s, 1, i - 1) \in Seq(Timers)
        /\ Len(SubSeq(s, 1, i - 1)) = IF 1 <= i - 1 THEN i - 1 - 1 + 1 ELSE 0
        /\ \A j \in 1 .. i - 1 - 1 + 1 : SubSeq(s, 1, i - 1)[j] = s[1 + j - 1]
    BY <1>1, <2>1, SubSeqProperties
  <2> QED
    BY <1>1, <1>2, <2>2
<1>4. /\ b \in Seq(Timers) /\ Len(b) = n - i
      /\ \A j \in 1 .. n - i : b[j] = s[i + j]
  <2>1. \A j \in i + 1 .. n : s[j] \in Timers
    BY <1>1
  <2>2. /\ SubSeq(s, i + 1, n) \in Seq(Timers)
        /\ Len(SubSeq(s, i + 1, n)) = IF i + 1 <= n THEN n - (i + 1) + 1 ELSE 0
        /\ \A j \in 1 .. n - (i + 1) + 1 : SubSeq(s, i + 1, n)[j] = s[i + 1 + j - 1]
    BY <1>1, <2>1, SubSeqProperties
  <2> QED
    BY <1>1, <1>2, <2>2
<1>5. /\ a \o b \in Seq(Timers) /\ Len(a \o b) = i - 1 + (n - i)
      /\ \A j \in 1 .. i - 1 + (n - i) : (a \o b)[j] = IF j <= i - 1 THEN a[j] ELSE b[j - (i - 1)]
  <2>1. /\ a \o b \in Seq(Timers) /\ Len(a \o b) = Len(a) + Len(b)
        /\ \A j \in 1 .. Len(a) + Len(b) : (a \o b)[j] = IF j <= Len(a) THEN a[j] ELSE b[j - Len(a)]
    BY <1>3, <1>4, ConcatProperties
  <2> QED
    BY <1>3, <1>4, <2>1
<1>6. RemoveAt(s, i) = a \o b
  BY <1>2 DEF RemoveAt
<1>7. i - 1 + (n - i) = n - 1 /\ i \in 1 .. n
  BY <1>1
<1>8. ASSUME NEW j \in 1 .. n - 1
      PROVE  (a \o b)[j] = IF j < i THEN s[j] ELSE s[j + 1]
  <2>1. CASE j < i
    BY <1>3, <1>5, <1>7, <2>1
  <2>2. CASE j >= i
    <3>1. (a \o b)[j] = b[j - (i - 1)] /\ j - (i - 1) \in 1 .. n - i
      BY <1>5, <1>7, <2>2
    <3>2. b[j - (i - 1)] = s[i + (j - (i - 1))]
      BY <1>4, <3>1
    <3>3. i + (j - (i - 1)) = j + 1
      BY <1>7
    <3>4. ~(j < i)
      BY <1>7, <2>2
    <3> QED
      BY <3>1, <3>2, <3>3, <3>4
  <2>3. j < i \/ j >= i
    BY <1>7
  <2> QED
    BY <2>1, <2>2, <2>3
<1> QED
  BY <1>1, <1>5, <1>6, <1>7, <1>8

LEMMA CutAt ==
  ASSUME NEW s \in Seq(Timers), NEW n \in 1 .. Len(s)
  PROVE  /\ SubSeq(s, 1, n) \in Seq(Timers) /\ Len(SubSeq(s, 1, n)) = n
         /\ \A j \in 1 .. n : SubSeq(s, 1, n)[j] = s[j]
         /\ SubSeq(s, n + 1, Len(s)) \in Seq(Timers) /\ Len(SubSeq(s, n + 1, Len(s))) = Len(s) - n
         /\ \A j \in 1 .. Len(s) - n : SubSeq(s, n + 1, Len(s))[j] = s[n + j]
<1>1. PICK l \in Nat : l = Len(s)
  OBVIOUS
<1>2. \A j \in 1 .. l : s[j] \in Timers
  BY <1>1
<1>3. n \in 1 .. l
  BY <1>1
<1>4. /\ SubSeq(s, 1, n) \in Seq(Timers)
      /\ Len(SubSeq(s, 1, n)) = IF 1 <= n THEN n - 1 + 1 ELSE 0
      /\ \A j \in 1 .. n - 1 + 1 : SubSeq(s, 1, n)[j] = s[1 + j - 1]
  <2>1. \A j \in 1 .. n : s[j] \in Timers
    BY <1>2, <1>3
  <2> QED
    BY <1>3, <2>1, SubSeqProperties
<1>5. /\ SubSeq(s, n + 1, l) \in Seq(Timers)
      /\ Len(SubSeq(s, n + 1, l)) = IF n + 1 <= l THEN l - (n + 1) + 1 ELSE 0
      /\ \A j \in 1 .. l - (n + 1) + 1 : SubSeq(s, n + 1, l)[j] = s[n + 1 + j - 1]
  <2>1. \A j \in n + 1 .. l : s[j] \in Timers
    BY <1>2, <1>3
  <2> QED
    BY <1>3, <2>1, SubSeqProperties
<1>6. /\ Len(SubSeq(s, 1, n)) = n
      /\ \A j \in 1 .. n : SubSeq(s, 1, n)[j] = s[j]
  BY <1>3, <1>4
<1>7. /\ Len(SubSeq(s, n + 1, l)) = l - n
      /\ \A j \in 1 .. l - n : SubSeq(s, n + 1, l)[j] = s[n + j]
  BY <1>3, <1>5
<1> QED
  BY <1>1, <1>4, <1>5, <1>6, <1>7

\* The list s holds each timer of S, once.
Holds(s, S) ==
  /\ s \in Seq(Timers)
  /\ \A i, j \in 1 .. Len(s) : s[i] = s[j] => i = j
  /\ \A t \in Timers : t \in S <=> \E i \in 1 .. Len(s) : s[i] = t
  /\ S \subseteq Timers

ActiveTimers == {t \in Timers : st[t] = "ACTIVE"}
FiredTimers == {t \in Timers : st[t] = "FIRED"}

LEMMA ListsAre ==
  ASSUME NEW a \in Seq(Timers), NEW b \in Seq(Timers), NEW A, A \subseteq Timers,
         NEW B, B \subseteq Timers, A \cap B = {}
  PROVE  IsInjective(a \o b) /\ A = ToSet(a) /\ B = ToSet(b) <=> Holds(a, A) /\ Holds(b, B)
<1>1. PICK m \in Nat, n \in Nat : m = Len(a) /\ n = Len(b)
  OBVIOUS
<1>2. DOMAIN a = 1 .. m /\ DOMAIN b = 1 .. n
  BY <1>1
<1>3. /\ \A i \in 1 .. m : a[i] \in Timers
      /\ \A i \in 1 .. n : b[i] \in Timers
  BY <1>1
<1>4. PICK c : /\ c = a \o b /\ DOMAIN c = 1 .. m + n
               /\ \A i \in 1 .. m + n : c[i] = IF i <= m THEN a[i] ELSE b[i - m]
  <2>1. /\ a \o b \in Seq(Timers) /\ Len(a \o b) = Len(a) + Len(b)
        /\ \A i \in 1 .. Len(a) + Len(b) : (a \o b)[i] = IF i <= Len(a) THEN a[i] ELSE b[i - Len(a)]
    BY ConcatProperties
  <2> QED
    BY ZenonT(30), <1>1, <2>1, LenProperties
<1>5. (A = ToSet(a) <=> \A t \in Timers : t \in A <=> \E i \in 1 .. m : a[i] = t)
  BY <1>2, <1>3 DEF ToSet
<1>6. (B = ToSet(b) <=> \A t \in Timers : t \in B <=> \E i \in 1 .. n : b[i] = t)
  BY <1>2, <1>3 DEF ToSet
<1>7. ASSUME IsInjective(c)
      PROVE  /\ \A i, j \in 1 .. m : a[i] = a[j] => i = j
             /\ \A i, j \in 1 .. n : b[i] = b[j] => i = j
  <2>1. \A i, j \in 1 .. m + n : c[i] = c[j] => i = j
    BY <1>4, <1>7 DEF IsInjective
  <2>2. \A i \in 1 .. m : i \in 1 .. m + n /\ c[i] = a[i]
    BY <1>4
  <2>3. \A i \in 1 .. n : m + i \in 1 .. m + n /\ c[m + i] = b[i]
    <3> TAKE i \in 1 .. n
    <3>1. m + i \in 1 .. m + n /\ ~(m + i <= m) /\ (m + i) - m = i
      OBVIOUS
    <3> QED
      BY <1>4, <3>1
  <2>4. ASSUME NEW i \in 1 .. n, NEW j \in 1 .. n, b[i] = b[j] PROVE i = j
    <3>1. m + i = m + j
      BY <2>1, <2>3, <2>4
    <3> QED
      BY <3>1
  <2> QED
    BY <2>1, <2>2, <2>4
<1>8. ASSUME Holds(a, A), Holds(b, B) PROVE IsInjective(c)
  <2> SUFFICES ASSUME NEW i \in 1 .. m + n, NEW j \in 1 .. m + n, c[i] = c[j] PROVE i = j
    BY <1>4 DEF IsInjective
  <2>1. /\ \A x, y \in 1 .. m : a[x] = a[y] => x = y
        /\ \A x, y \in 1 .. n : b[x] = b[y] => x = y
        /\ \A x \in 1 .. m : a[x] \in A
        /\ \A x \in 1 .. n : b[x] \in B
    BY <1>1, <1>3, <1>8 DEF Holds
  <2>2. CASE i <= m /\ j <= m
    BY <1>4, <2>1, <2>2
  <2>3. CASE i > m /\ j > m
    <3>1. i - m \in 1 .. n /\ j - m \in 1 .. n /\ c[i] = b[i - m] /\ c[j] = b[j - m]
      BY <1>4, <2>3
    <3>2. i - m = j - m
      BY <2>1, <3>1
    <3> QED
      BY <3>2
  <2>4. CASE i <= m /\ j > m
    <3>1. c[i] = a[i] /\ i \in 1 .. m /\ c[j] = b[j - m] /\ j - m \in 1 .. n
      BY <1>4, <2>4
    <3> QED
      BY <2>1, <3>1
  <2>5. CASE i > m /\ j <= m
    <3>1. c[j] = a[j] /\ j \in 1 .. m
      BY <1>4, <2>5
    <3>2. i \in 1 .. m + n /\ ~(i <= m) /\ i - m \in 1 .. n
      BY <2>5
    <3>3. c[i] = b[i - m]
      BY <1>4, <3>2
    <3> QED
      BY <2>1, <3>1, <3>2, <3>3
  <2> QED
    BY <2>2, <2>3, <2>4, <2>5
<1>9. ASSUME IsInjective(c), A = ToSet(a), B = ToSet(b) PROVE Holds(a, A) /\ Holds(b, B)
  BY <1>1, <1>5, <1>6, <1>7, <1>9 DEF Holds
<1>10. ASSUME Holds(a, A), Holds(b, B) PROVE A = ToSet(a) /\ B = ToSet(b)
  BY <1>1, <1>5, <1>6, <1>10 DEF Holds
<1> QED
  BY <1>4, <1>8, <1>9, <1>10

LEMMA HoldsInserted ==
  ASSUME NEW s, NEW S, Holds(s, S), NEW t \in Timers \ S, NEW i \in 1 .. Len(s) + 1
  PROVE  Holds(InsertAt(s, i, t), S \cup {t})
<1>1. PICK n \in Nat : n = Len(s) /\ s \in Seq(Timers)
  BY DEF Holds
<1>2. PICK r : r = InsertAt(s, i, t)
  OBVIOUS
<1>3. /\ r \in Seq(Timers) /\ Len(r) = n + 1 /\ i \in 1 .. n + 1
      /\ \A j \in 1 .. n + 1 : r[j] = IF j < i THEN s[j] ELSE IF j = i THEN t ELSE s[j - 1]
  BY SMTT(30), <1>1, <1>2, Inserted
<1>4. /\ \A j, k \in 1 .. n : s[j] = s[k] => j = k
      /\ \A u \in Timers : u \in S <=> \E j \in 1 .. n : s[j] = u
      /\ S \subseteq Timers
      /\ \A j \in 1 .. n : s[j] \in Timers /\ s[j] # t
  BY <1>1 DEF Holds
<1>5. \A j \in 1 .. n + 1 : j # i =>
        \E p \in 1 .. n : r[j] = s[p] /\ p = IF j < i THEN j ELSE j - 1
  <2> SUFFICES ASSUME NEW j \in 1 .. n + 1, j # i
               PROVE  \E p \in 1 .. n : r[j] = s[p] /\ p = IF j < i THEN j ELSE j - 1
    OBVIOUS
  <2>1. CASE j < i
    BY <1>3, <2>1
  <2>2. CASE j > i
    <3>1. r[j] = s[j - 1] /\ j - 1 \in 1 .. n /\ ~(j < i)
      BY <1>3, <2>2
    <3> QED
      BY <3>1
  <2> QED
    BY <1>3, <2>1, <2>2
<1>6. ASSUME NEW j \in 1 .. n + 1, NEW k \in 1 .. n + 1, r[j] = r[k] PROVE j = k
  <2>1. r[i] = t
    BY <1>3
  <2>2. CASE j = i \/ k = i
    BY <1>4, <1>5, <1>6, <2>1, <2>2
  <2>3. CASE j # i /\ k # i
    <3>1. PICK p \in 1 .. n : r[j] = s[p] /\ p = IF j < i THEN j ELSE j - 1
      BY <1>5, <2>3
    <3>2. PICK q \in 1 .. n : r[k] = s[q] /\ q = IF k < i THEN k ELSE k - 1
      BY <1>5, <2>3
    <3>3. p = q
      BY <1>4, <1>6, <3>1, <3>2
    <3> QED
      BY <1>3, <2>3, <3>1, <3>2, <3>3
  <2> QED
    BY <2>2, <2>3
<1>7. ASSUME NEW u \in Timers
      PROVE  u \in S \cup {t} <=> \E j \in 1 .. n + 1 : r[j] = u
  <2>1. ASSUME u = t PROVE \E j \in 1 .. n + 1 : r[j] = u
    BY <1>3, <2>1
  <2>2. ASSUME u \in S PROVE \E j \in 1 .. n + 1 : r[j] = u
    <3>1. PICK p \in 1 .. n : s[p] = u
      BY <1>4, <2>2
    <3>2. CASE p < i
      <4>1. p \in 1 .. n + 1 /\ r[p] = s[p]
        BY <1>3, <3>2
      <4> QED
        BY <3>1, <4>1
    <3>3. CASE p >= i
      <4>1. p + 1 \in 1 .. n + 1 /\ ~(p + 1 < i) /\ p + 1 # i /\ (p + 1) - 1 = p
        BY <1>3, <3>3
      <4>2. r[p + 1] = s[p]
        BY <1>3, <4>1
      <4> QED
        BY <3>1, <4>1, <4>2
    <3> QED
      BY <1>3, <3>2, <3>3
  <2>3. ASSUME NEW j \in 1 .. n + 1, r[j] = u PROVE u \in S \cup {t}
    <3>1. CASE j = i
      BY <1>3, <2>3, <3>1
    <3>2. CASE j # i
      BY <1>4, <1>5, <2>3, <3>2
    <3> QED
      BY <3>1, <3>2
  <2> QED
    BY <2>1, <2>2, <2>3
<1> QED
  BY <1>2, <1>3, <1>4, <1>6, <1>7 DEF Holds

LEMMA HoldsRemoved ==
  ASSUME NEW s, NEW S, Holds(s, S), NEW i \in 1 .. Len(s)
  PROVE  Holds(RemoveAt(s, i), S \ {s[i]})
<1>1. PICK n \in Nat : n = Len(s) /\ s \in Seq(Timers)
  BY DEF Holds
<1>2. PICK r : r = RemoveAt(s, i)
  OBVIOUS
<1>3. /\ r \in Seq(Timers) /\ Len(r) = n - 1 /\ i \in 1 .. n
      /\ \A j \in 1 .. n - 1 : r[j] = IF j < i THEN s[j] ELSE s[j + 1]
  BY <1>1, <1>2, Removed
<1>4. /\ \A j, k \in 1 .. n : s[j] = s[k] => j = k
      /\ \A u \in Timers : u \in S <=> \E j \in 1 .. n : s[j] = u
      /\ S \subseteq Timers
      /\ \A j \in 1 .. n : s[j] \in Timers
  BY <1>1 DEF Holds
<1>5. ASSUME NEW j \in 1 .. n - 1
      PROVE  \E p \in 1 .. n : r[j] = s[p] /\ p # i /\ p = IF j < i THEN j ELSE j + 1
  <2>1. CASE j < i
    BY <1>3, <2>1
  <2>2. CASE j >= i
    <3>1. r[j] = s[j + 1] /\ j + 1 \in 1 .. n /\ ~(j < i) /\ j + 1 # i
      BY <1>3, <2>2
    <3> QED
      BY <3>1
  <2> QED
    BY <1>3, <2>1, <2>2
<1>6. ASSUME NEW j \in 1 .. n - 1, NEW k \in 1 .. n - 1, r[j] = r[k] PROVE j = k
  <2>1. PICK p \in 1 .. n : r[j] = s[p] /\ p = IF j < i THEN j ELSE j + 1
    BY <1>5
  <2>2. PICK q \in 1 .. n : r[k] = s[q] /\ q = IF k < i THEN k ELSE k + 1
    BY <1>5
  <2>3. p = q
    BY <1>4, <1>6, <2>1, <2>2
  <2> QED
    BY <1>3, <2>1, <2>2, <2>3
<1>7. ASSUME NEW u \in Timers
      PROVE  u \in S \ {s[i]} <=> \E j \in 1 .. n - 1 : r[j] = u
  <2>1. ASSUME u \in S, u # s[i] PROVE \E j \in 1 .. n - 1 : r[j] = u
    <3>1. PICK p \in 1 .. n : s[p] = u /\ p # i
      BY <1>4, <2>1
    <3>2. CASE p < i
      <4>1. p \in 1 .. n - 1 /\ r[p] = s[p]
        BY <1>3, <3>2
      <4> QED
        BY <3>1, <4>1
    <3>3. CASE p > i
      <4>1. p - 1 \in 1 .. n - 1 /\ ~(p - 1 < i) /\ (p - 1) + 1 = p
        BY <1>3, <3>3
      <4>2. r[p - 1] = s[p]
        BY <1>3, <4>1
      <4> QED
        BY <3>1, <4>1, <4>2
    <3> QED
      BY <1>3, <3>1, <3>2, <3>3
  <2>2. ASSUME NEW j \in 1 .. n - 1, r[j] = u PROVE u \in S /\ u # s[i]
    <3>1. PICK p \in 1 .. n : r[j] = s[p] /\ p # i
      BY <1>5
    <3> QED
      BY <1>3, <1>4, <2>2, <3>1
  <2> QED
    BY <2>1, <2>2
<1> QED
  BY <1>2, <1>3, <1>4, <1>6, <1>7 DEF Holds

LEMMA HoldsTail ==
  ASSUME NEW s, NEW S, Holds(s, S), s # <<>>
  PROVE  /\ Holds(Tail(s), S \ {Head(s)}) /\ Head(s) \in S /\ Head(s) = s[1]
         /\ Len(s) \in Nat \ {0} /\ Len(Tail(s)) = Len(s) - 1
         /\ \A i \in 1 .. Len(s) - 1 : Tail(s)[i] = s[i + 1]
<1>1. s \in Seq(Timers) /\ Len(s) \in Nat \ {0}
  BY EmptySeq DEF Holds
<1>2. /\ Tail(s) \in Seq(Timers) /\ Len(Tail(s)) = Len(s) - 1
      /\ \A i \in 1 .. Len(s) - 1 : Tail(s)[i] = s[i + 1]
  BY <1>1, HeadTailProperties
<1>3. Head(s) = s[1] /\ 1 \in 1 .. Len(s) /\ s[1] \in S
  BY <1>1 DEF Holds
<1>4. Tail(s) = RemoveAt(s, 1)
  <2>1. /\ RemoveAt(s, 1) \in Seq(Timers) /\ Len(RemoveAt(s, 1)) = Len(s) - 1
        /\ \A j \in 1 .. Len(s) - 1 : RemoveAt(s, 1)[j] = IF j < 1 THEN s[j] ELSE s[j + 1]
    BY <1>1, <1>3, Removed
  <2>2. \A j \in 1 .. Len(Tail(s)) : Tail(s)[j] = RemoveAt(s, 1)[j]
    BY <1>1, <1>2, <2>1
  <2> QED
    BY <1>2, <2>1, <2>2, SeqEqual
<1>5. Holds(Tail(s), S \ {Head(s)})
  <2>1. Holds(RemoveAt(s, 1), S \ {s[1]})
    BY <1>3, HoldsRemoved
  <2> QED
    BY <1>3, <1>4, <2>1
<1> QED
  BY <1>1, <1>2, <1>3, <1>5

LEMMA HoldsCut ==
  ASSUME NEW s, NEW S, Holds(s, S), NEW n \in 1 .. Len(s)
  PROVE  LET out == ToSet(SubSeq(s, 1, n)) IN
         /\ Holds(SubSeq(s, 1, n), out) /\ out \subseteq S
         /\ Holds(SubSeq(s, n + 1, Len(s)), S \ out)
         /\ \A i \in 1 .. Len(s) : s[i] \in out <=> i <= n
<1> DEFINE a == SubSeq(s, 1, n)
           b == SubSeq(s, n + 1, Len(s))
           out == ToSet(a)
<1>1. PICK l \in Nat : l = Len(s) /\ s \in Seq(Timers)
  BY DEF Holds
<1>2. /\ \A i, j \in 1 .. l : s[i] = s[j] => i = j
      /\ \A u \in Timers : u \in S <=> \E i \in 1 .. l : s[i] = u
      /\ S \subseteq Timers
      /\ \A i \in 1 .. l : s[i] \in Timers
      /\ n \in 1 .. l
  BY <1>1 DEF Holds
<1>3. /\ a \in Seq(Timers) /\ Len(a) = n
      /\ \A j \in 1 .. n : a[j] = s[j]
      /\ b \in Seq(Timers) /\ Len(b) = l - n
      /\ \A j \in 1 .. l - n : b[j] = s[n + j]
  BY <1>1, CutAt
<1>4. out = {s[j] : j \in 1 .. n}
  <2>1. DOMAIN a = 1 .. n
    BY <1>3
  <2> HIDE DEF a
  <2> QED
    BY <1>3, <2>1 DEF ToSet
<1> HIDE DEF a, b, out
<1>5. \A i \in 1 .. l : s[i] \in out <=> i <= n
  BY <1>2, <1>4
<1>6. out \subseteq S
  BY <1>2, <1>4
<1>7. Holds(a, out)
  <2>1. \A i, j \in 1 .. n : a[i] = a[j] => i = j
    <3>1. \A i \in 1 .. n : i \in 1 .. l /\ a[i] = s[i]
      BY <1>1, <1>2, <1>3
    <3> QED
      BY <1>2, <3>1
  <2>2. \A u \in Timers : u \in out <=> \E i \in 1 .. n : a[i] = u
    BY <1>3, <1>4
  <2> QED
    BY <1>2, <1>3, <1>6, <2>1, <2>2 DEF Holds
<1>8. Holds(b, S \ out)
  <2>1. ASSUME NEW i \in 1 .. l - n, NEW j \in 1 .. l - n, b[i] = b[j] PROVE i = j
    <3>0. n + i \in 1 .. l /\ n + j \in 1 .. l
      BY <1>1, <1>2
    <3>1. n + i \in 1 .. l /\ n + j \in 1 .. l /\ s[n + i] = s[n + j]
      BY <1>3, <2>1, <3>0
    <3>2. n + i = n + j
      BY <1>2, <3>1
    <3> QED
      BY <1>2, <3>2
  <2>2. ASSUME NEW u \in Timers, u \in S, u \notin out PROVE \E i \in 1 .. l - n : b[i] = u
    <3>1. PICK p \in 1 .. l : s[p] = u
      BY <1>2, <2>2
    <3>2. ~(p <= n)
      BY <1>5, <2>2, <3>1
    <3>3. p - n \in 1 .. l - n /\ n + (p - n) = p
      BY <1>2, <3>2
    <3> QED
      BY <1>3, <3>1, <3>3
  <2>3. ASSUME NEW u \in Timers, NEW i \in 1 .. l - n, b[i] = u PROVE u \in S /\ u \notin out
    <3>1. n + i \in 1 .. l /\ ~(n + i <= n) /\ s[n + i] = u
      BY <1>2, <1>3, <2>3
    <3> QED
      BY <1>2, <1>5, <3>1
  <2>4. \A u \in Timers : u \in S \ out <=> \E i \in 1 .. l - n : b[i] = u
    BY <2>2, <2>3
  <2> QED
    BY <1>2, <1>3, <2>1, <2>4 DEF Holds
<1> QED
  BY <1>1, <1>5, <1>6, <1>7, <1>8 DEF a, b, out

-----------------------------------------------------------------------------
(* What the invariant says                                                   *)

LEMMA ListsHold ==
  ASSUME TypeOK
  PROVE  ListsMatch <=> /\ Holds(active, ActiveTimers) /\ Holds(fired, FiredTimers)
                        /\ \A t \in Timers : st[t] = "CALLBACK" => pc = "callback" /\ cur = t
<1>1. /\ active \in Seq(Timers) /\ fired \in Seq(Timers)
      /\ ActiveTimers \subseteq Timers /\ FiredTimers \subseteq Timers
      /\ ActiveTimers \cap FiredTimers = {}
  BY DEF TypeOK, ActiveTimers, FiredTimers
<1>2. IsInjective(active \o fired) /\ ActiveTimers = ToSet(active) /\ FiredTimers = ToSet(fired)
        <=> Holds(active, ActiveTimers) /\ Holds(fired, FiredTimers)
  BY <1>1, ListsAre
<1> QED
  BY <1>2 DEF ListsMatch, ActiveTimers, FiredTimers

LEMMA BehindIs ==
  ASSUME TypeOK
  PROVE  /\ \A k \in Nat : Behind(k) = IF k < 2 THEN 0 ELSE Behind(k - 1) + time[active[k]]
         /\ \A k \in 0 .. Len(active) : Behind(k) \in Nat
         /\ \A k \in 1 .. Len(active) : active[k] \in Timers /\ time[active[k]] \in Nat
         /\ Len(active) \in Nat /\ DOMAIN active = 1 .. Len(active)
         /\ active # <<>> => /\ 1 \in 1 .. Len(active)
                             /\ Head(active) = active[1] /\ Head(active) \in Timers
                             /\ time[Head(active)] \in Nat /\ HeadLoad \in Nat \ {0}
<1>1. time \in [Timers -> Nat] /\ active \in Seq(Timers)
  BY DEF TypeOK
<1>2. \A k \in Nat : Behind(k) = IF k < 2 THEN 0 ELSE Behind(k - 1) + time[active[k]]
  BY SumsIs DEF Behind
<1>3. \A k \in 0 .. Len(active) : Behind(k) \in Nat
  BY <1>1, SumsType DEF Behind
<1>4. \A k \in 1 .. Len(active) : active[k] \in Timers /\ time[active[k]] \in Nat
  BY <1>1
<1>5. Len(active) \in Nat /\ DOMAIN active = 1 .. Len(active)
  BY <1>1
<1>6. ASSUME active # <<>>
      PROVE  /\ 1 \in 1 .. Len(active)
             /\ Head(active) = active[1] /\ Head(active) \in Timers
             /\ time[Head(active)] \in Nat /\ HeadLoad \in Nat \ {0}
  <2>1. Len(active) \in Nat \ {0}
    BY <1>1, <1>6, EmptySeq
  <2>2. 1 \in 1 .. Len(active) /\ Head(active) = active[1]
    BY <1>1, <2>1
  <2>3. Head(active) \in Timers /\ time[Head(active)] \in Nat
    BY <1>4, <2>2
  <2> QED
    BY <2>2, <2>3 DEF HeadLoad
<1> QED
  BY <1>2, <1>3, <1>4, <1>5, <1>6

\* The same in the next state.
LEMMA ListsHoldNext ==
  ASSUME TypeOK', Holds(active', ActiveTimers'), Holds(fired', FiredTimers'),
         \A t \in Timers : st'[t] = "CALLBACK" => pc' = "callback" /\ cur' = t
  PROVE  ListsMatch'
<1>1. /\ active' \in Seq(Timers) /\ fired' \in Seq(Timers)
      /\ ActiveTimers' \subseteq Timers /\ FiredTimers' \subseteq Timers
      /\ ActiveTimers' \cap FiredTimers' = {}
  BY DEF TypeOK, ActiveTimers, FiredTimers
<1>2. IsInjective(active' \o fired') /\ ActiveTimers' = ToSet(active') /\ FiredTimers' = ToSet(fired')
  BY <1>1, ListsAre
<1> QED
  BY <1>2 DEF ListsMatch, ActiveTimers, FiredTimers

LEMMA InvIs ==
  ASSUME TimerInv
  PROVE  /\ TypeOK /\ Holds(active, ActiveTimers) /\ Holds(fired, FiredTimers)
         /\ \A t \in Timers : st[t] = "CALLBACK" => pc = "callback" /\ cur = t
         /\ collapsed = FALSE /\ HandlerInv /\ CounterInv /\ WaitInv
         /\ \A i \in 1 .. Len(active) : st[active[i]] = "ACTIVE"
         /\ \A i \in 1 .. Len(fired) : fired[i] \in Timers /\ st[fired[i]] = "FIRED"
         /\ \A t \in Timers : st[t] = "ACTIVE" => \E i \in 1 .. Len(active) : active[i] = t
<1>1. /\ TypeOK /\ Holds(active, ActiveTimers) /\ Holds(fired, FiredTimers)
      /\ \A t \in Timers : st[t] = "CALLBACK" => pc = "callback" /\ cur = t
      /\ collapsed = FALSE /\ HandlerInv /\ CounterInv /\ WaitInv
  BY ListsHold DEF TimerInv, NeverCollapses, TypeOK
<1>2. \A i \in 1 .. Len(active) : active[i] \in Timers
  BY <1>1, ElementOfSeq DEF TypeOK
<1>3. \A i \in 1 .. Len(fired) : fired[i] \in Timers
  BY <1>1, ElementOfSeq DEF TypeOK
<1>4. \A i \in 1 .. Len(active) : st[active[i]] = "ACTIVE"
  BY <1>1, <1>2 DEF Holds, ActiveTimers
<1>5. \A i \in 1 .. Len(fired) : st[fired[i]] = "FIRED"
  BY <1>1, <1>3 DEF Holds, FiredTimers
<1>6. \A t \in Timers : st[t] = "ACTIVE" => \E i \in 1 .. Len(active) : active[i] = t
  BY <1>1 DEF Holds, ActiveTimers
<1> QED
  BY <1>1, <1>3, <1>4, <1>5, <1>6

-----------------------------------------------------------------------------
(* Steps that leave the active list and the counter alone                    *)

Quiet ==
  /\ UNCHANGED <<time, active, on, value, elapsed, left, due>> /\ collapsed' = FALSE
  /\ ActiveTimers' = ActiveTimers /\ Holds(fired', FiredTimers')
  /\ \A t \in Timers : st'[t] = "CALLBACK" => pc' = "callback" /\ cur' = t
  /\ irq' => irq
  /\ active # <<>> /\ value = 0 =>
       (irq' \/ pc' = "entered") /\ late' + Before' >= late + Before

LEMMA QuietKeeps ==
  ASSUME TimerInv, Quiet, TypeOK', HandlerInv'
  PROVE  TimerInv'
<1>0. /\ TypeOK /\ Holds(active, ActiveTimers) /\ CounterInv /\ WaitInv
      /\ late \in Nat /\ late' \in Nat /\ Before \in Nat /\ Before' \in Nat
      /\ value \in Nat /\ elapsed \in Nat /\ irq \in BOOLEAN /\ irq' \in BOOLEAN
  <2>1. TypeOK /\ Holds(active, ActiveTimers) /\ CounterInv /\ WaitInv
    BY InvIs
  <2>2. late \in Nat /\ value \in Nat /\ elapsed \in Nat /\ irq \in BOOLEAN
    BY <2>1, BoundsAssumption DEF TypeOK
  <2>3. late' \in Nat /\ irq' \in BOOLEAN
    BY BoundsAssumption DEF TypeOK
  <2>4. Before \in Nat /\ Before' \in Nat
    BY BoundsAssumption DEF Before
  <2> QED
    BY <2>1, <2>2, <2>3, <2>4
<1>1. ListsMatch'
  BY <1>0, ListsHoldNext DEF Quiet
<1>2. HeadLoad' = HeadLoad
  BY DEF HeadLoad, Quiet
<1>3. CounterInv'
  <2>1. CASE active = <<>>
    BY <1>0, <2>1 DEF CounterInv, Quiet
  <2>2. CASE active # <<>>
    <3>1. /\ on' /\ value' + elapsed' + Delta >= time'[Head(active')]
          /\ value' > 0 => value' + elapsed' <= HeadLoad'
      BY <1>0, <1>2, <2>2 DEF CounterInv, Quiet
    <3>2. ASSUME value' = 0
          PROVE  (irq' \/ pc' = "entered") /\ elapsed' <= HeadLoad' + late' + Before'
      <4>1. PICK h \in Nat : h = HeadLoad
        BY <1>0, <2>2, BehindIs
      <4>2. value = 0 /\ elapsed' = elapsed
        BY <3>2 DEF Quiet
      <4>3. elapsed <= h + late + Before
        BY <1>0, <2>2, <4>1, <4>2 DEF CounterInv
      <4>4. (irq' \/ pc' = "entered") /\ late' + Before' >= late + Before
        BY <2>2, <4>2 DEF Quiet
      <4>5. elapsed' <= h + late' + Before'
        <5>1. \A e, l, b, m, c \in Nat : e <= h + l + b /\ m + c >= l + b => e <= h + m + c
          OBVIOUS
        <5>2. elapsed <= h + late' + Before'
          BY <1>0, <4>3, <4>4, <5>1
        <5> QED
          BY <4>2, <5>2
      <4> QED
        BY <1>2, <4>1, <4>4, <4>5
    <3>3. active' # <<>>
      BY <2>2 DEF Quiet
    <3> QED
      BY <3>1, <3>2, <3>3 DEF CounterInv
  <2> QED
    BY <2>1, <2>2
<1>4. WaitInv'
  <2>1. \A k : Behind(k)' = Behind(k)
    BY DEF Behind, Quiet
  <2> QED
    BY <1>0, <1>2, <2>1 DEF WaitInv, Quiet
<1> QED
  BY <1>1, <1>3, <1>4 DEF TimerInv, NeverCollapses, Quiet

LEMMA AllocStep ==
  ASSUME TimerInv, NEW t \in Timers, Alloc(t) \/ FreeTimer(t)
  PROVE  TimerInv'
<1>0. /\ TypeOK /\ Holds(active, ActiveTimers) /\ Holds(fired, FiredTimers)
      /\ \A u \in Timers : st[u] = "CALLBACK" => pc = "callback" /\ cur = u
      /\ collapsed = FALSE /\ HandlerInv /\ CounterInv
  BY InvIs
<1>1. /\ \E x \in {"ALLOC", "FREE"} : st' = [st EXCEPT ![t] = x]
      /\ st[t] \in {"ALLOC", "FREE"}
      /\ UNCHANGED <<time, active, fired, on, value, elapsed, irq, pc, cur, late, left, due, collapsed>>
  BY DEF Alloc, FreeTimer, hw, handler, ghosts
<1>2. PICK x \in {"ALLOC", "FREE"} : st' = [st EXCEPT ![t] = x]
  BY <1>1
<1>3. \A u \in Timers : st'[u] = IF u = t THEN x ELSE st[u]
  BY <1>0, <1>2 DEF TypeOK
<1>4. TypeOK'
  BY <1>0, <1>1, <1>2 DEF TypeOK
<1>5. ActiveTimers' = ActiveTimers /\ FiredTimers' = FiredTimers
  BY <1>1, <1>2, <1>3 DEF ActiveTimers, FiredTimers
<1>6. \A u \in Timers : st'[u] = "CALLBACK" => pc' = "callback" /\ cur' = u
  BY <1>0, <1>1, <1>2, <1>3
<1>7. HandlerInv'
  BY <1>0, <1>1 DEF HandlerInv
<1>8. late' + Before' >= late + Before
  BY <1>0, <1>1, BoundsAssumption DEF TypeOK, Before
<1>9. active # <<>> /\ value = 0 => irq' \/ pc' = "entered"
  BY <1>0, <1>1 DEF CounterInv
<1>10. Quiet
  BY <1>0, <1>1, <1>5, <1>6, <1>8, <1>9 DEF Quiet
<1> QED
  BY <1>4, <1>7, <1>10, QuietKeeps

LEMMA StopFiredStep ==
  ASSUME TimerInv, NEW t \in Timers, StopFired(t)
  PROVE  TimerInv'
<1>0. /\ TypeOK /\ Holds(active, ActiveTimers) /\ Holds(fired, FiredTimers)
      /\ \A u \in Timers : st[u] = "CALLBACK" => pc = "callback" /\ cur = u
      /\ collapsed = FALSE /\ HandlerInv /\ CounterInv
  BY InvIs
<1>1. /\ st' = [st EXCEPT ![t] = "ALLOC"]
      /\ UNCHANGED <<time, active, on, value, elapsed, irq, pc, cur, late, left, due, collapsed>>
  BY DEF StopFired, Stopped, hw, handler, ghosts
<1>2. PICK k \in 1 .. Len(fired) : fired[k] = t /\ fired' = RemoveAt(fired, k)
  BY <1>0 DEF StopFired, TypeOK
<1>3. \A u \in Timers : st'[u] = IF u = t THEN "ALLOC" ELSE st[u]
  BY <1>0, <1>1 DEF TypeOK
<1>4. Holds(fired', FiredTimers \ {t})
  BY <1>0, <1>2, HoldsRemoved
<1>5. st[t] = "FIRED"
  BY <1>2, InvIs
<1>6. ActiveTimers' = ActiveTimers /\ FiredTimers' = FiredTimers \ {t}
  BY <1>3, <1>5 DEF ActiveTimers, FiredTimers
<1>7. TypeOK'
  BY <1>0, <1>1, <1>4 DEF TypeOK, Holds
<1>8. HandlerInv'
  <2>1. fired # <<>>
    BY <1>2
  <2> QED
    BY <1>0, <1>1, <2>1 DEF HandlerInv
<1>9. \A u \in Timers : st'[u] = "CALLBACK" => pc' = "callback" /\ cur' = u
  BY <1>0, <1>1, <1>3
<1>10. late' + Before' >= late + Before
  BY <1>0, <1>1, BoundsAssumption DEF TypeOK, Before
<1>11. active # <<>> /\ value = 0 => irq' \/ pc' = "entered"
  BY <1>0, <1>1 DEF CounterInv
<1>12. Quiet
  BY <1>0, <1>1, <1>4, <1>6, <1>9, <1>10, <1>11 DEF Quiet
<1> QED
  BY <1>7, <1>8, <1>12, QuietKeeps

LEMMA IrqEntryStep ==
  ASSUME TimerInv, IrqEntry
  PROVE  TimerInv'
<1>0. /\ TypeOK /\ Holds(fired, FiredTimers)
      /\ \A u \in Timers : st[u] = "CALLBACK" => pc = "callback" /\ cur = u
      /\ collapsed = FALSE /\ HandlerInv
  BY InvIs
<1>1. /\ irq' = FALSE /\ pc' = "entered" /\ pc = "idle" /\ irq
      /\ UNCHANGED <<st, time, active, fired, on, value, elapsed, cur, late, left, due, collapsed>>
  BY DEF IrqEntry, lists, ghosts
<1>2. TypeOK'
  BY <1>0, <1>1 DEF TypeOK
<1>3. ActiveTimers' = ActiveTimers /\ FiredTimers' = FiredTimers
  BY <1>1 DEF ActiveTimers, FiredTimers
<1>4. HandlerInv'
  BY <1>0, <1>1 DEF HandlerInv
<1>5. late' + Before' >= late + Before
  BY <1>0, <1>1, BoundsAssumption DEF TypeOK, Before
<1>6. \A u \in Timers : st'[u] = "CALLBACK" => pc' = "callback" /\ cur' = u
  BY <1>0, <1>1
<1>7. Quiet
  BY <1>0, <1>1, <1>3, <1>5, <1>6 DEF Quiet
<1> QED
  BY <1>2, <1>4, <1>7, QuietKeeps

LEMMA IrqTooLateStep ==
  ASSUME TimerInv, IrqTooLate
  PROVE  TimerInv'
<1>0. /\ TypeOK /\ Holds(fired, FiredTimers)
      /\ \A u \in Timers : st[u] = "CALLBACK" => pc = "callback" /\ cur = u
      /\ collapsed = FALSE /\ HandlerInv /\ CounterInv /\ value \in Nat /\ elapsed \in Nat
  BY InvIs DEF TypeOK
<1>1. /\ pc = "entered" /\ pc' = "idle" /\ late' = 0
      /\ UNCHANGED <<st, time, active, fired, on, value, elapsed, irq, cur, left, due>>
  BY DEF IrqTooLate, lists, ghosts, hw
<1>2. collapsed' = FALSE
  BY <1>0 DEF IrqTooLate, CounterInv, TypeOK
<1>3. active # <<>> => value > 0
  <2> SUFFICES ASSUME active # <<>>, value = 0 PROVE FALSE
    BY <1>0
  <2>1. time[Head(active)] \in Nat
    BY <1>0, BehindIs
  <2>2. time[Head(active)] > elapsed + 1
    BY DEF IrqTooLate, Delta
  <2>3. value + elapsed + 1 >= time[Head(active)]
    BY <1>0 DEF CounterInv, Delta
  <2> QED
    BY <1>0, <2>1, <2>2, <2>3
<1>4. TypeOK'
  <2>1. late' \in 0 .. MaxLate
    BY <1>1, BoundsAssumption
  <2>2. pc' \in {"idle", "entered", "callback"} /\ collapsed' \in BOOLEAN
    BY <1>1, <1>2
  <2> QED
    BY <1>0, <1>1, <2>1, <2>2 DEF TypeOK
<1>5. ActiveTimers' = ActiveTimers /\ FiredTimers' = FiredTimers
  BY <1>1 DEF ActiveTimers, FiredTimers
<1>6. HandlerInv'
  BY <1>0, <1>1 DEF HandlerInv
<1>7. \A u \in Timers : st'[u] = "CALLBACK" => pc' = "callback" /\ cur' = u
  BY <1>0, <1>1
<1>8. ~(active # <<>> /\ value = 0)
  BY <1>0, <1>3
<1>9. Quiet
  BY <1>0, <1>1, <1>2, <1>5, <1>7, <1>8 DEF Quiet
<1> QED
  BY <1>4, <1>6, <1>9, QuietKeeps


States == {"FREE", "ALLOC", "ACTIVE", "FIRED", "CALLBACK"}

\* Taking the next timer off the list of those that have fired.
LEMMA Called ==
  ASSUME TypeOK, NEW list, NEW states \in [Timers -> States],
         Holds(list, {t \in Timers : states[t] = "FIRED"}),
         \A t \in Timers : states[t] # "CALLBACK",
         Call(list, states)
  PROVE  /\ st' \in [Timers -> States] /\ fired' \in Seq(Timers)
         /\ pc' \in {"idle", "callback"} /\ cur' \in Timers \cup {NONE} /\ late' \in 0 .. MaxLate
         /\ Holds(fired', FiredTimers')
         /\ ActiveTimers' = {t \in Timers : states[t] = "ACTIVE"}
         /\ \A t \in Timers : st'[t] = "CALLBACK" => pc' = "callback" /\ cur' = t
         /\ HandlerInv'
         /\ IF list = <<>> THEN pc' = "idle" /\ late' = 0 ELSE pc' = "callback" /\ late' = late
<1>0. list \in Seq(Timers)
  BY DEF Holds
<1>1. CASE list = <<>>
  <2>1. pc' = "idle" /\ cur' = NONE /\ st' = states /\ fired' = list /\ late' = 0
    BY <1>1 DEF Call
  <2>2. late' \in 0 .. MaxLate
    BY <2>1, BoundsAssumption
  <2>3. HandlerInv'
    BY <1>1, <2>1 DEF HandlerInv
  <2>4. ActiveTimers' = {t \in Timers : states[t] = "ACTIVE"} /\ Holds(fired', FiredTimers')
    BY <2>1 DEF ActiveTimers, FiredTimers
  <2> QED
    BY <1>0, <1>1, <2>1, <2>2, <2>3, <2>4
<1>2. CASE list # <<>>
  <2> DEFINE F == {t \in Timers : states[t] = "FIRED"}
  <2>1. /\ pc' = "callback" /\ cur' = Head(list) /\ fired' = Tail(list) /\ late' = late
        /\ st' = [states EXCEPT ![Head(list)] = "CALLBACK"]
    BY <1>2 DEF Call
  <2>2. Holds(Tail(list), F \ {Head(list)}) /\ Head(list) \in F
    BY <1>2, HoldsTail
  <2>3. PICK h \in Timers : h = Head(list) /\ states[h] = "FIRED"
    BY <2>2
  <2>4. \A t \in Timers : st'[t] = IF t = h THEN "CALLBACK" ELSE states[t]
    BY <2>1, <2>3
  <2>5. st' \in [Timers -> States]
    BY <2>1, <2>3 DEF States
  <2>6. FiredTimers' = F \ {Head(list)}
    BY <2>3, <2>4 DEF FiredTimers
  <2>7. ActiveTimers' = {t \in Timers : states[t] = "ACTIVE"}
    BY <2>3, <2>4 DEF ActiveTimers
  <2>8. Holds(fired', FiredTimers')
    BY <2>1, <2>2, <2>6
  <2>9. fired' \in Seq(Timers)
    BY <2>8 DEF Holds
  <2>10. HandlerInv'
    BY <2>1, <2>3 DEF HandlerInv
  <2>11. \A t \in Timers : st'[t] = "CALLBACK" => pc' = "callback" /\ cur' = t
    BY <2>1, <2>3, <2>4
  <2>12. late' \in 0 .. MaxLate
    BY <2>1 DEF TypeOK
  <2> QED
    BY <1>2, <2>1, <2>3, <2>5, <2>7, <2>8, <2>9, <2>10, <2>11, <2>12
<1> QED
  BY <1>1, <1>2

LEMMA CallbackReturnsStep ==
  ASSUME TimerInv, CallbackReturns
  PROVE  TimerInv'
<1> DEFINE states == [st EXCEPT ![cur] = IF @ = "CALLBACK" THEN "ALLOC" ELSE @]
<1>0. /\ TypeOK /\ Holds(active, ActiveTimers) /\ Holds(fired, FiredTimers)
      /\ \A u \in Timers : st[u] = "CALLBACK" => pc = "callback" /\ cur = u
      /\ collapsed = FALSE /\ HandlerInv /\ CounterInv
  BY InvIs
<1>1. /\ pc = "callback" /\ Call(fired, states)
      /\ UNCHANGED <<time, active, on, value, elapsed, irq, left, due, collapsed>>
  BY DEF CallbackReturns, hw, ghosts
<1>2. cur \in Timers
  BY <1>0, <1>1 DEF HandlerInv
<1>3. \A u \in Timers : states[u] = IF st[u] = "CALLBACK" THEN "ALLOC" ELSE st[u]
  BY <1>0, <1>2 DEF TypeOK
<1>4. states \in [Timers -> States]
  BY <1>0, <1>2 DEF TypeOK, States
<1> HIDE DEF states
<1>5. {t \in Timers : states[t] = "FIRED"} = FiredTimers
  BY <1>3 DEF FiredTimers
<1>6. {t \in Timers : states[t] = "ACTIVE"} = ActiveTimers
  BY <1>3 DEF ActiveTimers
<1>7. \A u \in Timers : states[u] # "CALLBACK"
  BY <1>3
<1>8. Holds(fired, {t \in Timers : states[t] = "FIRED"})
  BY <1>0, <1>5
<1>9. /\ st' \in [Timers -> States] /\ fired' \in Seq(Timers)
      /\ pc' \in {"idle", "callback"} /\ cur' \in Timers \cup {NONE} /\ late' \in 0 .. MaxLate
      /\ Holds(fired', FiredTimers')
      /\ ActiveTimers' = {t \in Timers : states[t] = "ACTIVE"}
      /\ \A t \in Timers : st'[t] = "CALLBACK" => pc' = "callback" /\ cur' = t
      /\ HandlerInv'
      /\ IF fired = <<>> THEN pc' = "idle" /\ late' = 0 ELSE pc' = "callback" /\ late' = late
  BY <1>0, <1>1, <1>4, <1>7, <1>8, Called
<1>10. TypeOK'
  BY <1>0, <1>1, <1>9 DEF TypeOK, States
<1>11. late' + Before' >= late + Before
  <2>1. late \in 0 .. MaxLate
    BY <1>0 DEF TypeOK
  <2>2. CASE fired = <<>>
    <3>1. late' = 0 /\ Before' = MaxLate /\ Before = 0
      BY <1>1, <1>9, <2>2 DEF Before
    <3> QED
      BY <2>1, <3>1, BoundsAssumption
  <2>3. CASE fired # <<>>
    <3>1. late' = late /\ Before' = Before
      BY <1>1, <1>9, <2>3 DEF Before
    <3> QED
      BY <2>1, <3>1, BoundsAssumption DEF Before
  <2> QED
    BY <2>2, <2>3
<1>12. active # <<>> /\ value = 0 => irq'
  BY <1>0, <1>1 DEF CounterInv
<1>13. Quiet
  BY <1>0, <1>1, <1>6, <1>9, <1>11, <1>12 DEF Quiet
<1> QED
  BY <1>9, <1>10, <1>13, QuietKeeps

-----------------------------------------------------------------------------
(* A tick                                                                    *)

LEMMA LessIs ==
  ASSUME NEW a \in Nat, NEW b \in Nat
  PROVE  /\ Less(a, b) \in Nat
         /\ a > b => Less(a, b) = a - b
         /\ a <= b => Less(a, b) = 0
BY DEF Less

LEMMA TickStep ==
  ASSUME TimerInv, Tick
  PROVE  TimerInv'
<1>0. /\ TypeOK /\ Holds(active, ActiveTimers) /\ Holds(fired, FiredTimers)
      /\ \A u \in Timers : st[u] = "CALLBACK" => pc = "callback" /\ cur = u
      /\ collapsed = FALSE /\ HandlerInv /\ CounterInv /\ WaitInv
      /\ \A i \in 1 .. Len(active) : st[active[i]] = "ACTIVE"
  BY InvIs
<1>1. /\ UNCHANGED <<st, time, active, fired, on, pc, cur, collapsed>>
      /\ on /\ value' = Less(value, 1) /\ elapsed' = elapsed + 1
      /\ left' = [t \in Timers |-> Less(left[t], 1)]
      /\ due' = [t \in Timers |-> IF st[t] = "ACTIVE" THEN due[t] - 1 ELSE 0]
  BY DEF Tick, lists, handler
<1>2. /\ (irq \/ pc # "idle") => late < MaxLate
      /\ late' = IF irq \/ pc # "idle" THEN late + 1 ELSE 0
  BY DEF Tick
<1>3. irq' = (irq \/ value = 1)
  BY DEF Tick
<1>4. active # <<>>
  BY <1>0, <1>1 DEF CounterInv
<1>5. PICK H \in Nat, B \in Nat, T \in Nat :
        H = HeadLoad /\ B = Before /\ T = time[Head(active)]
  <2>1. HeadLoad \in Nat /\ time[Head(active)] \in Nat
    BY <1>0, <1>4, BehindIs
  <2>2. Before \in Nat
    BY BoundsAssumption DEF Before
  <2> QED
    BY <2>1, <2>2
<1>6. HeadLoad' = H /\ Before' = B /\ time'[Head(active')] = T
  BY <1>1, <1>5 DEF HeadLoad, Before
<1>7. PICK v \in Nat, e \in Nat, l \in Nat : v = value /\ e = elapsed /\ l = late /\ l <= MaxLate
  BY <1>0, BoundsAssumption DEF TypeOK
<1>8. late' \in 0 .. MaxLate
  BY <1>2, <1>7, BoundsAssumption
<1>9. TypeOK'
  <2>1. left' \in [Timers -> Nat]
    <3>1. \A t \in Timers : Less(left[t], 1) \in Nat
      BY <1>0, LessIs DEF TypeOK
    <3> QED
      BY <1>1, <3>1
  <2>2. due' \in [Timers -> Int]
    BY <1>0, <1>1 DEF TypeOK
  <2>3. value' \in Nat /\ elapsed' \in Nat
    BY <1>1, <1>7, LessIs
  <2>4. irq' \in BOOLEAN
    BY <1>3
  <2> QED
    BY <1>0, <1>1, <1>8, <2>1, <2>2, <2>3, <2>4 DEF TypeOK
<1>10. ActiveTimers' = ActiveTimers /\ FiredTimers' = FiredTimers
  BY <1>1 DEF ActiveTimers, FiredTimers
<1>11. ListsMatch'
  <2>1. Holds(active', ActiveTimers') /\ Holds(fired', FiredTimers')
    BY <1>0, <1>1, <1>10
  <2>2. \A u \in Timers : st'[u] = "CALLBACK" => pc' = "callback" /\ cur' = u
    BY <1>0, <1>1
  <2> QED
    BY <1>9, <2>1, <2>2, ListsHoldNext
<1>12. HandlerInv'
  BY <1>0, <1>1 DEF HandlerInv
<1>13. /\ v + e + 1 >= T
       /\ v > 0 => v + e <= H
       /\ v = 0 => (irq \/ pc = "entered") /\ e <= H + l + B
  BY <1>0, <1>4, <1>5, <1>7 DEF CounterInv, Delta
<1>14. value' = Less(v, 1) /\ elapsed' = e + 1
  BY <1>1, <1>7
<1>15. CounterInv'
  <2>1. value' + elapsed' + Delta >= time'[Head(active')]
    <3>1. Less(v, 1) + (e + 1) + 1 >= T
      BY <1>13 DEF Less
    <3> QED
      BY <1>6, <1>14, <3>1 DEF Delta
  <2>2. value' > 0 => value' + elapsed' <= HeadLoad'
    <3>1. Less(v, 1) > 0 => Less(v, 1) + (e + 1) <= H
      BY <1>13 DEF Less
    <3> QED
      BY <1>6, <1>14, <3>1
  <2>3. ASSUME value' = 0
        PROVE  (irq' \/ pc' = "entered") /\ elapsed' <= HeadLoad' + late' + Before'
    <3>1. v = 0 \/ v = 1
      BY <1>14, <2>3 DEF Less
    <3>2. CASE v = 0
      <4>1. late' = l + 1
        BY <1>2, <1>7, <1>13, <3>2
      <4>2. e + 1 <= H + (l + 1) + B
        BY <1>13, <3>2
      <4> QED
        BY <1>1, <1>3, <1>6, <1>13, <1>14, <3>2, <4>1, <4>2
    <3>3. CASE v = 1
      <4>1. PICK m \in Nat : m = late'
        BY <1>8, BoundsAssumption
      <4>2. e + 1 <= H + m + B
        BY <1>13, <3>3
      <4> QED
        BY <1>3, <1>6, <1>7, <1>14, <3>3, <4>1, <4>2
    <3> QED
      BY <3>1, <3>2, <3>3
  <2> QED
    BY <1>1, <1>4, <2>1, <2>2, <2>3 DEF CounterInv
<1>16. WaitInv'
  <2>1. \A k : Behind(k)' = Behind(k)
    BY <1>1 DEF Behind
  <2> SUFFICES ASSUME NEW k \in 1 .. Len(active)
               PROVE  /\ left'[active[k]] <= Less(H + Behind(k), e + 1)
                      /\ due'[active[k]] + (e + 1) >= Less(T + Behind(k), 1)
    <3>1. DOMAIN active' = 1 .. Len(active) /\ active' = active
      BY <1>0, <1>1 DEF TypeOK
    <3> QED
      BY <1>6, <1>14, <2>1, <3>1 DEF WaitInv, Delta
  <2>2. PICK b \in Nat, t \in Timers : b = Behind(k) /\ t = active[k]
    BY <1>0, BehindIs
  <2>3. PICK m \in Nat, d \in Int : m = left[t] /\ d = due[t]
    BY <1>0 DEF TypeOK
  <2>4. m <= Less(H + b, e) /\ d + e >= Less(T + b, 1)
    <3>1. k \in DOMAIN active
      BY <1>0, BehindIs
    <3> QED
      BY <1>0, <1>5, <1>7, <2>2, <2>3, <3>1 DEF WaitInv, Delta
  <2>5. left'[t] = Less(m, 1) /\ due'[t] = d - 1
    BY <1>0, <1>1, <2>2, <2>3
  <2>6. Less(m, 1) <= Less(H + b, e + 1)
    BY <2>4 DEF Less
  <2>7. (d - 1) + (e + 1) >= Less(T + b, 1)
    <3>1. \A z \in Nat : d + e >= z => (d - 1) + (e + 1) >= z
      OBVIOUS
    <3>2. T + b \in Nat
      OBVIOUS
    <3> QED
      BY <2>4, <3>1, <3>2, LessIs
  <2> QED
    BY <2>2, <2>5, <2>6, <2>7
<1> QED
  BY <1>0, <1>1, <1>9, <1>11, <1>12, <1>15, <1>16 DEF TimerInv, NeverCollapses

-----------------------------------------------------------------------------
(* Starts                                                                    *)

\* The facts a step's case starts from, with the numbers as constants.
LEMMA Numbers ==
  ASSUME TimerInv, active # <<>>
  PROVE  \E H \in Nat \ {0}, T \in Nat, v \in Nat, e \in Nat, l \in Nat, B \in Nat :
           /\ H = HeadLoad /\ T = time[Head(active)] /\ H = IF T > 1 THEN T ELSE 1
           /\ v = value /\ e = elapsed /\ l = late /\ B = Before
           /\ v + e + 1 >= T
           /\ v > 0 => v + e <= H
           /\ v = 0 => (irq \/ pc = "entered") /\ e <= H + l + B
           /\ on
           /\ \A k \in 1 .. Len(active) :
                /\ left[active[k]] <= Less(H + Behind(k), e)
                /\ due[active[k]] + e >= Less(T + Behind(k), 1)
<1>1. TypeOK /\ CounterInv /\ WaitInv
  BY InvIs
<1>2. HeadLoad \in Nat \ {0} /\ time[Head(active)] \in Nat /\ DOMAIN active = 1 .. Len(active)
  BY <1>1, BehindIs
<1>3. value \in Nat /\ elapsed \in Nat /\ late \in Nat /\ Before \in Nat
  BY <1>1, BoundsAssumption DEF TypeOK, Before
<1>4. HeadLoad = IF time[Head(active)] > 1 THEN time[Head(active)] ELSE 1
  BY DEF HeadLoad
<1>5. PICK H \in Nat \ {0}, T \in Nat, v \in Nat, e \in Nat, l \in Nat, B \in Nat :
        /\ H = HeadLoad /\ T = time[Head(active)]
        /\ v = value /\ e = elapsed /\ l = late /\ B = Before
  BY <1>2, <1>3
<1>6. /\ v + e + 1 >= T
      /\ v > 0 => v + e <= H
      /\ v = 0 => (irq \/ pc = "entered") /\ e <= H + l + B
      /\ on
  BY <1>1, <1>5 DEF CounterInv, Delta
<1>7. \A k \in 1 .. Len(active) :
        /\ left[active[k]] <= Less(H + Behind(k), e)
        /\ due[active[k]] + e >= Less(T + Behind(k), 1)
  BY <1>1, <1>2, <1>5 DEF WaitInv, Delta
<1> QED
  BY <1>4, <1>5, <1>6, <1>7

\* Behind a timer the differences of which are those of the old list.
Moved(g, r, a, b, n) ==
  \A i \in 0 .. n :
    /\ b + i \in 1 .. Len(r) /\ a + i \in 1 .. Len(active)
    /\ Sums(g, r)[b + i] \in Nat /\ Behind(a + i) \in Nat
    /\ Sums(g, r)[b] \in Nat /\ Behind(a) \in Nat
    /\ Sums(g, r)[b + i] = Sums(g, r)[b] + (Behind(a + i) - Behind(a))

LEMMA Shifted ==
  ASSUME TypeOK, NEW g, NEW r, NEW a, NEW b, NEW n \in Nat,
         g \in [Timers -> Nat], r \in Seq(Timers), a \in 1 .. Len(active), b \in 1 .. Len(r),
         Alike(time, active, a, g, r, b, n)
  PROVE  Moved(g, r, a, b, n)
<1>1. time \in [Timers -> Nat] /\ active \in Seq(Timers)
  BY DEF TypeOK
<1>2. SumAlike(time, active, a, g, r, b, n)
  BY <1>1, SumsAlike
<1>3. PICK la \in Nat, lr \in Nat : la = Len(active) /\ lr = Len(r)
  BY <1>1
<1>4. a + n <= la /\ b + n <= lr /\ a \in 1 .. la /\ b \in 1 .. lr
  BY <1>3 DEF Alike
<1>5. \A k \in 0 .. lr : Sums(g, r)[k] \in Nat
  BY <1>3, SumsType
<1>6. \A k \in 0 .. la : Behind(k) \in Nat
  BY <1>3, BehindIs
<1> SUFFICES ASSUME NEW i \in 0 .. n
             PROVE  /\ b + i \in 1 .. Len(r) /\ a + i \in 1 .. Len(active)
                    /\ Sums(g, r)[b + i] \in Nat /\ Behind(a + i) \in Nat
                    /\ Sums(g, r)[b] \in Nat /\ Behind(a) \in Nat
                    /\ Sums(g, r)[b + i] = Sums(g, r)[b] + (Behind(a + i) - Behind(a))
  BY DEF Moved
<1>7. b + i \in 1 .. lr /\ a + i \in 1 .. la
  BY <1>4
<1>8. /\ Sums(g, r)[b + i] \in Nat /\ Sums(g, r)[b] \in Nat
      /\ Behind(a + i) \in Nat /\ Behind(a) \in Nat
  BY <1>4, <1>5, <1>6, <1>7
<1>9. Sums(g, r)[b + i] - Sums(g, r)[b] = Behind(a + i) - Behind(a)
  BY <1>2 DEF Behind, SumAlike
<1>10. Sums(g, r)[b + i] = Sums(g, r)[b] + (Behind(a + i) - Behind(a))
  <2>1. PICK x \in Nat, y \in Nat, z \in Nat, w \in Nat :
          /\ x = Sums(g, r)[b + i] /\ y = Sums(g, r)[b]
          /\ z = Behind(a + i) /\ w = Behind(a)
    BY <1>8
  <2>2. x - y = z - w
    BY <1>9, <2>1
  <2>3. x = y + (z - w)
    BY <2>2
  <2> QED
    BY <2>1, <2>3
<1> QED
  BY <1>3, <1>7, <1>8, <1>10

LEMMA NotCollapsed ==
  ASSUME TimerInv, active # <<>>
  PROVE  CounterCollapsed = FALSE
<1>1. TypeOK /\ CounterInv
  BY InvIs
<1>2. time[Head(active)] \in Nat /\ value \in Nat /\ elapsed \in Nat
  BY <1>1, BehindIs DEF TypeOK
<1>3. value > 0 => value + elapsed <= HeadLoad
  BY <1>1 DEF CounterInv
<1>4. value <= time[Head(active)] \/ value <= 1
  BY <1>2, <1>3 DEF HeadLoad
<1> QED
  BY <1>4 DEF CounterCollapsed, Delta

\* After the hardware is set up for the new head.
LEMMA Loads ==
  ASSUME TypeOK', active' # <<>>, NEW n \in Nat, time'[Head(active')] = n, Load(n),
         \A k \in 1 .. Len(active') :
           /\ left'[active'[k]] <= (IF n > 1 THEN n ELSE 1) + Sums(time', active')[k]
           /\ due'[active'[k]] >= Less(n + Sums(time', active')[k], 1)
  PROVE  CounterInv' /\ WaitInv'
<1>1. on' = TRUE /\ value' = (IF n > 1 THEN n - 1 ELSE 1) /\ elapsed' = 0
  BY DEF Load, Delta
<1>2. PICK H \in Nat \ {0} : H = HeadLoad' /\ H = IF n > 1 THEN n ELSE 1
  <2>1. HeadLoad' = IF n > 1 THEN n ELSE 1
    BY DEF HeadLoad
  <2> QED
    BY <2>1
<1>3. CounterInv'
  <2>1. PICK w \in Nat \ {0} : w = value' /\ w + 0 + 1 >= n /\ w + 0 <= H
    <3>1. CASE n > 1
      BY <1>1, <1>2, <3>1
    <3>2. CASE ~(n > 1)
      BY <1>1, <1>2, <3>2
    <3> QED
      BY <3>1, <3>2
  <2>2. value' + elapsed' + 1 >= n /\ value' + elapsed' <= HeadLoad' /\ value' # 0
    BY <1>1, <1>2, <2>1
  <2> QED
    BY <1>1, <2>2 DEF CounterInv, Delta
<1>4. ASSUME NEW k \in 1 .. Len(active')
      PROVE  /\ left'[active'[k]] <= Less(H + Sums(time', active')[k], 0)
             /\ due'[active'[k]] + 0 >= Less(n + Sums(time', active')[k], 1)
  <2>1. PICK s \in Nat : s = Sums(time', active')[k]
    <3>1. time' \in [Timers -> Nat] /\ active' \in Seq(Timers) /\ k \in 0 .. Len(active')
      BY DEF TypeOK
    <3>2. Sums(time', active')[k] \in Nat
      BY <3>1, SumsType
    <3> QED
      BY <3>2
  <2>2. PICK u \in Timers : u = active'[k]
    BY ElementOfSeq DEF TypeOK
  <2>3. left'[u] \in Nat /\ due'[u] \in Int
    BY DEF TypeOK
  <2>4. left'[u] <= H + s /\ due'[u] >= Less(n + s, 1)
    BY <1>2, <2>1, <2>2
  <2>5. Less(H + s, 0) = H + s
    BY DEF Less
  <2>6. due'[u] + 0 = due'[u]
    BY <2>3
  <2> QED
    BY <2>1, <2>2, <2>4, <2>5, <2>6
<1>5. WaitInv'
  <2>1. DOMAIN active' = 1 .. Len(active')
    BY DEF TypeOK
  <2>2. \A k : Behind(k)' = Sums(time', active')[k]
    BY DEF Behind
  <2> QED
    BY <1>1, <1>2, <1>4, <2>1, <2>2 DEF WaitInv, Delta
<1> QED
  BY <1>3, <1>5

LEMMA Assembled ==
  ASSUME TypeOK', Holds(active', ActiveTimers'), Holds(fired', FiredTimers'),
         \A u \in Timers : st'[u] = "CALLBACK" => pc' = "callback" /\ cur' = u,
         collapsed' = FALSE, HandlerInv', CounterInv' /\ WaitInv'
  PROVE  TimerInv'
BY ListsHoldNext DEF TimerInv, NeverCollapses

\* What every start does.
LEMMA Started ==
  ASSUME TimerInv, NEW t \in Timers, NEW ticks \in Nat, Start(t, ticks)
  PROVE  /\ st' \in [Timers -> States]
         /\ UNCHANGED <<fired, pc, cur, late>>
         /\ Holds(fired', FiredTimers') /\ HandlerInv'
         /\ \A u \in Timers : st'[u] = "CALLBACK" => pc' = "callback" /\ cur' = u
         /\ t \notin ActiveTimers /\ ActiveTimers' = ActiveTimers \cup {t}
         /\ \A k \in 1 .. Len(active) : active[k] \in Timers /\ active[k] # t
         /\ due' \in [Timers -> Int]
         /\ \A u \in Timers : due'[u] = IF u = t THEN ticks ELSE due[u]
<1>0. /\ TypeOK /\ Holds(active, ActiveTimers) /\ Holds(fired, FiredTimers)
      /\ \A u \in Timers : st[u] = "CALLBACK" => pc = "callback" /\ cur = u
      /\ HandlerInv
      /\ \A i \in 1 .. Len(active) : st[active[i]] = "ACTIVE"
  BY InvIs
<1>1. /\ st[t] \in {"ALLOC", "CALLBACK"} /\ st' = [st EXCEPT ![t] = "ACTIVE"]
      /\ due' = [due EXCEPT ![t] = ticks] /\ UNCHANGED <<fired, pc, cur, late>>
  BY DEF Start, handler
<1>2. \A u \in Timers : st'[u] = IF u = t THEN "ACTIVE" ELSE st[u]
  BY <1>0, <1>1 DEF TypeOK
<1>3. st' \in [Timers -> States]
  BY <1>0, <1>1 DEF TypeOK, States
<1>4. /\ t \notin ActiveTimers /\ ActiveTimers' = ActiveTimers \cup {t}
      /\ FiredTimers' = FiredTimers
  BY <1>1, <1>2 DEF ActiveTimers, FiredTimers
<1>5. HandlerInv'
  BY <1>0, <1>1 DEF HandlerInv
<1>6. \A u \in Timers : st'[u] = "CALLBACK" => pc' = "callback" /\ cur' = u
  BY <1>0, <1>1, <1>2
<1>7. \A k \in 1 .. Len(active) : active[k] \in Timers /\ active[k] # t
  BY <1>0, <1>1, BehindIs
<1>8. /\ due' \in [Timers -> Int]
      /\ \A u \in Timers : due'[u] = IF u = t THEN ticks ELSE due[u]
  BY <1>0, <1>1 DEF TypeOK
<1> QED
  BY <1>0, <1>1, <1>3, <1>4, <1>5, <1>6, <1>7, <1>8

LEMMA StartFirstStep ==
  ASSUME TimerInv, NEW t \in Timers, NEW ticks \in Nat \ {0},
         Start(t, ticks), StartFirst(t, ticks)
  PROVE  TimerInv'
<1>0. TypeOK /\ collapsed = FALSE /\ CounterInv /\ Holds(active, ActiveTimers)
  BY InvIs
<1>1. /\ st' \in [Timers -> States]
      /\ UNCHANGED <<fired, pc, cur, late>>
      /\ Holds(fired', FiredTimers') /\ HandlerInv'
      /\ \A u \in Timers : st'[u] = "CALLBACK" => pc' = "callback" /\ cur' = u
      /\ t \notin ActiveTimers /\ ActiveTimers' = ActiveTimers \cup {t}
      /\ due' \in [Timers -> Int]
      /\ \A u \in Timers : due'[u] = IF u = t THEN ticks ELSE due[u]
  BY Started
<1>2. /\ active = <<>> /\ active' = <<t>>
      /\ time' = [time EXCEPT ![t] = ticks] /\ left' = [left EXCEPT ![t] = ticks]
      /\ Load(ticks) /\ irq' = irq /\ collapsed' = collapsed
  BY DEF StartFirst, HwStart
<1>3. on' = TRUE /\ value' \in Nat /\ elapsed' \in Nat
  BY <1>2 DEF Load, Delta
<1>4. TypeOK'
  BY <1>0, <1>1, <1>2, <1>3 DEF TypeOK, States
<1>5. Holds(active', ActiveTimers')
  <2>1. ActiveTimers = {}
    <3>1. Len(active) = 0
      BY <1>2
    <3> QED
      BY <1>0, <3>1 DEF Holds
  <2>2. /\ active' \in Seq(Timers) /\ Len(active') = 1 /\ active'[1] = t
    BY <1>2
  <2> QED
    BY <1>1, <2>1, <2>2 DEF Holds
<1>6. CounterInv' /\ WaitInv'
  <2>1. active' # <<>> /\ Head(active') = t /\ Len(active') = 1 /\ active'[1] = t
    BY <1>2
  <2>2. time'[t] = ticks /\ left'[t] = ticks /\ due'[t] = ticks
    BY <1>0, <1>1, <1>2 DEF TypeOK
  <2>3. Sums(time', active')[1] = 0
    BY SumsIs
  <2>4. /\ ticks <= (IF ticks > 1 THEN ticks ELSE 1) + 0
        /\ ticks >= Less(ticks + 0, 1)
    BY DEF Less
  <2>5. ASSUME NEW k \in 1 .. Len(active')
        PROVE  /\ left'[active'[k]] <= (IF ticks > 1 THEN ticks ELSE 1) + Sums(time', active')[k]
               /\ due'[active'[k]] >= Less(ticks + Sums(time', active')[k], 1)
    <3>1. k = 1
      BY <2>1
    <3> QED
      BY <2>1, <2>2, <2>3, <2>4, <3>1
  <2>6. time'[Head(active')] = ticks
    BY <2>1, <2>2
  <2> QED
    BY <1>2, <1>4, <2>1, <2>5, <2>6, Loads
<1> QED
  BY <1>0, <1>1, <1>2, <1>4, <1>5, <1>6, Assembled

LEMMA StartInFrontStep ==
  ASSUME TimerInv, NEW t \in Timers, NEW ticks \in Nat \ {0},
         Start(t, ticks), StartInFront(t, ticks)
  PROVE  TimerInv'
<1>0. TypeOK /\ collapsed = FALSE /\ Holds(active, ActiveTimers) /\ active # <<>>
  BY InvIs DEF StartInFront
<1>1. /\ st' \in [Timers -> States]
      /\ UNCHANGED <<fired, pc, cur, late>>
      /\ Holds(fired', FiredTimers') /\ HandlerInv'
      /\ \A u \in Timers : st'[u] = "CALLBACK" => pc' = "callback" /\ cur' = u
      /\ t \notin ActiveTimers /\ ActiveTimers' = ActiveTimers \cup {t}
      /\ \A k \in 1 .. Len(active) : active[k] \in Timers /\ active[k] # t
      /\ due' \in [Timers -> Int]
      /\ \A u \in Timers : due'[u] = IF u = t THEN ticks ELSE due[u]
  BY Started
<1>2. PICK H \in Nat \ {0}, T \in Nat, v \in Nat, e \in Nat, l \in Nat, B \in Nat :
        /\ H = HeadLoad /\ T = time[Head(active)] /\ H = IF T > 1 THEN T ELSE 1
        /\ v = value /\ e = elapsed /\ l = late /\ B = Before
        /\ v + e + 1 >= T
        /\ v > 0 => v + e <= H
        /\ v = 0 => (irq \/ pc = "entered") /\ e <= H + l + B
        /\ on
        /\ \A k \in 1 .. Len(active) :
             /\ left[active[k]] <= Less(H + Behind(k), e)
             /\ due[active[k]] + e >= Less(T + Behind(k), 1)
  BY <1>0, Numbers
<1>3. PICK n \in Nat \ {0}, h \in Timers :
        n = Len(active) /\ h = Head(active) /\ h = active[1] /\ h # t
  <2>1. /\ Len(active) \in Nat /\ 1 \in 1 .. Len(active)
        /\ Head(active) = active[1] /\ Head(active) \in Timers
    BY <1>0, BehindIs
  <2>2. Len(active) \in Nat \ {0} /\ Head(active) # t
    BY <1>1, <2>1
  <2> QED
    BY <2>1, <2>2
<1>4. /\ v > ticks /\ v + e <= H /\ active' = <<t>> \o active
      /\ time' = [time EXCEPT ![h] = v - ticks, ![t] = ticks]
      /\ left' = [u \in Timers |-> IF u = t THEN ticks ELSE Less(left[u], 1)]
      /\ Load(ticks) /\ irq' = FALSE
      /\ collapsed' = (collapsed \/ CounterCollapsed)
  BY <1>2, <1>3 DEF StartInFront, HwRestart
<1>5. collapsed' = FALSE
  BY <1>0, <1>4, NotCollapsed
<1>6. /\ active' \in Seq(Timers) /\ Len(active') = n + 1 /\ active'[1] = t /\ Head(active') = t
      /\ active' # <<>>
      /\ \A k \in 1 .. n : active'[k + 1] = active[k]
  <2>1. /\ <<t>> \in Seq(Timers) /\ Len(<<t>>) = 1 /\ <<t>>[1] = t
    OBVIOUS
  <2>2. /\ <<t>> \o active \in Seq(Timers) /\ Len(<<t>> \o active) = 1 + n
        /\ \A k \in 1 .. 1 + n :
             (<<t>> \o active)[k] = IF k <= 1 THEN <<t>>[k] ELSE active[k - 1]
    <3>1. active \in Seq(Timers)
      BY <1>0 DEF TypeOK
    <3>2. /\ <<t>> \o active \in Seq(Timers)
          /\ Len(<<t>> \o active) = Len(<<t>>) + Len(active)
          /\ \A k \in 1 .. Len(<<t>>) + Len(active) :
               (<<t>> \o active)[k] =
                 IF k <= Len(<<t>>) THEN <<t>>[k] ELSE active[k - Len(<<t>>)]
      BY <2>1, <3>1, ConcatProperties
    <3> QED
      BY <1>3, <2>1, <3>2
  <2>3. active'[1] = t
    BY <1>4, <2>1, <2>2
  <2>4. \A k \in 1 .. n : k + 1 \in 1 .. 1 + n /\ ~(k + 1 <= 1) /\ (k + 1) - 1 = k
    OBVIOUS
  <2>5. \A k \in 1 .. n : active'[k + 1] = active[k]
    BY <1>4, <2>2, <2>4
  <2>6. active' \in Seq(Timers) /\ Len(active') = n + 1
    BY <1>4, <2>2
  <2>7. active' # <<>> /\ Head(active') = active'[1]
    BY <2>6
  <2> QED
    BY <2>3, <2>5, <2>6, <2>7
<1>7. Holds(active', ActiveTimers')
  <2>1. active' = InsertAt(active, 1, t)
    <3>1. active \in Seq(Timers)
      BY <1>0 DEF TypeOK
    <3>2. PICK i \in 1 .. Len(active) + 1 : i = 1
      BY <1>3
    <3>5. /\ InsertAt(active, i, t) \in Seq(Timers) /\ Len(InsertAt(active, i, t)) = Len(active) + 1
          /\ \A j \in 1 .. Len(active) + 1 :
               InsertAt(active, i, t)[j] = IF j < i THEN active[j] ELSE IF j = i THEN t ELSE active[j - 1]
      BY <3>1, Inserted
    <3>3. /\ InsertAt(active, 1, t) \in Seq(Timers) /\ Len(InsertAt(active, 1, t)) = Len(active) + 1
          /\ \A j \in 1 .. Len(active) + 1 :
               InsertAt(active, 1, t)[j] = IF j < 1 THEN active[j] ELSE IF j = 1 THEN t ELSE active[j - 1]
      BY <3>2, <3>5
    <3>4. ASSUME NEW j \in 1 .. n + 1 PROVE active'[j] = InsertAt(active, 1, t)[j]
      <4>1. CASE j = 1
        BY <1>3, <1>6, <3>3, <4>1
      <4>2. CASE j # 1
        <5>1. j - 1 \in 1 .. n /\ (j - 1) + 1 = j /\ ~(j < 1)
          BY <4>2
        <5>2. active'[j] = active[j - 1]
          BY <1>6, <5>1
        <5> QED
          BY <1>3, <3>3, <4>2, <5>1, <5>2
      <4> QED
        BY <4>1, <4>2
    <3> QED
      BY <1>3, <1>6, <3>3, <3>4, SeqEqual
  <2>2. Holds(InsertAt(active, 1, t), ActiveTimers \cup {t})
    <3>1. 1 \in 1 .. Len(active) + 1 /\ t \in Timers \ ActiveTimers
      BY <1>1, <1>3
    <3> QED
      BY <1>0, <3>1, HoldsInserted
  <2> QED
    BY <1>1, <2>1, <2>2
<1>8. /\ time' \in [Timers -> Nat] /\ time'[h] = v - ticks /\ time'[t] = ticks
      /\ \A u \in Timers : u # h /\ u # t => time'[u] = time[u]
  <2>1. v - ticks \in Nat /\ time \in [Timers -> Nat]
    BY <1>0, <1>4 DEF TypeOK
  <2> QED
    BY <1>3, <1>4, <2>1
<1>9. /\ left' \in [Timers -> Nat]
      /\ \A u \in Timers : left'[u] = IF u = t THEN ticks ELSE Less(left[u], 1)
  <2>1. \A u \in Timers : Less(left[u], 1) \in Nat
    BY <1>0, LessIs DEF TypeOK
  <2> QED
    BY <1>4, <2>1
<1>10. TypeOK'
  <2>1. on' = TRUE /\ value' \in Nat /\ elapsed' \in Nat
    BY <1>4 DEF Load, Delta
  <2> QED
    BY <1>0, <1>1, <1>4, <1>5, <1>6, <1>8, <1>9, <2>1 DEF TypeOK, States
\* Everything that was in the list is as far behind the new head as the counter
\* and its predecessors say.
<1>11. /\ Sums(time', active')[1] = 0
       /\ \A k \in 1 .. n : Sums(time', active')[k + 1] = (v - ticks) + Behind(k)
  <2> DEFINE S == Sums(time', active')
  <2>1. S[1] = 0 /\ S[2] = 0 + (v - ticks)
    <3>1. S[1] = 0 /\ S[2] = S[2 - 1] + time'[active'[2]]
      BY SumsIs
    <3>2. 1 \in 1 .. n /\ active'[1 + 1] = active[1]
      BY <1>6
    <3>3. active'[2] = h
      BY <1>3, <3>2
    <3> QED
      BY <1>8, <3>1, <3>3
  <2>2. Alike(time, active, 1, time', active', 2, n - 1)
    <3>1. 1 + (n - 1) <= Len(active) /\ 2 + (n - 1) <= Len(active')
      BY <1>3, <1>6
    <3>2. ASSUME NEW i \in 1 .. n - 1 PROVE time'[active'[2 + i]] = time[active[1 + i]]
      <4>1. 1 + i \in 1 .. n /\ (1 + i) + 1 = 2 + i /\ 1 + i # 1
        OBVIOUS
      <4>2. active'[2 + i] = active[1 + i]
        BY <1>6, <4>1
      <4>3. active[1 + i] # h
        BY <1>0, <1>3, <4>1 DEF Holds
      <4>4. active[1 + i] \in Timers /\ active[1 + i] # t
        BY <1>1, <1>3, <4>1
      <4> QED
        BY <1>8, <4>2, <4>3, <4>4
    <3> QED
      BY <3>1, <3>2 DEF Alike
  <2>3. \A i \in 0 .. n - 1 : S[2 + i] = S[2] + (Behind(1 + i) - Behind(1))
    <3>1. 1 \in 1 .. Len(active) /\ 2 \in 1 .. Len(active') /\ n - 1 \in Nat
      BY <1>3, <1>6
    <3>2. Moved(time', active', 1, 2, n - 1)
      BY <1>0, <1>6, <1>8, <2>2, <3>1, Shifted
    <3> QED
      BY <3>2 DEF Moved
  <2>4. Behind(1) = 0
    BY <1>0, BehindIs
  <2>5. \A k \in 1 .. n + 1 : S[k] \in Nat
    <3>1. \A k \in 0 .. Len(active') : S[k] \in Nat
      BY <1>6, <1>8, SumsType
    <3> QED
      BY <1>6, <3>1
  <2>6. \A k \in 1 .. n : Behind(k) \in Nat
    BY <1>0, <1>3, BehindIs
  <2> HIDE DEF S
  <2>7. ASSUME NEW k \in 1 .. n PROVE S[k + 1] = (v - ticks) + Behind(k)
    <3>1. k - 1 \in 0 .. n - 1 /\ 2 + (k - 1) = k + 1 /\ 1 + (k - 1) = k /\ k + 1 \in 1 .. n + 1
      OBVIOUS
    <3>2. S[k + 1] = S[2] + (Behind(k) - 0)
      BY <2>3, <2>4, <3>1
    <3>3. S[k + 1] \in Nat /\ Behind(k) \in Nat
      BY <2>5, <2>6, <3>1
    <3> QED
      BY <1>4, <2>1, <3>2, <3>3
  <2> QED
    BY <2>1, <2>7 DEF S
<1>12. ASSUME NEW k \in 1 .. Len(active')
       PROVE  /\ left'[active'[k]] <= (IF ticks > 1 THEN ticks ELSE 1) + Sums(time', active')[k]
              /\ due'[active'[k]] >= Less(ticks + Sums(time', active')[k], 1)
  <2>1. CASE k = 1
    <3>1. left'[t] = ticks /\ due'[t] = ticks
      BY <1>1, <1>9
    <3>2. ticks <= (IF ticks > 1 THEN ticks ELSE 1) + 0 /\ ticks >= Less(ticks + 0, 1)
      BY DEF Less
    <3> QED
      BY <1>6, <1>11, <2>1, <3>1, <3>2
  <2>2. CASE k # 1
    <3>1. PICK i \in 1 .. n : k = i + 1
      <4>1. k - 1 \in 1 .. n /\ k = (k - 1) + 1
        BY <1>6, <2>2
      <4> QED
        BY <4>1
    <3>2. PICK b \in Nat, u \in Timers : b = Behind(i) /\ u = active[i] /\ u # t
      BY <1>0, <1>1, <1>3, BehindIs
    <3>3. PICK m \in Nat, d \in Int : m = left[u] /\ d = due[u]
      BY <1>0 DEF TypeOK
    <3>4. m <= Less(H + b, e) /\ d + e >= Less(T + b, 1)
      BY <1>2, <1>3, <3>2, <3>3
    <3>5. /\ active'[k] = u /\ left'[u] = Less(m, 1) /\ due'[u] = d
          /\ Sums(time', active')[k] = (v - ticks) + b
      BY <1>1, <1>6, <1>9, <1>11, <3>1, <3>2, <3>3
    <3>6. Less(m, 1) <= (IF ticks > 1 THEN ticks ELSE 1) + ((v - ticks) + b)
      <4>1. m <= v + b + 1
        BY SMTT(30), <1>2, <1>4, <3>4 DEF Less
      <4>2. Less(m, 1) <= v + b
        BY <4>1 DEF Less
      <4>3. (IF ticks > 1 THEN ticks ELSE 1) = ticks
        OBVIOUS
      <4>4. ticks + ((v - ticks) + b) = v + b
        OBVIOUS
      <4> QED
        BY <4>2, <4>3, <4>4
    <3>7. d >= Less(ticks + ((v - ticks) + b), 1)
      <4>1. ticks + ((v - ticks) + b) = v + b /\ Less(v + b, 1) = v + b - 1
        BY <1>4 DEF Less
      <4>2. T > 1 /\ T = H /\ Less(T + b, 1) = T + b - 1
        <5>1. H > 1 /\ H = IF T > 1 THEN T ELSE 1
          BY <1>2, <1>4
        <5> QED
          BY <5>1 DEF Less
      <4>3. d >= v + b - 1
        BY <1>4, <3>4, <4>2
      <4> QED
        BY <4>1, <4>3
    <3> QED
      BY <3>5, <3>6, <3>7
  <2> QED
    BY <2>1, <2>2
<1>13. CounterInv' /\ WaitInv'
  <2>1. time'[Head(active')] = ticks
    BY <1>6, <1>8
  <2> QED
    BY <1>4, <1>6, <1>10, <1>12, <2>1, Loads
<1> QED
  BY <1>1, <1>5, <1>7, <1>10, <1>13, Assembled

\* Those that are due within x behind the head are a first part of the list.
LEMMA FirstDue ==
  ASSUME TypeOK, active # <<>>, NEW x \in Nat, NEW p,
         p = 1 + Cardinality({j \in 2 .. Len(active) : Behind(j) < x})
  PROVE  /\ p \in 1 .. Len(active)
         /\ \A j \in 2 .. p : Behind(j) < x
         /\ \A j \in p + 1 .. Len(active) : Behind(j) >= x
<1> DEFINE S == {j \in 2 .. Len(active) : Behind(j) < x}
<1>1. PICK n \in Nat \ {0} : n = Len(active)
  <2>1. Len(active) \in Nat /\ 1 \in 1 .. Len(active)
    BY BehindIs
  <2>2. Len(active) \in Nat \ {0}
    BY <2>1
  <2> QED
    BY <2>2
<1>2. \A j \in 0 .. n : Behind(j) \in Nat
  BY <1>1, BehindIs
<1>3. ASSUME NEW j \in S, NEW i \in 2 .. j PROVE i \in S
  <2>1. j \in 0 .. Len(active) /\ i \in 0 .. j /\ i \in 2 .. Len(active)
    BY <1>1
  <2>2. Behind(i) <= Behind(j)
    <3>1. time \in [Timers -> Nat] /\ active \in Seq(Timers)
      BY DEF TypeOK
    <3>2. Sums(time, active)[i] <= Sums(time, active)[j]
      BY <2>1, <3>1, SumsGrow
    <3> QED
      BY <3>2 DEF Behind
  <2>3. Behind(i) \in Nat /\ Behind(j) \in Nat /\ Behind(j) < x
    BY <1>1, <1>2, <2>1
  <2> QED
    BY <2>1, <2>2, <2>3
<1>4. 1 + Cardinality(S) \in 1 .. n /\ S = 2 .. 1 + Cardinality(S)
  <2>1. S \subseteq 2 .. n
    BY <1>1
  <2>2. \A j \in S : \A i \in 2 .. j : i \in S
    BY <1>3
  <2> HIDE DEF S
  <2> QED
    BY <2>1, <2>2, FirstPart
<1>5. p \in 1 .. n /\ S = 2 .. p
  BY <1>4
<1>6. ASSUME NEW j \in p + 1 .. n PROVE Behind(j) >= x
  <2>1. j \in 2 .. n /\ j \notin 2 .. p /\ j \in 0 .. n
    BY <1>1, <1>5
  <2>2. ~(Behind(j) < x)
    BY <1>1, <1>5, <2>1
  <2> QED
    BY <1>2, <2>1, <2>2
<1> QED
  BY <1>1, <1>5, <1>6

LEMMA StartBehindStep ==
  ASSUME TimerInv, NEW t \in Timers, NEW ticks \in Nat \ {0},
         Start(t, ticks), StartBehind(t, ticks)
  PROVE  TimerInv'
<1>0. TypeOK /\ collapsed = FALSE /\ Holds(active, ActiveTimers) /\ active # <<>>
  BY InvIs DEF StartBehind
<1>1. /\ st' \in [Timers -> States]
      /\ UNCHANGED <<fired, pc, cur, late>>
      /\ Holds(fired', FiredTimers') /\ HandlerInv'
      /\ \A u \in Timers : st'[u] = "CALLBACK" => pc' = "callback" /\ cur' = u
      /\ t \notin ActiveTimers /\ ActiveTimers' = ActiveTimers \cup {t}
      /\ \A k \in 1 .. Len(active) : active[k] \in Timers /\ active[k] # t
      /\ due' \in [Timers -> Int]
      /\ \A u \in Timers : due'[u] = IF u = t THEN ticks ELSE due[u]
  BY Started
<1>2. PICK H \in Nat \ {0}, T \in Nat, v \in Nat, e \in Nat, l \in Nat, B \in Nat :
        /\ H = HeadLoad /\ T = time[Head(active)] /\ H = IF T > 1 THEN T ELSE 1
        /\ v = value /\ e = elapsed /\ l = late /\ B = Before
        /\ v + e + 1 >= T
        /\ v > 0 => v + e <= H
        /\ v = 0 => (irq \/ pc = "entered") /\ e <= H + l + B
        /\ on
        /\ \A k \in 1 .. Len(active) :
             /\ left[active[k]] <= Less(H + Behind(k), e)
             /\ due[active[k]] + e >= Less(T + Behind(k), 1)
  BY <1>0, Numbers
<1>3. PICK n \in Nat \ {0}, h \in Timers :
        n = Len(active) /\ h = Head(active) /\ h = active[1] /\ h # t
  <2>1. /\ Len(active) \in Nat /\ 1 \in 1 .. Len(active)
        /\ Head(active) = active[1] /\ Head(active) \in Timers
    BY <1>0, BehindIs
  <2>2. Len(active) \in Nat \ {0} /\ Head(active) # t
    BY <1>1, <2>1
  <2> QED
    BY <2>1, <2>2
<1>4. PICK rest, p, diff :
        /\ rest = ticks - value
        /\ p = 1 + Cardinality({j \in 2 .. Len(active) : Behind(j) < rest})
        /\ diff = rest - Behind(p)
        /\ value <= ticks /\ active' = InsertAt(active, p + 1, t)
        /\ time' = [Split(time, p + 1, diff) EXCEPT ![t] = diff]
        /\ left' = [left EXCEPT ![t] = Less(ticks, Overdue)]
        /\ collapsed' = (collapsed \/ CounterCollapsed)
        /\ UNCHANGED <<on, value, elapsed, irq>>
  BY DEF StartBehind, hw
<1>5. collapsed' = FALSE
  BY <1>0, <1>4, NotCollapsed
<1>6. rest \in Nat /\ rest = ticks - v /\ v <= ticks
  BY <1>2, <1>4
<1>7. /\ p \in 1 .. n
      /\ \A j \in 2 .. p : Behind(j) < rest
      /\ \A j \in p + 1 .. n : Behind(j) >= rest
  BY <1>0, <1>3, <1>4, <1>6, FirstDue
<1>8. /\ \A j \in 1 .. n : Behind(j) \in Nat
      /\ Behind(1) = 0
      /\ \A j \in 2 .. n : Behind(j) = Behind(j - 1) + time[active[j]]
      /\ \A j \in 1 .. n : active[j] \in Timers /\ time[active[j]] \in Nat
      /\ \A i, j \in 1 .. n : active[i] = active[j] => i = j
  <2>1. \A j \in 1 .. n : Behind(j) \in Nat
    BY <1>0, <1>3, BehindIs
  <2>2. Behind(1) = 0 /\ \A j \in 2 .. n : Behind(j) = Behind(j - 1) + time[active[j]]
    BY <1>0, <1>3, BehindIs
  <2>3. \A j \in 1 .. n : active[j] \in Timers /\ time[active[j]] \in Nat
    BY <1>0, <1>3, BehindIs
  <2> QED
    BY <1>0, <1>3, <2>1, <2>2, <2>3 DEF Holds
<1>9. PICK q \in Nat : q = Behind(p) /\ q <= rest /\ diff = rest - q
  <2>0. diff = rest - Behind(p)
    BY <1>4
  <2>1. CASE p = 1
    <3>1. Behind(p) = 0
      BY <1>8, <2>1
    <3> QED
      BY <1>6, <2>0, <3>1
  <2>2. CASE p # 1
    <3>1. p \in 2 .. p /\ p \in 1 .. n
      BY <1>7, <2>2
    <3>2. Behind(p) < rest /\ Behind(p) \in Nat
      BY <1>7, <1>8, <3>1
    <3> QED
      BY <1>6, <2>0, <3>2
  <2> QED
    BY <2>1, <2>2
<1>10. ASSUME p < n
       PROVE  \E z \in Nat : /\ z = time[active[p + 1]] /\ z >= diff
                             /\ Behind(p + 1) = q + z /\ p + 1 \in 1 .. n
                             /\ active[p + 1] \in Timers
  <2>1. p + 1 \in 1 .. n /\ p + 1 \in 2 .. n /\ p + 1 \in p + 1 .. n /\ (p + 1) - 1 = p
    BY <1>7, <1>10
  <2>2. PICK z \in Nat : z = time[active[p + 1]]
    BY <1>8, <2>1
  <2>3. Behind(p + 1) = q + z /\ Behind(p + 1) >= rest
    BY <1>7, <1>8, <1>9, <2>1, <2>2
  <2>4. z >= diff
    BY <1>6, <1>9, <2>3
  <2> QED
    BY <1>8, <2>1, <2>2, <2>3, <2>4
<1>11. /\ time' \in [Timers -> Nat] /\ time'[t] = diff /\ diff \in Nat
       /\ p < n => time'[active[p + 1]] = time[active[p + 1]] - diff
       /\ \A j \in 1 .. n : j # p + 1 => time'[active[j]] = time[active[j]]
  <2>0. time \in [Timers -> Nat] /\ diff \in Nat
    <3>1. diff \in Nat
      BY <1>6, <1>9
    <3> QED
      BY <1>0, <3>1 DEF TypeOK
  <2>1. CASE p < n
    <3>1. PICK z \in Nat : z = time[active[p + 1]] /\ z >= diff /\ p + 1 \in 1 .. n
      BY <1>10, <2>1
    <3>2. time' = [[time EXCEPT ![active[p + 1]] = z - diff] EXCEPT ![t] = diff]
      <4>1. ~(p + 1 > Len(active))
        BY <1>3, <1>7, <2>1
      <4> QED
        BY <1>4, <3>1, <4>1 DEF Split
    <3>3. z - diff \in Nat /\ active[p + 1] \in Timers /\ active[p + 1] # t
      BY <1>1, <1>3, <2>0, <3>1
    <3>4. time' \in [Timers -> Nat] /\ time'[t] = diff
      BY <2>0, <3>2, <3>3
    <3>5. \A u \in Timers : time'[u] = IF u = t THEN diff ELSE IF u = active[p + 1] THEN z - diff ELSE time[u]
      BY <2>0, <3>2, <3>3
    <3>6. \A j \in 1 .. n : j # p + 1 => time'[active[j]] = time[active[j]]
      BY <1>1, <1>3, <1>8, <3>1, <3>5
    <3> QED
      BY <2>0, <3>1, <3>3, <3>4, <3>5, <3>6
  <2>2. CASE ~(p < n)
    <3>1. time' = [time EXCEPT ![t] = diff]
      <4>1. p + 1 > Len(active)
        BY <1>3, <1>7, <2>2
      <4> QED
        BY <1>4, <4>1 DEF Split
    <3>2. \A u \in Timers : time'[u] = IF u = t THEN diff ELSE time[u]
      BY <2>0, <3>1
    <3> QED
      BY <1>1, <1>3, <2>0, <2>2, <3>1, <3>2
  <2> QED
    BY <2>1, <2>2
<1>12. /\ active' \in Seq(Timers) /\ Len(active') = n + 1 /\ active' # <<>>
       /\ \A j \in 1 .. p : active'[j] = active[j]
       /\ active'[p + 1] = t
       /\ \A j \in p + 1 .. n : active'[j + 1] = active[j]
  <2>1. p + 1 \in 1 .. Len(active) + 1 /\ active \in Seq(Timers)
    BY <1>0, <1>3, <1>7 DEF TypeOK
  <2>2. /\ InsertAt(active, p + 1, t) \in Seq(Timers)
        /\ Len(InsertAt(active, p + 1, t)) = Len(active) + 1
        /\ \A j \in 1 .. Len(active) + 1 :
             InsertAt(active, p + 1, t)[j] =
               IF j < p + 1 THEN active[j] ELSE IF j = p + 1 THEN t ELSE active[j - 1]
    BY ZenonT(30), <2>1, Inserted
  <2>3. \A j \in 1 .. n + 1 :
          active'[j] = IF j < p + 1 THEN active[j] ELSE IF j = p + 1 THEN t ELSE active[j - 1]
    BY <1>3, <1>4, <2>2
  <2>4. ASSUME NEW j \in p + 1 .. n PROVE active'[j + 1] = active[j]
    <3>1. j + 1 \in 1 .. n + 1 /\ ~(j + 1 < p + 1) /\ j + 1 # p + 1 /\ (j + 1) - 1 = j
      BY <1>7
    <3> QED
      BY <2>3, <3>1
  <2>5. ASSUME NEW j \in 1 .. p PROVE active'[j] = active[j]
    <3>1. j \in 1 .. n + 1 /\ j < p + 1
      BY <1>7
    <3> QED
      BY <2>3, <3>1
  <2>6. active'[p + 1] = t
    <3>1. p + 1 \in 1 .. n + 1 /\ ~(p + 1 < p + 1)
      BY <1>7
    <3> QED
      BY <2>3, <3>1
  <2>7. active' \in Seq(Timers) /\ Len(active') = n + 1
    BY <1>3, <1>4, <2>2
  <2>8. active' # <<>>
    BY <2>7
  <2> QED
    BY <2>4, <2>5, <2>6, <2>7, <2>8
<1>13. Holds(active', ActiveTimers')
  <2>1. p + 1 \in 1 .. Len(active) + 1 /\ t \in Timers \ ActiveTimers
    BY <1>1, <1>3, <1>7
  <2>2. Holds(InsertAt(active, p + 1, t), ActiveTimers \cup {t})
    BY <1>0, <2>1, HoldsInserted
  <2> QED
    BY <1>1, <1>4, <2>2
<1>14. left' \in [Timers -> Nat] /\ \A u \in Timers : left'[u] = IF u = t THEN Less(ticks, Less(e, T)) ELSE left[u]
  <2>1. Overdue = Less(e, T)
    BY <1>0, <1>2 DEF Overdue
  <2>2. Less(ticks, Less(e, T)) \in Nat
    BY LessIs
  <2> QED
    BY <1>0, <1>4, <2>1, <2>2 DEF TypeOK
<1>15. TypeOK'
  BY <1>0, <1>1, <1>4, <1>5, <1>11, <1>12, <1>14 DEF TypeOK, States
<1>16. Head(active') = h /\ time'[h] = T /\ HeadLoad' = H
  <2>1. Head(active') = active'[1] /\ active'[1] = active[1]
    BY <1>7, <1>12
  <2>2. 1 \in 1 .. n /\ 1 # p + 1
    BY <1>7
  <2>3. time'[h] = T
    BY <1>2, <1>3, <1>11, <2>2
  <2>4. HeadLoad' = H
    BY <1>2, <1>3, <2>1, <2>3 DEF HeadLoad
  <2> QED
    BY <1>3, <2>1, <2>3, <2>4
\* The list up to the new timer, the new timer, and what is behind it.
<1>17. \A j \in 1 .. p : Sums(time', active')[j] = Behind(j)
  <2>1. Alike(time, active, 1, time', active', 1, p - 1)
    <3>1. 1 + (p - 1) <= Len(active) /\ 1 + (p - 1) <= Len(active')
      BY <1>3, <1>7, <1>12
    <3>2. ASSUME NEW i \in 1 .. p - 1 PROVE time'[active'[1 + i]] = time[active[1 + i]]
      <4>1. 1 + i \in 1 .. p /\ 1 + i \in 1 .. n /\ 1 + i # p + 1
        BY <1>7
      <4> QED
        BY <1>11, <1>12, <4>1
    <3> QED
      BY <3>1, <3>2 DEF Alike
  <2>2. Moved(time', active', 1, 1, p - 1)
    <3>1. 1 \in 1 .. Len(active) /\ 1 \in 1 .. Len(active') /\ p - 1 \in Nat
      BY <1>3, <1>7, <1>12
    <3> QED
      BY <1>0, <1>11, <1>12, <2>1, <3>1, Shifted
  <2>3. Sums(time', active')[1] = 0
    BY SumsIs
  <2>4. ASSUME NEW j \in 1 .. p PROVE Sums(time', active')[j] = Behind(j)
    <3>1. j - 1 \in 0 .. p - 1 /\ 1 + (j - 1) = j
      BY <1>7
    <3>2. Sums(time', active')[j] = 0 + (Behind(j) - 0) /\ Behind(j) \in Nat
      BY <1>8, <2>2, <2>3, <3>1 DEF Moved
    <3> QED
      BY <3>2
  <2> QED
    BY <2>4
<1>18. Sums(time', active')[p + 1] = rest
  <2>1. Sums(time', active')[p + 1] = Sums(time', active')[(p + 1) - 1] + time'[active'[p + 1]]
    <3>1. p + 1 \in Nat /\ ~(p + 1 < 2)
      BY <1>7
    <3> QED
      BY <3>1, SumsIs
  <2>2. (p + 1) - 1 = p /\ p \in 1 .. p
    BY <1>7
  <2>3. Sums(time', active')[p + 1] = q + diff
    BY <1>9, <1>11, <1>12, <1>17, <2>1, <2>2
  <2> QED
    BY <1>6, <1>9, <2>3
<1>19. \A j \in p + 1 .. n : Sums(time', active')[j + 1] = Behind(j)
  <2> SUFFICES ASSUME p < n PROVE \A j \in p + 1 .. n : Sums(time', active')[j + 1] = Behind(j)
    BY <1>7
  <2>1. PICK z \in Nat : /\ z = time[active[p + 1]] /\ z >= diff
                         /\ Behind(p + 1) = q + z /\ p + 1 \in 1 .. n
                         /\ active[p + 1] \in Timers
    BY <1>10
  <2>2. Sums(time', active')[p + 2] = q + z
    <3>1. p + 2 \in Nat /\ ~(p + 2 < 2) /\ (p + 2) - 1 = p + 1 /\ (p + 1) + 1 = p + 2 /\ p + 1 \in p + 1 .. n
      BY <1>7, <2>1
    <3>2. Sums(time', active')[p + 2] = Sums(time', active')[p + 1] + time'[active'[p + 2]]
      BY <3>1, SumsIs
    <3>3. time'[active'[p + 2]] = z - diff
      BY <1>11, <1>12, <2>1, <3>1
    <3>4. rest + (z - diff) = q + z
      BY <1>6, <1>9
    <3> QED
      BY <1>18, <3>2, <3>3, <3>4
  <2>3. Alike(time, active, p + 1, time', active', p + 2, n - (p + 1))
    <3>1. (p + 1) + (n - (p + 1)) <= Len(active) /\ (p + 2) + (n - (p + 1)) <= Len(active')
      BY <1>3, <1>7, <1>12
    <3>2. ASSUME NEW i \in 1 .. n - (p + 1)
          PROVE  time'[active'[(p + 2) + i]] = time[active[(p + 1) + i]]
      <4>1. /\ (p + 1) + i \in p + 1 .. n /\ (p + 1) + i \in 1 .. n /\ (p + 1) + i # p + 1
            /\ ((p + 1) + i) + 1 = (p + 2) + i
        BY <1>7
      <4>2. active'[(p + 2) + i] = active[(p + 1) + i]
        BY <1>12, <4>1
      <4> QED
        BY <1>11, <4>1, <4>2
    <3> QED
      BY <3>1, <3>2 DEF Alike
  <2>4. Moved(time', active', p + 1, p + 2, n - (p + 1))
    <3>1. p + 1 \in 1 .. Len(active) /\ p + 2 \in 1 .. Len(active') /\ n - (p + 1) \in Nat
      BY <1>3, <1>7, <1>12
    <3> QED
      BY <1>0, <1>11, <1>12, <2>3, <3>1, Shifted
  <2>5. ASSUME NEW j \in p + 1 .. n PROVE Sums(time', active')[j + 1] = Behind(j)
    <3>1. PICK i \in 0 .. n - (p + 1) : (p + 2) + i = j + 1 /\ (p + 1) + i = j
      <4>1. j - (p + 1) \in 0 .. n - (p + 1) /\ (p + 2) + (j - (p + 1)) = j + 1 /\ (p + 1) + (j - (p + 1)) = j
        BY <1>7
      <4> QED
        BY <4>1
    <3>2. PICK b \in Nat : b = Behind(j)
      <4>1. j \in 1 .. n
        BY <1>7
      <4> QED
        BY <1>8, <4>1
    <3>3. Sums(time', active')[j + 1] = (q + z) + (b - (q + z))
      BY <2>1, <2>2, <2>4, <3>1, <3>2 DEF Moved
    <3>4. (q + z) + (b - (q + z)) = b
      OBVIOUS
    <3> QED
      BY <3>2, <3>3, <3>4
  <2> QED
    BY <2>5
<1>20. ASSUME NEW k \in 1 .. n + 1
       PROVE  /\ left'[active'[k]] <= Less(H + Sums(time', active')[k], e)
              /\ due'[active'[k]] + e >= Less(T + Sums(time', active')[k], 1)
  <2>1. ASSUME NEW j \in 1 .. n, active'[k] = active[j], Sums(time', active')[k] = Behind(j)
        PROVE  /\ left'[active'[k]] <= Less(H + Sums(time', active')[k], e)
               /\ due'[active'[k]] + e >= Less(T + Sums(time', active')[k], 1)
    <3>1. left'[active[j]] = left[active[j]] /\ due'[active[j]] = due[active[j]]
      BY <1>1, <1>3, <1>14
    <3> QED
      BY <1>2, <1>3, <2>1, <3>1
  <2>2. CASE k <= p
    <3>1. k \in 1 .. p /\ k \in 1 .. n
      BY <1>7, <2>2
    <3> QED
      BY <1>12, <1>17, <2>1, <3>1
  <2>3. CASE k > p + 1
    <3>1. k - 1 \in p + 1 .. n /\ k - 1 \in 1 .. n /\ (k - 1) + 1 = k
      BY <1>7, <2>3
    <3>2. active'[k] = active[k - 1] /\ Sums(time', active')[k] = Behind(k - 1)
      BY <1>12, <1>19, <3>1
    <3> QED
      BY <2>1, <3>1, <3>2
  <2>4. CASE k = p + 1
    <3>1. left'[t] = Less(ticks, Less(e, T)) /\ due'[t] = ticks
      BY <1>1, <1>14
    <3>2. Less(ticks, Less(e, T)) <= Less(H + (ticks - v), e)
      BY SMTT(30), <1>2, <1>6 DEF Less
    <3>3. ticks + e >= Less(T + (ticks - v), 1)
      BY <1>2, <1>6 DEF Less
    <3> QED
      BY <1>6, <1>12, <1>18, <2>4, <3>1, <3>2, <3>3
  <2>5. k <= p \/ k = p + 1 \/ k > p + 1
    BY <1>7
  <2> QED
    BY <2>2, <2>3, <2>4, <2>5
<1>21. WaitInv'
  <2>1. DOMAIN active' = 1 .. n + 1
    BY <1>12
  <2>2. \A k : Behind(k)' = Sums(time', active')[k]
    BY DEF Behind
  <2>3. HeadLoad' = H /\ time'[Head(active')] = T /\ elapsed' = e
    BY <1>2, <1>4, <1>16
  <2> QED
    BY <1>20, <2>1, <2>2, <2>3 DEF WaitInv, Delta
<1>22. CounterInv'
  <2>1. /\ on' /\ value' = v /\ elapsed' = e /\ irq' = irq /\ pc' = pc /\ late' = l
        /\ time'[Head(active')] = T /\ HeadLoad' = H
    BY <1>1, <1>2, <1>4, <1>16
  <2>2. Before' = B
    BY <1>2, <2>1 DEF Before
  <2> QED
    BY <1>2, <1>12, <2>1, <2>2 DEF CounterInv, Delta
<1>23. CounterInv' /\ WaitInv'
  BY <1>21, <1>22
<1> QED
  BY <1>1, <1>5, <1>13, <1>15, <1>23, Assembled

-----------------------------------------------------------------------------
(* Stops                                                                     *)

LEMMA StoppedTimer ==
  ASSUME TimerInv, NEW t \in Timers, st[t] = "ACTIVE", Stopped(t), fired' = fired
  PROVE  /\ st' \in [Timers -> States]
         /\ UNCHANGED <<pc, cur, late>>
         /\ Holds(fired', FiredTimers') /\ HandlerInv'
         /\ \A u \in Timers : st'[u] = "CALLBACK" => pc' = "callback" /\ cur' = u
         /\ ActiveTimers' = ActiveTimers \ {t}
<1>0. /\ TypeOK /\ Holds(active, ActiveTimers) /\ Holds(fired, FiredTimers)
      /\ \A u \in Timers : st[u] = "CALLBACK" => pc = "callback" /\ cur = u
      /\ HandlerInv
  BY InvIs
<1>1. st' = [st EXCEPT ![t] = "ALLOC"] /\ UNCHANGED <<pc, cur, late>>
  BY DEF Stopped, handler
<1>2. \A u \in Timers : st'[u] = IF u = t THEN "ALLOC" ELSE st[u]
  BY <1>0, <1>1 DEF TypeOK
<1>3. st' \in [Timers -> States]
  BY <1>0, <1>1 DEF TypeOK, States
<1>4. ActiveTimers' = ActiveTimers \ {t} /\ FiredTimers' = FiredTimers
  BY <1>2 DEF ActiveTimers, FiredTimers
<1>5. HandlerInv'
  BY <1>0, <1>1 DEF HandlerInv
<1>6. \A u \in Timers : st'[u] = "CALLBACK" => pc' = "callback" /\ cur' = u
  BY <1>0, <1>1, <1>2
<1> QED
  BY <1>0, <1>1, <1>3, <1>4, <1>5, <1>6

LEMMA WithoutIs ==
  ASSUME NEW f, NEW out
  PROVE  /\ f \in [Timers -> Nat] => Without(f, out) \in [Timers -> Nat]
         /\ f \in [Timers -> Int] => Without(f, out) \in [Timers -> Int]
         /\ \A u \in Timers : Without(f, out)[u] = IF u \in out THEN 0 ELSE f[u]
BY DEF Without

LEMMA StopOnlyStep ==
  ASSUME TimerInv, NEW t \in Timers, StopOnly(t)
  PROVE  TimerInv'
<1>0. TypeOK /\ collapsed = FALSE /\ Holds(active, ActiveTimers)
  BY InvIs
<1>1. /\ active = <<t>> /\ active' = <<>> /\ Stopped(t) /\ fired' = fired
      /\ on' = FALSE /\ irq' = FALSE /\ value' = 0 /\ elapsed' = 0
      /\ time' = Without(time, {t}) /\ left' = Without(left, {t}) /\ due' = Without(due, {t})
      /\ collapsed' = (collapsed \/ CounterCollapsed)
  BY DEF StopOnly, HwStop
<1>2. collapsed' = FALSE
  BY <1>0, <1>1, NotCollapsed
<1>3. Len(active) = 1 /\ active[1] = t
  BY <1>1
<1>4. st[t] = "ACTIVE"
  BY <1>3, InvIs
<1>5. /\ st' \in [Timers -> States]
      /\ UNCHANGED <<pc, cur, late>>
      /\ Holds(fired', FiredTimers') /\ HandlerInv'
      /\ \A u \in Timers : st'[u] = "CALLBACK" => pc' = "callback" /\ cur' = u
      /\ ActiveTimers' = ActiveTimers \ {t}
  BY <1>1, <1>4, StoppedTimer
<1>6. time' \in [Timers -> Nat] /\ left' \in [Timers -> Nat] /\ due' \in [Timers -> Int]
  <2>1. time \in [Timers -> Nat] /\ left \in [Timers -> Nat] /\ due \in [Timers -> Int]
    BY <1>0 DEF TypeOK
  <2> QED
    BY <1>1, <2>1, WithoutIs
<1>7. TypeOK'
  <2>1. active' \in Seq(Timers)
    BY <1>1
  <2> QED
    BY <1>0, <1>1, <1>2, <1>5, <1>6, <2>1 DEF TypeOK, States
<1>8. Holds(active', ActiveTimers')
  <2>1. ActiveTimers' = {}
    BY <1>0, <1>3, <1>5 DEF Holds
  <2>2. active' \in Seq(Timers) /\ Len(active') = 0
    BY <1>1
  <2> QED
    BY <2>1, <2>2 DEF Holds
<1>9. CounterInv' /\ WaitInv'
  <2>1. DOMAIN active' = {}
    BY <1>1
  <2> QED
    BY <1>1, <2>1 DEF CounterInv, WaitInv
<1> QED
  BY <1>2, <1>5, <1>7, <1>8, <1>9, Assembled

LEMMA StopStep ==
  ASSUME TimerInv, NEW t \in Timers, Stop(t)
  PROVE  TimerInv'
<1>0. TypeOK /\ collapsed = FALSE /\ Holds(active, ActiveTimers)
  BY InvIs
<1>1. PICK k \in 2 .. Len(active) :
        /\ active[k] = t /\ active' = RemoveAt(active, k)
        /\ time' = Without(IF k = Len(active) THEN time
                            ELSE [time EXCEPT ![active[k + 1]] = @ + time[t]], {t})
        /\ left' = Without(left, {t}) /\ due' = Without(due, {t})
        /\ Stopped(t)
        /\ UNCHANGED <<fired, on, value, elapsed, irq, collapsed>>
  BY DEF Stop, hw
<1>a. Len(active) \in Nat /\ active \in Seq(Timers)
  BY <1>0, BehindIs DEF TypeOK
<1>b. active # <<>>
  BY <1>1, <1>a
<1>2. PICK H \in Nat \ {0}, T \in Nat, v \in Nat, e \in Nat, l \in Nat, B \in Nat :
        /\ H = HeadLoad /\ T = time[Head(active)] /\ H = IF T > 1 THEN T ELSE 1
        /\ v = value /\ e = elapsed /\ l = late /\ B = Before
        /\ v + e + 1 >= T
        /\ v > 0 => v + e <= H
        /\ v = 0 => (irq \/ pc = "entered") /\ e <= H + l + B
        /\ on
        /\ \A i \in 1 .. Len(active) :
             /\ left[active[i]] <= Less(H + Behind(i), e)
             /\ due[active[i]] + e >= Less(T + Behind(i), 1)
  BY <1>b, Numbers
<1>3. PICK n \in Nat \ {0} : n = Len(active) /\ k \in 2 .. n
  BY <1>1, <1>a
<1>4. st[t] = "ACTIVE"
  <2>1. k \in 1 .. Len(active)
    BY <1>3
  <2> QED
    BY <1>1, <2>1, InvIs
<1>5. /\ st' \in [Timers -> States]
      /\ UNCHANGED <<pc, cur, late>>
      /\ Holds(fired', FiredTimers') /\ HandlerInv'
      /\ \A u \in Timers : st'[u] = "CALLBACK" => pc' = "callback" /\ cur' = u
      /\ ActiveTimers' = ActiveTimers \ {t}
  BY <1>1, <1>4, StoppedTimer
<1>6. /\ \A j \in 1 .. n : Behind(j) \in Nat
      /\ Behind(1) = 0
      /\ \A j \in 2 .. n : Behind(j) = Behind(j - 1) + time[active[j]]
      /\ \A j \in 1 .. n : active[j] \in Timers /\ time[active[j]] \in Nat
      /\ \A i, j \in 1 .. n : active[i] = active[j] => i = j
      /\ Head(active) = active[1]
  <2>1. \A j \in 1 .. n : Behind(j) \in Nat
    BY <1>0, <1>3, BehindIs
  <2>2. Behind(1) = 0 /\ \A j \in 2 .. n : Behind(j) = Behind(j - 1) + time[active[j]]
    BY <1>0, <1>3, BehindIs
  <2>3. \A j \in 1 .. n : active[j] \in Timers /\ time[active[j]] \in Nat
    BY <1>0, <1>3, BehindIs
  <2>4. Head(active) = active[1]
    BY <1>0, <1>b, BehindIs
  <2> QED
    BY <1>0, <1>3, <2>1, <2>2, <2>3, <2>4 DEF Holds
<1>7. /\ active' \in Seq(Timers) /\ Len(active') = n - 1 /\ active' # <<>>
      /\ \A j \in 1 .. k - 1 : active'[j] = active[j]
      /\ \A j \in k .. n - 1 : active'[j] = active[j + 1]
  <2>1. k \in 1 .. Len(active)
    BY <1>3
  <2>2. /\ RemoveAt(active, k) \in Seq(Timers) /\ Len(RemoveAt(active, k)) = Len(active) - 1
        /\ \A j \in 1 .. Len(active) - 1 :
             RemoveAt(active, k)[j] = IF j < k THEN active[j] ELSE active[j + 1]
    BY <1>a, <2>1, Removed
  <2>3. /\ active' \in Seq(Timers) /\ Len(active') = n - 1
        /\ \A j \in 1 .. n - 1 : active'[j] = IF j < k THEN active[j] ELSE active[j + 1]
    BY <1>1, <1>3, <2>2
  <2>4. active' # <<>>
    BY <1>3, <2>3
  <2>5. \A j \in 1 .. k - 1 : active'[j] = active[j]
    BY <1>3, <2>3
  <2>6. \A j \in k .. n - 1 : active'[j] = active[j + 1]
    BY <1>3, <2>3
  <2> QED
    BY <2>3, <2>4, <2>5, <2>6
<1>8. Holds(active', ActiveTimers')
  <2>1. k \in 1 .. Len(active)
    BY <1>3
  <2>2. Holds(RemoveAt(active, k), ActiveTimers \ {active[k]})
    BY <1>0, <2>1, HoldsRemoved
  <2> QED
    BY <1>1, <1>5, <2>2
<1>9. /\ time' \in [Timers -> Nat]
      /\ \A j \in 1 .. n : j # k /\ j # k + 1 => time'[active[j]] = time[active[j]]
      /\ k < n => time'[active[k + 1]] = time[active[k + 1]] + time[active[k]]
  <2>0. time \in [Timers -> Nat] /\ 0 \in Nat
    BY <1>0 DEF TypeOK
  <2>1. CASE k = n
    <3>1. time' = Without(time, {t})
      BY <1>1, <1>3, <2>1
    <3>2. /\ time' \in [Timers -> Nat]
          /\ \A u \in Timers : time'[u] = IF u \in {t} THEN 0 ELSE time[u]
      BY <2>0, <3>1, WithoutIs
    <3>3. \A j \in 1 .. n : j # k => active[j] # t /\ active[j] \in Timers
      BY <1>1, <1>3, <1>6
    <3> QED
      BY <2>1, <3>2, <3>3
  <2>2. CASE k < n
    <3>1. k + 1 \in 1 .. n /\ k \in 1 .. n /\ k + 1 # k /\ k # Len(active)
      BY <1>3, <2>2
    <3>2. PICK u \in Timers, z \in Nat : u = active[k + 1] /\ z = time[u] + time[t] /\ u # t
      BY <1>1, <1>6, <3>1
    <3>3. PICK f : f = [time EXCEPT ![u] = z] /\ time' = Without(f, {t})
      BY <1>1, <3>1, <3>2
    <3>4. f \in [Timers -> Nat] /\ \A w \in Timers : f[w] = IF w = u THEN z ELSE time[w]
      BY <2>0, <3>2, <3>3
    <3>5. /\ time' \in [Timers -> Nat]
          /\ \A w \in Timers : time'[w] = IF w \in {t} THEN 0 ELSE f[w]
      BY ZenonT(30), <2>0, <3>3, <3>4, WithoutIs
    <3>6. \A j \in 1 .. n : j # k /\ j # k + 1 => active[j] # t /\ active[j] # u /\ active[j] \in Timers
      BY <1>1, <1>3, <1>6, <3>1, <3>2
    <3>7. \A j \in 1 .. n : j # k /\ j # k + 1 => time'[active[j]] = time[active[j]]
      BY <3>4, <3>5, <3>6
    <3>8. time'[active[k + 1]] = time[active[k + 1]] + time[active[k]]
      BY <1>1, <3>2, <3>4, <3>5
    <3> QED
      BY <3>5, <3>7, <3>8
  <2>3. k = n \/ k < n
    BY <1>3
  <2> QED
    BY <2>1, <2>2, <2>3
<1>10. /\ left' \in [Timers -> Nat] /\ due' \in [Timers -> Int]
       /\ \A j \in 1 .. n : j # k => left'[active[j]] = left[active[j]] /\ due'[active[j]] = due[active[j]]
  <2>1. /\ left' \in [Timers -> Nat] /\ due' \in [Timers -> Int]
        /\ \A u \in Timers : left'[u] = IF u \in {t} THEN 0 ELSE left[u]
        /\ \A u \in Timers : due'[u] = IF u \in {t} THEN 0 ELSE due[u]
    <3>1. left \in [Timers -> Nat] /\ due \in [Timers -> Int]
      BY <1>0 DEF TypeOK
    <3>2. left' = Without(left, {t}) /\ due' = Without(due, {t})
      BY <1>1
    <3> QED
      BY <3>1, <3>2, WithoutIs
  <2>2. \A j \in 1 .. n : j # k => active[j] # t /\ active[j] \in Timers
    BY <1>1, <1>3, <1>6
  <2> QED
    BY <2>1, <2>2
<1>11. TypeOK'
  BY <1>0, <1>1, <1>5, <1>7, <1>9, <1>10 DEF TypeOK, States
<1>12. /\ time'[Head(active')] = T /\ HeadLoad' = H
  <2>1. Head(active') = active'[1] /\ 1 \in 1 .. k - 1 /\ 1 \in 1 .. n /\ 1 # k /\ 1 # k + 1
    BY <1>3, <1>7
  <2>2. Head(active') = active[1] /\ time'[active[1]] = time[active[1]]
    BY <1>7, <1>9, <2>1
  <2> QED
    BY <1>2, <1>6, <2>2 DEF HeadLoad
<1>13. \A j \in 1 .. k - 1 : Sums(time', active')[j] = Behind(j)
  <2>1. Alike(time, active, 1, time', active', 1, k - 2)
    <3>1. 1 + (k - 2) <= Len(active) /\ 1 + (k - 2) <= Len(active')
      BY <1>3, <1>7
    <3>2. ASSUME NEW i \in 1 .. k - 2 PROVE time'[active'[1 + i]] = time[active[1 + i]]
      <4>1. 1 + i \in 1 .. k - 1 /\ 1 + i \in 1 .. n /\ 1 + i # k /\ 1 + i # k + 1
        BY <1>3
      <4> QED
        BY <1>7, <1>9, <4>1
    <3> QED
      BY <3>1, <3>2 DEF Alike
  <2>2. Moved(time', active', 1, 1, k - 2)
    <3>1. 1 \in 1 .. Len(active) /\ 1 \in 1 .. Len(active') /\ k - 2 \in Nat
      BY <1>3, <1>7
    <3> QED
      BY <1>0, <1>7, <1>9, <2>1, <3>1, Shifted
  <2>3. Sums(time', active')[1] = 0
    BY SumsIs
  <2>4. ASSUME NEW j \in 1 .. k - 1 PROVE Sums(time', active')[j] = Behind(j)
    <3>1. j - 1 \in 0 .. k - 2 /\ 1 + (j - 1) = j /\ j \in 1 .. n
      BY <1>3
    <3>2. Sums(time', active')[j] = 0 + (Behind(j) - 0) /\ Behind(j) \in Nat
      BY <1>6, <2>2, <2>3, <3>1 DEF Moved
    <3> QED
      BY <3>2
  <2> QED
    BY <2>4
<1>14. \A j \in k .. n - 1 : Sums(time', active')[j] = Behind(j + 1)
  <2> SUFFICES ASSUME k < n PROVE \A j \in k .. n - 1 : Sums(time', active')[j] = Behind(j + 1)
    BY <1>3
  <2>0. k + 1 \in 1 .. n /\ k \in 1 .. n /\ k \in 2 .. n /\ k + 1 \in 2 .. n /\ (k + 1) - 1 = k /\ k - 1 \in 1 .. n
    BY <1>3
  <2>1. PICK z \in Nat, y \in Nat, b \in Nat :
          z = time[active[k + 1]] /\ y = time[active[k]] /\ b = Behind(k - 1)
    BY <1>6, <2>0
  <2>2. Behind(k) = b + y /\ Behind(k + 1) = (b + y) + z
    <3>1. Behind(k) = b + y
      BY <1>6, <2>0, <2>1
    <3>2. Behind(k + 1) = Behind(k) + z
      BY <1>6, <2>0, <2>1
    <3> QED
      BY <3>1, <3>2
  <2>3. Sums(time', active')[k] = (b + y) + z
    <3>1. k \in Nat /\ ~(k < 2) /\ k \in k .. n - 1 /\ k - 1 \in 1 .. k - 1
      BY <1>3
    <3>2. Sums(time', active')[k] = Sums(time', active')[k - 1] + time'[active'[k]]
      BY <3>1, SumsIs
    <3>3. time'[active'[k]] = z + y
      BY <1>7, <1>9, <2>1, <3>1
    <3>4. Sums(time', active')[k - 1] = b
      BY <1>13, <2>1, <3>1
    <3>5. b + (z + y) = (b + y) + z
      OBVIOUS
    <3> QED
      BY <3>2, <3>3, <3>4, <3>5
  <2>4. Alike(time, active, k + 1, time', active', k, n - (k + 1))
    <3>1. (k + 1) + (n - (k + 1)) <= Len(active) /\ k + (n - (k + 1)) <= Len(active')
      BY <1>3, <1>7
    <3>2. ASSUME NEW i \in 1 .. n - (k + 1)
          PROVE  time'[active'[k + i]] = time[active[(k + 1) + i]]
      <4>1. /\ k + i \in k .. n - 1 /\ (k + i) + 1 = (k + 1) + i
            /\ (k + 1) + i \in 1 .. n /\ (k + 1) + i # k /\ (k + 1) + i # k + 1
        BY <1>3
      <4>2. active'[k + i] = active[(k + 1) + i]
        BY <1>7, <4>1
      <4> QED
        BY <1>9, <4>1, <4>2
    <3> QED
      BY <3>1, <3>2 DEF Alike
  <2>5. Moved(time', active', k + 1, k, n - (k + 1))
    <3>1. k + 1 \in 1 .. Len(active) /\ k \in 1 .. Len(active') /\ n - (k + 1) \in Nat
      BY <1>3, <1>7
    <3> QED
      BY <1>0, <1>7, <1>9, <2>4, <3>1, Shifted
  <2>6. ASSUME NEW j \in k .. n - 1 PROVE Sums(time', active')[j] = Behind(j + 1)
    <3>1. PICK i \in 0 .. n - (k + 1) : k + i = j /\ (k + 1) + i = j + 1
      <4>1. j - k \in 0 .. n - (k + 1) /\ k + (j - k) = j /\ (k + 1) + (j - k) = j + 1
        BY <1>3
      <4> QED
        BY <4>1
    <3>2. PICK c \in Nat : c = Behind(j + 1)
      <4>1. j + 1 \in 1 .. n
        BY <1>3
      <4> QED
        BY <1>6, <4>1
    <3>3. Sums(time', active')[j] = ((b + y) + z) + (c - ((b + y) + z))
      BY <2>2, <2>3, <2>5, <3>1, <3>2 DEF Moved
    <3>4. ((b + y) + z) + (c - ((b + y) + z)) = c
      OBVIOUS
    <3> QED
      BY <3>2, <3>3, <3>4
  <2> QED
    BY <2>6
<1>15. ASSUME NEW i \in 1 .. n - 1
       PROVE  /\ left'[active'[i]] <= Less(H + Sums(time', active')[i], e)
              /\ due'[active'[i]] + e >= Less(T + Sums(time', active')[i], 1)
  <2>1. PICK j \in 1 .. n : j # k /\ active'[i] = active[j] /\ Sums(time', active')[i] = Behind(j)
    <3>1. CASE i < k
      <4>1. i \in 1 .. k - 1 /\ i \in 1 .. n /\ i # k
        BY <1>3, <3>1
      <4> QED
        BY <1>7, <1>13, <4>1
    <3>2. CASE i >= k
      <4>1. i \in k .. n - 1 /\ i + 1 \in 1 .. n /\ i + 1 # k
        BY <1>3, <3>2
      <4> QED
        BY <1>7, <1>14, <4>1
    <3>3. i < k \/ i >= k
      BY <1>3
    <3> QED
      BY <3>1, <3>2, <3>3
  <2> QED
    BY <1>2, <1>3, <1>10, <2>1
<1>16. WaitInv'
  <2>1. DOMAIN active' = 1 .. n - 1
    BY <1>7
  <2>2. \A i : Behind(i)' = Sums(time', active')[i]
    BY DEF Behind
  <2>3. HeadLoad' = H /\ time'[Head(active')] = T /\ elapsed' = e
    BY <1>1, <1>2, <1>12
  <2> QED
    BY <1>15, <2>1, <2>2, <2>3 DEF WaitInv, Delta
<1>17. CounterInv'
  <2>1. /\ on' /\ value' = v /\ elapsed' = e /\ irq' = irq /\ pc' = pc /\ late' = l
        /\ time'[Head(active')] = T /\ HeadLoad' = H
    BY <1>1, <1>2, <1>5, <1>12
  <2>2. Before' = B
    BY <1>2, <2>1 DEF Before
  <2> QED
    BY <1>2, <1>7, <2>1, <2>2 DEF CounterInv, Delta
<1>18. CounterInv' /\ WaitInv' /\ collapsed' = FALSE
  BY <1>0, <1>1, <1>16, <1>17
<1> QED
  BY <1>5, <1>8, <1>11, <1>18, Assembled

\* What is handed on makes the next timer's load N, and leaves each of those
\* behind it N + G[j] ticks away.
HandedOn(N) ==
  /\ HandOn \in [Timers -> Nat] /\ HandOn[active[2]] = N
  /\ \A j \in 1 .. Len(active) - 1 :
       N + Sums(HandOn, Tail(active))[j] =
         IF value > 0 THEN value + Behind(j + 1) ELSE Less(Behind(j + 1), Overdue)

LEMMA HandsOnValue ==
  ASSUME TimerInv, Len(active) > 1, value > 0
  PROVE  \E N \in Nat : HandedOn(N) /\ N >= value
<1>0. TypeOK /\ Holds(active, ActiveTimers)
  BY InvIs
<1>1. /\ active \in Seq(Timers) /\ time \in [Timers -> Nat] /\ active # <<>>
      /\ value \in Nat
  BY <1>0 DEF TypeOK
<1>2. PICK n \in Nat : n = Len(active) /\ n > 1
  BY <1>1
<1>3. /\ \A j \in 1 .. n : Behind(j) \in Nat
      /\ \A j \in 2 .. n : Behind(j) = Behind(j - 1) + time[active[j]]
      /\ Behind(1) = 0
      /\ \A j \in 1 .. n : active[j] \in Timers /\ time[active[j]] \in Nat
      /\ \A i, j \in 1 .. n : active[i] = active[j] => i = j
  <2>1. \A j \in 1 .. n : Behind(j) \in Nat
    BY <1>0, <1>2, BehindIs
  <2>2. Behind(1) = 0 /\ \A j \in 2 .. n : Behind(j) = Behind(j - 1) + time[active[j]]
    BY <1>0, <1>2, BehindIs
  <2>3. \A j \in 1 .. n : active[j] \in Timers /\ time[active[j]] \in Nat
    BY <1>0, <1>2, BehindIs
  <2> QED
    BY <1>0, <1>2, <2>1, <2>2, <2>3 DEF Holds
<1>4. PICK s \in Timers, z \in Nat, v \in Nat :
        s = active[2] /\ z = time[s] /\ v = value /\ Behind(2) = z
  <2>1. 2 \in 2 .. n /\ 2 \in 1 .. n /\ 2 - 1 = 1
    BY <1>2
  <2>2. Behind(2) = 0 + time[active[2]] /\ active[2] \in Timers /\ time[active[2]] \in Nat
    BY <1>3, <2>1
  <2> QED
    BY <1>1, <2>2
<1>5. PICK f : /\ f = HandOn /\ f \in [Timers -> Nat] /\ f[s] = z + v
               /\ \A u \in Timers : u # s => f[u] = time[u]
  <2>1. HandOn = [time EXCEPT ![s] = z + v]
    BY <1>4 DEF HandOn
  <2>2. z + v \in Nat
    OBVIOUS
  <2> QED
    BY <1>1, <2>1, <2>2
<1>6. PICK r : /\ r = Tail(active) /\ r \in Seq(Timers) /\ Len(r) = n - 1
               /\ \A j \in 1 .. n - 1 : r[j] = active[j + 1]
  BY <1>0, <1>1, <1>2, HoldsTail, HeadTailProperties
<1>7. Alike(time, active, 2, f, r, 1, n - 2)
  <2>1. 2 + (n - 2) <= Len(active) /\ 1 + (n - 2) <= Len(r)
    BY <1>2, <1>6
  <2>2. ASSUME NEW i \in 1 .. n - 2 PROVE f[r[1 + i]] = time[active[2 + i]]
    <3>1. 1 + i \in 1 .. n - 1 /\ (1 + i) + 1 = 2 + i /\ 2 + i \in 1 .. n /\ 2 + i # 2 /\ 2 \in 1 .. n
      BY <1>2
    <3>2. r[1 + i] = active[2 + i] /\ active[2 + i] \in Timers
      BY <1>3, <1>6, <3>1
    <3>3. active[2 + i] # s
      BY <1>3, <1>4, <3>1
    <3> QED
      BY <1>5, <3>2, <3>3
  <2> QED
    BY <2>1, <2>2 DEF Alike
<1>8. Moved(f, r, 2, 1, n - 2)
  <2>1. 2 \in 1 .. Len(active) /\ 1 \in 1 .. Len(r) /\ n - 2 \in Nat
    BY <1>2, <1>6
  <2> QED
    BY <1>0, <1>5, <1>6, <1>7, <2>1, Shifted
<1>9. Sums(f, r)[1] = 0
  BY SumsIs
<1>10. ASSUME NEW j \in 1 .. n - 1 PROVE (z + v) + Sums(f, r)[j] = v + Behind(j + 1)
  <2>1. PICK b \in Nat : b = Behind(j + 1)
    <3>1. j + 1 \in 1 .. n
      BY <1>2
    <3> QED
      BY <1>3, <3>1
  <2>2. j - 1 \in 0 .. n - 2 /\ 1 + (j - 1) = j /\ 2 + (j - 1) = j + 1
    BY <1>2
  <2>3. Sums(f, r)[j] = 0 + (b - z)
    BY <1>4, <1>8, <1>9, <2>1, <2>2 DEF Moved
  <2>4. (z + v) + (0 + (b - z)) = v + b
    OBVIOUS
  <2> QED
    BY <2>1, <2>3, <2>4
<1>11. HandedOn(z + v)
  BY <1>2, <1>4, <1>5, <1>6, <1>10 DEF HandedOn
<1> QED
  BY <1>4, <1>11

LEMMA LessTwice ==
  ASSUME NEW b \in Nat, NEW x \in Nat, NEW z \in Nat
  PROVE  Less(b, x) + Less(z, Less(x, b)) = Less(b + z, x)
BY DEF Less

LEMMA HandsOnCaught ==
  ASSUME TimerInv, Len(active) > 1, ~(value > 0)
  PROVE  \E N \in Nat : HandedOn(N)
<1>0. TypeOK /\ Holds(active, ActiveTimers)
  BY InvIs
<1>1. /\ active \in Seq(Timers) /\ time \in [Timers -> Nat] /\ active # <<>>
      /\ value \in Nat /\ elapsed \in Nat
  BY <1>0 DEF TypeOK
<1>2. PICK n \in Nat : n = Len(active) /\ n > 1
  BY <1>1
<1>3. /\ \A j \in 0 .. n : Behind(j) \in Nat
      /\ \A j \in 2 .. n : Behind(j) = Behind(j - 1) + time[active[j]]
      /\ Behind(1) = 0
      /\ \A j \in 1 .. n : active[j] \in Timers /\ time[active[j]] \in Nat
      /\ \A i, j \in 1 .. n : active[i] = active[j] => i = j
      /\ DOMAIN active = 1 .. n
  <2>1. \A j \in 0 .. n : Behind(j) \in Nat
    BY <1>0, <1>2, BehindIs
  <2>2. Behind(1) = 0 /\ \A j \in 2 .. n : Behind(j) = Behind(j - 1) + time[active[j]]
    BY <1>0, <1>2, BehindIs
  <2>3. \A j \in 1 .. n : active[j] \in Timers /\ time[active[j]] \in Nat
    BY <1>0, <1>2, BehindIs
  <2>4. DOMAIN active = 1 .. n
    BY <1>0, <1>2, BehindIs
  <2> QED
    BY <1>0, <1>2, <2>1, <2>2, <2>3, <2>4 DEF Holds
<1>4. PICK x \in Nat : x = Overdue
  <2>1. time[Head(active)] \in Nat
    BY <1>0, <1>1, BehindIs
  <2> QED
    BY <1>1, <2>1, LessIs DEF Overdue
<1>5. \A k \in 1 .. n : Caught(x)[k] = IF k = 1 THEN time[active[1]]
                                     ELSE Less(time[active[k]], Less(x, Behind(k - 1)))
  BY <1>3 DEF Caught
<1>6. \A k \in 1 .. n : Caught(x)[k] \in Nat
  <2> TAKE k \in 1 .. n
  <2>1. k - 1 \in 0 .. n
    OBVIOUS
  <2>2. PICK b \in Nat, z \in Nat : b = Behind(k - 1) /\ z = time[active[k]]
    BY <1>3, <2>1
  <2>3. Less(x, b) \in Nat
    BY LessIs
  <2>4. Less(z, Less(x, b)) \in Nat
    BY <2>3, LessIs
  <2> QED
    BY <1>5, <2>2, <2>4
<1>7. PICK f : /\ f = HandOn /\ f \in [Timers -> Nat]
               /\ \A k \in 1 .. n : f[active[k]] = Caught(x)[k]
  <2> DEFINE C == Caught(x)
             in(u) == \E k \in 1 .. n : active[k] = u
             at(u) == CHOOSE k \in 1 .. n : active[k] = u
  <2>1. HandOn = [u \in Timers |-> IF in(u) THEN C[at(u)] ELSE time[u]]
    BY <1>3, <1>4 DEF HandOn
  <2>2. \A u : in(u) => at(u) \in 1 .. n /\ active[at(u)] = u
    OBVIOUS
  <2>3. \A k \in 1 .. n : in(active[k]) /\ at(active[k]) = k
    BY <1>3, <2>2
  <2>4. \A k \in 1 .. n : C[k] \in Nat
    BY <1>6
  <2> HIDE DEF in, at, C
  <2>5. ASSUME NEW u \in Timers PROVE (IF in(u) THEN C[at(u)] ELSE time[u]) \in Nat
    BY <1>1, <2>2, <2>4
  <2>6. HandOn \in [Timers -> Nat]
    BY <2>1, <2>5
  <2>7. \A k \in 1 .. n : HandOn[active[k]] = C[k]
    BY <1>3, <2>1, <2>3
  <2> QED
    BY <2>6, <2>7 DEF C
<1>8. PICK r : /\ r = Tail(active) /\ r \in Seq(Timers) /\ Len(r) = n - 1
               /\ \A j \in 1 .. n - 1 : r[j] = active[j + 1]
  BY <1>0, <1>1, <1>2, HoldsTail, HeadTailProperties
<1> DEFINE G == Sums(f, r)
           N == Less(Behind(2), x)
           Off(j) == N + G[j] # Less(Behind(j + 1), x)
           Bad == {j \in 1 .. n - 1 : Off(j)}
<1>9. N \in Nat /\ f[active[2]] = N
  <2>1. 2 \in 1 .. n /\ 2 \in 2 .. n /\ 2 - 1 = 1 /\ 2 \in 0 .. n
    BY <1>2
  <2>2. PICK z \in Nat : z = time[active[2]] /\ Behind(2) = 0 + z
    BY <1>3, <2>1
  <2>3. f[active[2]] = Less(z, Less(x, 0))
    BY <1>3, <1>5, <1>7, <2>1, <2>2
  <2>4. Less(z, Less(x, 0)) = Less(0 + z, x)
    BY DEF Less
  <2>5. Less(0 + z, x) \in Nat
    <3>1. 0 + z \in Nat
      OBVIOUS
    <3> QED
      BY <3>1, LessIs
  <2> QED
    BY <2>2, <2>3, <2>4, <2>5
<1>10. /\ \A j \in Nat : G[j] = IF j < 2 THEN 0 ELSE G[j - 1] + f[r[j]]
       /\ \A j \in 0 .. n - 1 : G[j] \in Nat
  <2>1. \A j \in Nat : G[j] = IF j < 2 THEN 0 ELSE G[j - 1] + f[r[j]]
    BY SumsIs
  <2>2. \A j \in 0 .. Len(r) : Sums(f, r)[j] \in Nat
    BY <1>7, <1>8, SumsType
  <2> QED
    BY <1>8, <2>1, <2>2
<1> HIDE DEF G, N
<1>11. ~Off(1)
  <2>1. G[1] = 0 /\ 1 + 1 = 2
    BY <1>10
  <2> QED
    BY <1>9, <2>1 DEF N
<1>12. ASSUME NEW j \in 2 .. n - 1, ~Off(j - 1) PROVE ~Off(j)
  <2>1. /\ j \in Nat /\ ~(j < 2) /\ j \in 1 .. n - 1 /\ j - 1 \in 0 .. n - 1 /\ j + 1 \in 1 .. n
        /\ j + 1 \in 2 .. n /\ j + 1 # 1 /\ (j - 1) + 1 = j /\ (j + 1) - 1 = j /\ j \in 0 .. n
    BY <1>2
  <2>2. PICK b \in Nat, z \in Nat, g \in Nat : b = Behind(j) /\ z = time[active[j + 1]] /\ g = G[j - 1]
    BY <1>3, <1>10, <2>1
  <2>3. f[r[j]] = Less(z, Less(x, b))
    BY <1>5, <1>7, <1>8, <2>1, <2>2
  <2>4. G[j] = g + Less(z, Less(x, b))
    BY <1>10, <2>1, <2>2, <2>3
  <2>5. N + g = Less(b, x)
    BY <1>12, <2>1, <2>2
  <2>6. Behind(j + 1) = b + z
    BY <1>3, <2>1, <2>2
  <2>7. Less(b, x) + Less(z, Less(x, b)) = Less(b + z, x)
    BY LessTwice
  <2>8. PICK m \in Nat, w \in Nat : m = N /\ w = Less(z, Less(x, b))
    <3>1. Less(x, b) \in Nat
      BY LessIs
    <3>2. Less(z, Less(x, b)) \in Nat
      BY <3>1, LessIs
    <3> QED
      BY <1>9, <3>2
  <2>9. m + (g + w) = (m + g) + w
    OBVIOUS
  <2> QED
    BY <2>4, <2>5, <2>6, <2>7, <2>8, <2>9
<1> HIDE DEF Off
<1>13. Bad = {}
  <2> SUFFICES ASSUME Bad # {} PROVE FALSE
    OBVIOUS
  <2>1. PICK j \in Bad : \A y \in Bad : j <= y
    <3>1. Bad \subseteq Nat
      OBVIOUS
    <3> HIDE DEF Bad
    <3> QED
      BY <3>1, LeastOf
  <2>2. j \in 2 .. n - 1 /\ j - 1 \in 1 .. n - 1 /\ j - 1 \notin Bad
    BY <1>11, <2>1
  <2> QED
    BY <1>12, <2>1, <2>2
<1>14. \A j \in 1 .. n - 1 : N + G[j] = Less(Behind(j + 1), x)
  BY <1>13 DEF Off
<1>15. HandedOn(N)
  BY <1>2, <1>4, <1>7, <1>8, <1>9, <1>14 DEF HandedOn, G
<1> QED
  BY <1>9, <1>15

LEMMA StopHeadStep ==
  ASSUME TimerInv, NEW t \in Timers, StopHead(t)
  PROVE  TimerInv'
<1>0. TypeOK /\ collapsed = FALSE /\ Holds(active, ActiveTimers)
  BY InvIs
<1>a. /\ Len(active) > 1 /\ Head(active) = t /\ active' = Tail(active)
      /\ Stopped(t) /\ fired' = fired
      /\ time' = Without(HandOn, {t})
      /\ Load(HandOn[active[2]]) /\ irq' = FALSE
      /\ left' = [u \in Timers |-> IF u = t THEN 0 ELSE Less(left[u], 1)]
      /\ collapsed' = (collapsed \/ CounterCollapsed \/ (value = 0 /\ elapsed + Delta < time[t]))
      /\ due' = [u \in Timers |-> IF u # t /\ st[u] = "ACTIVE" THEN Excused(due[u]) ELSE 0]
  BY DEF StopHead, HwRestart
<1>b. PICK n \in Nat : n = Len(active) /\ n > 1 /\ active # <<>> /\ active \in Seq(Timers)
  BY <1>0, <1>a DEF TypeOK
<1>1. PICK H \in Nat \ {0}, T \in Nat, v \in Nat, e \in Nat, l \in Nat, B \in Nat :
        /\ H = HeadLoad /\ T = time[Head(active)] /\ H = IF T > 1 THEN T ELSE 1
        /\ v = value /\ e = elapsed /\ l = late /\ B = Before
        /\ v + e + 1 >= T
        /\ v > 0 => v + e <= H
        /\ v = 0 => (irq \/ pc = "entered") /\ e <= H + l + B
        /\ on
        /\ \A i \in 1 .. Len(active) :
             /\ left[active[i]] <= Less(H + Behind(i), e)
             /\ due[active[i]] + e >= Less(T + Behind(i), 1)
  BY <1>b, Numbers
<1>2. collapsed' = FALSE
  <2>1. CounterCollapsed = FALSE
    BY <1>b, NotCollapsed
  <2>2. ~(value = 0 /\ elapsed + 1 < time[t])
    BY <1>a, <1>1
  <2> QED
    BY <1>0, <1>a, <2>1, <2>2 DEF Delta
<1>3. t = active[1] /\ st[t] = "ACTIVE"
  <2>1. 1 \in 1 .. Len(active) /\ t = active[1]
    BY <1>0, <1>a, <1>b, BehindIs
  <2> QED
    BY <2>1, InvIs
<1>4. /\ st' \in [Timers -> States]
      /\ UNCHANGED <<pc, cur, late>>
      /\ Holds(fired', FiredTimers') /\ HandlerInv'
      /\ \A u \in Timers : st'[u] = "CALLBACK" => pc' = "callback" /\ cur' = u
      /\ ActiveTimers' = ActiveTimers \ {t}
  BY <1>a, <1>3, StoppedTimer
<1>5. /\ active' \in Seq(Timers) /\ Len(active') = n - 1 /\ active' # <<>>
      /\ \A j \in 1 .. n - 1 : active'[j] = active[j + 1]
      /\ Holds(active', ActiveTimers')
  <2>1. /\ Holds(Tail(active), ActiveTimers \ {Head(active)})
        /\ Len(Tail(active)) = Len(active) - 1
        /\ \A i \in 1 .. Len(active) - 1 : Tail(active)[i] = active[i + 1]
    BY <1>0, <1>b, HoldsTail
  <2>2. Tail(active) \in Seq(Timers)
    BY <2>1 DEF Holds
  <2>3. active' # <<>>
    <3>1. n - 1 # 0
      BY SMTT(30), <1>b
    <3>2. Len(active') = n - 1
      BY <1>a, <1>b, <2>1
    <3> QED
      BY <3>1, <3>2
  <2> QED
    BY <1>a, <1>b, <1>4, <2>1, <2>2, <2>3
<1>6. \A j \in 1 .. n - 1 : /\ active[j + 1] \in Timers /\ active[j + 1] # t
                            /\ j + 1 \in 1 .. n /\ Behind(j + 1) \in Nat
                            /\ st[active[j + 1]] = "ACTIVE"
  <2> TAKE j \in 1 .. n - 1
  <2>1. j + 1 \in 1 .. n /\ 1 \in 1 .. n /\ j + 1 # 1
    BY <1>b
  <2>2. active[j + 1] \in Timers /\ active[j + 1] # t
    BY <1>0, <1>b, <1>3, <2>1 DEF Holds
  <2>3. Behind(j + 1) \in Nat
    BY <1>0, <1>b, <2>1, BehindIs
  <2>4. st[active[j + 1]] = "ACTIVE"
    BY <1>b, <2>1, InvIs
  <2> QED
    BY <2>1, <2>2, <2>3, <2>4
<1>7. PICK N \in Nat : HandedOn(N) /\ (v > 0 => N >= v)
  <2>1. CASE value > 0
    <3>1. \E N \in Nat : HandedOn(N) /\ N >= value
      BY <1>b, <2>1, HandsOnValue
    <3> QED
      BY <1>1, <3>1
  <2>2. CASE ~(value > 0)
    <3>1. \E N \in Nat : HandedOn(N)
      BY <1>b, <2>2, HandsOnCaught
    <3> QED
      BY <1>1, <2>2, <3>1
  <2> QED
    BY <2>1, <2>2
<1>8. PICK f : /\ f = HandOn /\ f \in [Timers -> Nat] /\ f[active[2]] = N
               /\ \A j \in 1 .. n - 1 :
                    N + Sums(f, active')[j] =
                      IF v > 0 THEN v + Behind(j + 1) ELSE Less(Behind(j + 1), Less(e, T))
  <2>1. Overdue = Less(e, T)
    BY <1>b, <1>1 DEF Overdue
  <2> QED
    BY <1>a, <1>b, <1>1, <1>7, <2>1 DEF HandedOn
<1>9. /\ time' \in [Timers -> Nat]
      /\ \A j \in 1 .. n - 1 : time'[active'[j]] = f[active'[j]]
  <2>1. time' = Without(f, {t})
    BY <1>a, <1>8
  <2>2. \A j \in 1 .. n - 1 : active'[j] \in Timers /\ active'[j] # t
    BY <1>5, <1>6
  <2> QED
    BY <1>8, <2>1, <2>2, WithoutIs
<1>10. time'[Head(active')] = N /\ Load(N)
  <2>1. Head(active') = active'[1] /\ 1 \in 1 .. n - 1 /\ 1 + 1 = 2
    BY <1>b, <1>5
  <2>2. Head(active') = active[2] /\ time'[Head(active')] = f[active[2]]
    BY <1>5, <1>9, <2>1
  <2> QED
    BY <1>a, <1>8, <2>2
<1>11. \A j \in 1 .. n - 1 : /\ Sums(time', active')[j] = Sums(f, active')[j]
                             /\ Sums(f, active')[j] \in Nat
  <2>1. Alike(f, active', 1, time', active', 1, n - 2)
    <3>1. 1 + (n - 2) <= Len(active')
      BY <1>b, <1>5
    <3>2. \A i \in 1 .. n - 2 : 1 + i \in 1 .. n - 1
      BY <1>b
    <3>3. \A i \in 1 .. n - 2 : time'[active'[1 + i]] = f[active'[1 + i]]
      BY <1>9, <3>2
    <3> QED
      BY <3>1, <3>3 DEF Alike
  <2>2. SumAlike(f, active', 1, time', active', 1, n - 2)
    <3>1. 1 \in 1 .. Len(active') /\ n - 2 \in Nat
      BY <1>b, <1>5
    <3> QED
      BY <1>5, <1>8, <1>9, <2>1, <3>1, SumsAlike
  <2>3. Sums(time', active')[1] = 0 /\ Sums(f, active')[1] = 0
    BY SumsIs
  <2>4. ASSUME NEW j \in 1 .. n - 1
        PROVE  Sums(time', active')[j] = Sums(f, active')[j] /\ Sums(f, active')[j] \in Nat
    <3>1. j - 1 \in 0 .. n - 2 /\ 1 + (j - 1) = j /\ j \in 0 .. Len(active')
      BY <1>b, <1>5
    <3>2. Sums(time', active')[j] - 0 = Sums(f, active')[j] - 0
      BY <2>2, <2>3, <3>1 DEF SumAlike
    <3>3. Sums(time', active')[j] \in Nat
      BY <1>5, <1>9, <3>1, SumsType
    <3>4. Sums(f, active')[j] \in Nat
      BY <1>5, <1>8, <3>1, SumsType
    <3> QED
      BY <3>2, <3>3, <3>4
  <2> QED
    BY <2>4
<1>12. /\ left' \in [Timers -> Nat] /\ due' \in [Timers -> Int]
       /\ \A u \in Timers : u # t /\ st[u] = "ACTIVE" =>
            left'[u] = Less(left[u], 1) /\ due'[u] = Excused(due[u])
  <2>1. \A u \in Timers : Less(left[u], 1) \in Nat
    BY <1>0, LessIs DEF TypeOK
  <2>2. \A d \in Int : Excused(d) \in Int
    <3>1. Less(v, T) \in Nat
      BY LessIs
    <3> QED
      BY <1>1, <3>1 DEF Excused
  <2>3. \A u \in Timers : Excused(due[u]) \in Int
    BY <1>0, <2>2 DEF TypeOK
  <2> HIDE DEF Excused
  <2>4. left' \in [Timers -> Nat]
    BY <1>a, <2>1
  <2>5. due' \in [Timers -> Int]
    BY <1>a, <2>3
  <2> QED
    BY <1>a, <2>4, <2>5
<1>13. TypeOK'
  <2>1. on' = TRUE /\ value' \in Nat /\ elapsed' \in Nat
    BY <1>10 DEF Load, Delta
  <2> QED
    BY <1>0, <1>a, <1>2, <1>4, <1>5, <1>9, <1>12, <2>1 DEF TypeOK, States
<1>14. ASSUME NEW j \in 1 .. Len(active')
       PROVE  /\ left'[active'[j]] <= (IF N > 1 THEN N ELSE 1) + Sums(time', active')[j]
              /\ due'[active'[j]] >= Less(N + Sums(time', active')[j], 1)
  <2>0. j \in 1 .. n - 1
    BY <1>5
  <2>1. PICK b \in Nat, u \in Timers, s \in Nat :
          /\ b = Behind(j + 1) /\ u = active[j + 1] /\ u # t /\ st[u] = "ACTIVE" /\ j + 1 \in 1 .. n
          /\ active'[j] = u /\ s = Sums(time', active')[j]
    BY <1>5, <1>6, <1>11, <2>0
  <2>2. PICK m \in Nat, d \in Int : m = left[u] /\ d = due[u]
    BY <1>0 DEF TypeOK
  <2>3. m <= Less(H + b, e) /\ d + e >= Less(T + b, 1)
    BY <1>b, <1>1, <2>1, <2>2
  <2>4. left'[u] = Less(m, 1) /\ due'[u] = Excused(d)
    BY <1>12, <2>1, <2>2
  <2>5. N + s = IF v > 0 THEN v + b ELSE Less(b, Less(e, T))
    BY <1>8, <1>11, <2>0, <2>1
  <2>6. H = IF T > 1 THEN T ELSE 1
    BY <1>1
  <2>7. v + e + 1 >= T /\ (v > 0 => v + e <= H)
    BY <1>1
  <2>a. Less(m, 1) <= N + s => Less(m, 1) <= (IF N > 1 THEN N ELSE 1) + s
    <3>1. Less(m, 1) \in Nat
      BY LessIs
    <3>2. \A x \in Nat : x <= N + s => x <= (IF N > 1 THEN N ELSE 1) + s
      OBVIOUS
    <3> QED
      BY <3>1, <3>2
  <2>8. CASE v > 0
    <3>1. Excused(d) = d + Less(v, T)
      BY <1>1, <2>8 DEF Excused
    <3>2. Less(m, 1) <= N + s
      <4>1. m <= v + b + 1
        BY <2>3, <2>6, <2>7, <2>8 DEF Less
      <4> QED
        BY <2>5, <2>8, <4>1 DEF Less
    <3>3. d + Less(v, T) >= Less(N + s, 1)
      <4>1. Less(N + s, 1) = v + b - 1
        BY <2>5, <2>8 DEF Less
      <4>2. CASE T >= 1
        <5>1. d + e >= T + b - 1 /\ H = T
          BY <2>3, <2>6, <4>2 DEF Less
        <5>2. d >= v + b - 1
          BY <2>7, <2>8, <5>1
        <5>3. Less(v, T) \in Nat
          BY LessIs
        <5> QED
          BY <4>1, <5>2, <5>3
      <4>3. CASE T = 0
        <5>1. v = 1 /\ e = 0 /\ Less(v, T) = 1
          BY <2>6, <2>7, <2>8, <4>3 DEF Less
        <5>2. d >= Less(b, 1)
          BY <2>3, <4>3, <5>1
        <5>3. d + 1 >= b
          BY <5>2 DEF Less
        <5> QED
          BY <4>1, <5>1, <5>3
      <4> QED
        BY <4>2, <4>3
    <3> QED
      BY <2>1, <2>4, <2>a, <3>1, <3>2, <3>3
  <2>9. CASE v = 0
    <3>1. Excused(d) = IF d < 0 THEN 0 ELSE d
      BY <1>1, <2>9 DEF Excused
    <3>2. N + s = Less(b, Less(e, T))
      BY <2>5, <2>9
    <3>3. Less(m, 1) <= N + s
      <4>1. CASE e > T
        <5>1. Less(e, T) = e - T
          BY <4>1 DEF Less
        <5>2. Less(m, 1) <= Less(b, e - T)
          <6>1. CASE T >= 1
            <7>1. H = T
              BY <2>6, <6>1
            <7>2. m <= Less(b, e - T)
              BY <2>3, <4>1, <7>1 DEF Less
            <7> QED
              BY <7>2 DEF Less
          <6>2. CASE T = 0
            <7>1. H = 1
              BY <2>6, <6>2
            <7> QED
              BY <2>3, <6>2, <7>1 DEF Less
          <6> QED
            BY <6>1, <6>2
        <5> QED
          BY <3>2, <5>1, <5>2
      <4>2. CASE e <= T
        <5>1. N + s = b
          BY <3>2, <4>2 DEF Less
        <5>2. m <= b + 1
          BY <2>3, <2>6, <2>7, <2>9 DEF Less
        <5> QED
          BY <5>1, <5>2 DEF Less
      <4> QED
        BY <4>1, <4>2
    <3>4. (IF d < 0 THEN 0 ELSE d) >= Less(N + s, 1)
      <4>1. CASE e > T
        <5>1. N + s = Less(b, e - T)
          BY <3>2, <4>1 DEF Less
        <5>2. d + e >= T + b - 1
          BY <2>3 DEF Less
        <5> QED
          BY <4>1, <5>1, <5>2 DEF Less
      <4>2. CASE e <= T
        <5>1. N + s = b
          BY <3>2, <4>2 DEF Less
        <5>2. d + e >= T + b - 1
          BY <2>3 DEF Less
        <5> QED
          BY <4>2, <5>1, <5>2 DEF Less
      <4> QED
        BY <4>1, <4>2
    <3> QED
      BY <2>1, <2>4, <2>a, <3>1, <3>3, <3>4
  <2> QED
    BY <2>8, <2>9
<1>15. CounterInv' /\ WaitInv'
  BY <1>5, <1>10, <1>13, <1>14, Loads
<1> QED
  BY <1>2, <1>4, <1>5, <1>13, <1>15, Assembled

-----------------------------------------------------------------------------
(* The interrupt                                                             *)

\* The first p timers of the list fire: those due as long after the head as it
\* is overdue.
LEMMA Hits ==
  ASSUME TimerInv, IrqFires
  PROVE  \E p \in 1 .. Len(active), x \in Nat :
           /\ x = Less(elapsed, time[Head(active)])
           /\ \A j \in 2 .. p : Behind(j) <= x
           /\ \A j \in p + 1 .. Len(active) : Behind(j) > x
           /\ pc = "entered" /\ active # <<>> /\ time[Head(active)] <= elapsed + 1
           /\ active' = SubSeq(active, p + 1, Len(active))
           /\ LET hit == SubSeq(active, 1, p)
                  out == ToSet(hit)
              IN  /\ Call(hit, [t \in Timers |-> IF t \in out THEN "FIRED" ELSE st[t]])
                  /\ IF active' = <<>> THEN HwStop /\ time' = Without(time, out)
                     ELSE LET first == time[Head(active')] - (x - Behind(p))
                          IN  time' = Without([time EXCEPT ![Head(active')] = first], out) /\ HwStart(first)
                  /\ due' = Without(due, out)
           /\ left' = [t \in Timers |-> IF t \in ToSet(active') THEN Less(left[t], 1) ELSE 0]
           /\ UNCHANGED collapsed
<1>0. TypeOK /\ active # <<>>
  BY InvIs DEF IrqFires
<1>1. PICK n \in Nat : n = Len(active)
  BY <1>0, BehindIs
<1>2. PICK x \in Nat : x = Overdue /\ x = Less(elapsed, time[Head(active)])
  <2>1. elapsed \in Nat /\ time[Head(active)] \in Nat
    BY <1>0, BehindIs DEF TypeOK
  <2> QED
    BY <1>0, <2>1, LessIs DEF Overdue
<1>3. PICK p : p = 1 + Cardinality({j \in 2 .. Len(active) : Behind(j) <= Overdue})
  OBVIOUS
<1>4. {j \in 2 .. Len(active) : Behind(j) <= Overdue} = {j \in 2 .. Len(active) : Behind(j) < x + 1}
  <2>1. \A j \in 2 .. n : Behind(j) \in Nat
    BY <1>0, <1>1, BehindIs
  <2>2. \A j \in 2 .. n : Behind(j) <= x <=> Behind(j) < x + 1
    BY <2>1
  <2> QED
    BY <1>1, <1>2, <2>2
<1>5. /\ p \in 1 .. n
      /\ \A j \in 2 .. p : Behind(j) < x + 1
      /\ \A j \in p + 1 .. n : Behind(j) >= x + 1
  <2>1. PICK y \in Nat : y = x + 1
    OBVIOUS
  <2>2. p = 1 + Cardinality({j \in 2 .. Len(active) : Behind(j) < y})
    BY <1>3, <1>4, <2>1
  <2> QED
    BY <1>0, <1>1, <2>1, <2>2, FirstDue
<1>6. /\ \A j \in 2 .. p : Behind(j) <= x
      /\ \A j \in p + 1 .. n : Behind(j) > x
  <2>1. \A j \in 0 .. n : Behind(j) \in Nat
    BY <1>0, <1>1, BehindIs
  <2>2. ASSUME NEW j \in 2 .. p PROVE Behind(j) <= x
    <3>1. Behind(j) \in Nat
      BY <1>5, <2>1
    <3> QED
      BY <1>5, <3>1
  <2>3. ASSUME NEW j \in p + 1 .. n PROVE Behind(j) > x
    <3>1. Behind(j) \in Nat
      BY <1>5, <2>1
    <3> QED
      BY <1>5, <3>1
  <2> QED
    BY <2>2, <2>3
<1>7. /\ pc = "entered" /\ time[Head(active)] <= elapsed + 1
      /\ active' = SubSeq(active, p + 1, Len(active))
      /\ LET hit == SubSeq(active, 1, p)
             out == ToSet(hit)
         IN  /\ Call(hit, [t \in Timers |-> IF t \in out THEN "FIRED" ELSE st[t]])
             /\ IF active' = <<>> THEN HwStop /\ time' = Without(time, out)
                ELSE LET first == time[Head(active')] - (x - Behind(p))
                     IN  time' = Without([time EXCEPT ![Head(active')] = first], out) /\ HwStart(first)
             /\ due' = Without(due, out)
      /\ left' = [t \in Timers |-> IF t \in ToSet(active') THEN Less(left[t], 1) ELSE 0]
      /\ UNCHANGED collapsed
  BY <1>2, <1>3 DEF IrqFires, Delta
<1> QED
  BY <1>0, <1>1, <1>2, <1>5, <1>6, <1>7

LEMMA IrqFiresStep ==
  ASSUME TimerInv, IrqFires
  PROVE  TimerInv'
<1>0. /\ TypeOK /\ collapsed = FALSE /\ Holds(active, ActiveTimers) /\ Holds(fired, FiredTimers)
      /\ \A u \in Timers : st[u] = "CALLBACK" => pc = "callback" /\ cur = u
      /\ HandlerInv
  BY InvIs
<1>1. PICK p \in 1 .. Len(active), x \in Nat :
        /\ x = Less(elapsed, time[Head(active)])
        /\ \A j \in 2 .. p : Behind(j) <= x
        /\ \A j \in p + 1 .. Len(active) : Behind(j) > x
        /\ pc = "entered" /\ active # <<>> /\ time[Head(active)] <= elapsed + 1
        /\ active' = SubSeq(active, p + 1, Len(active))
        /\ LET hit == SubSeq(active, 1, p)
               out == ToSet(hit)
           IN  /\ Call(hit, [t \in Timers |-> IF t \in out THEN "FIRED" ELSE st[t]])
               /\ IF active' = <<>> THEN HwStop /\ time' = Without(time, out)
                  ELSE LET first == time[Head(active')] - (x - Behind(p))
                       IN  time' = Without([time EXCEPT ![Head(active')] = first], out) /\ HwStart(first)
               /\ due' = Without(due, out)
        /\ left' = [t \in Timers |-> IF t \in ToSet(active') THEN Less(left[t], 1) ELSE 0]
        /\ UNCHANGED collapsed
  BY Hits
<1>2. PICK n \in Nat : n = Len(active) /\ p \in 1 .. n /\ active \in Seq(Timers) /\ active # <<>>
  BY <1>0, <1>1, BehindIs DEF TypeOK
<1>3. PICK hit, out, states :
        /\ hit = SubSeq(active, 1, p) /\ out = ToSet(hit)
        /\ states = [t \in Timers |-> IF t \in out THEN "FIRED" ELSE st[t]]
        /\ Call(hit, states)
        /\ IF active' = <<>> THEN HwStop /\ time' = Without(time, out)
           ELSE LET first == time[Head(active')] - (x - Behind(p))
                IN  time' = Without([time EXCEPT ![Head(active')] = first], out) /\ HwStart(first)
        /\ due' = Without(due, out)
  BY <1>1
<1>4. PICK H \in Nat \ {0}, T \in Nat, v \in Nat, e \in Nat, l \in Nat, B \in Nat :
        /\ H = HeadLoad /\ T = time[Head(active)] /\ H = IF T > 1 THEN T ELSE 1
        /\ v = value /\ e = elapsed /\ l = late /\ B = Before
        /\ v + e + 1 >= T
        /\ v > 0 => v + e <= H
        /\ v = 0 => (irq \/ pc = "entered") /\ e <= H + l + B
        /\ on
        /\ \A i \in 1 .. Len(active) :
             /\ left[active[i]] <= Less(H + Behind(i), e)
             /\ due[active[i]] + e >= Less(T + Behind(i), 1)
  BY <1>2, Numbers
<1>5. x = Less(e, T) /\ T <= e + 1
  BY <1>1, <1>4
<1>6. /\ Holds(hit, out) /\ out \subseteq ActiveTimers
      /\ Holds(active', ActiveTimers \ out)
      /\ \A i \in 1 .. n : active[i] \in out <=> i <= p
  <2>1. LET o == ToSet(SubSeq(active, 1, p)) IN
        /\ Holds(SubSeq(active, 1, p), o) /\ o \subseteq ActiveTimers
        /\ Holds(SubSeq(active, p + 1, Len(active)), ActiveTimers \ o)
        /\ \A i \in 1 .. Len(active) : active[i] \in o <=> i <= p
    BY <1>0, HoldsCut
  <2> QED
    BY <1>1, <1>2, <1>3, <2>1
<1>7. /\ active' \in Seq(Timers) /\ Len(active') = n - p
      /\ \A j \in 1 .. n - p : active'[j] = active[p + j]
      /\ hit # <<>>
  <2>1. /\ SubSeq(active, 1, p) \in Seq(Timers) /\ Len(SubSeq(active, 1, p)) = p
        /\ SubSeq(active, p + 1, Len(active)) \in Seq(Timers)
        /\ Len(SubSeq(active, p + 1, Len(active))) = Len(active) - p
        /\ \A j \in 1 .. Len(active) - p : SubSeq(active, p + 1, Len(active))[j] = active[p + j]
    BY <1>2, CutAt
  <2>2. hit # <<>>
    BY <1>2, <1>3, <2>1
  <2> QED
    BY <1>1, <1>2, <2>1, <2>2
\* What has fired is handed to the handler, which was not in a callback.
<1>8. /\ states \in [Timers -> States]
      /\ {t \in Timers : states[t] = "FIRED"} = out
      /\ {t \in Timers : states[t] = "ACTIVE"} = ActiveTimers \ out
      /\ \A t \in Timers : states[t] # "CALLBACK"
  <2>1. \A t \in Timers : states[t] = IF t \in out THEN "FIRED" ELSE st[t]
    BY <1>3
  <2>2. \A t \in Timers : st[t] # "CALLBACK" /\ st[t] \in States
    BY <1>0, <1>1 DEF TypeOK, States
  <2>3. FiredTimers = {}
    <3>1. fired = <<>>
      BY <1>0, <1>1 DEF HandlerInv
    <3> QED
      BY <1>0, <3>1 DEF Holds
  <2>4. states \in [Timers -> States]
    BY <1>3, <2>2 DEF States
  <2>5. out \subseteq Timers
    BY <1>6 DEF ActiveTimers
  <2>6. {t \in Timers : states[t] = "FIRED"} = out
    BY <2>1, <2>3, <2>5 DEF FiredTimers
  <2>7. {t \in Timers : states[t] = "ACTIVE"} = ActiveTimers \ out
    BY <2>1 DEF ActiveTimers
  <2> QED
    BY <2>1, <2>2, <2>4, <2>6, <2>7
<1>9. /\ st' \in [Timers -> States] /\ fired' \in Seq(Timers)
      /\ pc' \in {"idle", "callback"} /\ cur' \in Timers \cup {NONE} /\ late' \in 0 .. MaxLate
      /\ Holds(fired', FiredTimers')
      /\ ActiveTimers' = ActiveTimers \ out
      /\ \A t \in Timers : st'[t] = "CALLBACK" => pc' = "callback" /\ cur' = t
      /\ HandlerInv'
  <2>1. Holds(hit, {t \in Timers : states[t] = "FIRED"})
    BY <1>6, <1>8
  <2> QED
    BY ZenonT(30), <1>0, <1>3, <1>8, <2>1, Called
<1>10. Holds(active', ActiveTimers')
  BY <1>6, <1>9
<1>11. collapsed' = FALSE
  BY <1>0, <1>1
<1>12. /\ left' \in [Timers -> Nat]
       /\ \A j \in 1 .. n - p : left'[active'[j]] = Less(left[active'[j]], 1)
  <2>1. \A u \in Timers : Less(left[u], 1) \in Nat
    BY <1>0, LessIs DEF TypeOK
  <2>2. left' = [t \in Timers |-> IF t \in ToSet(active') THEN Less(left[t], 1) ELSE 0]
    BY <1>1
  <2>3. \A j \in 1 .. n - p : active'[j] \in ToSet(active') /\ active'[j] \in Timers
    <3>1. DOMAIN active' = 1 .. n - p
      BY <1>7
    <3> QED
      BY <1>7, <3>1 DEF ToSet
  <2> QED
    BY <2>1, <2>2, <2>3
<1>13. /\ due' \in [Timers -> Int]
       /\ \A u \in Timers : due'[u] = IF u \in out THEN 0 ELSE due[u]
  <2>1. due \in [Timers -> Int]
    BY <1>0 DEF TypeOK
  <2> QED
    BY <1>3, <2>1, WithoutIs
<1>14. CASE active' = <<>>
  <2>1. /\ on' = FALSE /\ irq' = FALSE /\ value' = 0 /\ elapsed' = 0
        /\ time' = Without(time, out)
    BY <1>3, <1>14 DEF HwStop
  <2>2. time' \in [Timers -> Nat]
    <3>1. time \in [Timers -> Nat]
      BY <1>0 DEF TypeOK
    <3> QED
      BY <2>1, <3>1, WithoutIs
  <2>3. TypeOK'
    BY <1>7, <1>9, <1>11, <1>12, <1>13, <2>1, <2>2 DEF TypeOK, States
  <2>4. CounterInv' /\ WaitInv'
    <3>1. DOMAIN active' = {}
      BY <1>14
    <3> QED
      BY <1>14, <2>1, <3>1 DEF CounterInv, WaitInv
  <2> QED
    BY <1>9, <1>10, <1>11, <2>3, <2>4, Assembled
<1>15. CASE active' # <<>>
  <2>1. p < n /\ 1 \in 1 .. n - p /\ p + 1 \in 1 .. n /\ p + 1 \in 2 .. n /\ (p + 1) - 1 = p
    <3>1. n - p # 0
      BY <1>7, <1>15
    <3> QED
      BY <1>2, <3>1
  <2>2. PICK s \in Timers, z \in Nat, b \in Nat, q \in Nat :
          /\ s = active[p + 1] /\ z = time[s] /\ q = Behind(p) /\ b = Behind(p + 1)
          /\ b = q + z /\ b > x /\ q <= x
    <3>1. active[p + 1] \in Timers /\ time[active[p + 1]] \in Nat
      BY <1>0, <1>2, <2>1, BehindIs
    <3>2. Behind(p) \in Nat /\ Behind(p + 1) \in Nat /\ Behind(p + 1) = Behind(p) + time[active[p + 1]]
      BY <1>0, <1>2, <2>1, BehindIs
    <3>3. Behind(p + 1) > x
      <4>1. p + 1 \in p + 1 .. Len(active)
        BY <1>2, <2>1
      <4> QED
        BY <1>1, <4>1
    <3>4. Behind(p) <= x
      <4>1. CASE p = 1
        <5>1. Behind(1) = 0
          BY <1>0, BehindIs
        <5> QED
          BY <4>1, <5>1
      <4>2. CASE p # 1
        <5>1. p \in 2 .. p
          BY <1>2, <4>2
        <5> QED
          BY <1>1, <5>1
      <4> QED
        BY <4>1, <4>2
    <3> QED
      BY <3>1, <3>2, <3>3, <3>4
  <2>3. Head(active') = active'[1] /\ active'[1] = s
    <3>1. active'[1] = active[p + 1]
      BY <1>7, <2>1
    <3> QED
      BY <1>7, <1>15, <2>2, <3>1
  <2>4. PICK N \in Nat \ {0} : N = b - x /\ N = z - (x - q)
    BY <2>2
  <2>5. time' = Without([time EXCEPT ![s] = N], out) /\ Load(N) /\ irq' = irq
    <3>1. time[Head(active')] - (x - Behind(p)) = N
      BY <2>2, <2>3, <2>4
    <3> QED
      BY <1>3, <1>15, <2>3, <3>1 DEF HwStart
  <2>6. \A i \in p + 1 .. n : active[i] \in Timers /\ active[i] \notin out /\ (i # p + 1 => active[i] # s)
    <3> TAKE i \in p + 1 .. n
    <3>1. i \in 1 .. n /\ ~(i <= p)
      BY <1>2
    <3>2. active[i] \in Timers
      BY <1>0, <1>2, <3>1, BehindIs
    <3>3. active[i] \notin out
      BY <1>6, <3>1
    <3>4. i # p + 1 => active[i] # s
      BY <1>0, <1>2, <2>1, <2>2, <3>1 DEF Holds
    <3> QED
      BY <3>2, <3>3, <3>4
  <2>7. /\ time' \in [Timers -> Nat] /\ time'[s] = N
        /\ \A i \in p + 2 .. n : time'[active[i]] = time[active[i]]
    <3>1. PICK f : /\ f = [time EXCEPT ![s] = N] /\ f \in [Timers -> Nat]
                   /\ \A u \in Timers : f[u] = IF u = s THEN N ELSE time[u]
      <4>1. time \in [Timers -> Nat]
        BY <1>0 DEF TypeOK
      <4>2. PICK f : f = [time EXCEPT ![s] = N]
        OBVIOUS
      <4>3. f \in [Timers -> Nat]
        BY <4>1, <4>2
      <4>4. \A u \in Timers : f[u] = IF u = s THEN N ELSE time[u]
        BY <4>1, <4>2
      <4> QED
        BY <4>2, <4>3, <4>4
    <3>2. /\ time' \in [Timers -> Nat]
          /\ \A u \in Timers : time'[u] = IF u \in out THEN 0 ELSE f[u]
      BY ZenonT(30), <2>5, <3>1, WithoutIs
    <3>3. s \notin out
      <4>1. p + 1 \in p + 1 .. n
        BY <2>1
      <4> QED
        BY <2>2, <2>6, <4>1
    <3>4. \A i \in p + 2 .. n : i \in p + 1 .. n /\ i # p + 1
      BY <2>1
    <3>5. \A i \in p + 2 .. n : time'[active[i]] = time[active[i]]
      BY <2>6, <3>1, <3>2, <3>4
    <3>6. time'[s] = N
      BY <3>1, <3>2, <3>3
    <3> QED
      BY <3>2, <3>5, <3>6
  <2>8. TypeOK'
    <3>1. on' = TRUE /\ value' \in Nat /\ elapsed' \in Nat
      BY <2>5 DEF Load, Delta
    <3> QED
      BY <1>0, <1>7, <1>9, <1>11, <1>12, <1>13, <2>5, <2>7, <3>1 DEF TypeOK, States
  <2>9. Moved(time', active', p + 1, 1, n - (p + 1))
    <3>1. Alike(time, active, p + 1, time', active', 1, n - (p + 1))
      <4>1. (p + 1) + (n - (p + 1)) <= Len(active) /\ 1 + (n - (p + 1)) <= Len(active')
        BY <1>2, <1>7, <2>1
      <4>2. ASSUME NEW i \in 1 .. n - (p + 1)
            PROVE  time'[active'[1 + i]] = time[active[(p + 1) + i]]
        <5>1. 1 + i \in 1 .. n - p /\ p + (1 + i) = (p + 1) + i /\ (p + 1) + i \in p + 2 .. n
          BY <1>2, <2>1
        <5> QED
          BY <1>7, <2>7, <5>1
      <4> QED
        BY <4>1, <4>2 DEF Alike
    <3>2. p + 1 \in 1 .. Len(active) /\ 1 \in 1 .. Len(active') /\ n - (p + 1) \in Nat
      BY <1>2, <1>7, <2>1
    <3> QED
      BY <1>0, <1>7, <2>7, <3>1, <3>2, Shifted
  <2>10. ASSUME NEW j \in 1 .. Len(active')
         PROVE  /\ left'[active'[j]] <= (IF N > 1 THEN N ELSE 1) + Sums(time', active')[j]
                /\ due'[active'[j]] >= Less(N + Sums(time', active')[j], 1)
    <3>0. j \in 1 .. n - p
      BY <1>7
    <3>1. PICK c \in Nat, u \in Timers :
            /\ c = Behind(p + j) /\ u = active[p + j] /\ u \notin out /\ c > x
            /\ active'[j] = u /\ p + j \in 1 .. n
      <4>1. p + j \in p + 1 .. n /\ p + j \in 1 .. n /\ p + j \in p + 1 .. Len(active)
        BY <1>2, <3>0
      <4>2. Behind(p + j) \in Nat /\ Behind(p + j) > x
        BY <1>0, <1>1, <1>2, <4>1, BehindIs
      <4>3. active[p + j] \in Timers /\ active[p + j] \notin out
        BY <2>6, <4>1
      <4> QED
        BY <1>7, <3>0, <4>1, <4>2, <4>3
    <3>2. PICK m \in Nat, d \in Int : m = left[u] /\ d = due[u]
      BY <1>0 DEF TypeOK
    <3>3. m <= Less(H + c, e) /\ d + e >= Less(T + c, 1)
      BY <1>2, <1>4, <3>1, <3>2
    <3>4. left'[u] = Less(m, 1) /\ due'[u] = d
      BY <1>12, <1>13, <3>0, <3>1, <3>2
    <3>5. PICK g \in Nat : g = Sums(time', active')[j] /\ N + g = c - x
      <4>1. j - 1 \in 0 .. n - (p + 1) /\ 1 + (j - 1) = j /\ (p + 1) + (j - 1) = p + j
        BY <1>2, <3>0
      <4>2. /\ Sums(time', active')[j] \in Nat
            /\ Sums(time', active')[j] = Sums(time', active')[1] + (c - b)
        BY <2>2, <2>9, <3>1, <4>1 DEF Moved
      <4>3. Sums(time', active')[1] = 0
        BY SumsFirst
      <4> QED
        BY <2>4, <4>2, <4>3
    <3>6. Less(m, 1) <= N + g
      <4>1. CASE e > T
        <5>1. x = e - T
          BY <1>5, <4>1 DEF Less
        <5>2. m <= (c - x) + 1
          <6>1. H = IF T > 1 THEN T ELSE 1
            BY <1>4
          <6>2. m <= Less(H + c, e) /\ c > e - T
            BY <3>1, <3>3, <5>1
          <6>3. H <= T + 1
            BY <6>1
          <6>4. H + c - e <= (c - (e - T)) + 1
            BY <6>3
          <6>5. Less(H + c, e) <= (c - (e - T)) + 1
            BY <4>1, <6>2, <6>4 DEF Less
          <6> QED
            BY <5>1, <6>2, <6>5 DEF Less
        <5> QED
          BY SMTT(30), <3>1, <3>5, <5>2 DEF Less
      <4>2. CASE e <= T
        <5>1. x = 0
          BY <1>5, <4>2 DEF Less
        <5>2. m <= c + 1
          BY SMTT(30), <1>4, <1>5, <3>3, <4>2 DEF Less
        <5> QED
          BY <3>5, <5>1, <5>2 DEF Less
      <4> QED
        BY <4>1, <4>2
    <3>7. d >= Less(N + g, 1)
      <4>1. Less(N + g, 1) = c - x - 1
        BY SMTT(30), <3>1, <3>5 DEF Less
      <4>2. d + e >= T + c - 1
        BY <3>3 DEF Less
      <4>3. CASE e > T
        <5>1. x = e - T
          BY <1>5, <4>3 DEF Less
        <5> QED
          BY <4>1, <4>2, <5>1
      <4>4. CASE e <= T
        <5>1. x = 0
          BY <1>5, <4>4 DEF Less
        <5> QED
          BY <4>1, <4>2, <4>4, <5>1
      <4> QED
        BY <4>3, <4>4
    <3>8. Less(m, 1) <= (IF N > 1 THEN N ELSE 1) + g
      <4>1. Less(m, 1) \in Nat
        BY LessIs
      <4>2. \A y \in Nat : y <= N + g => y <= (IF N > 1 THEN N ELSE 1) + g
        OBVIOUS
      <4> QED
        BY <3>6, <4>1, <4>2
    <3> QED
      BY <3>1, <3>4, <3>5, <3>7, <3>8
  <2>11. CounterInv' /\ WaitInv'
    <3>1. time'[Head(active')] = N
      BY <2>3, <2>7
    <3> QED
      BY <1>15, <2>5, <2>8, <2>10, <3>1, Loads
  <2> QED
    BY <1>9, <1>10, <1>11, <2>8, <2>11, Assembled
<1> QED
  BY <1>14, <1>15

-----------------------------------------------------------------------------
(* The invariant                                                             *)

LEMMA InitInv ==
  ASSUME Init
  PROVE  TimerInv
<1>1. TypeOK
  <2>1. /\ st \in [Timers -> {"FREE", "ALLOC", "ACTIVE", "FIRED", "CALLBACK"}]
        /\ time \in [Timers -> Nat] /\ left \in [Timers -> Nat] /\ due \in [Timers -> Int]
    BY DEF Init
  <2>2. late \in 0 .. MaxLate
    BY BoundsAssumption DEF Init
  <2>3. active \in Seq(Timers) /\ fired \in Seq(Timers)
    <3>1. active = <<>> /\ fired = <<>>
      BY DEF Init
    <3> QED
      BY <3>1
  <2>4. /\ on \in BOOLEAN /\ value \in Nat /\ elapsed \in Nat /\ irq \in BOOLEAN
        /\ pc \in {"idle", "entered", "callback"} /\ cur \in Timers \cup {NONE}
        /\ collapsed \in BOOLEAN
    BY DEF Init
  <2> QED
    BY <2>1, <2>2, <2>3, <2>4 DEF TypeOK
<1>2. Holds(active, ActiveTimers) /\ Holds(fired, FiredTimers)
  <2>1. ActiveTimers = {} /\ FiredTimers = {}
    BY DEF Init, ActiveTimers, FiredTimers
  <2>2. active = <<>> /\ fired = <<>>
    BY DEF Init
  <2> QED
    BY <2>1, <2>2 DEF Holds
<1>3. \A t \in Timers : st[t] # "CALLBACK"
  BY DEF Init
<1>4. ListsMatch
  BY <1>1, <1>2, <1>3, ListsHold
<1>5. NeverCollapses /\ HandlerInv /\ CounterInv
  BY DEF Init, NeverCollapses, HandlerInv, CounterInv
<1>6. WaitInv
  <2>1. DOMAIN active = {}
    BY DEF Init
  <2> QED
    BY <2>1 DEF WaitInv
<1> QED
  BY <1>1, <1>4, <1>5, <1>6 DEF TimerInv

LEMMA StartStep ==
  ASSUME TimerInv, NEW t \in Timers, NEW ticks \in Delta .. MaxTicks, Start(t, ticks)
  PROVE  TimerInv'
<1>1. ticks \in Nat \ {0}
  BY BoundsAssumption DEF Delta
<1>2. StartFirst(t, ticks) \/ StartInFront(t, ticks) \/ StartBehind(t, ticks)
  BY DEF Start
<1> QED
  BY <1>1, <1>2, StartFirstStep, StartInFrontStep, StartBehindStep

LEMMA NextInv ==
  ASSUME TimerInv, [Next]_vars
  PROVE  TimerInv'
<1>1. CASE Tick
  BY <1>1, TickStep
<1>2. ASSUME NEW t \in Timers, Alloc(t) \/ FreeTimer(t)
      PROVE  TimerInv'
  BY <1>2, AllocStep
<1>3. ASSUME NEW t \in Timers, NEW ticks \in Delta .. MaxTicks, Start(t, ticks)
      PROVE  TimerInv'
  BY <1>3, StartStep
<1>4. ASSUME NEW t \in Timers, StopOnly(t) \/ StopHead(t) \/ Stop(t) \/ StopFired(t)
      PROVE  TimerInv'
  BY <1>4, StopOnlyStep, StopHeadStep, StopStep, StopFiredStep
<1>5. CASE IrqEntry
  BY <1>5, IrqEntryStep
<1>6. CASE IrqTooLate
  BY <1>6, IrqTooLateStep
<1>7. CASE IrqFires
  BY <1>7, IrqFiresStep
<1>8. CASE CallbackReturns
  BY <1>8, CallbackReturnsStep
<1>9. CASE UNCHANGED vars
  <2>1. UNCHANGED <<st, time, active, fired, on, value, elapsed, irq, pc, cur, late, left, due, collapsed>>
    BY <1>9 DEF vars, lists, hw, handler, ghosts
  <2>2. TypeOK' /\ ListsMatch' /\ NeverCollapses' /\ HandlerInv'
    BY <2>1 DEF TimerInv, TypeOK, ListsMatch, NeverCollapses, HandlerInv
  <2>3. HeadLoad' = HeadLoad /\ Before' = Before /\ \A k : Behind(k)' = Behind(k)
    BY <2>1 DEF HeadLoad, Before, Behind
  <2>4. CounterInv'
    BY <2>1, <2>3 DEF TimerInv, CounterInv
  <2>5. WaitInv'
    BY <2>1, <2>3 DEF TimerInv, WaitInv
  <2> QED
    BY <2>2, <2>4, <2>5 DEF TimerInv
<1>10. \/ Tick
       \/ \E t \in Timers : Alloc(t) \/ FreeTimer(t)
       \/ \E t \in Timers : \E ticks \in Delta .. MaxTicks : Start(t, ticks)
       \/ \E t \in Timers : StopOnly(t) \/ StopHead(t) \/ Stop(t) \/ StopFired(t)
       \/ IrqEntry \/ IrqTooLate \/ IrqFires \/ CallbackReturns
       \/ UNCHANGED vars
  BY DEF Next
<1> QED
  BY <1>1, <1>2, <1>3, <1>4, <1>5, <1>6, <1>7, <1>8, <1>9, <1>10

\* TimerInv is an invariant: the two lists are what the states of the timers say,
\* the counter, the pending interrupt and the handler are where the head's time
\* puts them, and no timer is further off, or later, than it was started for.
THEOREM TimerInvariant == Spec => []TimerInv
<1>1. Init => TimerInv
  BY InitInv
<1>2. TimerInv /\ [Next]_vars => TimerInv'
  BY NextInv
<1> QED
  BY <1>1, <1>2, PTL DEF Spec

\* None of the assertions "HWTIMER collapsed" in __hwtimer_start_int, hwtimer_stop
\* and hwtimer_handler fails, whoever calls in before the handler has the lock or
\* while it is in a callback.
THEOREM AssertionsHold == Spec => []NeverCollapses
<1>1. TimerInv => NeverCollapses
  BY DEF TimerInv
<1> QED
  BY <1>1, TimerInvariant, PTL

\* hwtimer_stop finds an active timer in the active list and a fired one in the
\* fired list, wherever the handler is with them.
THEOREM ListsAgree == Spec => []ListsMatch
<1>1. TimerInv => ListsMatch
  BY DEF TimerInv
<1> QED
  BY <1>1, TimerInvariant, PTL

\* As long as a timer is active, the hardware timer runs and its interrupt comes
\* no later than the head of the list is due: no call stops it or loads it with
\* more.
THEOREM StaysArmed == Spec => []HardwareArmed
<1>1. ASSUME TimerInv PROVE HardwareArmed
  <2> SUFFICES ASSUME active # <<>>
               PROVE  /\ on
                      /\ \/ irq \/ pc = "entered"
                         \/ value > 0 /\ (value = 1 \/ value + elapsed <= time[Head(active)])
    BY DEF HardwareArmed
  <2>1. TypeOK /\ CounterInv
    BY <1>1, InvIs
  <2>2. time[Head(active)] \in Nat /\ value \in Nat /\ elapsed \in Nat
    BY <2>1, BehindIs DEF TypeOK
  <2>3. on
    BY <2>1 DEF CounterInv
  <2>4. CASE value = 0
    BY <2>1, <2>3, <2>4 DEF CounterInv
  <2>5. CASE value > 0
    <3>1. value + elapsed <= HeadLoad
      BY <2>1, <2>5 DEF CounterInv
    <3>2. value = 1 \/ value + elapsed <= time[Head(active)]
      BY <2>2, <2>5, <3>1 DEF HeadLoad
    <3> QED
      BY <2>3, <2>5, <3>2
  <2> QED
    BY <2>2, <2>4, <2>5
<1>2. TimerInv => HardwareArmed
  BY <1>1
<1> QED
  BY <1>2, TimerInvariant, PTL

\* No timer waits longer than it was started for by more than twice the time the
\* interrupt and a handler can take, and a tick, but for what stops of the head
\* of the list cost it: being late does not add up along the list, nor over
\* time.
THEOREM LatenessIsBounded == Spec => []NotLate
<1>1. ASSUME TimerInv, NEW t \in Timers, st[t] = "ACTIVE"
      PROVE  due[t] + 2 * MaxLate + Delta >= 0
  <2>1. PICK k \in 1 .. Len(active) : active[k] = t
    BY <1>1, InvIs
  <2>2. TypeOK /\ active # <<>>
    BY <1>1, <2>1, InvIs
  <2>3. PICK H \in Nat \ {0}, T \in Nat, v \in Nat, e \in Nat, l \in Nat, B \in Nat :
          /\ H = HeadLoad /\ T = time[Head(active)] /\ H = IF T > 1 THEN T ELSE 1
          /\ v = value /\ e = elapsed /\ l = late /\ B = Before
          /\ v + e + 1 >= T
          /\ v > 0 => v + e <= H
          /\ v = 0 => (irq \/ pc = "entered") /\ e <= H + l + B
          /\ on
          /\ \A i \in 1 .. Len(active) :
               /\ left[active[i]] <= Less(H + Behind(i), e)
               /\ due[active[i]] + e >= Less(T + Behind(i), 1)
    BY <1>1, <2>2, Numbers
  <2>4. PICK b \in Nat, d \in Int : b = Behind(k) /\ d = due[t]
    BY SMTT(30), <2>1, <2>2, BehindIs DEF TypeOK
  <2>5. d + e >= Less(T + b, 1)
    BY <2>1, <2>3, <2>4
  <2>6. PICK M \in Nat : M = MaxLate /\ l <= M /\ B <= M
    BY <2>2, <2>3, BoundsAssumption DEF TypeOK, Before
  <2>7. e <= H + l + B
    <3>1. v > 0 => v + e <= H
      BY <2>3
    <3>2. v = 0 => e <= H + l + B
      BY <2>3
    <3> QED
      BY <3>1, <3>2
  <2>8. H = IF T > 1 THEN T ELSE 1
    BY <2>3
  <2>9. d + M + M + 1 >= 0
    BY <2>5, <2>6, <2>7, <2>8 DEF Less
  <2>10. d + 2 * M + 1 = d + M + M + 1
    OBVIOUS
  <2> QED
    BY <2>4, <2>6, <2>9, <2>10 DEF Delta
<1>2. TimerInv => NotLate
  BY <1>1 DEF NotLate
<1> QED
  BY <1>2, TimerInvariant, PTL

\* Only the handler fires a timer, and one that has no more than the tick of a
\* load left: what the counter, the differences and the elapsed time say is never
\* short of what was asked for, by more than the setups of the hardware allow.
THEOREM NeverEarly == Spec => NotEarly
<1> DEFINE OnTime == \A t \in Timers : st[t] = "ACTIVE" /\ st'[t] \in {"FIRED", "CALLBACK"} => left[t] <= Delta
<1>1. ASSUME TimerInv, [Next]_vars PROVE OnTime
  <2> SUFFICES ASSUME NEW t \in Timers, st[t] = "ACTIVE", st'[t] \in {"FIRED", "CALLBACK"}
               PROVE  left[t] <= 1
    BY DEF Delta
  <2>0. TypeOK
    BY <1>1, InvIs
  <2>1. CASE Tick \/ IrqEntry \/ IrqTooLate \/ UNCHANGED vars
    BY <2>1 DEF Tick, IrqEntry, IrqTooLate, vars, lists
  <2>2. ASSUME NEW u \in Timers, NEW x \in {"FREE", "ALLOC", "ACTIVE"}, st' = [st EXCEPT ![u] = x]
        PROVE  FALSE
    BY <2>0, <2>2 DEF TypeOK
  <2>3. ASSUME NEW u \in Timers,
               \/ Alloc(u) \/ FreeTimer(u)
               \/ \E ticks \in Delta .. MaxTicks : Start(u, ticks)
               \/ StopOnly(u) \/ StopHead(u) \/ Stop(u) \/ StopFired(u)
        PROVE  FALSE
    <3>1. \E x \in {"FREE", "ALLOC", "ACTIVE"} : st' = [st EXCEPT ![u] = x]
      BY <2>3 DEF Alloc, FreeTimer, Start, StopOnly, StopHead, Stop, StopFired, Stopped
    <3> QED
      BY <2>2, <3>1
  <2>4. CASE CallbackReturns
    <3>1. /\ pc = "callback" /\ Call(fired, [st EXCEPT ![cur] = IF @ = "CALLBACK" THEN "ALLOC" ELSE @])
      BY <2>4 DEF CallbackReturns
    <3>2. cur \in Timers /\ Holds(fired, FiredTimers)
      BY <1>1, <3>1, InvIs DEF HandlerInv
    <3>3. PICK s : /\ s = [st EXCEPT ![cur] = IF @ = "CALLBACK" THEN "ALLOC" ELSE @]
                   /\ Call(fired, s) /\ s[t] = "ACTIVE" /\ DOMAIN s = Timers
      <4>1. PICK s : s = [st EXCEPT ![cur] = IF @ = "CALLBACK" THEN "ALLOC" ELSE @]
        OBVIOUS
      <4>2. s[t] = "ACTIVE" /\ DOMAIN s = Timers
        BY <2>0, <3>2, <4>1 DEF TypeOK
      <4> QED
        BY <3>1, <4>1, <4>2
    <3>4. fired # <<>> => Head(fired) # t
      <4>1. fired # <<>> => Head(fired) \in FiredTimers
        BY <3>2, HoldsTail
      <4> QED
        BY <4>1 DEF FiredTimers
    <3> QED
      BY <3>3, <3>4 DEF Call
  <2>5. CASE IrqFires
    <3>1. PICK p \in 1 .. Len(active), x \in Nat :
            /\ x = Less(elapsed, time[Head(active)])
            /\ \A j \in 2 .. p : Behind(j) <= x
            /\ \A j \in p + 1 .. Len(active) : Behind(j) > x
            /\ pc = "entered" /\ active # <<>> /\ time[Head(active)] <= elapsed + 1
            /\ active' = SubSeq(active, p + 1, Len(active))
            /\ LET hit == SubSeq(active, 1, p)
                   out == ToSet(hit)
               IN  /\ Call(hit, [u \in Timers |-> IF u \in out THEN "FIRED" ELSE st[u]])
                   /\ IF active' = <<>> THEN HwStop /\ time' = Without(time, out)
                      ELSE LET first == time[Head(active')] - (x - Behind(p))
                           IN  time' = Without([time EXCEPT ![Head(active')] = first], out) /\ HwStart(first)
                   /\ due' = Without(due, out)
            /\ left' = [u \in Timers |-> IF u \in ToSet(active') THEN Less(left[u], 1) ELSE 0]
            /\ UNCHANGED collapsed
      BY <1>1, <2>5, Hits
    <3>2. PICK hit, out, s :
            /\ hit = SubSeq(active, 1, p) /\ out = ToSet(hit)
            /\ s = [u \in Timers |-> IF u \in out THEN "FIRED" ELSE st[u]]
            /\ Call(hit, s)
      BY <3>1
    <3>3. Holds(hit, out) /\ \A i \in 1 .. Len(active) : active[i] \in out <=> i <= p
      <4>1. LET o == ToSet(SubSeq(active, 1, p)) IN
            /\ Holds(SubSeq(active, 1, p), o)
            /\ \A i \in 1 .. Len(active) : active[i] \in o <=> i <= p
        BY <1>1, InvIs, HoldsCut
      <4> QED
        BY <3>2, <4>1
    <3>4. t \in out
      <4> SUFFICES ASSUME t \notin out PROVE FALSE
        OBVIOUS
      <4>1. s[t] = "ACTIVE" /\ DOMAIN s = Timers
        BY <3>2
      <4>2. hit # <<>> => Head(hit) \in out
        BY <3>3, HoldsTail
      <4> QED
        BY <3>2, <4>1, <4>2 DEF Call
    <3>5. PICK k \in 1 .. Len(active) : active[k] = t
      BY <1>1, InvIs
    <3>6. k <= p
      BY <3>3, <3>4, <3>5
    <3>7. PICK H \in Nat \ {0}, T \in Nat, v \in Nat, e \in Nat, l \in Nat, B \in Nat :
            /\ H = HeadLoad /\ T = time[Head(active)] /\ H = IF T > 1 THEN T ELSE 1
            /\ v = value /\ e = elapsed /\ l = late /\ B = Before
            /\ v + e + 1 >= T
            /\ v > 0 => v + e <= H
            /\ v = 0 => (irq \/ pc = "entered") /\ e <= H + l + B
            /\ on
            /\ \A i \in 1 .. Len(active) :
                 /\ left[active[i]] <= Less(H + Behind(i), e)
                 /\ due[active[i]] + e >= Less(T + Behind(i), 1)
      BY <1>1, <3>1, Numbers
    <3>8. x = Less(e, T) /\ T <= e + 1
      BY <3>1, <3>7
    <3>9. PICK b \in Nat : b = Behind(k) /\ b <= x
      <4>1. Behind(k) \in Nat /\ Behind(1) = 0
        BY <2>0, BehindIs
      <4>2. CASE k = 1
        BY <4>1, <4>2
      <4>3. CASE k # 1
        <5>1. k \in 2 .. p
          BY <3>6, <4>3
        <5> QED
          BY <3>1, <4>1, <5>1
      <4> QED
        BY <4>2, <4>3
    <3>10. PICK m \in Nat : m = left[t] /\ m <= Less(H + b, e)
      <4>1. left[t] \in Nat
        BY <2>0 DEF TypeOK
      <4> QED
        BY <3>5, <3>7, <3>9, <4>1
    <3>11. H = IF T > 1 THEN T ELSE 1
      BY <3>7
    <3>12. m <= 1
      BY <3>8, <3>9, <3>10, <3>11 DEF Less
    <3> QED
      BY <3>10, <3>12
  <2> QED
    BY <1>1, <2>1, <2>3, <2>4, <2>5 DEF Next
<1>2. TimerInv /\ [Next]_vars => OnTime
  BY <1>1
<1>3. TimerInv /\ [Next]_vars => [OnTime]_vars
  BY <1>2
<1> QED
  BY <1>3, TimerInvariant, PTL DEF Spec, NotEarly
=============================================================================
