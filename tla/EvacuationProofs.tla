-------------------------- MODULE EvacuationProofs --------------------------
(***************************************************************************)
(* What the searches of the registry find, in a sequence of any length:    *)
(* the binary search ends at the record that contains the address if       *)
(* records are in order and do not overlap, and freeze puts them in order. *)
(* Then: allocation places objects side by side in flex pages that do not  *)
(* overlap, for spaces, pages and objects of any size and any number of    *)
(* contexts.                                                               *)
(***************************************************************************)
EXTENDS Evacuation, FiniteSetTheorems, WellFoundedInduction, TLAPS

Record == [src : Nat, dest : Nat, size : Nat \ {0}]

\* Records lie one behind the other.
Ordered(seq, by) ==
  \A i, j \in DOMAIN seq : i < j => seq[i][by] + seq[i].size <= seq[j][by]

\* Natural numbers have a smallest.
LEMMA SmallestOf == ASSUME NEW T \in SUBSET Nat, T # {} PROVE \E x \in T : \A y \in T : x <= y
<1>1. PICK x \in T : \A y \in T : <<y, x>> \notin OpToRel(<, Nat)
  BY WFMin, NatLessThanWellFounded, Zenon
<1>2. \A y \in T : ~(y < x)
  BY <1>1, Zenon DEF OpToRel
<1> QED BY <1>2

-----------------------------------------------------------------------------
(* The binary search. *)

\* What is known of a record.
LEMMA RecordOf ==
  ASSUME NEW seq \in Seq(Record), NEW by \in {"src", "dest"}, NEW i \in DOMAIN seq
  PROVE  seq[i] \in Record /\ seq[i][by] \in Nat /\ seq[i].size \in Nat /\ seq[i].size > 0
<1>1. seq[i] \in Record
  OBVIOUS
<1> QED BY <1>1 DEF Record

\* Half a window is a window, and smaller.
LEMMA HalvedWindow ==
  ASSUME NEW seq \in Seq(Record), NEW by, NEW a,
         NEW w \in Windows(seq), w.size # 1
  PROVE  Halved(seq, by, a, w) \in Windows(seq) /\ Halved(seq, by, a, w).size < w.size
<1>1. PICK half : half = w.size \div 2
  OBVIOUS
<1>2. /\ w.size \in Nat /\ w.base \in Nat /\ w.size > 1 /\ w.base >= 1
      /\ Len(seq) \in Nat /\ DOMAIN seq = 1 .. Len(seq) /\ w.base + w.size <= Len(seq) + 1
  BY DEF Windows
<1>3. half \in Nat /\ half >= 1 /\ half < w.size
  BY <1>1, <1>2
<1>4. PICK b : b = IF Compare(seq[w.base + half], by, a) = "Greater" THEN w.base ELSE w.base + half
  OBVIOUS
<1>5. Halved(seq, by, a, w) = [size |-> w.size - half, base |-> b]
  BY <1>1, <1>4 DEF Halved
<1>6. b = w.base \/ b = w.base + half
  BY <1>4
<1>7. w.size - half \in DOMAIN seq /\ b \in DOMAIN seq /\ b + (w.size - half) <= Len(seq) + 1
  BY <1>2, <1>3, <1>6, SMTT(60)
<1> QED BY <1>2, <1>3, <1>5, <1>7 DEF Windows

InWindow(w, i) == w.base <= i /\ i < w.base + w.size

\* The record that contains the address stays in the window.
LEMMA HalvedKeeps ==
  ASSUME NEW seq \in Seq(Record), NEW by \in {"src", "dest"}, NEW a \in Nat, Ordered(seq, by),
         NEW w \in Windows(seq), w.size # 1,
         NEW i \in DOMAIN seq, Contains(seq[i], by, a), InWindow(w, i)
  PROVE  InWindow(Halved(seq, by, a, w), i)
<1>1. PICK half : half = w.size \div 2
  OBVIOUS
<1>2. PICK mid : mid = w.base + half
  OBVIOUS
<1>3. /\ w.size \in Nat /\ w.base \in Nat /\ w.size > 1 /\ w.base >= 1
      /\ Len(seq) \in Nat /\ DOMAIN seq = 1 .. Len(seq) /\ w.base + w.size <= Len(seq) + 1
  BY DEF Windows
<1>4. half \in Nat /\ half >= 1 /\ 2 * half <= w.size
  BY <1>1, <1>3
<1>5. mid \in DOMAIN seq /\ i \in Nat
  BY <1>2, <1>3, <1>4, SMTT(60)
<1>6. PICK b : b = IF Compare(seq[mid], by, a) = "Greater" THEN w.base ELSE mid
  OBVIOUS
<1>7. Halved(seq, by, a, w) = [size |-> w.size - half, base |-> b]
  BY <1>1, <1>2, <1>6 DEF Halved
<1>8. /\ seq[i][by] \in Nat /\ seq[i].size \in Nat /\ seq[i].size > 0
      /\ seq[mid][by] \in Nat /\ seq[mid].size \in Nat /\ seq[mid].size > 0
      /\ seq[i][by] <= a /\ a < seq[i][by] + seq[i].size
  BY <1>5, RecordOf DEF Contains
<1>9. /\ i < mid => seq[i][by] + seq[i].size <= seq[mid][by]
      /\ mid < i => seq[mid][by] + seq[mid].size <= seq[i][by]
  BY <1>5 DEF Ordered
<1>10. CASE Compare(seq[mid], by, a) = "Greater"
  <2>1. a < seq[mid][by]
    BY <1>8, <1>10 DEF Compare, Contains
  <2>2. i < mid
    BY <1>3, <1>5, <1>8, <1>9, <2>1, SMTT(60)
  <2>3. b = w.base
    BY <1>6, <1>10
  <2> QED BY <1>2, <1>3, <1>4, <1>5, <1>7, <2>2, <2>3, SMTT(60) DEF InWindow
<1>11. CASE Compare(seq[mid], by, a) # "Greater"
  <2>1. seq[mid][by] <= a
    BY <1>8, <1>11 DEF Compare, Contains
  <2>2. mid <= i
    BY <1>3, <1>5, <1>8, <1>9, <2>1
  <2>3. b = mid
    BY <1>6, <1>11
  <2> QED BY <1>2, <1>3, <1>4, <1>5, <1>7, <2>2, <2>3 DEF InWindow
<1> QED BY <1>10, <1>11

Solves(f, W, size, base, h) ==
  f = [w \in W |-> IF size[w] = 1 THEN base[w] ELSE f[h[w]]]

\* A recursion that gets smaller has a solution.
LEMMA Recursion ==
  ASSUME NEW W, NEW size \in [W -> Nat], NEW base, NEW h \in [W -> W], NEW N \in Nat,
         \A w \in W : size[w] < N,
         \A w \in W : size[w] # 1 => size[h[w]] < size[w]
  PROVE  \E f : Solves(f, W, size, base, h)
<1> DEFINE Upto(n, f) ==
             \A w \in W : size[w] < n => f[w] = IF size[w] = 1 THEN base[w] ELSE f[h[w]]
           T == {n \in Nat : ~\E f : Upto(n, f)}
<1>1. T = {}
  <2> SUFFICES ASSUME T # {} PROVE FALSE
    OBVIOUS
  <2>1. PICK n \in T : \A m \in T : n <= m
    <3> HIDE DEF T
    <3>1. T \in SUBSET Nat
      BY DEF T
    <3> QED BY <3>1, SmallestOf
  <2>2. n # 0
    <3>1. Upto(0, base)
      OBVIOUS
    <3> QED BY <3>1
  <2>3. PICK m \in Nat : n = m + 1
    <3>1. n \in Nat
      OBVIOUS
    <3> HIDE DEF T
    <3>2. n - 1 \in Nat /\ n = (n - 1) + 1
      BY <2>2, <3>1
    <3> QED BY <3>2
  <2>4. m \notin T
    BY <2>1, <2>3
  <2>5. PICK f : Upto(m, f)
    BY <2>4
  <2>6. PICK g : g = [w \in W |-> IF size[w] < m THEN f[w]
                                  ELSE IF size[w] = 1 THEN base[w] ELSE f[h[w]]]
    OBVIOUS
  <2>7. Upto(n, g)
    <3> SUFFICES ASSUME NEW w \in W, size[w] < n
                 PROVE  g[w] = IF size[w] = 1 THEN base[w] ELSE g[h[w]]
      OBVIOUS
    <3>1. size[w] \in Nat /\ h[w] \in W /\ size[h[w]] \in Nat
      OBVIOUS
    <3>2. size[w] # 1 => size[h[w]] < m
      BY <2>3, <3>1
    <3>3. size[w] # 1 => g[h[w]] = f[h[w]]
      BY <2>6, <3>1, <3>2
    <3>4. size[w] < m => f[w] = IF size[w] = 1 THEN base[w] ELSE f[h[w]]
      BY <2>5
    <3> QED BY <2>6, <3>3, <3>4
  <2> QED BY <2>7
<1>2. PICK f : Upto(N, f)
  BY <1>1
<1>3. PICK g : g = [w \in W |-> f[w]]
  OBVIOUS
<1>4. Solves(g, W, size, base, h)
  BY <1>2, <1>3 DEF Solves
<1> QED BY <1>4

\* The search ends, at a record; and at the one with the address, if records are in order.
THEOREM SearchFinds ==
  ASSUME NEW seq \in Seq(Record), seq # <<>>, NEW by \in {"src", "dest"}, NEW a \in Nat
  PROVE  /\ Position(seq, by, a) \in DOMAIN seq
         /\ Ordered(seq, by) =>
              \A i \in DOMAIN seq : Contains(seq[i], by, a) => Position(seq, by, a) = i
<1> DEFINE W == Windows(seq)
           Search(f) == f = [w \in W |-> IF w.size = 1 THEN w.base ELSE f[Halved(seq, by, a, w)]]
<1>1. DOMAIN seq = 1 .. Len(seq) /\ Len(seq) \in Nat /\ Len(seq) > 0
  OBVIOUS
<1>2. ASSUME NEW w \in W
      PROVE  /\ w.size \in Nat /\ w.size >= 1 /\ w.size <= Len(seq)
             /\ w.base \in DOMAIN seq
             /\ \A i \in DOMAIN seq : w.size = 1 /\ InWindow(w, i) => w.base = i
  BY <1>1 DEF Windows, InWindow
<1>3. ASSUME NEW w \in W, w.size # 1
      PROVE  Halved(seq, by, a, w) \in W /\ Halved(seq, by, a, w).size < w.size
  BY <1>3, HalvedWindow
<1>4. PICK whole : whole = [size |-> Len(seq), base |-> 1]
  OBVIOUS
<1>5. whole \in W /\ \A i \in DOMAIN seq : InWindow(whole, i)
  BY <1>1, <1>4 DEF Windows, InWindow
<1>6. \E f : Search(f)
  <2>1. PICK size : size = [w \in W |-> w.size]
    OBVIOUS
  <2>2. PICK base : base = [w \in W |-> w.base]
    OBVIOUS
  <2>3. PICK h : h = [w \in W |-> IF w.size = 1 THEN w ELSE Halved(seq, by, a, w)]
    OBVIOUS
  <2>4. size \in [W -> Nat]
    BY <1>2, <2>1
  <2>5. h \in [W -> W]
    BY <1>3, <2>3
  <2> PICK N : N = Len(seq) + 1
    OBVIOUS
  <2>6. N \in Nat /\ \A w \in W : size[w] < N
    BY <1>1, <1>2, <2>1
  <2>7. \A w \in W : size[w] # 1 => size[h[w]] < size[w]
    BY <1>3, <2>1, <2>3
  <2>8. PICK f : Solves(f, W, size, base, h)
    <3> HIDE DEF W
    <3> QED BY <2>4, <2>5, <2>6, <2>7, Recursion, Zenon
  <2>9. f = [w \in W |-> IF size[w] = 1 THEN base[w] ELSE f[h[w]]]
    BY <2>8 DEF Solves
  <2>10. ASSUME NEW w \in W
         PROVE (IF size[w] = 1 THEN base[w] ELSE f[h[w]])
               = IF w.size = 1 THEN w.base ELSE f[Halved(seq, by, a, w)]
    BY <2>1, <2>2, <2>3
  <2>11. Search(f)
    <3> HIDE DEF W
    <3> QED BY <2>9, <2>10
  <2> HIDE DEF Search
  <2> QED BY <2>11
<1>7. PICK f : f = CHOOSE g : Search(g)
  OBVIOUS
<1>8. Search(f)
  BY <1>6, <1>7
<1>9. Position(seq, by, a) = f[whole]
  BY <1>4, <1>7 DEF Position
<1> DEFINE Ends(w) ==
             /\ f[w] \in DOMAIN seq
             /\ Ordered(seq, by) => \A i \in DOMAIN seq :
                  Contains(seq[i], by, a) /\ InWindow(w, i) => f[w] = i
           T == {w.size : w \in {v \in W : ~Ends(v)}}
<1>10. T = {}
  <2> SUFFICES ASSUME T # {} PROVE FALSE
    OBVIOUS
  <2>1. T \in SUBSET Nat
    BY <1>2
  <2>2. PICK n \in T : \A m \in T : n <= m
    <3> HIDE DEF T
    <3> QED BY <2>1, SmallestOf
  <2>3. PICK w \in W : n = w.size /\ ~Ends(w)
    OBVIOUS
  <2>4. f[w] = IF w.size = 1 THEN w.base ELSE f[Halved(seq, by, a, w)]
    BY <1>8
  <2>5. w.size # 1
    <3> HIDE DEF W
    <3> SUFFICES ASSUME w.size = 1 PROVE FALSE
      OBVIOUS
    <3>1. f[w] = w.base
      BY <2>4
    <3> QED BY <1>2, <2>3, <3>1
  <2>6. PICK v : v = Halved(seq, by, a, w)
    OBVIOUS
  <2>7. v \in W /\ v.size < w.size /\ f[w] = f[v]
    BY <1>3, <2>4, <2>5, <2>6
  <2>8. Ends(v)
    <3> SUFFICES ASSUME ~Ends(v) PROVE FALSE
      OBVIOUS
    <3>1. v.size \in T
      BY <2>7
    <3>2. w.size <= v.size
      BY <2>2, <2>3, <3>1
    <3> HIDE DEF W, T
    <3> QED BY <1>2, <2>7, <3>2
  <2>9. ASSUME Ordered(seq, by), NEW i \in DOMAIN seq, Contains(seq[i], by, a), InWindow(w, i)
        PROVE  InWindow(v, i)
    BY <2>5, <2>6, <2>9, HalvedKeeps
  <2> HIDE DEF W
  <2> QED BY <2>3, <2>7, <2>8, <2>9
<1>11. Ends(whole)
  <2> SUFFICES ASSUME ~Ends(whole) PROVE FALSE
    OBVIOUS
  <2>1. whole.size \in T
    BY <1>5
  <2> QED BY <1>10, <2>1
<1> QED BY <1>5, <1>9, <1>11

-----------------------------------------------------------------------------
(* Ranges. *)

\* Whether an address is found, and where, if records are in order.
LEMMA FoundOrdered ==
  ASSUME NEW seq \in Seq(Record), NEW by \in {"src", "dest"}, NEW a \in Nat, Ordered(seq, by)
  PROVE  /\ Found(seq, by, a) <=> \E i \in DOMAIN seq : Contains(seq[i], by, a)
         /\ \A i \in DOMAIN seq : Contains(seq[i], by, a) => Position(seq, by, a) = i
<1>1. CASE seq = <<>>
  <2>1. DOMAIN seq = {}
    BY <1>1
  <2> QED BY <1>1, <2>1 DEF Found
<1>2. CASE seq # <<>>
  <2>1. PICK pos : pos = Position(seq, by, a)
    OBVIOUS
  <2>2. pos \in DOMAIN seq /\ \A i \in DOMAIN seq : Contains(seq[i], by, a) => pos = i
    BY <1>2, <2>1, SearchFinds
  <2>3. Found(seq, by, a) <=> Contains(seq[pos], by, a)
    BY <1>2, <2>1 DEF Found, Compare
  <2> QED BY <2>1, <2>2, <2>3
<1> QED BY <1>1, <1>2

\* A range never has other records than the sequence.
LEMMA InRangeHas ==
  ASSUME NEW seq \in Seq(Record), NEW by \in {"src", "dest"}, NEW start \in Nat, NEW stop
  PROVE  InRange(seq, by, start, stop) \subseteq {seq[i] : i \in DOMAIN seq}
<1>1. CASE Found(seq, by, start)
  <2>1. PICK pos : pos = Position(seq, by, start)
    OBVIOUS
  <2>2. pos \in DOMAIN seq
    BY <1>1, <2>1, SearchFinds DEF Found
  <2>3. PICK last : last = {i \in pos .. Len(seq) : \A j \in pos .. i : seq[j][by] < stop}
    OBVIOUS
  <2>4. InRange(seq, by, start, stop) = {seq[i] : i \in last}
    BY <1>1, <2>1, <2>3 DEF InRange
  <2>5. last \subseteq DOMAIN seq
    BY <2>2, <2>3
  <2> QED BY <2>4, <2>5
<1>2. CASE ~Found(seq, by, start)
  BY <1>2 DEF InRange
<1> QED BY <1>1, <1>2

\* An address is mapped by the record that has it, and by that record alone.
LEMMA MapsOrdered ==
  ASSUME NEW seq \in Seq(Record), NEW a \in Nat, Ordered(seq, "src")
  PROVE  MapSrcToDest(seq, a) =
           {rec.dest + (a - rec.src) : rec \in {seq[i] : i \in {j \in DOMAIN seq : Contains(seq[j], "src", a)}}}
<1>1. PICK found : found = {seq[i] : i \in {j \in DOMAIN seq : Contains(seq[j], "src", a)}}
  OBVIOUS
<1>2. InRange(seq, "src", a, a + 1) = found
  <2>1. CASE Found(seq, "src", a)
    <3>1. PICK i \in DOMAIN seq : Contains(seq[i], "src", a)
      BY <2>1, FoundOrdered
    <3>2. \A j \in DOMAIN seq : Contains(seq[j], "src", a) => i = j
      BY <3>1, FoundOrdered
    <3>3. found = {seq[i]}
      BY <1>1, <3>1, <3>2
    <3>4. PICK last : last = {k \in i .. Len(seq) : \A j \in i .. k : seq[j]["src"] < a + 1}
      OBVIOUS
    <3>5. Position(seq, "src", a) = i
      BY <3>1, FoundOrdered
    <3>6. InRange(seq, "src", a, a + 1) = {seq[k] : k \in last}
      BY <2>1, <3>4, <3>5 DEF InRange
    <3>7. seq[i]["src"] \in Nat /\ seq[i].size \in Nat /\ seq[i]["src"] <= a /\ a < seq[i]["src"] + seq[i].size
      BY <3>1, RecordOf DEF Contains
    <3>8. i \in last
      BY <3>4, <3>7
    <3>9. ASSUME NEW k \in last PROVE k = i
      <4> SUFFICES ASSUME k # i PROVE FALSE
        OBVIOUS
      <4>1. k \in DOMAIN seq /\ i < k /\ seq[k]["src"] < a + 1
        BY <3>4, <3>9
      <4>2. seq[i]["src"] + seq[i].size <= seq[k]["src"] /\ seq[k]["src"] \in Nat
        BY <4>1, RecordOf DEF Ordered
      <4> QED BY <3>7, <4>1, <4>2
    <3> QED BY <3>3, <3>6, <3>8, <3>9
  <2>2. CASE ~Found(seq, "src", a)
    <3>1. found = {}
      BY <1>1, <2>2, FoundOrdered
    <3> QED BY <2>2, <3>1 DEF InRange
  <2> QED BY <2>1, <2>2
<1> QED BY <1>1, <1>2 DEF MapSrcToDest

\* A range that begins with a record has the records that begin in it.
LEMMA RangeOrdered ==
  ASSUME NEW seq \in Seq(Record), NEW start \in Nat, NEW stop \in Nat, Ordered(seq, "dest"),
         \E i \in DOMAIN seq : seq[i].dest = start
  PROVE  InRange(seq, "dest", start, stop) =
           {seq[i] : i \in {j \in DOMAIN seq : start <= seq[j].dest /\ seq[j].dest < stop}}
<1>1. PICK i \in DOMAIN seq : seq[i].dest = start
  OBVIOUS
<1>2. \A j \in DOMAIN seq : seq[j].dest \in Nat /\ seq[j].size \in Nat /\ seq[j].size > 0
  BY RecordOf DEF Record
<1>3. Contains(seq[i], "dest", start)
  BY <1>1, <1>2 DEF Contains
<1>4. Found(seq, "dest", start) /\ Position(seq, "dest", start) = i
  BY <1>3, FoundOrdered
<1>5. PICK last : last = {k \in i .. Len(seq) : \A j \in i .. k : seq[j]["dest"] < stop}
  OBVIOUS
<1>6. InRange(seq, "dest", start, stop) = {seq[k] : k \in last}
  BY <1>4, <1>5 DEF InRange
<1>7. \A j, k \in DOMAIN seq : j < k => seq[j].dest + seq[j].size <= seq[k].dest
  BY DEF Ordered
<1>8. last = {j \in DOMAIN seq : start <= seq[j].dest /\ seq[j].dest < stop}
  <2>1. ASSUME NEW k \in last PROVE k \in DOMAIN seq /\ start <= seq[k].dest /\ seq[k].dest < stop
    <3>1. k \in DOMAIN seq /\ (k = i \/ i < k) /\ seq[k].dest < stop
      BY <1>5, <2>1
    <3> QED BY <1>1, <1>2, <1>7, <3>1
  <2>2. ASSUME NEW k \in DOMAIN seq, start <= seq[k].dest, seq[k].dest < stop PROVE k \in last
    <3>1. ~(k < i)
      BY <1>1, <1>2, <1>7, <2>2, SMTT(60)
    <3>2. ASSUME NEW j \in i .. k PROVE seq[j].dest < stop
      <4>1. j \in DOMAIN seq /\ (j = k \/ j < k)
        BY <3>1
      <4> QED BY <1>2, <1>7, <2>2, <4>1, SMTT(60)
    <3> QED BY <1>5, <3>1, <3>2
  <2> QED BY <2>1, <2>2
<1> QED BY <1>6, <1>8

-----------------------------------------------------------------------------
(* Sorting. *)

\* No two records come from the same addresses.
Apart(seq) ==
  \A i, j \in DOMAIN seq : i # j =>
    \/ seq[i].src + seq[i].size <= seq[j].src
    \/ seq[j].src + seq[j].size <= seq[i].src

\* The rank of a record counts the records up to it.
LEMMA RankCounts ==
  ASSUME NEW seq \in Seq(Record), Apart(seq), NEW i \in DOMAIN seq
  PROVE  /\ Rank(seq, i) \in DOMAIN seq
         /\ \A j \in DOMAIN seq : seq[i].src < seq[j].src => Rank(seq, i) < Rank(seq, j)
<1> DEFINE Upto(k) == {j \in DOMAIN seq :
                         seq[j].src < seq[k].src \/ (seq[j].src = seq[k].src /\ j <= k)}
<1>1. DOMAIN seq = 1 .. Len(seq) /\ Len(seq) \in Nat
  OBVIOUS
<1>2. IsFiniteSet(DOMAIN seq) /\ Cardinality(DOMAIN seq) = Len(seq)
  <2>1. IsFiniteSet(1 .. Len(seq)) /\ Cardinality(1 .. Len(seq)) = Len(seq)
    <3> PICK n \in Nat : n = Len(seq)
      OBVIOUS
    <3>1. 1 \in Int /\ n \in Int
      OBVIOUS
    <3>2. IsFiniteSet(1 .. n) /\ Cardinality(1 .. n) = IF 1 > n THEN 0 ELSE n - 1 + 1
      BY <3>1, FS_Interval, Zenon
    <3> QED BY <3>2
  <2> QED BY <1>1, <2>1, Zenon
<1>3. ASSUME NEW k \in DOMAIN seq
      PROVE  /\ Rank(seq, k) = Cardinality(Upto(k)) /\ k \in Upto(k) /\ seq[k].src \in Nat
             /\ IsFiniteSet(Upto(k)) /\ Rank(seq, k) \in 1 .. Len(seq)
  <2>1. Rank(seq, k) = Cardinality(Upto(k))
    BY DEF Rank
  <2>2. seq[k].src \in Nat /\ k \in Nat
    BY <1>1, RecordOf, SMTT(60) DEF Record
  <2>3. k \in Upto(k)
    BY <2>2
  <2> PICK U : U = Upto(k)
    OBVIOUS
  <2>4. U \in SUBSET (DOMAIN seq) /\ k \in U
    BY <2>3
  <2>5. IsFiniteSet(U) /\ Cardinality(U) <= Len(seq)
    BY <1>2, <2>4, FS_Subset
  <2>6. Cardinality(U) \in Nat /\ Cardinality(U) # 0
    BY <2>4, <2>5, FS_CardinalityType, FS_EmptySet
  <2> QED BY <1>1, <2>1, <2>2, <2>3, <2>5, <2>6
<1>4. ASSUME NEW j \in DOMAIN seq, seq[i].src < seq[j].src PROVE Rank(seq, i) < Rank(seq, j)
  <2>1. PICK U : U = Upto(i)
    OBVIOUS
  <2>2. PICK V : V = Upto(j)
    OBVIOUS
  <2>3. \A k \in DOMAIN seq : seq[k].src \in Nat
    BY <1>3
  <2>4. U \in SUBSET V /\ j \in V /\ j \notin U
    BY <1>3, <1>4, <2>1, <2>2, <2>3
  <2>5. IsFiniteSet(V) /\ Rank(seq, i) = Cardinality(U) /\ Rank(seq, j) = Cardinality(V)
    BY <1>3, <2>1, <2>2
  <2>6. Cardinality(U) <= Cardinality(V) /\ Cardinality(U) # Cardinality(V)
    BY <2>4, <2>5, FS_Subset
  <2>7. Rank(seq, i) \in Nat /\ Rank(seq, j) \in Nat
    <3>1. Rank(seq, i) \in 1 .. Len(seq) /\ Rank(seq, j) \in 1 .. Len(seq)
      BY <1>3
    <3> QED BY <3>1
  <2> QED BY <2>5, <2>6, <2>7
<1> QED BY <1>1, <1>3, <1>4

\* Every place has exactly one record that goes there.
LEMMA RankPlaces ==
  ASSUME NEW seq \in Seq(Record), Apart(seq)
  PROVE  /\ \A k \in DOMAIN seq : \E i \in DOMAIN seq : Rank(seq, i) = k
         /\ \A i, j \in DOMAIN seq : Rank(seq, i) = Rank(seq, j) => i = j
<1>1. PICK D : D = DOMAIN seq
  OBVIOUS
<1>2. IsFiniteSet(D)
  BY <1>1, FS_Interval
<1>3. PICK f : f = [i \in D |-> Rank(seq, i)]
  OBVIOUS
<1>4. ASSUME NEW i \in D, NEW j \in D, i # j PROVE f[i] # f[j]
  <2>1. /\ seq[i].src \in Nat /\ seq[i].size \in Nat /\ seq[i].size > 0
        /\ seq[j].src \in Nat /\ seq[j].size \in Nat /\ seq[j].size > 0
    BY <1>1, RecordOf DEF Record
  <2>2. seq[i].src < seq[j].src \/ seq[j].src < seq[i].src
    BY <1>1, <1>4, <2>1, SMTT(60) DEF Apart
  <2>3. Rank(seq, i) \in D /\ Rank(seq, j) \in D
        /\ (Rank(seq, i) < Rank(seq, j) \/ Rank(seq, j) < Rank(seq, i))
    BY <1>1, <2>2, RankCounts
  <2>4. Rank(seq, i) # Rank(seq, j)
    BY <1>1, <2>3
  <2> QED BY <1>3, <2>4
<1>5. f \in [D -> D]
  BY <1>1, <1>3, RankCounts
<1>6. f \in Injection(D, D)
  BY <1>4, <1>5 DEF Injection, IsInjective
<1>7. f \in Surjection(D, D)
  BY <1>2, <1>6, FS_Injection
<1>8. \A k \in D : \E i \in D : f[i] = k
  BY <1>7 DEF Surjection
<1> QED BY <1>1, <1>3, <1>4, <1>8

\* freeze puts the records in order, and loses none.
THEOREM SortOrders ==
  ASSUME NEW seq \in Seq(Record), Apart(seq)
  PROVE  /\ SortedBySrc(seq) \in Seq(Record)
         /\ Ordered(SortedBySrc(seq), "src")
         /\ {SortedBySrc(seq)[k] : k \in DOMAIN SortedBySrc(seq)} = {seq[i] : i \in DOMAIN seq}
<1>1. PICK at : at = [k \in DOMAIN seq |-> CHOOSE i \in DOMAIN seq : Rank(seq, i) = k]
  OBVIOUS
<1>2. \A k \in DOMAIN seq : at[k] \in DOMAIN seq /\ Rank(seq, at[k]) = k
  BY <1>1, RankPlaces
<1>3. PICK sorted : sorted = [k \in DOMAIN seq |-> seq[at[k]]]
  OBVIOUS
<1>4. SortedBySrc(seq) = sorted
  BY <1>1, <1>3 DEF SortedBySrc
<1>5. sorted \in Seq(Record) /\ DOMAIN sorted = DOMAIN seq
  <2>1. DOMAIN seq = 1 .. Len(seq) /\ Len(seq) \in Nat /\ \A i \in DOMAIN seq : seq[i] \in Record
    OBVIOUS
  <2>2. sorted \in [1 .. Len(seq) -> Record]
    BY <1>2, <1>3, <2>1
  <2> QED BY <2>1, <2>2
<1>6. ASSUME NEW k \in DOMAIN seq, NEW l \in DOMAIN seq, k < l
      PROVE  sorted[k]["src"] + sorted[k].size <= sorted[l]["src"]
  <2>1. PICK i \in DOMAIN seq : i = at[k]
    BY <1>2
  <2>2. PICK j \in DOMAIN seq : j = at[l]
    BY <1>2
  <2>3. Rank(seq, i) = k /\ Rank(seq, j) = l
    BY <1>2, <2>1, <2>2, Zenon
  <2>4. i # j /\ ~(seq[j].src < seq[i].src)
    <3>1. k \in Nat /\ l \in Nat
      OBVIOUS
    <3> QED BY <1>6, <2>3, <3>1, RankCounts
  <2>5. /\ seq[i].src \in Nat /\ seq[i].size \in Nat /\ seq[i].size > 0
        /\ seq[j].src \in Nat /\ seq[j].size \in Nat /\ seq[j].size > 0
    BY RecordOf DEF Record
  <2>6. seq[i].src + seq[i].size <= seq[j].src
    BY <2>4, <2>5 DEF Apart
  <2> QED BY <1>3, <2>1, <2>2, <2>6
<1>7. {sorted[k] : k \in DOMAIN seq} = {seq[i] : i \in DOMAIN seq}
  <2>1. ASSUME NEW i \in DOMAIN seq PROVE \E k \in DOMAIN seq : sorted[k] = seq[i]
    <3>1. PICK k \in DOMAIN seq : k = Rank(seq, i)
      BY RankCounts
    <3>2. at[k] = i
      BY <1>2, <3>1, RankPlaces
    <3> QED BY <1>3, <3>2
  <2> QED BY <1>2, <1>3, <2>1
<1> QED BY <1>4, <1>5, <1>6, <1>7 DEF Ordered

-----------------------------------------------------------------------------
(* Pages in bytes. *)

\* Products are monotonic.
LEMMA Product ==
  ASSUME NEW a \in Nat, NEW b \in Nat, NEW c \in Nat
  PROVE  /\ a * c \in Nat /\ (a + b) * c = a * c + b * c
         /\ a <= b => a * c <= b * c
OBVIOUS

\* A page starts before an address if its base page is not behind the address's.
LEMMA Quotient ==
  ASSUME NEW a \in Nat, NEW p \in Nat, NEW c \in Nat \ {0}
  PROVE  a \div c \in Nat /\ (p <= a \div c <=> p * c <= a)
OBVIOUS

\* A flex page has room for the object it is made for.
LEMMA PagesFit ==
  ASSUME NEW size \in Nat \ {0}
  PROVE  PagesFor(size) \in Nat \ {0} /\ size <= PagesFor(size) * PageSize
<1>1. {PageSize, SmallMax, MediumMax, MediumPages} \subseteq Nat \ {0}
      /\ SmallMax <= PageSize /\ MediumMax <= MediumPages * PageSize
  BY PageAssumption
<1>2. CASE Small(size)
  BY <1>1, <1>2 DEF PagesFor, Small
<1>3. CASE Medium(size)
  BY <1>1, <1>3 DEF PagesFor, Medium, Small
<1>4. CASE ~Small(size) /\ ~Medium(size)
  <2>1. PICK q : q = (size + PageSize - 1) \div PageSize
    OBVIOUS
  <2>2. q \in Nat /\ 1 <= q
    <3>1. 1 * PageSize <= size + PageSize - 1
      BY <1>1
    <3> QED BY <1>1, <2>1, <3>1, Quotient
  <2>3. size <= q * PageSize
    <3>1. ~(q + 1 <= q) /\ q + 1 \in Nat
      BY <2>2
    <3>2. ~((q + 1) * PageSize <= size + PageSize - 1)
      BY <1>1, <2>1, <3>1, Quotient
    <3>3. (q + 1) * PageSize = q * PageSize + PageSize /\ q * PageSize \in Nat
      BY <1>1, <2>2
    <3> QED BY <1>1, <3>2, <3>3
  <2> QED BY <1>4, <2>1, <2>2, <2>3 DEF PagesFor
<1> QED BY <1>2, <1>3, <1>4

-----------------------------------------------------------------------------
(* Page tables. *)

\* Flex pages lie one behind the other within the part of the space that is
\* handed out, none is filled beyond its end, and the buffer is one of them.
Sound(t) ==
  /\ t \in PageTables
  /\ t.current_base_page <= NrPages
  /\ \A p \in FlexPages(t) :
       /\ p + t.pages[p].nr_pages <= t.current_base_page
       /\ t.pages[p].used <= t.pages[p].nr_pages * PageSize
  /\ \A p, q \in FlexPages(t) : p < q => p + t.pages[p].nr_pages <= q
  /\ t.medium_buffer # None => t.medium_buffer \in FlexPages(t)

\* What is known of a flex page.
LEMMA FlexPageOf ==
  ASSUME NEW t, Sound(t), NEW p \in FlexPages(t)
  PROVE  /\ p \in Nat /\ p \in BasePages
         /\ t.pages[p].nr_pages \in Nat \ {0} /\ t.pages[p].used \in Nat
         /\ t.pages[p].used <= t.pages[p].nr_pages * PageSize
         /\ t.current_base_page \in Nat /\ p + t.pages[p].nr_pages <= t.current_base_page
         /\ Start(p) \in Nat /\ End(t, p) \in Nat /\ Start(p) < End(t, p)
         /\ Start(p) + t.pages[p].used <= End(t, p)
         /\ End(t, p) <= t.current_base_page * PageSize
         /\ NrPages * PageSize \in Nat /\ End(t, p) <= NrPages * PageSize
<1>1. p \in BasePages /\ t.pages[p] \in FlexPage /\ t.current_base_page \in Nat
  BY DEF Sound, PageTables, FlexPages
<1>2. PageSize \in Nat \ {0} /\ NrPages \in Nat \ {0}
  BY PageAssumption
<1>3. p \in Nat /\ t.pages[p].nr_pages \in Nat \ {0} /\ t.pages[p].used \in Nat
  BY <1>1, <1>2 DEF BasePages, FlexPage
<1>4. /\ t.pages[p].used <= t.pages[p].nr_pages * PageSize
      /\ p + t.pages[p].nr_pages <= t.current_base_page /\ t.current_base_page <= NrPages
  BY DEF Sound
<1>5. PICK n \in Nat \ {0} : n = t.pages[p].nr_pages
  BY <1>3
<1>6. /\ p * PageSize \in Nat /\ n * PageSize \in Nat /\ n * PageSize > 0
      /\ p * PageSize + n * PageSize = (p + n) * PageSize
      /\ (p + n) * PageSize <= t.current_base_page * PageSize
      /\ t.current_base_page * PageSize <= NrPages * PageSize
      /\ t.current_base_page * PageSize \in Nat /\ NrPages * PageSize \in Nat
  BY <1>1, <1>2, <1>3, <1>4, <1>5, Product
<1>7. Start(p) = p * PageSize /\ End(t, p) = p * PageSize + n * PageSize
  BY <1>5 DEF Start, End
<1> QED BY <1>1, <1>3, <1>4, <1>5, <1>6, <1>7

\* Flex pages lie one behind the other, in bytes too.
LEMMA FlexPagesApart ==
  ASSUME NEW t, Sound(t), NEW p \in FlexPages(t), NEW q \in FlexPages(t), p < q
  PROVE  End(t, p) <= Start(q)
<1>1. PICK n \in Nat \ {0} : n = t.pages[p].nr_pages
  BY FlexPageOf
<1>2. p \in Nat /\ q \in Nat /\ p + n <= q /\ PageSize \in Nat
  BY <1>1, FlexPageOf, PageAssumption DEF Sound
<1>3. p * PageSize + n * PageSize <= q * PageSize
  <2>1. (p + n) * PageSize <= q * PageSize /\ (p + n) * PageSize = p * PageSize + n * PageSize
    BY <1>2, Product
  <2> QED BY <2>1
<1> QED BY <1>1, <1>3 DEF Start, End

\* The page an object goes to is a flex page with room for it; others stay.
LEMMA PreparedSound ==
  ASSUME NEW t, Sound(t), NEW buffer \in BasePages \cup {None},
         buffer # None => buffer \in FlexPages(t),
         NEW size \in Nat \ {0}, Succeeds(t, buffer, size),
         NEW u, u = Prepared(t, buffer, size), NEW p, p = PageOf(t, buffer, size)
  PROVE  /\ Sound(u) /\ FlexPages(u) = FlexPages(t) \cup {p}
         /\ \A q \in FlexPages(t) : u.pages[q] = t.pages[q]
         /\ p \notin FlexPages(t) => p = t.current_base_page /\ u.pages[p].used = 0
         /\ u.pages[p].used + size <= u.pages[p].nr_pages * PageSize
         /\ u.medium_buffer = t.medium_buffer
<1>1. PICK n : n = PagesFor(size)
  OBVIOUS
<1>2. n \in Nat \ {0} /\ size <= n * PageSize
  BY <1>1, PagesFit
<1>3. /\ t \in PageTables /\ t.current_base_page \in Nat /\ t.pages \in [BasePages -> FlexPage \cup {None}]
      /\ FlexPages(t) \subseteq BasePages /\ BasePages \subseteq Nat /\ None \notin FlexPage /\ None \notin Nat
  BY PageAssumption DEF Sound, PageTables, FlexPages, BasePages
<1>4. CASE NeedsPage(t, buffer, size)
  <2>1. p = t.current_base_page /\ p + n <= NrPages
    BY <1>1, <1>4 DEF PageOf, Succeeds
  <2>2. PICK flex : flex = [nr_pages |-> n, used |-> 0]
    OBVIOUS
  <2>3. p \in BasePages /\ flex \in FlexPage
    BY <1>2, <1>3, <2>1, <2>2, PageAssumption DEF BasePages, FlexPage
  <2>4. p \notin FlexPages(t)
    <3> SUFFICES ASSUME p \in FlexPages(t) PROVE FALSE
      OBVIOUS
    <3>1. p + t.pages[p].nr_pages <= p /\ t.pages[p].nr_pages \in Nat \ {0} /\ p \in Nat
      BY <2>1, FlexPageOf
    <3> QED BY <3>1
  <2>5. PICK pages : pages = [t.pages EXCEPT ![p] = flex]
    OBVIOUS
  <2>6. /\ u \in PageTables /\ u.current_base_page = p + n /\ u.medium_buffer = t.medium_buffer
        /\ u.pages = [t.pages EXCEPT ![p] = flex]
    <3>1. u = [t EXCEPT !.current_base_page = p + n, !.pages[p] = flex]
      BY <1>1, <1>4, <2>1, <2>2 DEF Prepared, WithPage
    <3>2. u = [t EXCEPT !.current_base_page = p + n, !.pages = pages]
      BY <2>5, <3>1, <1>3 DEF PageTables
    <3>3. pages \in [BasePages -> FlexPage \cup {None}] /\ p + n \in Nat
      BY <1>2, <1>3, <2>1, <2>3, <2>5
    <3> QED BY <1>3, <2>5, <3>2, <3>3 DEF PageTables
  <2>7. u.pages[p] = flex /\ \A q \in BasePages : q # p => u.pages[q] = t.pages[q]
    BY <1>3, <2>3, <2>6
  <2>8. FlexPages(u) = FlexPages(t) \cup {p}
    BY <1>3, <2>3, <2>7 DEF FlexPages
  <2>9. \A q \in FlexPages(t) : u.pages[q] = t.pages[q]
    BY <1>3, <2>4, <2>7
  <2>10. u.pages[p].used = 0 /\ u.pages[p].nr_pages = n
    BY <2>2, <2>7
  <2>11. ASSUME NEW q \in FlexPages(u)
         PROVE  /\ q + u.pages[q].nr_pages <= u.current_base_page
                /\ u.pages[q].used <= u.pages[q].nr_pages * PageSize
    <3>1. CASE q = p
      BY <1>2, <1>3, <2>1, <2>6, <2>10, <3>1, PageAssumption
    <3>2. CASE q \in FlexPages(t)
      <4>1. q + t.pages[q].nr_pages \in Nat /\ q + t.pages[q].nr_pages <= p
            /\ t.pages[q].used <= t.pages[q].nr_pages * PageSize
        BY <2>1, <3>2, FlexPageOf
      <4>2. q + t.pages[q].nr_pages <= p + n
        BY <1>2, <1>3, <2>1, <4>1
      <4> QED BY <2>6, <2>9, <3>2, <4>1, <4>2
    <3> QED BY <2>8, <3>1, <3>2
  <2>12. ASSUME NEW q \in FlexPages(u), NEW r \in FlexPages(u), q < r
         PROVE  q + u.pages[q].nr_pages <= r
    <3>1. CASE q \in FlexPages(t) /\ r \in FlexPages(t)
      BY <2>9, <2>12, <3>1 DEF Sound
    <3>2. CASE q \in FlexPages(t) /\ r = p
      BY <2>1, <2>9, <3>2 DEF Sound
    <3>3. CASE q = p
      <4>0. q \in Nat /\ r # q
        BY <1>3, <2>1, <2>12, <3>3
      <4>1. r \in FlexPages(t) /\ r \in Nat /\ q \in Nat
        BY <1>3, <2>8, <3>3, <4>0
      <4>2. r + t.pages[r].nr_pages <= p /\ t.pages[r].nr_pages \in Nat
        BY <2>1, <4>1, FlexPageOf
      <4> QED BY <2>12, <3>3, <4>1, <4>2
    <3> QED BY <2>8, <3>1, <3>2, <3>3
  <2>13. Sound(u)
    <3>1. u.current_base_page <= NrPages
      BY <2>1, <2>6
    <3>2. u.medium_buffer # None => u.medium_buffer \in FlexPages(u)
      BY <2>6, <2>8 DEF Sound
    <3> QED BY <2>6, <2>11, <2>12, <3>1, <3>2 DEF Sound
  <2> QED BY <1>2, <2>1, <2>6, <2>8, <2>9, <2>10, <2>13
<1>5. CASE ~NeedsPage(t, buffer, size)
  <2>1. u = t /\ p = Buffer(t, buffer, size) /\ p # None /\ ~Full(t, p, size)
    BY <1>5 DEF Prepared, PageOf, NeedsPage
  <2>2. p \in FlexPages(t)
    BY <2>1 DEF Buffer, Sound
  <2>3. t.pages[p].nr_pages * PageSize - t.pages[p].used >= size
    <3>1. Free(t, p) \in Int
      BY <2>2, FlexPageOf, PageAssumption DEF Free
    <3>2. ~(Free(t, p) < size)
      BY <2>1, <3>1 DEF Full
    <3> QED BY <3>1, <3>2 DEF Free
  <2>4. t.pages[p].used + size <= t.pages[p].nr_pages * PageSize
    BY <2>2, <2>3, FlexPageOf, PageAssumption
  <2> QED BY <2>1, <2>2, <2>4
<1> QED BY <1>4, <1>5

\* Bytes used of a page, and none of one that is not a flex page.
UsedOf(t, p) == IF p \in FlexPages(t) THEN t.pages[p].used ELSE 0

\* An allocation takes the next bytes of one flex page, old or new, and nothing else.
LEMMA Allocates ==
  ASSUME NEW t, Sound(t), NEW buffer \in BasePages \cup {None},
         buffer # None => buffer \in FlexPages(t),
         NEW size \in Nat \ {0}, Succeeds(t, buffer, size),
         NEW v, v = TableAfter(t, buffer, size), NEW p, p = PageOf(t, buffer, size)
  PROVE  /\ Sound(v) /\ FlexPages(v) = FlexPages(t) \cup {p}
         /\ p \notin FlexPages(t) => p = t.current_base_page
         /\ Address(t, buffer, size) = Start(p) + UsedOf(t, p)
         /\ v.pages[p].used = UsedOf(t, p) + size
         /\ \A q \in FlexPages(t) :
              /\ v.pages[q].nr_pages = t.pages[q].nr_pages
              /\ q # p => v.pages[q] = t.pages[q]
         /\ v.medium_buffer = IF Medium(size) THEN p ELSE t.medium_buffer
<1>1. PICK u : u = Prepared(t, buffer, size)
  OBVIOUS
<1>2. /\ Sound(u) /\ FlexPages(u) = FlexPages(t) \cup {p}
      /\ \A q \in FlexPages(t) : u.pages[q] = t.pages[q]
      /\ p \notin FlexPages(t) => p = t.current_base_page /\ u.pages[p].used = 0
      /\ u.pages[p].used + size <= u.pages[p].nr_pages * PageSize
      /\ u.medium_buffer = t.medium_buffer
  BY <1>1, PreparedSound
<1>3. /\ u \in PageTables /\ p \in BasePages /\ u.pages \in [BasePages -> FlexPage \cup {None}]
      /\ u.pages[p] \in FlexPage /\ None \notin FlexPage
  BY <1>2, PageAssumption DEF Sound, PageTables, FlexPages
<1>4. PICK used : used = u.pages[p].used
  OBVIOUS
<1>5. used \in Nat /\ used = UsedOf(t, p)
  BY <1>2, <1>3, <1>4 DEF FlexPage, UsedOf
<1>6. PICK flex : flex = [u.pages[p] EXCEPT !.used = used + size]
  OBVIOUS
<1>7. flex \in FlexPage /\ flex.used = used + size /\ flex.nr_pages = u.pages[p].nr_pages
  BY <1>3, <1>5, <1>6 DEF FlexPage
<1>8. PICK pages : pages = [u.pages EXCEPT ![p] = flex]
  OBVIOUS
<1>9. pages \in [BasePages -> FlexPage \cup {None}] /\ pages[p] = flex
      /\ \A q \in BasePages : q # p => pages[q] = u.pages[q]
  BY <1>3, <1>7, <1>8
<1>10. PICK medium : medium = IF Medium(size) THEN p ELSE u.medium_buffer
  OBVIOUS
<1>11. v = [u EXCEPT !.pages = pages, !.medium_buffer = medium]
  <2>1. v = [u EXCEPT !.pages[p].used = used + size, !.medium_buffer = medium]
    BY <1>1, <1>4, <1>10 DEF TableAfter
  <2> QED BY <1>3, <1>6, <1>8, <2>1 DEF PageTables
<1>12. medium \in BasePages \cup {None} /\ (medium # None => medium \in FlexPages(u))
  BY <1>2, <1>3, <1>10 DEF Sound, PageTables
<1>13. v \in PageTables /\ v.pages = pages /\ v.medium_buffer = medium
       /\ v.current_base_page = u.current_base_page
  BY <1>3, <1>9, <1>11, <1>12 DEF PageTables
<1>14. FlexPages(v) = FlexPages(u)
  BY <1>3, <1>7, <1>9, <1>13 DEF FlexPages
<1>15. ASSUME NEW q \in FlexPages(u)
       PROVE  v.pages[q].nr_pages = u.pages[q].nr_pages /\ (q # p => v.pages[q] = u.pages[q])
  <2>1. q \in BasePages
    BY DEF FlexPages
  <2> QED BY <1>7, <1>9, <1>13, <2>1
<1>16. Sound(v)
  <2>1. ASSUME NEW q \in FlexPages(u) PROVE v.pages[q].used <= v.pages[q].nr_pages * PageSize
    <3>1. CASE q = p
      BY <1>2, <1>4, <1>7, <1>9, <1>13, <3>1
    <3>2. CASE q # p
      BY <1>2, <1>15, <3>2 DEF Sound
    <3> QED BY <3>1, <3>2
  <2> QED BY <1>2, <1>12, <1>13, <1>14, <1>15, <2>1 DEF Sound
<1>17. Address(t, buffer, size) = Start(p) + used
  BY <1>1, <1>4 DEF Address
<1>18. v.pages[p].used = used + size
  BY <1>7, <1>9, <1>13
<1> QED BY <1>2, <1>5, <1>10, <1>13, <1>14, <1>15, <1>16, <1>17, <1>18

\* The context's page stays a flex page.
LEMMA LocalStays ==
  ASSUME NEW t, Sound(t), NEW buffer \in BasePages \cup {None},
         buffer # None => buffer \in FlexPages(t),
         NEW size \in Nat \ {0}, Succeeds(t, buffer, size),
         NEW v, v = TableAfter(t, buffer, size), NEW l, l = LocalAfter(t, buffer, size)
  PROVE  l \in BasePages \cup {None} /\ (l # None => l \in FlexPages(v))
<1>1. PICK p : p = PageOf(t, buffer, size)
  OBVIOUS
<1>2. FlexPages(v) = FlexPages(t) \cup {p}
  BY <1>1, Allocates
<1>3. p \in BasePages
  BY <1>2 DEF FlexPages
<1> QED BY <1>1, <1>2, <1>3 DEF LocalAfter

Extents == [start : Nat, size : Nat \ {0}]

\* A new object lies beside the old ones, in the space, and starts where none does.
LEMMA PlacesNew ==
  ASSUME NEW t, Sound(t), NEW buffer \in BasePages \cup {None},
         buffer # None => buffer \in FlexPages(t),
         NEW size \in Nat \ {0}, Succeeds(t, buffer, size),
         NEW v, v = TableAfter(t, buffer, size), NEW a, a = Address(t, buffer, size),
         NEW extents \in SUBSET Extents, Placed(t, extents)
  PROVE  /\ a \in 0 .. NrPages * PageSize - 1
         /\ \A e \in extents : e.start # a
         /\ Placed(v, extents \cup {[start |-> a, size |-> size]})
<1>1. PICK p : p = PageOf(t, buffer, size)
  OBVIOUS
<1>2. /\ Sound(v) /\ FlexPages(v) = FlexPages(t) \cup {p}
      /\ p \notin FlexPages(t) => p = t.current_base_page
      /\ a = Start(p) + UsedOf(t, p) /\ v.pages[p].used = UsedOf(t, p) + size
      /\ \A q \in FlexPages(t) :
           /\ v.pages[q].nr_pages = t.pages[q].nr_pages
           /\ q # p => v.pages[q] = t.pages[q]
  BY <1>1, Allocates
<1>3. PICK used : used = UsedOf(t, p)
  OBVIOUS
<1>4. /\ Start(p) \in Nat /\ End(v, p) \in Nat /\ Start(p) + used + size <= End(v, p)
      /\ End(v, p) <= NrPages * PageSize /\ NrPages * PageSize \in Nat
  <2>1. /\ p \in FlexPages(v) /\ Start(p) + (used + size) <= End(v, p) /\ Start(p) \in Nat
        /\ End(v, p) \in Nat /\ End(v, p) <= NrPages * PageSize /\ NrPages * PageSize \in Nat
    BY <1>2, <1>3, FlexPageOf
  <2>2. used \in Nat
    BY <1>3, FlexPageOf DEF UsedOf
  <2> QED BY <2>1, <2>2
<1>5. used \in Nat /\ a \in Nat /\ a = Start(p) + used
  BY <1>2, <1>3, <1>4, FlexPageOf DEF UsedOf
<1>6. a \in 0 .. NrPages * PageSize - 1
  BY <1>4, <1>5
<1>7. ASSUME NEW e \in extents
      PROVE  /\ e.start # a
             /\ e.start + e.size <= a \/ a + size <= e.start
             /\ \E q \in FlexPages(v) : Start(q) <= e.start /\ e.start + e.size <= Start(q) + v.pages[q].used
  <2>1. PICK q \in FlexPages(t) : Start(q) <= e.start /\ e.start + e.size <= Start(q) + t.pages[q].used
    BY DEF Placed
  <2>2. e.start \in Nat /\ e.size \in Nat /\ e.size > 0
    BY DEF Extents
  <2>3. q \in FlexPages(v) /\ Start(q) \in Nat /\ t.pages[q].used \in Nat
        /\ q \in Nat /\ p \in Nat /\ Start(q) + t.pages[q].used <= End(t, q) /\ End(t, q) \in Nat
        /\ End(t, q) = End(v, q)
    BY <1>2, FlexPageOf DEF End
  <2>4. CASE q = p
    <3>1. t.pages[q].used = used
      BY <1>3, <2>4 DEF UsedOf
    <3>2. v.pages[q].used = used + size
      BY <1>2, <1>3, <2>4
    <3>3. e.start + e.size <= a
      BY <1>5, <2>1, <2>4, <3>1
    <3>4. e.start + e.size <= Start(q) + v.pages[q].used
      BY <1>5, <2>1, <2>2, <2>3, <3>1, <3>2
    <3> QED BY <1>5, <2>1, <2>2, <2>3, <3>3, <3>4
  <2>5. CASE q # p
    <3>1. v.pages[q].used = t.pages[q].used
      BY <1>2, <2>5
    <3>2. CASE q < p
      <4>1. End(v, q) <= Start(p)
        BY <1>2, <2>3, <3>2, FlexPagesApart
      <4>2. e.start + e.size <= a
        BY <1>4, <1>5, <2>1, <2>2, <2>3, <4>1
      <4> QED BY <1>5, <2>1, <2>2, <2>3, <3>1, <4>2
    <3>3. CASE p < q
      <4>1. End(v, p) <= Start(q)
        BY <1>2, <2>3, <3>3, FlexPagesApart
      <4>2. a + size <= e.start
        BY <1>4, <1>5, <2>1, <2>2, <2>3, <4>1
      <4> QED BY <1>5, <2>1, <2>2, <2>3, <3>1, <4>2
    <3> QED BY <2>3, <2>5, <3>2, <3>3
  <2> QED BY <2>4, <2>5
<1>8. PICK new : new = [start |-> a, size |-> size]
  OBVIOUS
<1>9. new.start = a /\ new.size = size /\ new \in Extents
  BY <1>5, <1>8 DEF Extents
<1>10. Start(p) <= new.start /\ new.start + new.size <= Start(p) + v.pages[p].used /\ p \in FlexPages(v)
  BY <1>2, <1>3, <1>4, <1>5, <1>9
<1>11. ASSUME NEW e \in extents
       PROVE  Extent(e.start, e.size) \cap Extent(new.start, new.size) = {}
  <2>1. e.start \in Nat /\ e.size \in Nat /\ new.start \in Nat /\ new.size \in Nat
    BY <1>9 DEF Extents
  <2>2. e.start + e.size <= new.start \/ new.start + new.size <= e.start
    BY <1>7, <1>9
  <2> QED BY <2>1, <2>2 DEF Extent
<1>12. Placed(v, extents \cup {new})
  <2>1. ASSUME NEW b \in extents \cup {new}, NEW c \in extents \cup {new}, b # c
        PROVE  Extent(b.start, b.size) \cap Extent(c.start, c.size) = {}
    <3>1. CASE b \in extents /\ c \in extents
      BY <2>1, <3>1 DEF Placed
    <3>2. CASE b = new \/ c = new
      BY <1>11, <2>1, <3>2
    <3> QED BY <3>1, <3>2
  <2>2. ASSUME NEW b \in extents \cup {new}
        PROVE  \E q \in FlexPages(v) :
                 Start(q) <= b.start /\ b.start + b.size <= Start(q) + v.pages[q].used
    BY <1>7, <1>10
  <2> QED BY <2>1, <2>2 DEF Placed
<1> QED BY <1>6, <1>7, <1>8, <1>12

-----------------------------------------------------------------------------
(* The invariant. *)

ExtentOf(r) == [start |-> r.dest, size |-> r.size]

\* Every record is of an object, no two are of one, and freeze has sorted them.
Recorded ==
  /\ records \in Seq(Record)
  /\ \A i \in DOMAIN records : [start |-> records[i].src, size |-> records[i].size] \in objects
  /\ \A i, j \in DOMAIN records : records[i].src = records[j].src => i = j
  /\ phase = "copy" => by_src = SortedBySrc(records)

IInv ==
  /\ TypeOK /\ ObjectsPlaced /\ Recorded
  /\ Sound(from) /\ Sound(to)
  /\ \A c \in Contexts : local[c] # None => local[c] \in FlexPages(from)
  /\ move_local # None => move_local \in FlexPages(to)

\* A space in which nothing has been allocated.
LEMMA EmptySound == Sound(EmptyTable) /\ FlexPages(EmptyTable) = {} /\ Placed(EmptyTable, {})
<1>1. EmptyTable \in PageTables
  BY PageAssumption DEF EmptyTable, PageTables, BasePages
<1>2. FlexPages(EmptyTable) = {}
  BY DEF FlexPages, EmptyTable
<1>3. EmptyTable.current_base_page = 0 /\ EmptyTable.medium_buffer = None
  BY DEF EmptyTable
<1> QED BY <1>1, <1>2, <1>3, PageAssumption DEF Sound, Placed

\* The initial state.
LEMMA InitIInv == Init => IInv
<1> SUFFICES ASSUME Init PROVE IInv
  OBVIOUS
<1>1. /\ from = EmptyTable /\ to = EmptyTable /\ local = [c \in Contexts |-> None] /\ move_local = None
      /\ objects = {} /\ records = <<>> /\ by_src = <<>> /\ copied = {} /\ work_done = {} /\ phase = "mutate"
  BY DEF Init, NoRecords
<1>2. Range(records) = {} /\ Len(records) = 0 /\ DOMAIN records = {} /\ records \in Seq(Record)
  BY <1>1 DEF Range
<1>3. TypeOK
  BY <1>1, EmptySound DEF TypeOK, Sound
<1>4. ObjectsPlaced
  <2>1. {r.dest : r \in Range(records)} = {} /\ {ExtentOf(r) : r \in Range(records)} = {}
    BY <1>2
  <2>2. Cardinality({}) = 0
    BY FS_EmptySet
  <2> QED BY <1>1, <1>2, <2>1, <2>2, EmptySound DEF ObjectsPlaced, ExtentOf
<1>5. Recorded
  BY <1>1, <1>2 DEF Recorded
<1> QED BY <1>1, <1>3, <1>4, <1>5, EmptySound DEF IInv

\* What is known of an object.
LEMMA ObjectOf ==
  ASSUME TypeOK, NEW o \in objects
  PROVE  /\ o.size \in Nat \ {0} /\ o.start \in Nat /\ o \in Extents
         /\ o = [start |-> o.start, size |-> o.size]
<1> PICK starts : starts = 0 .. NrPages * PageSize - 1
  OBVIOUS
<1>1. o \in [start : starts, size : Sizes]
  BY DEF TypeOK
<1>2. starts \subseteq Nat /\ Sizes \subseteq Nat \ {0}
  BY PageAssumption, EvacuationAssumption
<1> QED BY <1>1, <1>2 DEF Extents

\* longer has one record more than seq.
Longer(longer, seq, x) ==
  /\ longer \in Seq(Record) /\ Len(longer) = Len(seq) + 1 /\ Len(seq) \in Nat
  /\ DOMAIN longer = DOMAIN seq \cup {Len(seq) + 1} /\ Len(seq) + 1 \notin DOMAIN seq
  /\ \A i \in DOMAIN seq : longer[i] = seq[i]
  /\ longer[Len(seq) + 1] = x
  /\ Range(longer) = Range(seq) \cup {x}

\* Append makes it longer.
LEMMA Appended ==
  ASSUME NEW seq \in Seq(Record), NEW x \in Record
  PROVE  Longer(Append(seq, x), seq, x)
<1> PICK longer : longer = Append(seq, x)
  OBVIOUS
<1>1. /\ longer \in Seq(Record) /\ Len(longer) = Len(seq) + 1 /\ Len(seq) \in Nat
      /\ \A i \in 1 .. Len(seq) : longer[i] = seq[i]
      /\ longer[Len(seq) + 1] = x
  OBVIOUS
<1>2. DOMAIN seq = 1 .. Len(seq) /\ DOMAIN longer = 1 .. Len(seq) + 1
  BY <1>1
<1>3. DOMAIN longer = DOMAIN seq \cup {Len(seq) + 1} /\ Len(seq) + 1 \notin DOMAIN seq
  BY <1>1, <1>2
<1>4. Range(longer) = Range(seq) \cup {x}
  BY <1>1, <1>2, <1>3 DEF Range
<1>5. Longer(longer, seq, x)
  BY <1>1, <1>2, <1>3, <1>4 DEF Longer
<1> QED BY <1>5

\* An allocation by a mutator.
LEMMA AllocKeeps ==
  ASSUME IInv, NEW c \in Contexts, NEW size \in Sizes, Alloc(c, size)
  PROVE  IInv'
<1>1. size \in Nat \ {0} /\ Sizes \subseteq Nat \ {0}
  BY EvacuationAssumption
<1>2. /\ local[c] \in BasePages \cup {None} /\ (local[c] # None => local[c] \in FlexPages(from))
      /\ Sound(from) /\ Placed(from, objects) /\ Succeeds(from, local[c], size)
      /\ objects \subseteq [start : 0 .. NrPages * PageSize - 1, size : Sizes]
  BY DEF IInv, TypeOK, ObjectsPlaced, Alloc
<1>3. PICK a : a = Address(from, local[c], size)
  OBVIOUS
<1>4. PICK l : l = LocalAfter(from, local[c], size)
  OBVIOUS
<1>5. /\ objects' = objects \cup {[start |-> a, size |-> size]}
      /\ from' = TableAfter(from, local[c], size) /\ local' = [local EXCEPT ![c] = l]
      /\ UNCHANGED <<to, move_local, records, by_src, copied, work_done, phase>>
  BY <1>3, <1>4 DEF Alloc
<1>6. objects \in SUBSET Extents
  BY ObjectOf DEF IInv
<1>7. a \in 0 .. NrPages * PageSize - 1 /\ Placed(from', objects')
  BY <1>1, <1>2, <1>3, <1>5, <1>6, PlacesNew
<1>8. l \in BasePages \cup {None} /\ (l # None => l \in FlexPages(from'))
  BY <1>1, <1>2, <1>4, <1>5, LocalStays
<1>9. Sound(from') /\ FlexPages(from) \subseteq FlexPages(from')
  <2>1. PICK p : p = PageOf(from, local[c], size)
    OBVIOUS
  <2> QED BY <1>1, <1>2, <1>5, <2>1, Allocates
<1>10. TypeOK'
  <2>1. local' \in [Contexts -> BasePages \cup {None}]
    BY <1>5, <1>8 DEF IInv, TypeOK
  <2>2. objects' \subseteq [start : 0 .. NrPages * PageSize - 1, size : Sizes]
    BY <1>2, <1>5, <1>7
  <2> QED BY <1>5, <1>9, <2>1, <2>2 DEF IInv, TypeOK, Sound
<1>11. ObjectsPlaced'
  BY <1>5, <1>7 DEF IInv, ObjectsPlaced, Placed
<1>12. Recorded'
  BY <1>5 DEF IInv, Recorded
<1>13. \A d \in Contexts : local'[d] # None => local'[d] \in FlexPages(from')
  BY <1>5, <1>8, <1>9 DEF IInv, TypeOK
<1> QED BY <1>5, <1>9, <1>10, <1>11, <1>12, <1>13 DEF IInv, Sound, FlexPages

\* The marker reserves a place for an object.
LEMMA MarkKeeps ==
  ASSUME IInv, NEW o \in objects, Mark(o)
  PROVE  IInv'
<1>1. o.size \in Nat \ {0} /\ o.start \in Nat /\ o = [start |-> o.start, size |-> o.size]
      /\ NrPages * PageSize \in Nat
  BY ObjectOf, PageAssumption DEF IInv
<1>2. /\ move_local \in BasePages \cup {None} /\ (move_local # None => move_local \in FlexPages(to))
      /\ Sound(to) /\ Succeeds(to, move_local, o.size) /\ records \in Seq(Record)
      /\ copied \subseteq Range(records) /\ phase = "mark" /\ phase' = "mark"
      /\ Cardinality({r.dest : r \in Range(records)}) = Len(records)
      /\ \A i \in DOMAIN records : records[i].src # o.start
  BY DEF IInv, TypeOK, ObjectsPlaced, Mark, Recorded, Unmarked
<1>3. PICK a : a = Address(to, move_local, o.size)
  OBVIOUS
<1>4. PICK new : new = [src |-> o.start, dest |-> a, size |-> o.size]
  OBVIOUS
<1>5. /\ records' = Append(records, new) /\ to' = TableAfter(to, move_local, o.size)
      /\ move_local' = LocalAfter(to, move_local, o.size)
      /\ UNCHANGED <<from, local, objects, by_src, copied, work_done>>
  BY <1>3, <1>4 DEF Mark, Insert
<1>6. PICK extents : extents = {ExtentOf(r) : r \in Range(records)}
  OBVIOUS
<1>7. extents \in SUBSET Extents /\ Placed(to, extents)
  <2>1. \A r \in Range(records) : r \in Record
    BY <1>2 DEF Range
  <2>2. extents \in SUBSET Extents
    BY <1>6, <2>1 DEF ExtentOf, Extents, Record
  <2> QED BY <1>6, <2>2 DEF IInv, ObjectsPlaced, ExtentOf
<1>8. /\ a \in 0 .. NrPages * PageSize - 1 /\ \A e \in extents : e.start # a
      /\ Placed(to', extents \cup {[start |-> a, size |-> o.size]})
  BY <1>1, <1>2, <1>3, <1>5, <1>7, PlacesNew
<1>9. new \in Record
  BY <1>1, <1>4, <1>8 DEF Record
<1>10. /\ records' \in Seq(Record) /\ Range(records') = Range(records) \cup {new}
       /\ Len(records') = Len(records) + 1 /\ Len(records) \in Nat
       /\ DOMAIN records' = DOMAIN records \cup {Len(records) + 1} /\ Len(records) + 1 \notin DOMAIN records
       /\ \A i \in DOMAIN records : records'[i] = records[i]
       /\ records'[Len(records) + 1] = new
  <2>1. records \in Seq(Record) /\ records' = Append(records, new)
    BY <1>2, <1>5
  <2>2. Longer(records', records, new)
    BY <1>9, <2>1, Appended
  <2> QED BY <2>2 DEF Longer
<1>11. Sound(to') /\ move_local' \in BasePages \cup {None} /\ (move_local' # None => move_local' \in FlexPages(to'))
  <2>1. PICK p : p = PageOf(to, move_local, o.size)
    OBVIOUS
  <2> QED BY <1>1, <1>2, <1>5, <2>1, Allocates, LocalStays
<1>12. TypeOK'
  BY <1>2, <1>5, <1>10, <1>11 DEF IInv, TypeOK, Sound
<1>13. ObjectsPlaced'
  <2>1. {ExtentOf(r) : r \in Range(records')} = extents \cup {[start |-> a, size |-> o.size]}
    BY <1>4, <1>6, <1>10 DEF ExtentOf
  <2>2. PICK dests : dests = {r.dest : r \in Range(records)}
    OBVIOUS
  <2>3. a \notin dests
    <3> SUFFICES ASSUME NEW r \in Range(records), r.dest = a PROVE FALSE
      BY <2>2
    <3>1. ExtentOf(r) \in extents /\ ExtentOf(r).start = a
      BY <1>6 DEF ExtentOf
    <3> QED BY <1>8, <3>1
  <2>4. {r.dest : r \in Range(records')} = dests \cup {a}
    BY <1>4, <1>10, <2>2
  <2>5. IsFiniteSet(dests)
    <3>1. \A r \in Range(records) : r.dest \in Nat /\ r.dest <= NrPages * PageSize
      <4>1. ASSUME NEW r \in Range(records) PROVE r.dest \in Nat /\ r.dest <= NrPages * PageSize
        <5>1. r \in Record
          BY <1>2 DEF Range
        <5>2. ExtentOf(r) \in extents
          BY <1>6
        <5>3. PICK p \in FlexPages(to) : Start(p) <= r.dest /\ r.dest + r.size <= Start(p) + to.pages[p].used
          BY <1>7, <5>2 DEF Placed, ExtentOf
        <5>4. r.dest \in Nat /\ r.size \in Nat
          BY <5>1 DEF Record
        <5>5. /\ Start(p) \in Nat /\ to.pages[p].used \in Nat /\ End(to, p) \in Nat
              /\ Start(p) + to.pages[p].used <= End(to, p) /\ End(to, p) <= NrPages * PageSize
          BY <1>2, FlexPageOf
        <5> QED BY <1>1, <5>3, <5>4, <5>5
      <4> QED BY <4>1
    <3>2. dests \in SUBSET Nat /\ \A d \in dests : d <= NrPages * PageSize
      BY <2>2, <3>1
    <3> QED BY <1>1, <3>2, FS_BoundedSetOfNaturals
  <2>6. Cardinality(dests \cup {a}) = Cardinality(dests) + 1
    BY <2>3, <2>5, FS_AddElement
  <2>7. Cardinality({r.dest : r \in Range(records')}) = Len(records')
    BY <1>2, <1>10, <2>2, <2>4, <2>6
  <2>8. Placed(from', objects')
    BY <1>5 DEF IInv, ObjectsPlaced, Placed
  <2> QED BY <1>8, <2>1, <2>7, <2>8 DEF ObjectsPlaced, ExtentOf
<1>14. Recorded'
  <2>1. ASSUME NEW i \in DOMAIN records' PROVE [start |-> records'[i].src, size |-> records'[i].size] \in objects'
    BY <1>1, <1>4, <1>5, <1>10, <2>1 DEF IInv, Recorded
  <2>2. ASSUME NEW i \in DOMAIN records', NEW j \in DOMAIN records', records'[i].src = records'[j].src
        PROVE  i = j
    <3>1. new.src = o.start
      BY <1>4
    <3> QED BY <1>2, <1>10, <2>2, <3>1 DEF IInv, Recorded
  <2> QED BY <1>2, <1>10, <2>1, <2>2 DEF Recorded
<1> QED BY <1>5, <1>11, <1>12, <1>13, <1>14 DEF IInv, Sound, FlexPages

\* The steps that allocate nothing.
LEMMA OthersKeep ==
  ASSUME IInv,
         \/ StartMarking \/ Freeze
         \/ \E o \in objects : MarkPanics(o)
         \/ \E p \in BasePages : Relocate(p) \/ RelocatePanics(p)
  PROVE  IInv'
<1>1. UNCHANGED <<from, to, local, move_local, objects, records>>
  BY DEF StartMarking, Freeze, MarkPanics, Relocate, RelocatePanics
<1>2. copied' \subseteq Range(records) /\ work_done' \subseteq BasePages
  <2>1. ASSUME NEW p \in BasePages, Relocate(p)
        PROVE  copied' \subseteq Range(records) /\ work_done' \subseteq BasePages
    <3>1. Start(p) \in Nat
      BY PageAssumption DEF Start, BasePages
    <3>2. RecordsFor(p) \subseteq Range(records)
      BY <3>1, InRangeHas DEF IInv, Recorded, RecordsFor, Range
    <3> QED BY <2>1, <3>2 DEF Relocate, IInv, TypeOK
  <2>2. ASSUME NEW p \in BasePages, RelocatePanics(p)
        PROVE  copied' \subseteq Range(records) /\ work_done' \subseteq BasePages
    BY <2>2 DEF RelocatePanics, IInv, TypeOK
  <2>3. CASE StartMarking \/ Freeze \/ \E o \in objects : MarkPanics(o)
    BY <2>3 DEF StartMarking, Freeze, MarkPanics, IInv, TypeOK
  <2> QED BY <2>1, <2>2, <2>3
<1>3. phase' \in {"mutate", "mark", "copy", "panic"}
      /\ (phase' = "copy" => by_src' = SortedBySrc(records'))
  BY <1>1 DEF StartMarking, Freeze, MarkPanics, Relocate, RelocatePanics, IInv, TypeOK, Recorded
<1>4. TypeOK'
  BY <1>1, <1>2, <1>3 DEF IInv, TypeOK
<1>5. ObjectsPlaced'
  BY <1>1 DEF IInv, ObjectsPlaced
<1>6. Recorded'
  BY <1>1, <1>3 DEF IInv, Recorded
<1> QED BY <1>1, <1>4, <1>5, <1>6 DEF IInv

\* Every step keeps the invariant.
LEMMA NextIInv == IInv /\ [Next]_vars => IInv'
<1> SUFFICES ASSUME IInv, [Next]_vars PROVE IInv'
  OBVIOUS
<1>1. CASE \E c \in Contexts, size \in Sizes : Alloc(c, size)
  BY <1>1, AllocKeeps
<1>2. CASE \E o \in objects : Mark(o)
  BY <1>2, MarkKeeps
<1>3. CASE \/ StartMarking \/ Freeze
           \/ \E o \in objects : MarkPanics(o)
           \/ \E p \in BasePages : Relocate(p) \/ RelocatePanics(p)
  BY <1>3, OthersKeep
<1>4. CASE UNCHANGED vars
  BY <1>4 DEF vars, IInv, TypeOK, ObjectsPlaced, Recorded
<1> QED BY <1>1, <1>2, <1>3, <1>4 DEF Next

\* The invariant holds, whatever the sizes of space, pages and objects.
THEOREM Invariance == Spec => []IInv
BY InitIInv, NextIInv, PTL DEF Spec

\* Every variable keeps its type; no object begins outside its space (mm/context.rs:27-53).
THEOREM TypeCorrect == Spec => []TypeOK
<1>1. IInv => TypeOK
  BY DEF IInv
<1> QED BY <1>1, Invariance, PTL

\* No two objects overlap and none crosses a flex page, in from-space as mutators
\* fill it and in to-space as the marker does (mm/context.rs, page_table.rs:127-163,
\* marker.rs:73-83).
THEOREM NothingOverlaps == Spec => []ObjectsPlaced
<1>1. IInv => ObjectsPlaced
  BY DEF IInv
<1> QED BY <1>1, Invariance, PTL

-----------------------------------------------------------------------------
(* Resolving addresses. *)

\* Numbers up to a bound have a largest.
LEMMA LargestOf ==
  ASSUME NEW n \in Nat, NEW T \in SUBSET (0 .. n), T # {}
  PROVE  \E x \in T : \A y \in T : y <= x
<1>1. PICK D : D = {n - x : x \in T}
  OBVIOUS
<1>2. D \in SUBSET Nat /\ D # {}
  <2>1. \A x \in T : x \in Nat /\ n - x \in Nat
    OBVIOUS
  <2>2. D # {}
    BY <1>1
  <2> QED BY <1>1, <2>1, <2>2
<1>3. PICK d \in D : \A e \in D : d <= e
  BY <1>2, SmallestOf
<1>4. PICK x \in T : d = n - x
  BY <1>1
<1>5. ASSUME NEW y \in T PROVE y <= x
  <2>1. n - x <= n - y
    BY <1>1, <1>3, <1>4
  <2> QED BY <2>1
<1> QED BY <1>5

\* An address resolves to the flex page it is in.
LEMMA SoundResolves == ASSUME NEW t, Sound(t) PROVE Resolves(t)
<1> SUFFICES ASSUME NEW a \in 0 .. NrPages * PageSize - 1
             PROVE  ResolveToPage(t, a) \in
                      IF \E p \in FlexPages(t) : Start(p) <= a /\ a < End(t, p)
                      THEN {p \in FlexPages(t) : Start(p) <= a /\ a < End(t, p)} ELSE {None}
  BY DEF Resolves
<1>1. PageSize \in Nat \ {0} /\ NrPages \in Nat \ {0} /\ a \in Nat
  BY PageAssumption
<1>2. PICK id : id = a \div PageSize
  OBVIOUS
<1>3. id \in Nat /\ \A p \in Nat : p <= id <=> Start(p) <= a
  BY <1>1, <1>2, Quotient DEF Start
<1>4. PICK before : before = {p \in BasePages : p <= id /\ t.pages[p] # None}
  OBVIOUS
<1>5. before = {p \in FlexPages(t) : Start(p) <= a}
  BY <1>3, <1>4 DEF FlexPages, BasePages
<1>6. CASE id >= t.current_base_page \/ before = {}
  <2>1. ResolveToPage(t, a) = None
    BY <1>2, <1>4, <1>6 DEF ResolveToPage
  <2>2. ASSUME NEW p \in FlexPages(t), Start(p) <= a, a < End(t, p) PROVE FALSE
    <3>1. p \in before
      BY <1>5, <2>2
    <3>2. t.current_base_page \in Nat /\ End(t, p) <= t.current_base_page * PageSize /\ End(t, p) \in Nat
      BY FlexPageOf
    <3>3. t.current_base_page * PageSize <= a
      BY <1>3, <1>6, <3>1, <3>2 DEF Start
    <3>4. t.current_base_page * PageSize \in Nat
      BY <1>1, <3>2, Product
    <3> QED BY <1>1, <2>2, <3>2, <3>3, <3>4
  <2> QED BY <2>1, <2>2
<1>7. CASE ~(id >= t.current_base_page) /\ before # {}
  <2>1. \E p \in before : \A q \in before : q <= p
    <3>1. before \in SUBSET (0 .. NrPages - 1) /\ NrPages - 1 \in Nat
      BY <1>1, <1>4 DEF BasePages
    <3> QED BY <1>7, <3>1, LargestOf
  <2>2. PICK p : p = CHOOSE q \in before : \A r \in before : r <= q
    OBVIOUS
  <2>3. p \in before /\ \A q \in before : q <= p
    BY <2>1, <2>2
  <2>4. ResolveToPage(t, a) = IF a < End(t, p) THEN p ELSE None
    BY <1>2, <1>4, <1>7, <2>2 DEF ResolveToPage
  <2>5. ASSUME NEW q \in FlexPages(t), Start(q) <= a, a < End(t, q) PROVE q = p
    <3>1. q \in before /\ q <= p /\ p \in FlexPages(t) /\ Start(p) <= a
      BY <1>5, <2>3, <2>5
    <3>2. q \in Nat /\ p \in Nat /\ End(t, q) \in Nat /\ Start(p) \in Nat
      BY <3>1, FlexPageOf
    <3>3. q < p => End(t, q) <= Start(p)
      BY <3>1, FlexPagesApart
    <3> QED BY <1>1, <2>5, <3>1, <3>2, <3>3
  <2> QED BY <1>5, <2>3, <2>4, <2>5
<1> QED BY <1>6, <1>7

\* Flex pages never overlap, and every address resolves to the page it is in or
\* to none (page_table.rs:52-87).
THEOREM AddressesResolve == Spec => []PagesResolve
<1>1. IInv => PagesResolve
  BY SoundResolves, FlexPagesApart, FlexPageOf DEF IInv, PagesResolve
<1> QED BY <1>1, Invariance, PTL

-----------------------------------------------------------------------------
(* Mapping sources. *)

\* Records come from addresses apart, as their objects lie apart.
LEMMA RecordsApart == IInv => Apart(records)
<1> SUFFICES ASSUME IInv, NEW i \in DOMAIN records, NEW j \in DOMAIN records, i # j
             PROVE  \/ records[i].src + records[i].size <= records[j].src
                    \/ records[j].src + records[j].size <= records[i].src
  BY DEF Apart
<1>1. PICK a \in objects : a = [start |-> records[i].src, size |-> records[i].size]
  BY DEF IInv, Recorded
<1>2. PICK b \in objects : b = [start |-> records[j].src, size |-> records[j].size]
  BY DEF IInv, Recorded
<1>3. a.start # b.start
  BY <1>1, <1>2 DEF IInv, Recorded
<1>4. /\ a.start \in Nat /\ a.size \in Nat /\ a.size > 0
      /\ b.start \in Nat /\ b.size \in Nat /\ b.size > 0
  BY ObjectOf DEF IInv
<1>5. (a.start .. a.start + a.size - 1) \cap (b.start .. b.start + b.size - 1) = {}
  BY <1>3 DEF IInv, ObjectsPlaced, Placed, Extent
<1>6. a.start \notin b.start .. b.start + b.size - 1 /\ b.start \notin a.start .. a.start + a.size - 1
  BY <1>4, <1>5
<1>7. a.start + a.size <= b.start \/ b.start + b.size <= a.start
  BY <1>4, <1>6
<1> QED BY <1>1, <1>2, <1>7

\* Once frozen, each address of a live object is found, by its record alone, and no
\* other address is: for registries of any size (relocation_map.rs:105-124).
THEOREM SourcesMap == Spec => []MapsSources
<1>1. IInv => MapsSources
  <2> SUFFICES ASSUME IInv, phase = "copy", NEW a \in 0 .. NrPages * PageSize - 1
               PROVE  MapSrcToDest(by_src, a) =
                        {r.dest + (a - r.src) : r \in {q \in Range(records) : a \in Extent(q.src, q.size)}}
    BY DEF MapsSources
  <2>1. PICK sorted : sorted = by_src
    OBVIOUS
  <2>2. records \in Seq(Record) /\ sorted = SortedBySrc(records) /\ a \in Nat
    BY <2>1 DEF IInv, Recorded
  <2>3. /\ sorted \in Seq(Record) /\ Ordered(sorted, "src")
        /\ {sorted[k] : k \in DOMAIN sorted} = Range(records)
    BY <2>2, SortOrders, RecordsApart DEF Range
  <2>4. PICK having : having = {sorted[i] : i \in {j \in DOMAIN sorted : Contains(sorted[j], "src", a)}}
    OBVIOUS
  <2>5. MapSrcToDest(by_src, a) = {r.dest + (a - r.src) : r \in having}
    BY <2>1, <2>2, <2>3, <2>4, MapsOrdered
  <2>6. ASSUME NEW r \in Range(records) PROVE Contains(r, "src", a) <=> a \in Extent(r.src, r.size)
    <3>1. r \in Record
      BY <2>2 DEF Range
    <3> QED BY <2>2, <3>1 DEF Record, Contains, Extent
  <2>7. having = {q \in Range(records) : a \in Extent(q.src, q.size)}
    BY <2>3, <2>4, <2>6
  <2> QED BY <2>5, <2>7
<1> QED BY <1>1, Invariance, PTL

-----------------------------------------------------------------------------
(* Objects of one kind. *)

\* The first object of a flex page lies at its start.
Begun == \A p \in FlexPages(to) : \E i \in DOMAIN records : records[i].dest = Start(p)

\* While all objects are of one kind, they are marked in the order of their
\* places: the page they are bumped from is the last one.
Lined ==
  OneKind =>
    /\ Ordered(records, "dest")
    /\ \A r \in Range(records), p \in FlexPages(to) :
         /\ Small(r.size) => move_local # None /\ p <= move_local
         /\ Medium(r.size) => to.medium_buffer # None /\ p <= to.medium_buffer

\* A page that is done has all that the registry finds for it.
Moved ==
  /\ phase \in {"mutate", "mark"} => work_done = {}
  /\ phase = "copy" => \A p \in work_done : RecordsFor(p) \subseteq copied

KInv == IInv /\ Begun /\ Lined /\ Moved

\* An object is bumped from the last page, or gets a new one.
LEMMA BumpedFromLast ==
  ASSUME NEW t, Sound(t), NEW buffer \in BasePages \cup {None},
         buffer # None => buffer \in FlexPages(t),
         NEW size \in Nat \ {0}, Succeeds(t, buffer, size),
         \A q \in FlexPages(t) :
           /\ Small(size) => buffer # None /\ q <= buffer
           /\ Medium(size) => t.medium_buffer # None /\ q <= t.medium_buffer,
         NEW p, p = PageOf(t, buffer, size)
  PROVE  \A q \in FlexPages(t) : q <= p
<1> SUFFICES ASSUME NEW q \in FlexPages(t) PROVE q <= p
  OBVIOUS
<1>1. CASE NeedsPage(t, buffer, size)
  <2>1. p = t.current_base_page
    BY <1>1 DEF PageOf
  <2>2. q \in Nat /\ t.pages[q].nr_pages \in Nat /\ q + t.pages[q].nr_pages <= t.current_base_page
        /\ t.current_base_page \in Nat
    BY FlexPageOf
  <2> QED BY <2>1, <2>2
<1>2. CASE ~NeedsPage(t, buffer, size)
  BY <1>2 DEF PageOf, NeedsPage, Buffer
<1> QED BY <1>1, <1>2

\* All places are before the one that is bumped from the last page.
LEMMA BumpedBehind ==
  ASSUME NEW t, Sound(t), NEW p \in Nat, \A q \in FlexPages(t) : q <= p,
         p \notin FlexPages(t) => p = t.current_base_page,
         NEW a, a = Start(p) + UsedOf(t, p),
         NEW extents \in SUBSET Extents, Placed(t, extents), NEW e \in extents
  PROVE  e.start + e.size <= a
<1>1. PICK q \in FlexPages(t) : Start(q) <= e.start /\ e.start + e.size <= Start(q) + t.pages[q].used
  BY DEF Placed
<1>2. /\ q \in Nat /\ q <= p /\ Start(q) \in Nat /\ t.pages[q].used \in Nat
      /\ Start(q) + t.pages[q].used <= End(t, q) /\ End(t, q) \in Nat
      /\ End(t, q) <= t.current_base_page * PageSize
  BY <1>1, FlexPageOf
<1>3. e.start \in Nat /\ e.size \in Nat
  BY DEF Extents
<1>4. CASE p \in FlexPages(t)
  <2>1. Start(p) \in Nat /\ t.pages[p].used \in Nat /\ a = Start(p) + t.pages[p].used
    BY <1>4, FlexPageOf DEF UsedOf
  <2>2. q < p => End(t, q) <= Start(p)
    BY <1>1, <1>4, FlexPagesApart
  <2> QED BY <1>1, <1>2, <1>3, <2>1, <2>2
<1>5. CASE p \notin FlexPages(t)
  <2>1. a = t.current_base_page * PageSize /\ t.current_base_page * PageSize \in Nat
    BY <1>5, PageAssumption DEF UsedOf, Start
  <2> QED BY <1>1, <1>2, <1>3, <2>1
<1> QED BY <1>4, <1>5

\* The marker keeps the order, while objects are of one kind.
LEMMA MarkLines ==
  ASSUME KInv, NEW o \in objects, Mark(o)
  PROVE  Begun' /\ Lined' /\ Moved'
<1>1. /\ IInv /\ TypeOK /\ o.size \in Nat \ {0} /\ o.start \in Nat
      /\ move_local \in BasePages \cup {None} /\ (move_local # None => move_local \in FlexPages(to))
      /\ Sound(to) /\ Succeeds(to, move_local, o.size) /\ records \in Seq(Record)
      /\ phase = "mark" /\ phase' = "mark" /\ work_done' = work_done
  BY ObjectOf DEF KInv, IInv, TypeOK, Mark, Recorded
<1>2. PICK a : a = Address(to, move_local, o.size)
  OBVIOUS
<1>3. PICK p : p = PageOf(to, move_local, o.size)
  OBVIOUS
<1>4. PICK new : new = [src |-> o.start, dest |-> a, size |-> o.size]
  OBVIOUS
<1>5. /\ records' = Append(records, new) /\ to' = TableAfter(to, move_local, o.size)
      /\ move_local' = LocalAfter(to, move_local, o.size)
  BY <1>2, <1>4 DEF Mark, Insert
<1>6. /\ Sound(to') /\ FlexPages(to') = FlexPages(to) \cup {p}
      /\ p \notin FlexPages(to) => p = to.current_base_page
      /\ a = Start(p) + UsedOf(to, p)
      /\ to'.medium_buffer = IF Medium(o.size) THEN p ELSE to.medium_buffer
  <2>1. PICK v : v = TableAfter(to, move_local, o.size)
    OBVIOUS
  <2>2. /\ Sound(v) /\ FlexPages(v) = FlexPages(to) \cup {p}
        /\ p \notin FlexPages(to) => p = to.current_base_page
        /\ a = Start(p) + UsedOf(to, p)
        /\ v.medium_buffer = IF Medium(o.size) THEN p ELSE to.medium_buffer
    BY <1>1, <1>2, <1>3, <2>1, Allocates, SMTT(60)
  <2>3. to' = v
    BY <1>5, <2>1
  <2> QED BY <2>2, <2>3
<1>7. p \in Nat /\ p \in BasePages /\ p # None /\ Start(p) \in Nat
  BY <1>6, FlexPageOf, PageAssumption
<1>8. new \in Record
  <2>1. UsedOf(to, p) \in Nat
    BY <1>1, FlexPageOf DEF UsedOf
  <2> QED BY <1>1, <1>4, <1>6, <1>7, <2>1 DEF Record
<1>9. Longer(records', records, new)
  BY <1>1, <1>5, <1>8, Appended
<1>10. Begun'
  <2>1. ASSUME NEW q \in FlexPages(to') PROVE \E i \in DOMAIN records' : records'[i].dest = Start(q)
    <3>1. CASE q \in FlexPages(to)
      BY <1>9, <3>1 DEF KInv, Begun, Longer
    <3>2. CASE q = p /\ p \notin FlexPages(to)
      <4>1. a = Start(p)
        BY <1>6, <1>7, <3>2 DEF UsedOf
      <4> QED BY <1>4, <1>9, <3>2, <4>1 DEF Longer
    <3> QED BY <1>6, <3>1, <3>2
  <2> QED BY <2>1 DEF Begun
<1>11. Lined'
  <2> SUFFICES ASSUME OneKind'
               PROVE  /\ Ordered(records', "dest")
                      /\ \A r \in Range(records'), q \in FlexPages(to') :
                           /\ Small(r.size) => move_local' # None /\ q <= move_local'
                           /\ Medium(r.size) => to'.medium_buffer # None /\ q <= to'.medium_buffer
    BY DEF Lined
  <2>1. Range(records') = Range(records) \cup {new} /\ new.size = o.size
    BY <1>4, <1>9 DEF Longer
  <2>2. \A r \in Range(records') : (Small(r.size) <=> Small(o.size)) /\ (Medium(r.size) <=> Medium(o.size))
    BY <2>1 DEF OneKind
  <2>3. OneKind
    BY <2>1 DEF OneKind
  <2>4. Lined /\ Begun /\ Ordered(records, "dest")
    BY <2>3 DEF KInv, Lined
  <2>5. \A q \in FlexPages(to) :
           /\ Small(o.size) => move_local # None /\ q <= move_local
           /\ Medium(o.size) => to.medium_buffer # None /\ q <= to.medium_buffer
    <3> SUFFICES ASSUME NEW q \in FlexPages(to)
                 PROVE  /\ Small(o.size) => move_local # None /\ q <= move_local
                        /\ Medium(o.size) => to.medium_buffer # None /\ q <= to.medium_buffer
      OBVIOUS
    <3>1. PICK r \in Range(records) : TRUE
      BY <2>4 DEF Begun, Range
    <3> QED BY <2>1, <2>2, <2>3, <2>4, <3>1 DEF Lined
  <2>6. \A q \in FlexPages(to) : q <= p
    BY <1>1, <1>3, <2>5, BumpedFromLast
  <2>7. \A q \in FlexPages(to') : q <= p
    BY <1>6, <1>7, <2>6
  <2>8. ASSUME NEW r \in Range(records) PROVE r.dest + r.size <= a
    <3>1. PICK extents : extents = {ExtentOf(s) : s \in Range(records)}
      OBVIOUS
    <3>2. extents \in SUBSET Extents
      <4>1. \A s \in Range(records) : s \in Record
        BY <1>1 DEF Range
      <4> QED BY <3>1, <4>1 DEF ExtentOf, Extents, Record
    <3>3. Placed(to, extents)
      BY <1>1, <3>1 DEF IInv, ObjectsPlaced, ExtentOf
    <3>4. PICK e \in extents : e = ExtentOf(r)
      BY <3>1
    <3>5. e.start + e.size <= a
      BY <1>1, <1>6, <1>7, <2>6, <3>2, <3>3, BumpedBehind
    <3> QED BY <3>4, <3>5 DEF ExtentOf
  <2>9. Ordered(records', "dest")
    <3> SUFFICES ASSUME NEW i \in DOMAIN records', NEW j \in DOMAIN records', i < j
                 PROVE  records'[i]["dest"] + records'[i].size <= records'[j]["dest"]
      BY DEF Ordered
    <3>1. CASE j \in DOMAIN records
      <4>1. i \in DOMAIN records
        <5>1. DOMAIN records = 1 .. Len(records) /\ Len(records) \in Nat
          BY <1>1
        <5> QED BY <1>9, <3>1, <5>1 DEF Longer
      <4> QED BY <1>9, <2>4, <3>1, <4>1 DEF Longer, Ordered
    <3>2. CASE j = Len(records) + 1
      <4>1. i \in DOMAIN records
        BY <1>9, <3>2 DEF Longer
      <4>2. records'[i] = records[i] /\ records[i] \in Range(records)
        BY <1>9, <4>1 DEF Longer, Range
      <4>3. records'[j].dest = a
        BY <1>4, <1>9, <3>2 DEF Longer
      <4> QED BY <2>8, <4>2, <4>3
    <3> QED BY <1>9, <3>1, <3>2 DEF Longer
  <2>10. (Small(o.size) => move_local' = p) /\ (Medium(o.size) => to'.medium_buffer = p)
    BY <1>3, <1>5, <1>6 DEF LocalAfter
  <2> QED BY <1>7, <2>2, <2>7, <2>9, <2>10
<1>12. Moved'
  BY <1>1 DEF KInv, Moved
<1> QED BY <1>10, <1>11, <1>12

\* Records of the page at hand: the search finds all of them if they are in order.
LEMMA FindsAll ==
  ASSUME KInv, OneKind, NEW p \in FlexPages(to)
  PROVE  /\ RecordsFor(p) = {r \in Range(records) : Start(p) <= r.dest /\ r.dest < End(to, p)}
         /\ Within(p, RecordsFor(p))
<1>1. /\ Ordered(records, "dest") /\ records \in Seq(Record) /\ Sound(to)
      /\ \E i \in DOMAIN records : records[i].dest = Start(p)
      /\ Start(p) \in Nat /\ End(to, p) \in Nat
  BY FlexPageOf DEF KInv, IInv, Recorded, Lined, Begun
<1>2. RecordsFor(p) = {r \in Range(records) : Start(p) <= r.dest /\ r.dest < End(to, p)}
  BY <1>1, RangeOrdered DEF RecordsFor, Range
<1>3. ASSUME NEW r \in Range(records), Start(p) <= r.dest, r.dest < End(to, p)
      PROVE  r.dest + r.size <= End(to, p)
  <2>1. ExtentOf(r) \in {ExtentOf(s) : s \in Range(records)}
    OBVIOUS
  <2>2. PICK q \in FlexPages(to) : Start(q) <= r.dest /\ r.dest + r.size <= Start(q) + to.pages[q].used
    BY <2>1 DEF KInv, IInv, ObjectsPlaced, Placed, ExtentOf
  <2>3. r.dest \in Nat /\ r.size \in Nat /\ r.size > 0
    <3>1. r \in Record
      BY <1>1 DEF Range
    <3> QED BY <3>1 DEF Record
  <2>4. /\ p \in Nat /\ q \in Nat /\ Start(q) \in Nat /\ to.pages[q].used \in Nat
        /\ Start(q) + to.pages[q].used <= End(to, q) /\ End(to, q) \in Nat
    BY <1>1, FlexPageOf
  <2>5. (q < p => End(to, q) <= Start(p)) /\ (p < q => End(to, p) <= Start(q))
    BY <1>1, FlexPagesApart
  <2> DEFINE d == r.dest
             s == r.size
             top == Start(q) + to.pages[q].used
  <2>6. /\ d \in Nat /\ s \in Nat /\ s > 0 /\ top \in Nat
        /\ Start(p) <= d /\ d < End(to, p) /\ Start(q) <= d /\ d + s <= top /\ top <= End(to, q)
    BY <1>3, <2>2, <2>3, <2>4
  <2> HIDE DEF d, s, top
  <2>7. ~(End(to, q) <= Start(p)) /\ ~(End(to, p) <= Start(q))
    BY <1>1, <2>4, <2>6
  <2>8. q = p
    BY <2>4, <2>5, <2>7
  <2>9. d + s <= End(to, p)
    BY <1>1, <2>6, <2>8
  <2> QED BY <2>9 DEF d, s
<1>4. Within(p, RecordsFor(p))
  BY <1>2, <1>3 DEF Within
<1> QED BY <1>2, <1>4

\* Every record lies in a flex page.
LEMMA RecordInPage ==
  ASSUME KInv, NEW r \in Range(records)
  PROVE  \E p \in FlexPages(to) : Start(p) <= r.dest /\ r.dest < End(to, p)
<1>1. ExtentOf(r) \in {ExtentOf(s) : s \in Range(records)}
  OBVIOUS
<1>2. PICK p \in FlexPages(to) : Start(p) <= r.dest /\ r.dest + r.size <= Start(p) + to.pages[p].used
  BY <1>1 DEF KInv, IInv, ObjectsPlaced, Placed, ExtentOf
<1>3. r.dest \in Nat /\ r.size \in Nat /\ r.size > 0
  <2>1. r \in Record
    BY DEF KInv, IInv, Recorded, Range
  <2> QED BY <2>1 DEF Record
<1>4. /\ Start(p) \in Nat /\ to.pages[p].used \in Nat
      /\ Start(p) + to.pages[p].used <= End(to, p) /\ End(to, p) \in Nat
  BY FlexPageOf DEF KInv, IInv
<1> QED BY <1>2, <1>3, <1>4

\* The invariant for objects of one kind.
LEMMA InitKInv == Init => KInv
<1> SUFFICES ASSUME Init PROVE KInv
  OBVIOUS
<1>1. to = EmptyTable /\ records = <<>> /\ work_done = {} /\ phase = "mutate"
  BY DEF Init, NoRecords
<1>2. FlexPages(to) = {} /\ DOMAIN records = {} /\ Range(records) = {}
  BY <1>1, EmptySound DEF Range
<1> QED BY <1>1, <1>2, InitIInv DEF KInv, Begun, Lined, Moved, Ordered

\* Every step keeps it.
LEMMA NextKInv == KInv /\ [Next]_vars => KInv'
<1> SUFFICES ASSUME KInv, [Next]_vars PROVE KInv'
  OBVIOUS
<1>1. IInv'
  BY NextIInv DEF KInv
<1>2. ASSUME UNCHANGED <<to, move_local, records>> PROVE Begun' /\ Lined'
  <2>1. Begun /\ Lined
    BY DEF KInv
  <2> QED BY <1>2, <2>1 DEF Begun, Lined, OneKind, FlexPages, Ordered, Range
<1>3. CASE \E c \in Contexts, size \in Sizes : Alloc(c, size)
  BY <1>1, <1>2, <1>3 DEF Alloc, KInv, Moved
<1>4. CASE \E o \in objects : Mark(o)
  BY <1>1, <1>4, MarkLines DEF KInv
<1>5. CASE StartMarking \/ Freeze \/ \E o \in objects : MarkPanics(o)
  BY <1>1, <1>2, <1>5 DEF StartMarking, Freeze, MarkPanics, KInv, Moved
<1>6. ASSUME NEW p \in BasePages, Relocate(p) PROVE KInv'
  <2>1. /\ UNCHANGED <<to, move_local, records, phase>> /\ phase = "copy"
        /\ copied' = copied \cup RecordsFor(p) /\ work_done' = work_done \cup {p}
    BY <1>6 DEF Relocate
  <2>2. Moved'
    BY <2>1 DEF KInv, Moved, RecordsFor
  <2> QED BY <1>1, <1>2, <2>1, <2>2 DEF KInv
<1>7. ASSUME NEW p \in BasePages, RelocatePanics(p) PROVE KInv'
  BY <1>1, <1>2, <1>7 DEF RelocatePanics, KInv, Moved
<1>8. CASE UNCHANGED vars
  BY <1>1, <1>2, <1>8 DEF vars, KInv, Moved, RecordsFor
<1> QED BY <1>3, <1>4, <1>5, <1>6, <1>7, <1>8 DEF Next

\* A heap of one kind of objects is evacuated completely: the search by destination
\* runs over a vector in order, no assertion of do_relocate fails, and when every
\* page is done every live object has been moved (copier.rs:110-156, 232-244).
THEOREM OneKindEvacuated == Spec => []EvacuatesOneKind
<1>1. KInv => EvacuatesOneKind
  <2> SUFFICES ASSUME KInv, OneKind, phase = "copy"
               PROVE  /\ \A p \in FlexPages(to) : Within(p, RecordsFor(p))
                      /\ work_done = FlexPages(to) => copied = Range(records)
    BY DEF EvacuatesOneKind
  <2>1. \A p \in FlexPages(to) : Within(p, RecordsFor(p))
    BY FindsAll
  <2>2. ASSUME work_done = FlexPages(to), NEW r \in Range(records) PROVE r \in copied
    <3>1. PICK p \in FlexPages(to) : Start(p) <= r.dest /\ r.dest < End(to, p)
      BY RecordInPage
    <3>2. r \in RecordsFor(p)
      BY <3>1, FindsAll
    <3> QED BY <2>2, <3>2 DEF KInv, Moved
  <2>3. copied \subseteq Range(records)
    BY DEF KInv, IInv, TypeOK
  <2> QED BY <2>1, <2>2, <2>3
<1> QED BY <1>1, InitKInv, NextKInv, PTL DEF Spec

\* On such a heap no copying panics, from any state that is reached.
THEOREM OneKindNeverPanics == Spec => [][OneKind => \A p \in BasePages : ~RelocatePanics(p)]_vars
<1>1. ASSUME KInv, OneKind, NEW p \in BasePages, RelocatePanics(p) PROVE FALSE
  BY <1>1, FindsAll DEF RelocatePanics
<1>2. KInv /\ [Next]_vars => [OneKind => \A p \in BasePages : ~RelocatePanics(p)]_vars
  BY <1>1
<1> QED BY <1>2, InitKInv, NextKInv, PTL DEF Spec

=============================================================================
