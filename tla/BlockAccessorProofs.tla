------------------------ MODULE BlockAccessorProofs ------------------------
EXTENDS BlockAccessor, SequenceTheorems, WellFoundedInduction, FiniteSetTheorems, TLAPS

(***************************************************************************)
(* The storage of the main chain keeps its promises for every set of       *)
(* items, every size of an item and of the cache, and any number of items  *)
(* and of crashes.  The argument is in terms of two functions: where the   *)
(* sizes of the index put an item (SumOfFirst, whose recursion is unfolded *)
(* by an induction over the natural numbers) and what is at a position of  *)
(* the file or, beyond its end, would be if it were written there (At).    *)
(***************************************************************************)

-----------------------------------------------------------------------------
(* Induction, for a set in place of a property: the well-foundedness of <  *)
(* on the natural numbers gives a least number outside of the set.         *)
LEMMA SetInduction ==
  ASSUME NEW S, 0 \in S, \A n \in Nat : n \in S => n + 1 \in S
  PROVE  Nat \subseteq S
  <1> DEFINE R == OpToRel(<, Nat)
             T == Nat \ S
  <1>1. SUFFICES ASSUME T # {} PROVE FALSE
    OBVIOUS
  <1>2. IsWellFoundedOn(R, Nat)
    BY NatLessThanWellFounded
  <1>3. T \subseteq Nat
    OBVIOUS
  <1>4. \E x \in T : \A y \in T : ~ (<<y, x>> \in R)
    <2> HIDE DEF R, T
    <2> QED BY <1>1, <1>2, <1>3, WFMin
  <1>5. PICK x \in T : \A y \in T : ~ (<<y, x>> \in R)
    BY <1>4
  <1>6. x # 0 /\ x \in Nat
    OBVIOUS
  <1>7. x - 1 \in T
    BY <1>6
  <1>8. <<x - 1, x>> \in R
    BY <1>6 DEF OpToRel
  <1> QED BY <1>5, <1>7, <1>8

(* readItems adds up the sizes: the function that SumOfFirst names exists, *)
(* so that it has the values its definition gives it.                      *)
SumTo(sizes, g, n) ==
  g[0] = 0 /\ \A k \in 1 .. n : g[k] = g[k - 1] + sizes[k]

LEMMA SumExists ==
  ASSUME NEW sizes
  PROVE  \A n \in Nat : \E g : SumTo(sizes, g, n)
  <1> DEFINE S == {n \in Nat : \E g : SumTo(sizes, g, n)}
  <1>1. 0 \in S
    <2>1. SumTo(sizes, [k \in {0} |-> 0], 0)
      BY DEF SumTo
    <2> QED BY <2>1
  <1>2. ASSUME NEW n \in Nat, n \in S PROVE n + 1 \in S
    <2>1. PICK g : SumTo(sizes, g, n)
      BY <1>2
    <2> DEFINE h == [k \in 0 .. n + 1 |-> IF k = n + 1 THEN g[n] + sizes[n + 1] ELSE g[k]]
    <2>2. SumTo(sizes, h, n + 1)
      <3>1. h[0] = 0
        BY <2>1 DEF SumTo
      <3>2. \A k \in 1 .. n + 1 : h[k] = h[k - 1] + sizes[k]
        BY <2>1 DEF SumTo
      <3> QED BY <3>1, <3>2 DEF SumTo
    <2> QED BY <2>2
  <1> HIDE DEF S
  <1>3. Nat \subseteq S
    BY <1>1, <1>2, SetInduction
  <1> QED BY <1>3 DEF S

LEMMA SumUnique ==
  ASSUME NEW sizes, NEW g, NEW h, NEW n \in Nat, SumTo(sizes, g, n), SumTo(sizes, h, n)
  PROVE  \A k \in 0 .. n : g[k] = h[k]
  <1> DEFINE S == {k \in Nat : k <= n => g[k] = h[k]}
  <1>1. 0 \in S
    BY DEF SumTo
  <1>2. ASSUME NEW k \in Nat, k \in S PROVE k + 1 \in S
    <2>1. CASE k + 1 <= n
      <3>1. g[k] = h[k]
        BY <1>2, <2>1
      <3>2. g[k + 1] = g[k] + sizes[k + 1] /\ h[k + 1] = h[k] + sizes[k + 1]
        BY <2>1 DEF SumTo
      <3> QED BY <3>1, <3>2
    <2>2. CASE ~ (k + 1 <= n)
      BY <2>2
    <2> QED BY <2>1, <2>2
  <1> HIDE DEF S
  <1>3. Nat \subseteq S
    BY <1>1, <1>2, SetInduction
  <1> QED BY <1>3 DEF S

LEMMA SumDefined ==
  ASSUME NEW sizes
  PROVE  /\ SumOfFirst(sizes, 0) = 0
         /\ \A n \in Nat : SumOfFirst(sizes, n + 1) = SumOfFirst(sizes, n) + sizes[n + 1]
  <1> DEFINE G(n) == CHOOSE g : SumTo(sizes, g, n)
             f == [n \in Nat |-> G(n)[n]]
             IsSum(h) == h = [k \in Nat |-> IF k = 0 THEN 0 ELSE h[k - 1] + sizes[k]]
  <1>1. \A n \in Nat : SumTo(sizes, G(n), n)
    BY SumExists
  <1>2. f[0] = 0
    BY <1>1 DEF SumTo
  <1>3. ASSUME NEW n \in Nat PROVE f[n + 1] = f[n] + sizes[n + 1]
    <2>1. SumTo(sizes, G(n), n) /\ SumTo(sizes, G(n + 1), n + 1)
      BY <1>1
    <2> HIDE DEF G
    <2>2. SumTo(sizes, G(n + 1), n)
      BY <2>1 DEF SumTo
    <2>3. G(n + 1)[n] = G(n)[n]
      BY <2>1, <2>2, SumUnique
    <2>4. G(n + 1)[n + 1] = G(n + 1)[n] + sizes[n + 1]
      BY <2>1 DEF SumTo
    <2> QED BY <2>3, <2>4
  <1> HIDE DEF f
  <1>4. IsSum(f)
    <2>1. f = [k \in Nat |-> f[k]]
      BY DEF f
    <2>2. \A k \in Nat : f[k] = IF k = 0 THEN 0 ELSE f[k - 1] + sizes[k]
      <3> TAKE k \in Nat
      <3>1. CASE k = 0
        BY <3>1, <1>2
      <3>2. CASE k # 0
        <4>1. k - 1 \in Nat /\ (k - 1) + 1 = k
          BY <3>2
        <4> QED BY <1>3, <3>2, <4>1
      <3> QED BY <3>1, <3>2
    <2> QED BY <2>1, <2>2
  <1> DEFINE sum == CHOOSE h : IsSum(h)
  <1>5. IsSum(sum)
    BY <1>4
  <1>6. \A n : SumOfFirst(sizes, n) = sum[n]
    BY DEF SumOfFirst
  <1> HIDE DEF sum
  <1>7. sum[0] = 0 /\ \A n \in Nat : sum[n + 1] = sum[n] + sizes[n + 1]
    BY <1>5
  <1> QED BY <1>6, <1>7

(* The sums are offsets, they grow, and they depend on the sizes that they *)
(* add up only.                                                            *)
LEMMA SumIsOffset ==
  ASSUME NEW sizes \in Seq(Nat)
  PROVE  \A n \in 0 .. Len(sizes) : SumOfFirst(sizes, n) \in Nat
  <1> DEFINE S == {n \in Nat : n <= Len(sizes) => SumOfFirst(sizes, n) \in Nat}
  <1>1. 0 \in S
    BY SumDefined
  <1>2. ASSUME NEW n \in Nat, n \in S PROVE n + 1 \in S
    <2>1. CASE n + 1 <= Len(sizes)
      <3>1. SumOfFirst(sizes, n) \in Nat /\ sizes[n + 1] \in Nat
        BY <1>2, <2>1
      <3>2. SumOfFirst(sizes, n + 1) = SumOfFirst(sizes, n) + sizes[n + 1]
        BY SumDefined
      <3> QED BY <3>1, <3>2
    <2>2. CASE ~ (n + 1 <= Len(sizes))
      BY <2>2
    <2> QED BY <2>1, <2>2
  <1> HIDE DEF S
  <1>3. Nat \subseteq S
    BY <1>1, <1>2, SetInduction
  <1> QED BY <1>3 DEF S

LEMMA SumGrows ==
  ASSUME NEW sizes \in Seq(Nat), NEW m \in Nat
  PROVE  \A n \in m .. Len(sizes) : SumOfFirst(sizes, m) <= SumOfFirst(sizes, n)
  <1> DEFINE S == {n \in Nat : m <= n /\ n <= Len(sizes) =>
                                 SumOfFirst(sizes, m) <= SumOfFirst(sizes, n)}
  <1>1. 0 \in S
    <2>1. m = 0 => SumOfFirst(sizes, m) <= SumOfFirst(sizes, 0)
      BY SumDefined
    <2> QED BY <2>1
  <1>2. ASSUME NEW n \in Nat, n \in S PROVE n + 1 \in S
    <2>1. CASE m <= n /\ n + 1 <= Len(sizes)
      <3>1. SumOfFirst(sizes, m) <= SumOfFirst(sizes, n) /\ sizes[n + 1] \in Nat
        BY <1>2, <2>1
      <3>2. SumOfFirst(sizes, n + 1) = SumOfFirst(sizes, n) + sizes[n + 1]
        BY SumDefined
      <3>3. SumOfFirst(sizes, m) \in Nat /\ SumOfFirst(sizes, n) \in Nat
        BY <2>1, SumIsOffset
      <3> QED BY <3>1, <3>2, <3>3
    <2>2. CASE m = n + 1 /\ n + 1 <= Len(sizes)
      <3>1. SumOfFirst(sizes, n + 1) \in Nat
        BY <2>2, SumIsOffset
      <3> QED BY <2>2, <3>1
    <2>3. CASE ~ (m <= n + 1 /\ n + 1 <= Len(sizes))
      BY <2>3
    <2> QED BY <2>1, <2>2, <2>3
  <1> HIDE DEF S
  <1>3. Nat \subseteq S
    BY <1>1, <1>2, SetInduction
  <1> QED BY <1>3 DEF S

LEMMA SumIsLocal ==
  ASSUME NEW s, NEW t, NEW n \in Nat, \A k \in 1 .. n : s[k] = t[k]
  PROVE  \A m \in 0 .. n : SumOfFirst(s, m) = SumOfFirst(t, m)
  <1> DEFINE S == {m \in Nat : m <= n => SumOfFirst(s, m) = SumOfFirst(t, m)}
  <1>1. 0 \in S
    BY SumDefined
  <1>2. ASSUME NEW m \in Nat, m \in S PROVE m + 1 \in S
    <2>1. CASE m + 1 <= n
      <3>1. SumOfFirst(s, m) = SumOfFirst(t, m) /\ s[m + 1] = t[m + 1]
        BY <1>2, <2>1
      <3>2. /\ SumOfFirst(s, m + 1) = SumOfFirst(s, m) + s[m + 1]
            /\ SumOfFirst(t, m + 1) = SumOfFirst(t, m) + t[m + 1]
        BY SumDefined
      <3> QED BY <3>1, <3>2
    <2>2. CASE ~ (m + 1 <= n)
      BY <2>2
    <2> QED BY <2>1, <2>2
  <1> HIDE DEF S
  <1>3. Nat \subseteq S
    BY <1>1, <1>2, SetInduction
  <1> QED BY <1>3 DEF S

-----------------------------------------------------------------------------
(* Files.  What is at a position, with a hole beyond the end.              *)
At(file, p) == IF p <= Len(file) THEN file[p] ELSE Hole

LEMMA CellsOfItem ==
  ASSUME NEW x \in Item
  PROVE  /\ Cells(x) \in Seq(Cell) /\ Len(Cells(x)) = Size[x] /\ Size[x] \in Nat \ {0}
         /\ \A p \in 1 .. Size[x] : Cells(x)[p] = [item |-> x, part |-> p]
                                    /\ Cells(x)[p] # Hole /\ Cells(x)[p] \in Cell
  <1>1. Size[x] \in Nat \ {0} /\ x # Bad
    BY ItemAssumption
  <1>2. \A p \in 1 .. Size[x] : Cells(x)[p] = [item |-> x, part |-> p]
    BY <1>1 DEF Cells
  <1>3. \A p \in 1 .. Size[x] : [item |-> x, part |-> p] # Hole /\ [item |-> x, part |-> p] \in Cell
    BY <1>1 DEF Hole, Cell
  <1>4. Cells(x) \in [1 .. Size[x] -> Cell]
    BY <1>1, <1>3 DEF Cells
  <1> QED BY <1>1, <1>2, <1>3, <1>4

LEMMA WriteIsFile ==
  ASSUME NEW file \in Seq(Cell), NEW at \in Nat, NEW cells \in Seq(Cell)
  PROVE  /\ Write(file, at, cells) \in Seq(Cell)
         /\ \A p \in Nat \ {0} : At(Write(file, at, cells), p) =
              IF p > at /\ p <= at + Len(cells) THEN cells[p - at] ELSE At(file, p)
  <1> DEFINE end == at + Len(cells)
             len == IF cells = <<>> \/ end < Len(file) THEN Len(file) ELSE end
             value(p) == IF p > at /\ p <= end THEN cells[p - at]
                         ELSE IF p <= Len(file) THEN file[p] ELSE Hole
  <1>1. Write(file, at, cells) = [p \in 1 .. len |-> value(p)]
    BY DEF Write
  <1>2. end \in Nat /\ len \in Nat /\ Len(cells) \in Nat /\ Len(file) \in Nat
    OBVIOUS
  <1>3. Hole \in Cell
    BY DEF Hole, Cell
  <1>4. \A p \in 1 .. len : value(p) \in Cell
    BY <1>2, <1>3
  <1>5. Write(file, at, cells) \in [1 .. len -> Cell]
    BY <1>1, <1>4
  <1>6. Write(file, at, cells) \in Seq(Cell) /\ Len(Write(file, at, cells)) = len
    BY <1>2, <1>5
  <1>7. cells = <<>> => Len(cells) = 0
    OBVIOUS
  <1>8. ASSUME NEW p \in Nat \ {0}
        PROVE  At(Write(file, at, cells), p) =
                 IF p > at /\ p <= end THEN cells[p - at] ELSE At(file, p)
    <2>1. CASE p <= len
      <3>1. At(Write(file, at, cells), p) = value(p)
        BY <1>1, <1>2, <1>6, <2>1 DEF At
      <3> QED BY <3>1 DEF At
    <2>2. CASE p > len
      <3>1. At(Write(file, at, cells), p) = Hole
        BY <1>2, <1>6, <2>2 DEF At
      <3>2. ~ (p > at /\ p <= end) /\ p > Len(file)
        BY <1>2, <1>7, <2>2
      <3> QED BY <1>2, <3>1, <3>2 DEF At
    <2> QED BY <1>2, <2>1, <2>2
  <1> QED BY <1>6, <1>8

LEMMA ReadableByCell ==
  ASSUME NEW file \in Seq(Cell), NEW at \in Nat, NEW x \in Item
  PROVE  x \in Readable(file, at) <=> \A p \in 1 .. Size[x] : At(file, at + p) = Cells(x)[p]
  <1>1. Size[x] \in Nat \ {0} /\ \A p \in 1 .. Size[x] : Cells(x)[p] # Hole
    BY CellsOfItem
  <1>2. ASSUME x \in Readable(file, at)
        PROVE  \A p \in 1 .. Size[x] : At(file, at + p) = Cells(x)[p]
    BY <1>1, <1>2 DEF Readable, At
  <1>3. ASSUME \A p \in 1 .. Size[x] : At(file, at + p) = Cells(x)[p]
        PROVE  x \in Readable(file, at)
    <2>1. \A p \in 1 .. Size[x] : at + p <= Len(file)
      BY <1>1, <1>3 DEF At
    <2>2. at + Size[x] <= Len(file)
      BY <1>1, <2>1
    <2>3. \A p \in 1 .. Size[x] : file[at + p] = Cells(x)[p]
      BY <1>3, <2>1 DEF At
    <2> QED BY <2>2, <2>3 DEF Readable
  <1> QED BY <1>2, <1>3

(* Two items cannot be read at one place.                                  *)
LEMMA ReadableUnique ==
  ASSUME NEW file \in Seq(Cell), NEW at \in Nat, NEW x \in Readable(file, at),
         NEW y \in Readable(file, at)
  PROVE  x = y
  <1>1. x \in Item /\ y \in Item
    BY DEF Readable
  <1>2. /\ 1 \in 1 .. Size[x] /\ 1 \in 1 .. Size[y]
        /\ Cells(x)[1] = [item |-> x, part |-> 1] /\ Cells(y)[1] = [item |-> y, part |-> 1]
    BY <1>1, CellsOfItem
  <1>3. At(file, at + 1) = Cells(x)[1] /\ At(file, at + 1) = Cells(y)[1]
    BY <1>1, <1>2, ReadableByCell
  <1>4. [item |-> x, part |-> 1] = [item |-> y, part |-> 1]
    BY <1>2, <1>3
  <1>5. [item |-> x, part |-> 1].item = [item |-> y, part |-> 1].item
    BY <1>4
  <1> QED BY <1>5

(* The item that the index puts at a place: of a file it depends on the    *)
(* cells there only.                                                       *)
LEMMA ItemFound ==
  ASSUME NEW file \in Seq(Cell), NEW at \in Nat, NEW x \in Readable(file, at)
  PROVE  ItemAt(file, at, Size[x]) = x
  <1> DEFINE found == {y \in Readable(file, at) : Size[y] = Size[x]}
  <1>1. found = {x}
    BY ReadableUnique
  <1> QED BY <1>1 DEF ItemAt

LEMMA ItemAtIsItem ==
  ASSUME NEW file \in Seq(Cell), NEW at \in Nat, NEW size
  PROVE  /\ ItemAt(file, at, size) \in Item \cup {Bad}
         /\ ItemAt(file, at, size) # Bad =>
              \A x \in Readable(file, at) : x = ItemAt(file, at, size)
         /\ Readable(file, at) = {} => ItemAt(file, at, size) = Bad
  <1> DEFINE found == {y \in Readable(file, at) : Size[y] = size}
  <1>1. found \subseteq Item /\ found \subseteq Readable(file, at)
    BY DEF Readable
  <1>2. CASE found = {}
    BY <1>2 DEF ItemAt
  <1>3. CASE found # {}
    <2>1. ItemAt(file, at, size) \in found
      BY <1>3 DEF ItemAt
    <2> QED BY <1>1, <2>1, ReadableUnique
  <1> QED BY <1>2, <1>3

LEMMA ItemAtByCells ==
  ASSUME NEW f \in Seq(Cell), NEW g \in Seq(Cell), NEW at \in Nat, NEW size \in Nat,
         \A p \in at + 1 .. at + size : At(f, p) = At(g, p)
  PROVE  ItemAt(f, at, size) = ItemAt(g, at, size)
  <1>1. ASSUME NEW x \in Item, Size[x] = size
        PROVE  x \in Readable(f, at) <=> x \in Readable(g, at)
    <2>1. \A p \in 1 .. Size[x] : At(f, at + p) = At(g, at + p)
      BY <1>1
    <2> QED BY <2>1, ReadableByCell
  <1>2. {x \in Readable(f, at) : Size[x] = size} = {x \in Readable(g, at) : Size[x] = size}
    BY <1>1 DEF Readable
  <1> DEFINE F == {x \in Readable(f, at) : Size[x] = size}
             G == {x \in Readable(g, at) : Size[x] = size}
  <1>3. CASE F = {}
    BY <1>2, <1>3 DEF ItemAt
  <1>4. CASE F # {}
    <2>1. ItemAt(f, at, size) \in F
      BY <1>4 DEF ItemAt
    <2>2. ItemAt(g, at, size) \in G
      BY <1>2, <1>4 DEF ItemAt
    <2> QED BY <1>2, <2>1, <2>2, ReadableUnique
  <1> QED BY <1>3, <1>4

-----------------------------------------------------------------------------
(* The inductive invariant.                                                *)
Offset(i) == SumOfFirst(indexFile.sizes, i)

FileInv ==
  /\ itemsFile \in Seq(Cell) /\ buffer \in [at : Nat, cells : Seq(Cell)]
  /\ indexFile \in [count : Nat, sizes : Seq(Nat)]
  /\ good \in BOOLEAN /\ pc \in {"ready", "size", "count", "down"}
  /\ IndexReadable

(* The memory agrees with the index during a push_back too.                *)
MemoryInv ==
  pc # "down" => /\ m_offsets = OffsetsOf(indexFile.sizes, indexFile.count)
                 /\ m_itemsFileSize = Offset(indexFile.count)

(* The stream holds back cells of the last item, or beyond it, only.       *)
BufferInv ==
  buffer.cells # <<>> =>
    /\ good /\ pc # "down"
    /\ indexFile.count > 0 => Offset(indexFile.count - 1) <= buffer.at
    /\ pc \in {"size", "count"} => Offset(indexFile.count) <= buffer.at

(* The item that push_back has written is where the index will put it.     *)
PushInv ==
  pc \in {"size", "count"} =>
    /\ good /\ item \in Readable(Flushed, Offset(indexFile.count))
    /\ pc = "count" => /\ indexFile.count < Len(indexFile.sizes)
                       /\ indexFile.sizes[indexFile.count + 1] = Size[item]

CacheInv ==
  /\ m_cache \in Seq(Nat) /\ DOMAIN m_items \subseteq Nat
  /\ CacheCoherent

Inv == FileInv /\ MemoryInv /\ BufferInv /\ PushInv /\ CacheInv

-----------------------------------------------------------------------------
(* Two files look the same up to a position.                               *)
Below(f, g, end) == \A p \in 1 .. end : At(f, p) = At(g, p)

LEMMA FlushedIsFile ==
  ASSUME FileInv
  PROVE  /\ Flushed \in Seq(Cell)
         /\ \A p \in Nat \ {0} : At(Flushed, p) =
              IF p > buffer.at /\ p <= buffer.at + Len(buffer.cells)
              THEN buffer.cells[p - buffer.at] ELSE At(itemsFile, p)
  <1>1. itemsFile \in Seq(Cell) /\ buffer.at \in Nat /\ buffer.cells \in Seq(Cell)
    BY DEF FileInv
  <1> QED BY <1>1, WriteIsFile DEF Flushed

LEMMA OffsetsInFile ==
  ASSUME FileInv
  PROVE  /\ indexFile.count \in Nat /\ indexFile.sizes \in Seq(Nat)
         /\ indexFile.count <= Len(indexFile.sizes) /\ Len(indexFile.sizes) \in Nat
         /\ \A i \in 0 .. Len(indexFile.sizes) : Offset(i) \in Nat
         /\ \A i \in 1 .. Len(indexFile.sizes) :
              indexFile.sizes[i] \in Nat /\ Offset(i) = Offset(i - 1) + indexFile.sizes[i]
         /\ \A i, j \in 0 .. Len(indexFile.sizes) : i <= j => Offset(i) <= Offset(j)
         /\ Offset(0) = 0
  <1>1. /\ indexFile.count \in Nat /\ indexFile.sizes \in Seq(Nat)
        /\ indexFile.count <= Len(indexFile.sizes)
    BY DEF FileInv, IndexReadable
  <1>2. \A i \in 0 .. Len(indexFile.sizes) : Offset(i) \in Nat
    BY <1>1, SumIsOffset DEF Offset
  <1>3. ASSUME NEW i \in 1 .. Len(indexFile.sizes)
        PROVE  indexFile.sizes[i] \in Nat /\ Offset(i) = Offset(i - 1) + indexFile.sizes[i]
    <2>1. i - 1 \in Nat /\ (i - 1) + 1 = i
      OBVIOUS
    <2>2. SumOfFirst(indexFile.sizes, (i - 1) + 1)
            = SumOfFirst(indexFile.sizes, i - 1) + indexFile.sizes[(i - 1) + 1]
      BY <2>1, SumDefined
    <2> QED BY <1>1, <2>1, <2>2 DEF Offset
  <1>4. \A i, j \in 0 .. Len(indexFile.sizes) : i <= j => Offset(i) <= Offset(j)
    BY <1>1, SumGrows DEF Offset
  <1>5. Offset(0) = 0
    BY SumDefined DEF Offset
  <1> QED BY <1>1, <1>2, <1>3, <1>4, <1>5

LEMMA SameIndexSameItems ==
  ASSUME NEW s \in Seq(Nat), NEW t \in Seq(Nat), NEW n \in 0 .. Len(s),
         \A k \in 1 .. n : t[k] = s[k],
         NEW f \in Seq(Cell), NEW g \in Seq(Cell), Below(f, g, SumOfFirst(s, n))
  PROVE  \A i \in 1 .. n :
           ItemAt(g, SumOfFirst(t, i - 1), t[i]) = ItemAt(f, SumOfFirst(s, i - 1), s[i])
  <1> TAKE i \in 1 .. n
  <1>1. /\ n \in Nat /\ i - 1 \in Nat /\ (i - 1) + 1 = i /\ i - 1 \in 0 .. n /\ i \in 0 .. Len(s)
        /\ i - 1 \in 0 .. Len(s) /\ i \in Nat /\ n \in i .. Len(s) /\ s[i] \in Nat /\ t[i] = s[i]
    OBVIOUS
  <1>2. SumOfFirst(t, i - 1) = SumOfFirst(s, i - 1)
    <2>1. \A k \in 1 .. n : s[k] = t[k]
      OBVIOUS
    <2>2. \A m \in 0 .. n : SumOfFirst(s, m) = SumOfFirst(t, m)
      BY <1>1, <2>1, SumIsLocal
    <2> QED BY <1>1, <2>2
  <1>3. /\ SumOfFirst(s, i - 1) \in Nat /\ SumOfFirst(s, i) \in Nat /\ SumOfFirst(s, n) \in Nat
        /\ SumOfFirst(s, i) <= SumOfFirst(s, n)
    BY <1>1, SumIsOffset, SumGrows
  <1>4. SumOfFirst(s, i) = SumOfFirst(s, i - 1) + s[i]
    <2>1. SumOfFirst(s, (i - 1) + 1) = SumOfFirst(s, i - 1) + s[(i - 1) + 1]
      BY <1>1, SumDefined
    <2> QED BY <1>1, <2>1
  <1>5. \A p \in SumOfFirst(s, i - 1) + 1 .. SumOfFirst(s, i - 1) + s[i] : At(f, p) = At(g, p)
    BY <1>1, <1>3, <1>4 DEF Below
  <1>6. ItemAt(f, SumOfFirst(s, i - 1), s[i]) = ItemAt(g, SumOfFirst(s, i - 1), s[i])
    BY <1>1, <1>3, <1>5, ItemAtByCells
  <1> QED BY <1>1, <1>2, <1>6

LEMMA ItemsBelow ==
  ASSUME FileInv, NEW f \in Seq(Cell), NEW g \in Seq(Cell), NEW n \in 0 .. indexFile.count,
         Below(f, g, Offset(n))
  PROVE  \A i \in 1 .. n : ItemIn(f, i) = ItemIn(g, i)
  <1>1. indexFile.sizes \in Seq(Nat) /\ n \in 0 .. Len(indexFile.sizes)
    BY OffsetsInFile
  <1> QED BY <1>1, SameIndexSameItems DEF ItemIn, Offset

(* What has left the process agrees with what the process sees, but for    *)
(* the last item.                                                          *)
LEMMA BufferedIsLast ==
  ASSUME FileInv, BufferInv
  PROVE  /\ indexFile.count > 0 => Below(itemsFile, Flushed, Offset(indexFile.count - 1))
         /\ pc \in {"size", "count"} => Below(itemsFile, Flushed, Offset(indexFile.count))
         /\ buffer.cells = <<>> => Flushed = itemsFile
  <1>1. \A p \in Nat \ {0} : At(Flushed, p) =
          IF p > buffer.at /\ p <= buffer.at + Len(buffer.cells)
          THEN buffer.cells[p - buffer.at] ELSE At(itemsFile, p)
    BY FlushedIsFile
  <1>2. buffer.at \in Nat /\ Len(buffer.cells) \in Nat
    BY DEF FileInv
  <1>3. buffer.cells = <<>> => Len(buffer.cells) = 0
    OBVIOUS
  <1>4. ASSUME NEW n \in Nat, buffer.cells # <<>> => n <= buffer.at
        PROVE  Below(itemsFile, Flushed, n)
    <2> SUFFICES ASSUME NEW p \in 1 .. n PROVE At(Flushed, p) = At(itemsFile, p)
      BY DEF Below
    <2> QED BY <1>1, <1>2, <1>3, <1>4
  <1>5. indexFile.count > 0 => Below(itemsFile, Flushed, Offset(indexFile.count - 1))
    BY <1>4, OffsetsInFile, SMTT(30) DEF BufferInv
  <1>6. pc \in {"size", "count"} => Below(itemsFile, Flushed, Offset(indexFile.count))
    BY <1>4, OffsetsInFile DEF BufferInv
  <1>7. ASSUME buffer.cells = <<>> PROVE Flushed = itemsFile
    <2>1. Flushed = [p \in 1 .. Len(itemsFile) |-> itemsFile[p]]
      <3>1. /\ itemsFile \in Seq(Cell) /\ Len(itemsFile) \in Nat
            /\ \A p \in 1 .. Len(itemsFile) : ~ (p > buffer.at /\ p <= buffer.at + Len(buffer.cells))
        BY <1>2, <1>3, <1>7 DEF FileInv
      <3> QED BY <1>7, <3>1 DEF Flushed, Write
    <2>2. itemsFile = [p \in 1 .. Len(itemsFile) |-> itemsFile[p]]
      BY DEF FileInv
    <2> QED BY <2>1, <2>2
  <1> QED BY <1>5, <1>6, <1>7

(* The stack: what it holds, when a step keeps it, when its last item is   *)
(* durable.                                                                *)
LEMMA StackIsSeq ==
  ASSUME FileInv
  PROVE  /\ Stack \in Seq(Item \cup {Bad}) /\ Len(Stack) = indexFile.count
         /\ \A i \in 1 .. indexFile.count : Stack[i] = ItemIn(Flushed, i)
         /\ \A f \in Seq(Cell) : \A i \in 1 .. indexFile.count : ItemIn(f, i) \in Item \cup {Bad}
  <1>1. indexFile.count \in Nat
    BY OffsetsInFile
  <1>2. \A f \in Seq(Cell) : \A i \in 1 .. indexFile.count : ItemIn(f, i) \in Item \cup {Bad}
    BY OffsetsInFile, ItemAtIsItem, SMTT(30) DEF ItemIn, Offset
  <1>3. \A i \in 1 .. indexFile.count : ItemIn(Flushed, i) \in Item \cup {Bad}
    BY <1>2, FlushedIsFile
  <1>4. Stack \in [1 .. indexFile.count -> Item \cup {Bad}]
    BY <1>3 DEF Stack
  <1>5. Stack \in Seq(Item \cup {Bad}) /\ Len(Stack) = indexFile.count
    BY <1>1, <1>4
  <1>6. \A i \in 1 .. indexFile.count : Stack[i] = ItemIn(Flushed, i)
    BY DEF Stack
  <1> QED BY <1>2, <1>5, <1>6

LEMMA StackKept ==
  ASSUME FileInv, FileInv', indexFile'.count = indexFile.count,
         \A k \in 1 .. indexFile.count : indexFile'.sizes[k] = indexFile.sizes[k],
         Below(Flushed, Flushed', Offset(indexFile.count))
  PROVE  Stack' = Stack
  <1>1. indexFile.count \in Nat /\ indexFile.count \in 0 .. indexFile.count
    BY OffsetsInFile
  <1>2. Flushed \in Seq(Cell) /\ Flushed' \in Seq(Cell)
    <2>1. itemsFile' \in Seq(Cell) /\ buffer'.at \in Nat /\ buffer'.cells \in Seq(Cell)
      BY DEF FileInv
    <2> QED BY <2>1, FlushedIsFile, WriteIsFile DEF Flushed
  <1>3. \A i \in 1 .. indexFile.count :
          ItemAt(Flushed', SumOfFirst(indexFile'.sizes, i - 1), indexFile'.sizes[i]) = ItemIn(Flushed, i)
    <2>1. /\ indexFile.sizes \in Seq(Nat) /\ indexFile'.sizes \in Seq(Nat)
          /\ indexFile.count \in 0 .. Len(indexFile.sizes)
      BY OffsetsInFile DEF FileInv
    <2> QED BY <1>2, <2>1, SameIndexSameItems DEF ItemIn, Offset
  <1>4. Stack' = [i \in 1 .. indexFile.count |->
                    ItemAt(Flushed', SumOfFirst(indexFile'.sizes, i - 1), indexFile'.sizes[i])]
    BY DEF Stack, ItemIn
  <1> QED BY <1>3, <1>4 DEF Stack

LEMMA LastDurable ==
  ASSUME FileInv, Below(itemsFile, Flushed, Offset(indexFile.count))
  PROVE  LastIsDurable
  <1>1. indexFile.count \in Nat /\ itemsFile \in Seq(Cell) /\ Flushed \in Seq(Cell)
    BY OffsetsInFile, FlushedIsFile DEF FileInv
  <1>2. \A i \in 1 .. indexFile.count : ItemIn(itemsFile, i) = ItemIn(Flushed, i)
    BY <1>1, ItemsBelow
  <1> QED BY <1>1, <1>2 DEF LastIsDurable, Stack

LEMMA WriteNothing ==
  ASSUME NEW file \in Seq(Cell), NEW at \in Nat
  PROVE  Write(file, at, <<>>) = file
  <1>1. Len(<<>>) = 0 /\ Len(file) \in Nat
    OBVIOUS
  <1>2. Write(file, at, <<>>) = [p \in 1 .. Len(file) |-> file[p]]
    <2>1. \A p \in 1 .. Len(file) : ~ (p > at /\ p <= at + Len(<<>>))
      BY <1>1
    <2> QED BY <1>1, <2>1 DEF Write
  <1> QED BY <1>2

(* The offsets in memory, as init computes them.                           *)
LEMMA OffsetsAreLocal ==
  ASSUME NEW s, NEW t, NEW n \in Nat, \A k \in 1 .. n : s[k] = t[k]
  PROVE  OffsetsOf(s, n) = OffsetsOf(t, n) /\ SumOfFirst(s, n) = SumOfFirst(t, n)
  <1>1. \A m \in 0 .. n : SumOfFirst(s, m) = SumOfFirst(t, m)
    BY SumIsLocal
  <1>2. \A i \in 1 .. n : i - 1 \in 0 .. n
    OBVIOUS
  <1> QED BY <1>1, <1>2 DEF OffsetsOf

LEMMA OffsetsOneMore ==
  ASSUME NEW s \in Seq(Nat), NEW n \in Nat, n <= Len(s)
  PROVE  /\ OffsetsOf(s, n) \in Seq(Nat) /\ Len(OffsetsOf(s, n)) = n
         /\ \A i \in 1 .. n : OffsetsOf(s, n)[i] = SumOfFirst(s, i - 1)
         /\ Append(OffsetsOf(s, n), SumOfFirst(s, n)) = OffsetsOf(s, n + 1)
         /\ n > 0 => /\ Front(OffsetsOf(s, n)) = OffsetsOf(s, n - 1)
                     /\ Last(OffsetsOf(s, n)) = SumOfFirst(s, n - 1)
  <1>1. \A m \in 0 .. n : SumOfFirst(s, m) \in Nat
    BY SumIsOffset
  <1>2. OffsetsOf(s, n) \in [1 .. n -> Nat]
    BY <1>1 DEF OffsetsOf
  <1>3. /\ OffsetsOf(s, n) \in Seq(Nat) /\ Len(OffsetsOf(s, n)) = n
        /\ \A i \in 1 .. n : OffsetsOf(s, n)[i] = SumOfFirst(s, i - 1)
    BY <1>2 DEF OffsetsOf
  <1>4. Append(OffsetsOf(s, n), SumOfFirst(s, n)) = OffsetsOf(s, n + 1)
    <2> DEFINE a == Append(OffsetsOf(s, n), SumOfFirst(s, n))
    <2>1. SumOfFirst(s, n) \in Nat
      BY <1>1
    <2>2. /\ a \in Seq(Nat) /\ Len(a) = n + 1 /\ a[n + 1] = SumOfFirst(s, n)
          /\ \A i \in 1 .. n : a[i] = OffsetsOf(s, n)[i]
      BY <1>3, <2>1, AppendProperties
    <2> HIDE DEF a
    <2>3. \A i \in 1 .. n + 1 : a[i] = SumOfFirst(s, i - 1)
      <3> TAKE i \in 1 .. n + 1
      <3>1. CASE i <= n
        BY <1>3, <2>2, <3>1
      <3>2. CASE i = n + 1
        <4>1. i - 1 = n
          BY <3>2
        <4> QED BY <2>2, <3>2, <4>1
      <3> QED BY <3>1, <3>2
    <2>4. a = [i \in 1 .. n + 1 |-> a[i]]
      BY <2>2
    <2> QED BY <2>3, <2>4 DEF OffsetsOf
  <1>5. ASSUME n > 0
        PROVE  /\ Front(OffsetsOf(s, n)) = OffsetsOf(s, n - 1)
               /\ Last(OffsetsOf(s, n)) = SumOfFirst(s, n - 1)
    <2> DEFINE o == OffsetsOf(s, n)
               f == SubSeq(o, 1, n - 1)
    <2>1. \A i \in 1 .. n - 1 : o[i] \in Nat
      BY <1>3
    <2>2. /\ f \in Seq(Nat) /\ Len(f) = n - 1
          /\ \A i \in 1 .. n - 1 : f[i] = o[i]
      <3>1. /\ f \in Seq(Nat) /\ Len(f) = IF 1 <= n - 1 THEN (n - 1) - 1 + 1 ELSE 0
            /\ \A i \in 1 .. (n - 1) - 1 + 1 : f[i] = o[1 + i - 1]
        BY <2>1, SubSeqProperties
      <3> QED BY <1>5, <3>1
    <2>3. f = [i \in 1 .. n - 1 |-> f[i]]
      BY <2>2
    <2>4. f = OffsetsOf(s, n - 1)
      <3> HIDE DEF f
      <3>1. \A i \in 1 .. n - 1 : f[i] = SumOfFirst(s, i - 1)
        BY <1>3, <2>2
      <3> QED BY <2>3, <3>1 DEF OffsetsOf
    <2>5. Front(o) = f
      BY <1>3 DEF Front
    <2>6. Last(o) = SumOfFirst(s, n - 1)
      BY <1>3, <1>5 DEF Last
    <2> QED BY <2>4, <2>5, <2>6
  <1> QED BY <1>3, <1>4, <1>5

-----------------------------------------------------------------------------
(* The cache: m_items by index, m_cache their indexes in the order of use. *)
Once(s) == \A i, j \in DOMAIN s : s[i] = s[j] => i = j

LEMMA AppendOnce ==
  ASSUME NEW s \in Seq(Nat), Once(s), NEW e \in Nat, e \notin ToSet(s)
  PROVE  /\ Append(s, e) \in Seq(Nat) /\ Once(Append(s, e)) /\ Len(Append(s, e)) = Len(s) + 1
         /\ ToSet(Append(s, e)) = ToSet(s) \cup {e}
  <1> DEFINE t == Append(s, e)
  <1>1. /\ t \in Seq(Nat) /\ Len(t) = Len(s) + 1 /\ t[Len(s) + 1] = e
        /\ \A i \in 1 .. Len(s) : t[i] = s[i]
    BY AppendProperties
  <1>2. DOMAIN t = 1 .. Len(s) + 1 /\ DOMAIN s = 1 .. Len(s) /\ Len(s) \in Nat
    BY <1>1
  <1> HIDE DEF t
  <1>3. \A i \in 1 .. Len(s) + 1 : i \in 1 .. Len(s) \/ i = Len(s) + 1
    BY <1>2
  <1>4. \A i \in 1 .. Len(s) : s[i] \in ToSet(s)
    BY <1>2 DEF ToSet
  <1>5. Once(t)
    BY <1>1, <1>2, <1>3, <1>4 DEF Once
  <1>6. ToSet(t) = ToSet(s) \cup {e}
    <2>1. \A i \in 1 .. Len(s) : i \in 1 .. Len(s) + 1
      BY <1>2
    <2>2. Len(s) + 1 \in 1 .. Len(s) + 1
      BY <1>2
    <2> QED BY <1>1, <1>2, <1>3, <2>1, <2>2 DEF ToSet
  <1> QED BY <1>1, <1>5, <1>6 DEF t

LEMMA RemoveOnce ==
  ASSUME NEW s \in Seq(Nat), Once(s), NEW k \in 1 .. Len(s)
  PROVE  /\ RemoveAt(s, k) \in Seq(Nat) /\ Once(RemoveAt(s, k)) /\ Len(RemoveAt(s, k)) = Len(s) - 1
         /\ ToSet(RemoveAt(s, k)) = ToSet(s) \ {s[k]}
  <1> DEFINE a == SubSeq(s, 1, k - 1)
             b == SubSeq(s, k + 1, Len(s))
             t == RemoveAt(s, k)
  <1>0. Len(s) \in Nat /\ DOMAIN s = 1 .. Len(s) /\ \A i \in 1 .. Len(s) : s[i] \in Nat
    OBVIOUS
  <1>1. a \in Seq(Nat) /\ Len(a) = k - 1 /\ \A i \in 1 .. k - 1 : a[i] = s[i]
    <2>1. \A i \in 1 .. k - 1 : s[i] \in Nat
      BY <1>0
    <2>2. /\ a \in Seq(Nat) /\ Len(a) = IF 1 <= k - 1 THEN (k - 1) - 1 + 1 ELSE 0
          /\ \A i \in 1 .. (k - 1) - 1 + 1 : a[i] = s[1 + i - 1]
      BY <2>1, SubSeqProperties
    <2> QED BY <2>2
  <1>2. b \in Seq(Nat) /\ Len(b) = Len(s) - k /\ \A i \in 1 .. Len(s) - k : b[i] = s[k + i]
    <2>1. \A i \in k + 1 .. Len(s) : s[i] \in Nat
      BY <1>0
    <2>2. /\ b \in Seq(Nat) /\ Len(b) = IF k + 1 <= Len(s) THEN Len(s) - (k + 1) + 1 ELSE 0
          /\ \A i \in 1 .. Len(s) - (k + 1) + 1 : b[i] = s[(k + 1) + i - 1]
      BY <1>0, <2>1, SubSeqProperties
    <2>3. Len(s) - (k + 1) + 1 = Len(s) - k /\ (k + 1 <= Len(s) \/ Len(s) - k = 0)
      <3>1. \A m \in Nat : \A j \in 1 .. m : m - (j + 1) + 1 = m - j /\ (j + 1 <= m \/ m - j = 0)
        OBVIOUS
      <3> QED BY <1>0, <3>1
    <2>4. \A i \in 1 .. Len(s) - k : (k + 1) + i - 1 = k + i
      BY <1>0
    <2> HIDE DEF b
    <2>5. \A i \in 1 .. Len(s) - k : b[i] = s[k + i]
      BY <2>2, <2>3, <2>4
    <2>6. Len(b) = Len(s) - k
      BY <1>0, <2>2, <2>3
    <2> QED BY <2>2, <2>5, <2>6
  <1> HIDE DEF a, b
  <1>3. t = a \o b
    BY DEF RemoveAt, a, b
  <1> HIDE DEF t
  <1>4. /\ t \in Seq(Nat) /\ Len(t) = Len(s) - 1 /\ DOMAIN t = 1 .. Len(s) - 1
        /\ \A i \in 1 .. Len(s) - 1 : t[i] = IF i < k THEN s[i] ELSE s[i + 1]
    <2>1. /\ t \in Seq(Nat) /\ Len(t) = Len(a) + Len(b)
          /\ \A i \in 1 .. Len(a) + Len(b) : t[i] = IF i <= Len(a) THEN a[i] ELSE b[i - Len(a)]
      BY <1>1, <1>2, <1>3, ConcatProperties
    <2>2. Len(a) + Len(b) = Len(s) - 1
      BY <1>0, <1>1, <1>2
    <2>3. ASSUME NEW i \in 1 .. Len(s) - 1 PROVE t[i] = IF i < k THEN s[i] ELSE s[i + 1]
      <3>0. i \in 1 .. Len(a) + Len(b)
        BY <2>2
      <3>1. CASE i < k
        <4>1. i <= Len(a) /\ i \in 1 .. k - 1
          BY <1>1, <3>1
        <4>2. t[i] = a[i] /\ a[i] = s[i]
          BY <1>1, <2>1, <3>0, <4>1
        <4> QED BY <3>1, <4>2
      <3>2. CASE ~ (i < k)
        <4>1. i - Len(a) \in 1 .. Len(s) - k /\ k + (i - Len(a)) = i + 1
          BY <1>0, <1>1, <3>2
        <4>2. b[i - Len(a)] = s[i + 1]
          BY <1>2, <4>1
        <4>3. ~ (i <= Len(a))
          BY <1>1, <3>2
        <4>4. t[i] = b[i - Len(a)]
          BY <2>1, <3>0, <4>3
        <4> QED BY <3>2, <4>2, <4>4
      <3> QED BY <3>1, <3>2
    <2> QED BY <2>1, <2>2, <2>3
  <1>5. Once(t)
    <2> DEFINE from(i) == IF i < k THEN i ELSE i + 1
    <2>1. \A i \in 1 .. Len(s) - 1 : from(i) \in 1 .. Len(s) /\ t[i] = s[from(i)]
      BY <1>0, <1>4
    <2>2. \A i, j \in 1 .. Len(s) - 1 : from(i) = from(j) => i = j
      BY <1>0
    <2> HIDE DEF from
    <2>3. ASSUME NEW i \in 1 .. Len(s) - 1, NEW j \in 1 .. Len(s) - 1, t[i] = t[j]
          PROVE  i = j
      <3>1. s[from(i)] = s[from(j)]
        BY <2>1, <2>3
      <3>2. from(i) = from(j)
        BY <1>0, <2>1, <3>1 DEF Once
      <3> QED BY <2>2, <3>2
    <2> QED BY <1>4, <2>3 DEF Once
  <1>6. ToSet(t) = ToSet(s) \ {s[k]}
    <2>1. ASSUME NEW i \in 1 .. Len(s) - 1 PROVE t[i] \in ToSet(s) \ {s[k]}
      <3>1. CASE i < k
        <4>1. i \in 1 .. Len(s) /\ i # k
          BY <1>0, <3>1
        <4> QED BY <1>0, <1>4, <3>1, <4>1 DEF Once, ToSet
      <3>2. CASE ~ (i < k)
        <4>1. i + 1 \in 1 .. Len(s) /\ i + 1 # k
          BY <1>0, <3>2
        <4> QED BY <1>0, <1>4, <3>2, <4>1 DEF Once, ToSet
      <3> QED BY <3>1, <3>2
    <2>2. ASSUME NEW i \in 1 .. Len(s), s[i] # s[k] PROVE \E j \in 1 .. Len(s) - 1 : t[j] = s[i]
      <3>1. CASE i < k
        BY <1>0, <1>4, <3>1, SMTT(30)
      <3>2. CASE i > k
        <4>1. i - 1 \in 1 .. Len(s) - 1 /\ ~ (i - 1 < k) /\ (i - 1) + 1 = i
          BY <1>0, <3>2
        <4> QED BY <1>4, <4>1
      <3> QED BY <1>0, <2>2, <3>1, <3>2
    <2>3. ASSUME NEW v \in ToSet(t) PROVE v \in ToSet(s) \ {s[k]}
      BY <1>4, <2>1, <2>3 DEF ToSet
    <2>4. ASSUME NEW v \in ToSet(s) \ {s[k]} PROVE v \in ToSet(t)
      <3>1. PICK i \in 1 .. Len(s) : v = s[i]
        BY <1>0 DEF ToSet
      <3>2. PICK j \in 1 .. Len(s) - 1 : t[j] = s[i]
        BY <2>2, <3>1
      <3> QED BY <1>4, <3>1, <3>2 DEF ToSet
    <2> QED BY <2>3, <2>4
  <1> QED BY <1>4, <1>5, <1>6 DEF t

LEMMA WithoutEntryOnce ==
  ASSUME NEW s \in Seq(Nat), Once(s), NEW e
  PROVE  /\ WithoutEntry(s, e) \in Seq(Nat) /\ Once(WithoutEntry(s, e))
         /\ ToSet(WithoutEntry(s, e)) = ToSet(s) \ {e}
         /\ Len(WithoutEntry(s, e)) = IF e \in ToSet(s) THEN Len(s) - 1 ELSE Len(s)
  <1>1. DOMAIN s = 1 .. Len(s)
    OBVIOUS
  <1>2. CASE \E p \in DOMAIN s : s[p] = e
    <2> DEFINE k == CHOOSE p \in DOMAIN s : s[p] = e
    <2>1. k \in 1 .. Len(s) /\ s[k] = e
      BY <1>1, <1>2
    <2>2. WithoutEntry(s, e) = RemoveAt(s, k) /\ e \in ToSet(s)
      BY <1>2 DEF WithoutEntry, ToSet
    <2> HIDE DEF k
    <2> QED BY <2>1, <2>2, RemoveOnce
  <1>3. CASE ~ (\E p \in DOMAIN s : s[p] = e)
    <2>1. WithoutEntry(s, e) = s /\ e \notin ToSet(s)
      BY <1>3 DEF WithoutEntry, ToSet
    <2> QED BY <2>1
  <1> QED BY <1>2, <1>3

LEMMA TailOnce ==
  ASSUME NEW s \in Seq(Nat), Once(s), Len(s) > 0
  PROVE  /\ Tail(s) \in Seq(Nat) /\ Once(Tail(s)) /\ Len(Tail(s)) = Len(s) - 1
         /\ ToSet(Tail(s)) = ToSet(s) \ {Head(s)}
  <1>1. /\ s # <<>> /\ Len(s) \in Nat /\ DOMAIN s = 1 .. Len(s) /\ Head(s) = s[1]
    OBVIOUS
  <1>2. /\ Tail(s) \in Seq(Nat) /\ Len(Tail(s)) = Len(s) - 1 /\ DOMAIN Tail(s) = 1 .. Len(s) - 1
        /\ \A i \in 1 .. Len(s) - 1 : Tail(s)[i] = s[i + 1]
    BY <1>1, HeadTailProperties
  <1> DEFINE t == Tail(s)
  <1> HIDE DEF t
  <1>3. Once(t)
    BY <1>1, <1>2 DEF Once, t
  <1>4. ToSet(t) = ToSet(s) \ {s[1]}
    <2>1. ASSUME NEW i \in 1 .. Len(s) - 1 PROVE t[i] \in ToSet(s) \ {s[1]}
      <3>1. i + 1 \in 1 .. Len(s) /\ i + 1 # 1 /\ 1 \in 1 .. Len(s)
        BY <1>1
      <3> QED BY <1>1, <1>2, <3>1 DEF Once, ToSet, t
    <2>2. ASSUME NEW i \in 1 .. Len(s), s[i] # s[1] PROVE \E j \in 1 .. Len(s) - 1 : t[j] = s[i]
      <3>1. i - 1 \in 1 .. Len(s) - 1 /\ (i - 1) + 1 = i
        BY <1>1, <2>2
      <3> QED BY <1>2, <3>1 DEF t
    <2>3. DOMAIN t = 1 .. Len(s) - 1
      BY <1>2 DEF t
    <2>4. ASSUME NEW v \in ToSet(t) PROVE v \in ToSet(s) \ {s[1]}
      BY <2>1, <2>3 DEF ToSet
    <2>5. ASSUME NEW v \in ToSet(s) \ {s[1]} PROVE v \in ToSet(t)
      <3>1. PICK i \in 1 .. Len(s) : v = s[i]
        BY <1>1 DEF ToSet
      <3>2. PICK j \in 1 .. Len(s) - 1 : t[j] = s[i]
        BY <2>2, <3>1
      <3> QED BY <2>3, <3>1, <3>2 DEF ToSet
    <2> QED BY <2>4, <2>5
  <1> QED BY <1>1, <1>2, <1>3, <1>4 DEF t

(* prepare keeps the two containers of the cache in step, within the size. *)
CacheShape ==
  /\ m_cache \in Seq(Nat) /\ DOMAIN m_items \subseteq Nat /\ Once(m_cache)
  /\ ToSet(m_cache) = DOMAIN m_items /\ Len(m_cache) <= PoolSize

LEMMA CacheInvParts ==
  CacheInv <=> /\ CacheShape
               /\ \A i \in DOMAIN m_items :
                    i < indexFile.count /\ (Stack[i + 1] # Bad => m_items[i] = Stack[i + 1])
  BY DEF CacheInv, CacheCoherent, CacheShape, Once

LEMMA PrepareKeepsShape ==
  ASSUME CacheShape, NEW index \in Nat, index \notin DOMAIN m_items, NEW x,
         Prepare(m_items, m_cache, index, x)
  PROVE  /\ CacheShape'
         /\ \A i \in DOMAIN m_items' :
              IF i = index THEN m_items'[i] = x ELSE i \in DOMAIN m_items /\ m_items'[i] = m_items[i]
  <1> DEFINE full == Len(m_cache) = PoolSize
             kept == IF full THEN DOMAIN m_items \ {Head(m_cache)} ELSE DOMAIN m_items
             order == IF full THEN Tail(m_cache) ELSE m_cache
  <1>1. /\ m_items' = [i \in kept \cup {index} |-> IF i = index THEN x ELSE m_items[i]]
        /\ m_cache' = Append(order, index)
    BY DEF Prepare
  <1>2. /\ order \in Seq(Nat) /\ Once(order) /\ ToSet(order) = kept /\ Len(order) < PoolSize
        /\ kept \subseteq DOMAIN m_items
    <2>1. CASE full
      <3>1. Len(m_cache) > 0 /\ Len(m_cache) \in Nat
        BY <2>1, PoolSizeAssumption
      <3> QED BY <2>1, <3>1, TailOnce DEF CacheShape
    <2>2. CASE ~full
      <3>1. Len(m_cache) \in Nat /\ PoolSize \in Nat
        BY PoolSizeAssumption DEF CacheShape
      <3> QED BY <2>2, <3>1 DEF CacheShape
    <2> QED BY <2>1, <2>2
  <1> HIDE DEF order, kept
  <1>3. index \notin ToSet(order)
    BY <1>2
  <1>4. /\ m_cache' \in Seq(Nat) /\ Once(m_cache') /\ Len(m_cache') = Len(order) + 1
        /\ ToSet(m_cache') = kept \cup {index}
    BY <1>1, <1>2, <1>3, AppendOnce
  <1>5. DOMAIN m_items' = kept \cup {index}
    BY <1>1
  <1>6. Len(m_cache') <= PoolSize
    BY <1>2, <1>4, PoolSizeAssumption
  <1>7. Once(m_cache)' /\ ToSet(m_cache)' = DOMAIN m_items' /\ DOMAIN m_items' \subseteq Nat
    BY <1>2, <1>4, <1>5 DEF CacheShape, Once, ToSet
  <1> QED BY <1>1, <1>2, <1>4, <1>5, <1>6, <1>7 DEF CacheShape

(* A step that leaves the cache and the stack alone.                       *)
LEMMA CacheKept ==
  ASSUME CacheInv, Stack' = Stack, indexFile'.count = indexFile.count,
         m_items' = m_items, m_cache' = m_cache
  PROVE  CacheInv'
  BY DEF CacheInv, CacheCoherent

(* The cache is empty.                                                     *)
LEMMA CacheCleared ==
  ASSUME m_items' = <<>>, m_cache' = <<>>
  PROVE  CacheInv'
  <1>1. DOMAIN m_items' = {} /\ DOMAIN m_cache' = {} /\ m_cache' \in Seq(Nat) /\ Len(m_cache') = 0
    OBVIOUS
  <1>2. ToSet(m_cache') = {}
    BY <1>1 DEF ToSet
  <1> QED BY <1>1, <1>2, PoolSizeAssumption DEF CacheInv, CacheCoherent, ToSet

-----------------------------------------------------------------------------
(* A step of the accessor is a step of BlockStack or leaves it alone.      *)
StackStep == ImplementsStack!Next \/ UNCHANGED <<Stack, LastIsDurable>>

(* A step that writes what the buffer holds, and perhaps more beyond the   *)
(* last item, is a Flush.                                                  *)
LEMMA FlushStep ==
  ASSUME Stack' = Stack, LastIsDurable'
  PROVE  StackStep
  BY DEF StackStep, ImplementsStack!Next, ImplementsStack!Flush

LEMMA QuietStep ==
  ASSUME UNCHANGED <<itemsFile, buffer, indexFile>>
  PROVE  StackStep /\ Stack' = Stack /\ Flushed' = Flushed
  <1>1. Flushed' = Flushed
    BY DEF Flushed
  <1>2. \A i : ItemIn(Flushed, i)' = ItemIn(Flushed, i)
    BY <1>1 DEF ItemIn
  <1>3. Stack' = Stack
    BY <1>2 DEF Stack
  <1>4. LastIsDurable' = LastIsDurable
    BY <1>3 DEF LastIsDurable, ItemIn
  <1> QED BY <1>1, <1>3, <1>4 DEF StackStep

LEMMA LastDurableNext ==
  ASSUME FileInv', Below(itemsFile', Flushed', SumOfFirst(indexFile'.sizes, indexFile'.count))
  PROVE  LastIsDurable'
  <1>1. /\ itemsFile' \in Seq(Cell) /\ buffer'.at \in Nat /\ buffer'.cells \in Seq(Cell)
        /\ indexFile'.sizes \in Seq(Nat) /\ indexFile'.count \in Nat
        /\ indexFile'.count \in 0 .. Len(indexFile'.sizes)
    BY DEF FileInv, IndexReadable
  <1>2. Flushed' \in Seq(Cell)
    BY <1>1, WriteIsFile DEF Flushed
  <1>3. \A i \in 1 .. indexFile'.count :
          ItemAt(Flushed', SumOfFirst(indexFile'.sizes, i - 1), indexFile'.sizes[i])
            = ItemAt(itemsFile', SumOfFirst(indexFile'.sizes, i - 1), indexFile'.sizes[i])
    BY <1>1, <1>2, SameIndexSameItems
  <1> QED BY <1>1, <1>3 DEF LastIsDurable, Stack, ItemIn

(* push_back writes the item beyond the last one, with any part of it left *)
(* in the stream.                                                          *)
LEMMA WriteItemStep ==
  ASSUME Inv, NEW x \in Item, WriteItem(x)
  PROVE  Inv' /\ StackStep
  <1> DEFINE n == indexFile.count
             b == Offset(n)
  <1>1. /\ FileInv /\ MemoryInv /\ BufferInv /\ CacheInv
        /\ pc = "ready" /\ good /\ m_itemsFileSize = b
        /\ indexFile' = indexFile /\ m_offsets' = m_offsets /\ m_itemsFileSize' = m_itemsFileSize
        /\ m_items' = m_items /\ m_cache' = m_cache /\ good' = good /\ item' = x /\ pc' = "size"
    BY DEF Inv, WriteItem, memoryVars, MemoryInv
  <1>2. n \in Nat /\ b \in Nat /\ Flushed \in Seq(Cell)
    BY <1>1, OffsetsInFile, FlushedIsFile
  <1>3. PICK k \in 0 .. Size[x] :
          /\ itemsFile' = Write(Flushed, m_itemsFileSize, SubSeq(Cells(x), 1, k))
          /\ buffer' = [at |-> m_itemsFileSize + k, cells |-> SubSeq(Cells(x), k + 1, Size[x])]
    BY DEF WriteItem
  <1> DEFINE c == Cells(x)
             pre == SubSeq(c, 1, k)
             post == SubSeq(c, k + 1, Size[x])
  <1>4. /\ Size[x] \in Nat /\ k \in Nat /\ k <= Size[x]
        /\ \A p \in 1 .. Size[x] : c[p] \in Cell
    BY CellsOfItem
  <1> HIDE DEF c
  <1>5. pre \in Seq(Cell) /\ Len(pre) = k /\ \A p \in 1 .. k : pre[p] = c[p]
    <2>1. /\ pre \in Seq(Cell) /\ Len(pre) = IF 1 <= k THEN k - 1 + 1 ELSE 0
          /\ \A p \in 1 .. k - 1 + 1 : pre[p] = c[1 + p - 1]
      BY <1>4, SubSeqProperties
    <2> QED BY <1>4, <2>1
  <1>6. /\ post \in Seq(Cell) /\ Len(post) = Size[x] - k
        /\ \A p \in 1 .. Size[x] - k : post[p] = c[k + p]
    <2>1. /\ post \in Seq(Cell) /\ Len(post) = IF k + 1 <= Size[x] THEN Size[x] - (k + 1) + 1 ELSE 0
          /\ \A p \in 1 .. Size[x] - (k + 1) + 1 : post[p] = c[(k + 1) + p - 1]
      BY <1>4, SubSeqProperties
    <2>2. Size[x] - (k + 1) + 1 = Size[x] - k /\ (k + 1 <= Size[x] \/ Size[x] - k = 0)
      BY <1>4
    <2>3. \A p \in 1 .. Size[x] - k : (k + 1) + p - 1 = k + p
      BY <1>4
    <2> HIDE DEF post
    <2> QED BY <1>4, <2>1, <2>2, <2>3
  <1>7. itemsFile' = Write(Flushed, b, pre) /\ buffer' = [at |-> b + k, cells |-> post]
    BY <1>1, <1>3 DEF c
  <1> HIDE DEF pre, post
  <1>8. /\ itemsFile' \in Seq(Cell)
        /\ \A p \in Nat \ {0} : At(itemsFile', p) =
             IF p > b /\ p <= b + k THEN pre[p - b] ELSE At(Flushed, p)
    <2>1. /\ Write(Flushed, b, pre) \in Seq(Cell)
          /\ \A p \in Nat \ {0} : At(Write(Flushed, b, pre), p) =
               IF p > b /\ p <= b + Len(pre) THEN pre[p - b] ELSE At(Flushed, p)
      BY <1>2, <1>5, WriteIsFile
    <2> QED BY <1>5, <1>7, <2>1
  <1>9. /\ Flushed' = Write(itemsFile', b + k, post)
        /\ buffer'.at = b + k /\ buffer'.cells = post
        /\ buffer' \in [at : Nat, cells : Seq(Cell)]
    BY <1>2, <1>4, <1>6, <1>7 DEF Flushed
  <1>10. /\ Flushed' \in Seq(Cell)
         /\ \A p \in Nat \ {0} : At(Flushed', p) =
              IF p > b + k /\ p <= b + k + (Size[x] - k) THEN post[p - (b + k)] ELSE At(itemsFile', p)
    <2>1. b + k \in Nat
      BY <1>2, <1>4
    <2>2. /\ Write(itemsFile', b + k, post) \in Seq(Cell)
          /\ \A p \in Nat \ {0} : At(Write(itemsFile', b + k, post), p) =
               IF p > b + k /\ p <= b + k + Len(post) THEN post[p - (b + k)] ELSE At(itemsFile', p)
      BY <1>6, <1>8, <2>1, WriteIsFile
    <2> QED BY <1>6, <1>9, <2>2
  <1>11. FileInv'
    BY <1>1, <1>8, <1>9 DEF FileInv, IndexReadable
  <1>12. Below(Flushed, Flushed', b) /\ Below(itemsFile', Flushed', b)
    <2>1. ASSUME NEW p \in 1 .. b
          PROVE  At(itemsFile', p) = At(Flushed, p) /\ At(Flushed', p) = At(itemsFile', p)
      <3>1. p \in Nat \ {0} /\ ~ (p > b) /\ ~ (p > b + k)
        BY <1>2, <1>4
      <3> QED BY <1>8, <1>10, <3>1
    <2> QED BY <2>1 DEF Below
  <1>13. \A p \in 1 .. Size[x] : At(Flushed', b + p) = c[p]
    <2> TAKE p \in 1 .. Size[x]
    <2>0. b + p \in Nat \ {0}
      BY <1>2, <1>4
    <2>1. CASE p <= k
      <3>1. ~ (b + p > b + k) /\ b + p > b /\ b + p <= b + k /\ (b + p) - b = p
        BY <1>2, <1>4, <2>1
      <3>2. At(Flushed', b + p) = At(itemsFile', b + p)
        BY <1>10, <2>0, <3>1
      <3>3. At(itemsFile', b + p) = pre[p]
        BY <1>8, <2>0, <3>1
      <3> QED BY <1>4, <1>5, <2>1, <3>2, <3>3
    <2>2. CASE ~ (p <= k)
      <3>1. /\ b + p > b + k /\ b + p <= b + k + (Size[x] - k) /\ (b + p) - (b + k) = p - k
            /\ p - k \in 1 .. Size[x] - k /\ k + (p - k) = p
        BY <1>2, <1>4, <2>2
      <3>2. At(Flushed', b + p) = post[p - k]
        BY <1>10, <2>0, <3>1
      <3> QED BY <1>6, <3>1, <3>2
    <2> QED BY <2>1, <2>2
  <1>14. x \in Readable(Flushed', b)
    BY <1>2, <1>10, <1>13, ReadableByCell DEF c
  <1>15. Stack' = Stack
    BY <1>1, <1>11, <1>12, StackKept
  <1>16. LastIsDurable'
    <2>1. Below(itemsFile', Flushed', SumOfFirst(indexFile'.sizes, indexFile'.count))
      BY <1>1, <1>12 DEF Offset
    <2> QED BY <1>11, <2>1, LastDurableNext
  <1>17. MemoryInv'
    BY <1>1 DEF MemoryInv, Offset
  <1>18. BufferInv'
    <2>1. n > 0 => Offset(n - 1) <= b /\ Offset(n - 1) \in Nat
      BY <1>1, OffsetsInFile
    <2>2. b <= b + k /\ (n > 0 => Offset(n - 1) <= b + k)
      BY <1>2, <1>4, <2>1
    <2> QED BY <1>1, <1>9, <2>2 DEF BufferInv, Offset
  <1>19. PushInv'
    BY <1>1, <1>14 DEF PushInv, Offset
  <1>20. CacheInv'
    BY <1>1, <1>15, CacheKept
  <1> QED BY <1>11, <1>15, <1>16, <1>17, <1>18, <1>19, <1>20, FlushStep DEF Inv

(* The size of the new item goes to the index, beyond the sizes counted.   *)
LEMMA WriteSizeStep ==
  ASSUME Inv, WriteSize
  PROVE  Inv' /\ StackStep
  <1> DEFINE n == indexFile.count
             s == indexFile.sizes
             t == indexFile'.sizes
             z == Size[item]
  <1>1. /\ FileInv /\ MemoryInv /\ BufferInv /\ PushInv /\ CacheInv
        /\ pc = "size" /\ pc' = "count"
        /\ UNCHANGED <<itemsFile, buffer, m_offsets, m_itemsFileSize, m_items, m_cache, good, item>>
        /\ indexFile' = [indexFile EXCEPT !.sizes =
             IF Len(m_offsets) < Len(@) THEN [@ EXCEPT ![Len(m_offsets) + 1] = Size[item]]
             ELSE Append(@, Size[item])]
    BY DEF Inv, WriteSize, memoryVars
  <1>2. n \in Nat /\ s \in Seq(Nat) /\ n <= Len(s) /\ Len(s) \in Nat
    BY <1>1, OffsetsInFile
  <1>3. Len(m_offsets) = n
    BY <1>1, <1>2, OffsetsOneMore DEF MemoryInv
  <1>4. item \in Item /\ z \in Nat
    BY <1>1, CellsOfItem DEF PushInv, Readable
  <1>5. /\ indexFile'.count = n /\ indexFile' \in [count : Nat, sizes : {t}]
        /\ t = IF n < Len(s) THEN [s EXCEPT ![n + 1] = z] ELSE Append(s, z)
    BY <1>1, <1>3 DEF FileInv
  <1>6. t \in Seq(Nat) /\ n < Len(t) /\ t[n + 1] = z /\ \A k \in 1 .. n : t[k] = s[k]
    <2>1. CASE n < Len(s)
      <3>1. n + 1 \in 1 .. Len(s)
        BY <1>2, <2>1
      <3> QED BY <1>2, <1>4, <1>5, <2>1, <3>1, ExceptSeq
    <2>2. CASE ~ (n < Len(s))
      <3>1. n = Len(s)
        BY <1>2, <2>2
      <3> QED BY <1>2, <1>4, <1>5, <2>2, <3>1, AppendProperties
    <2> QED BY <2>1, <2>2
  <1>7. FileInv'
    <2>1. indexFile' \in [count : Nat, sizes : Seq(Nat)]
      BY <1>2, <1>5, <1>6
    <2>2. Len(t) \in Nat
      BY <1>6
    <2> QED BY <1>1, <1>2, <1>5, <1>6, <2>1, <2>2 DEF FileInv, IndexReadable
  <1> HIDE DEF t, z
  <1>8. /\ OffsetsOf(t, n) = OffsetsOf(s, n)
        /\ \A m \in 0 .. n : SumOfFirst(t, m) = SumOfFirst(s, m)
    <2>1. \A k \in 1 .. n : s[k] = t[k]
      BY <1>6
    <2>2. OffsetsOf(s, n) = OffsetsOf(t, n)
      BY <1>2, <2>1, OffsetsAreLocal
    <2>3. \A m \in 0 .. n : SumOfFirst(s, m) = SumOfFirst(t, m)
      BY <1>2, <2>1, SumIsLocal
    <2> QED BY <2>2, <2>3
  <1>9. Flushed' = Flushed
    BY <1>1 DEF Flushed
  <1>10. Stack' = Stack
    <2>1. Below(Flushed, Flushed', Offset(n))
      BY <1>9 DEF Below
    <2> QED BY <1>1, <1>5, <1>6, <1>7, <2>1, StackKept DEF t
  <1>11. LastIsDurable'
    <2>1. Below(itemsFile, Flushed, Offset(n))
      BY <1>1, BufferedIsLast
    <2>2. SumOfFirst(indexFile'.sizes, indexFile'.count) = Offset(n)
      BY <1>2, <1>5, <1>8 DEF Offset, t
    <2>3. Below(itemsFile', Flushed', SumOfFirst(indexFile'.sizes, indexFile'.count))
      BY <1>1, <1>9, <2>1, <2>2
    <2> QED BY <1>7, <2>3, LastDurableNext
  <1>a. n \in 0 .. n /\ (n > 0 => n - 1 \in 0 .. n)
    BY <1>2
  <1>b. Offset(indexFile.count)' = Offset(n) /\ (n > 0 => Offset(indexFile.count - 1)' = Offset(n - 1))
    BY <1>5, <1>8, <1>a DEF Offset, t
  <1>12. MemoryInv'
    BY <1>1, <1>5, <1>8, <1>b DEF MemoryInv, t
  <1>13. BufferInv'
    BY <1>1, <1>5, <1>b DEF BufferInv
  <1>14. PushInv'
    <2>1. Readable(Flushed, Offset(indexFile.count))' = Readable(Flushed, Offset(n))
      BY <1>9, <1>b DEF Readable
    <2> QED BY <1>1, <1>5, <1>6, <2>1 DEF PushInv, t, z
  <1>15. CacheInv'
    BY <1>1, <1>5, <1>10, CacheKept
  <1> QED BY <1>7, <1>10, <1>11, <1>12, <1>13, <1>14, <1>15, FlushStep DEF Inv

(* The count goes to the index: the push takes effect.                     *)
LEMMA WriteCountStep ==
  ASSUME Inv, WriteCount
  PROVE  Inv' /\ StackStep
  <1> DEFINE n == indexFile.count
             s == indexFile.sizes
  <1>1. /\ FileInv /\ MemoryInv /\ BufferInv /\ PushInv /\ CacheInv
        /\ pc = "count" /\ pc' = "ready" /\ UNCHANGED <<itemsFile, buffer, good>>
        /\ indexFile' = [indexFile EXCEPT !.count = Len(m_offsets) + 1]
        /\ m_offsets' = Append(m_offsets, m_itemsFileSize)
        /\ m_itemsFileSize' = m_itemsFileSize + Size[item]
        /\ Prepare(m_items, m_cache, Len(m_offsets), item)
    BY DEF Inv, WriteCount
  <1>2. /\ n \in Nat /\ s \in Seq(Nat) /\ n < Len(s) /\ Len(s) \in Nat /\ s[n + 1] = Size[item]
        /\ item \in Readable(Flushed, Offset(n)) /\ item \in Item
        /\ m_offsets = OffsetsOf(s, n) /\ m_itemsFileSize = Offset(n)
    BY <1>1, OffsetsInFile DEF PushInv, MemoryInv, Readable
  <1>3. Len(m_offsets) = n /\ m_offsets' = OffsetsOf(s, n + 1)
    BY <1>1, <1>2, OffsetsOneMore, SMTT(30) DEF Offset
  <1>4. /\ indexFile'.count = n + 1 /\ indexFile'.sizes = s
        /\ indexFile' \in [count : Nat, sizes : Seq(Nat)]
    <2>1. indexFile \in [count : Nat, sizes : Seq(Nat)] /\ n + 1 \in Nat
      BY <1>1, <1>2 DEF FileInv
    <2>2. indexFile' = [indexFile EXCEPT !.count = n + 1]
      BY <1>1, <1>3
    <2> QED BY <2>1, <2>2
  <1>5. FileInv'
    BY <1>1, <1>2, <1>4 DEF FileInv, IndexReadable
  <1>6. Offset(n) \in Nat /\ Offset(n + 1) = Offset(n) + Size[item]
    <2>1. n + 1 \in 1 .. Len(s) /\ n \in 0 .. Len(s) /\ (n + 1) - 1 = n
      BY <1>2
    <2> QED BY <1>1, <1>2, <2>1, OffsetsInFile
  <1>7. MemoryInv'
    BY <1>1, <1>2, <1>3, <1>4, <1>6 DEF MemoryInv, Offset
  <1>8. BufferInv'
    <2>1. buffer.cells # <<>> => good /\ Offset(n) <= buffer.at
      BY <1>1 DEF BufferInv
    <2>2. (n + 1) - 1 = n
      BY <1>2
    <2> QED BY <1>1, <1>4, <2>1, <2>2 DEF BufferInv, Offset
  <1>9. PushInv'
    BY <1>1 DEF PushInv
  <1>10. Flushed' = Flushed /\ Flushed \in Seq(Cell)
    BY <1>1, FlushedIsFile DEF Flushed
  <1>11. Stack' = Append(Stack, item)
    <2>1. Stack \in Seq(Item \cup {Bad}) /\ Len(Stack) = n /\ \A i \in 1 .. n : Stack[i] = ItemIn(Flushed, i)
      BY <1>1, StackIsSeq
    <2>2. Stack' = [i \in 1 .. n + 1 |-> ItemIn(Flushed, i)]
      BY <1>4, <1>10 DEF Stack, ItemIn
    <2>3. ItemIn(Flushed, n + 1) = item
      <3>1. ItemAt(Flushed, Offset(n), Size[item]) = item
        BY <1>2, <1>6, <1>10, ItemFound
      <3>2. (n + 1) - 1 = n
        BY <1>2
      <3> QED BY <1>2, <3>1, <3>2 DEF ItemIn, Offset
    <2> DEFINE a == Append(Stack, item)
    <2>4. /\ a \in Seq(Item \cup {Bad}) /\ Len(a) = n + 1 /\ a[n + 1] = item
          /\ \A i \in 1 .. n : a[i] = Stack[i]
      BY <1>2, <2>1, AppendProperties
    <2> HIDE DEF a
    <2>5. a = [i \in 1 .. n + 1 |-> a[i]]
      BY <2>4
    <2>6. \A i \in 1 .. n + 1 : a[i] = ItemIn(Flushed, i)
      <3> TAKE i \in 1 .. n + 1
      <3>1. CASE i = n + 1
        BY <2>3, <2>4, <3>1
      <3>2. CASE i # n + 1
        <4>1. i \in 1 .. n
          BY <1>2, <3>2
        <4> QED BY <2>1, <2>4, <4>1
      <3> QED BY <3>1, <3>2
    <2> QED BY <2>2, <2>5, <2>6 DEF a
  <1>12. StackStep
    <2>1. LastIsDurable' \in BOOLEAN
      BY DEF LastIsDurable
    <2>2. ImplementsStack!Push(item)
      BY <1>11, <2>1 DEF ImplementsStack!Push
    <2> QED BY <1>2, <2>2 DEF StackStep, ImplementsStack!Next
  <1>13. CacheInv'
    <2>1. /\ CacheShape
          /\ \A i \in DOMAIN m_items : i < n /\ (Stack[i + 1] # Bad => m_items[i] = Stack[i + 1])
      BY <1>1, CacheInvParts
    <2>2. n \notin DOMAIN m_items
      BY <1>2, <2>1
    <2>3. /\ CacheShape'
          /\ \A i \in DOMAIN m_items' :
               IF i = n THEN m_items'[i] = item ELSE i \in DOMAIN m_items /\ m_items'[i] = m_items[i]
      BY <1>1, <1>2, <1>3, <2>1, <2>2, PrepareKeepsShape
    <2>4. Stack'[n + 1] = item /\ \A i \in 1 .. n : Stack'[i] = Stack[i]
      <3>1. Stack \in Seq(Item \cup {Bad}) /\ Len(Stack) = n
        BY <1>1, StackIsSeq
      <3> QED BY <1>2, <1>11, <3>1, AppendProperties
    <2>5. ASSUME NEW i \in DOMAIN m_items'
          PROVE  i < n + 1 /\ (Stack'[i + 1] # Bad => m_items'[i] = Stack'[i + 1])
      <3>1. CASE i = n
        BY <1>2, <2>3, <2>4, <3>1
      <3>2. CASE i # n
        <4>1. i \in DOMAIN m_items /\ m_items'[i] = m_items[i] /\ i \in Nat
          BY <2>1, <2>3, <3>2 DEF CacheShape
        <4>2. i < n /\ i + 1 \in 1 .. n
          BY <1>2, <2>1, <4>1
        <4> QED BY <1>2, <2>1, <2>4, <4>1, <4>2
      <3> QED BY <3>1, <3>2
    <2> QED BY <1>4, <2>3, <2>5 DEF CacheInv, CacheCoherent, CacheShape, Once
  <1> QED BY <1>5, <1>7, <1>8, <1>9, <1>12, <1>13 DEF Inv

(* push_back throws.                                                       *)
LEMMA WriteIndexFailsStep ==
  ASSUME Inv, WriteIndexFails
  PROVE  Inv' /\ StackStep
  <1>1. /\ FileInv /\ MemoryInv /\ BufferInv /\ CacheInv
        /\ pc \in {"size", "count"} /\ pc' = "ready"
        /\ UNCHANGED <<itemsFile, buffer, indexFile, m_offsets, m_itemsFileSize, m_items, m_cache, good>>
    BY DEF Inv, WriteIndexFails, memoryVars
  <1>2. StackStep /\ Stack' = Stack
    BY <1>1, QuietStep
  <1>3. FileInv' /\ MemoryInv' /\ BufferInv' /\ PushInv'
    BY <1>1 DEF FileInv, IndexReadable, MemoryInv, BufferInv, PushInv, Offset
  <1>4. CacheInv'
    BY <1>1, <1>2, CacheKept
  <1> QED BY <1>2, <1>3, <1>4 DEF Inv

(* A new accessor reads the index.                                         *)
LEMMA OpenStep ==
  ASSUME Inv, Open
  PROVE  Inv' /\ StackStep
  <1>1. /\ FileInv /\ BufferInv /\ CacheInv /\ pc = "down" /\ pc' = "ready"
        /\ m_offsets' = OffsetsOf(indexFile.sizes, indexFile.count)
        /\ m_itemsFileSize' = SumOfFirst(indexFile.sizes, indexFile.count)
        /\ UNCHANGED <<itemsFile, buffer, indexFile, m_items, m_cache, good>>
    BY DEF Inv, Open
  <1>2. StackStep /\ Stack' = Stack
    BY <1>1, QuietStep
  <1>3. FileInv' /\ MemoryInv' /\ BufferInv' /\ PushInv'
    BY <1>1 DEF FileInv, IndexReadable, MemoryInv, BufferInv, PushInv, Offset
  <1>4. CacheInv'
    BY <1>1, <1>2, CacheKept
  <1> QED BY <1>2, <1>3, <1>4 DEF Inv

(* pop_back: what the stream still holds is beyond the new last item.      *)
LEMMA PopBackStep ==
  ASSUME Inv, PopBack
  PROVE  Inv' /\ StackStep
  <1> DEFINE n == indexFile.count
             s == indexFile.sizes
  <1>1. /\ FileInv /\ MemoryInv /\ BufferInv /\ CacheInv
        /\ pc = "ready" /\ pc' = "ready" /\ m_offsets # <<>> /\ UNCHANGED <<itemsFile, buffer, good>>
        /\ indexFile' = [indexFile EXCEPT !.count = Len(m_offsets) - 1]
        /\ m_itemsFileSize' = Last(m_offsets) /\ m_offsets' = Front(m_offsets)
        /\ m_items' = [i \in DOMAIN m_items \ {Len(m_offsets) - 1} |-> m_items[i]]
        /\ m_cache' = WithoutEntry(m_cache, Len(m_offsets) - 1)
    BY DEF Inv, PopBack
  <1>2. /\ n \in Nat /\ s \in Seq(Nat) /\ n <= Len(s) /\ Len(s) \in Nat
        /\ m_offsets = OffsetsOf(s, n)
    BY <1>1, OffsetsInFile DEF MemoryInv
  <1>3. Len(m_offsets) = n /\ m_offsets \in Seq(Nat)
    BY <1>2, OffsetsOneMore
  <1>4. n > 0
    BY <1>1, <1>2, <1>3, EmptySeq
  <1>5. m_offsets' = OffsetsOf(s, n - 1) /\ m_itemsFileSize' = SumOfFirst(s, n - 1)
    BY <1>1, <1>2, <1>4, OffsetsOneMore
  <1>6. /\ indexFile'.count = n - 1 /\ indexFile'.sizes = s
        /\ indexFile' \in [count : Nat, sizes : Seq(Nat)]
    <2>1. indexFile \in [count : Nat, sizes : Seq(Nat)] /\ n - 1 \in Nat
      BY <1>1, <1>2, <1>4 DEF FileInv
    <2>2. indexFile' = [indexFile EXCEPT !.count = n - 1]
      BY <1>1, <1>3
    <2> QED BY <2>1, <2>2
  <1>7. FileInv'
    BY <1>1, <1>2, <1>6 DEF FileInv, IndexReadable
  <1>8. MemoryInv' /\ PushInv'
    BY <1>1, <1>5, <1>6 DEF MemoryInv, PushInv, Offset
  <1>9. BufferInv'
    <2>1. buffer.cells # <<>> => good /\ Offset(n - 1) <= buffer.at
      BY <1>1, <1>4 DEF BufferInv
    <2>2. /\ Offset(n - 1) \in Nat /\ buffer.at \in Nat
          /\ n - 1 > 0 => Offset((n - 1) - 1) <= Offset(n - 1) /\ Offset((n - 1) - 1) \in Nat
      <3>1. n - 1 \in 0 .. Len(s) /\ (n - 1 > 0 => (n - 1) - 1 \in 0 .. Len(s) /\ (n - 1) - 1 <= n - 1)
        BY <1>2, <1>4
      <3>2. buffer.at \in Nat
        BY <1>1 DEF FileInv
      <3> QED BY <1>1, <3>1, <3>2, OffsetsInFile
    <2>3. buffer.cells # <<>> /\ n - 1 > 0 => Offset((n - 1) - 1) <= buffer.at
      BY <2>1, <2>2
    <2> QED BY <1>1, <1>6, <2>1, <2>3 DEF BufferInv, Offset
  <1>10. Flushed' = Flushed /\ Flushed \in Seq(Cell)
    BY <1>1, FlushedIsFile DEF Flushed
  <1>11. /\ Stack \in Seq(Item \cup {Bad}) /\ Len(Stack) = n
         /\ \A i \in 1 .. n : Stack[i] = ItemIn(Flushed, i)
    BY <1>1, StackIsSeq
  <1>12. Stack' = [i \in 1 .. n - 1 |-> Stack[i]]
    <2>1. Stack' = [i \in 1 .. n - 1 |-> ItemIn(Flushed, i)]
      BY <1>6, <1>10 DEF Stack, ItemIn
    <2>2. \A i \in 1 .. n - 1 : i \in 1 .. n
      BY <1>2
    <2> QED BY <1>11, <2>1, <2>2
  <1>13. Stack' = Front(Stack)
    <2> DEFINE f == SubSeq(Stack, 1, n - 1)
    <2>1. \A i \in 1 .. n - 1 : Stack[i] \in Item \cup {Bad}
      BY <1>2, <1>11
    <2>2. /\ f \in Seq(Item \cup {Bad}) /\ Len(f) = IF 1 <= n - 1 THEN (n - 1) - 1 + 1 ELSE 0
          /\ \A i \in 1 .. (n - 1) - 1 + 1 : f[i] = Stack[1 + i - 1]
      BY <1>2, <2>1, SubSeqProperties
    <2> HIDE DEF f
    <2>3. Len(f) = n - 1 /\ \A i \in 1 .. n - 1 : f[i] = Stack[i]
      BY <1>2, <1>4, <2>2
    <2>4. f = [i \in 1 .. n - 1 |-> f[i]]
      BY <2>2, <2>3
    <2>5. f = Stack'
      BY <1>12, <2>3, <2>4
    <2> QED BY <1>11, <2>5 DEF Front, f
  <1>14. LastIsDurable'
    <2>1. Below(itemsFile, Flushed, Offset(n - 1))
      BY <1>1, <1>4, BufferedIsLast
    <2>2. Below(itemsFile', Flushed', SumOfFirst(indexFile'.sizes, indexFile'.count))
      BY <1>1, <1>6, <1>10, <2>1 DEF Offset
    <2> QED BY <1>7, <2>2, LastDurableNext
  <1>15. StackStep
    <2>1. Stack # <<>>
      BY <1>4, <1>11
    <2>2. ImplementsStack!Pop
      BY <1>13, <1>14, <2>1 DEF ImplementsStack!Pop, ImplementsStack!Front, Front
    <2> QED BY <2>2 DEF StackStep, ImplementsStack!Next
  <1>16. CacheInv'
    <2>1. /\ CacheShape
          /\ \A i \in DOMAIN m_items : i < n /\ (Stack[i + 1] # Bad => m_items[i] = Stack[i + 1])
      BY <1>1, CacheInvParts
    <2>2. /\ m_cache' \in Seq(Nat) /\ Once(m_cache') /\ ToSet(m_cache') = ToSet(m_cache) \ {n - 1}
          /\ Len(m_cache') <= Len(m_cache) /\ Len(m_cache') \in Nat /\ Len(m_cache) \in Nat
      BY <1>1, <1>3, <2>1, WithoutEntryOnce DEF CacheShape
    <2>3. DOMAIN m_items' = DOMAIN m_items \ {n - 1} /\ \A i \in DOMAIN m_items' : m_items'[i] = m_items[i]
      BY <1>1, <1>3
    <2>4. Len(m_cache') <= PoolSize
      BY <2>1, <2>2, PoolSizeAssumption DEF CacheShape
    <2>5. ASSUME NEW i \in DOMAIN m_items'
          PROVE  i < n - 1 /\ (Stack'[i + 1] # Bad => m_items'[i] = Stack'[i + 1])
      <3>1. i \in DOMAIN m_items /\ i # n - 1 /\ i \in Nat
        BY <2>1, <2>3 DEF CacheShape
      <3>2. i < n - 1 /\ i + 1 \in 1 .. n - 1
        BY <1>2, <2>1, <3>1
      <3> QED BY <1>12, <2>1, <2>3, <3>1, <3>2
    <2>6. DOMAIN m_items' \subseteq Nat /\ ToSet(m_cache') = DOMAIN m_items'
      BY <2>1, <2>2, <2>3 DEF CacheShape
    <2> QED BY <1>6, <2>2, <2>4, <2>5, <2>6 DEF CacheInv, CacheCoherent, Once
  <1> QED BY <1>7, <1>8, <1>9, <1>15, <1>16 DEF Inv

LEMMA ClearStep ==
  ASSUME Inv, Clear
  PROVE  Inv' /\ StackStep
  <1>1. /\ FileInv /\ BufferInv /\ pc = "ready" /\ pc' = "ready" /\ UNCHANGED <<itemsFile, buffer, good>>
        /\ indexFile' = [indexFile EXCEPT !.count = 0]
        /\ m_offsets' = <<>> /\ m_itemsFileSize' = 0 /\ m_items' = <<>> /\ m_cache' = <<>>
    BY DEF Inv, Clear
  <1>2. /\ indexFile'.count = 0 /\ indexFile' \in [count : Nat, sizes : Seq(Nat)]
    BY <1>1 DEF FileInv
  <1>3. Len(indexFile'.sizes) \in Nat
    BY <1>2
  <1>4. FileInv'
    BY <1>1, <1>2, <1>3 DEF FileInv, IndexReadable
  <1>5. OffsetsOf(indexFile'.sizes, 0) = <<>> /\ SumOfFirst(indexFile'.sizes, 0) = 0
    BY SumDefined DEF OffsetsOf
  <1>6. MemoryInv' /\ BufferInv' /\ PushInv'
    BY <1>1, <1>2, <1>5 DEF MemoryInv, BufferInv, PushInv, Offset
  <1>7. CacheInv'
    BY <1>1, CacheCleared
  <1>8. Stack' = <<>> /\ LastIsDurable'
    BY <1>2 DEF Stack, LastIsDurable
  <1>9. StackStep
    BY <1>8 DEF StackStep, ImplementsStack!Next, ImplementsStack!Clear
  <1> QED BY <1>4, <1>6, <1>7, <1>9 DEF Inv

(* operator[] of a cached item moves its entry.                            *)
LEMMA GetCachedStep ==
  ASSUME Inv, NEW i \in 0 .. MaxItems - 1, GetCached(i)
  PROVE  Inv' /\ StackStep
  <1>1. /\ FileInv /\ MemoryInv /\ BufferInv /\ PushInv /\ CacheInv /\ i \in DOMAIN m_items
        /\ m_cache' = Append(WithoutEntry(m_cache, i), i)
        /\ UNCHANGED <<itemsFile, buffer, indexFile, m_offsets, m_itemsFileSize, m_items, good, pc, item>>
    BY DEF Inv, GetCached
  <1>2. StackStep /\ Stack' = Stack /\ Flushed' = Flushed
    BY <1>1, QuietStep
  <1>3. FileInv' /\ MemoryInv' /\ BufferInv'
    BY <1>1 DEF FileInv, IndexReadable, MemoryInv, BufferInv, Offset
  <1>4. PushInv'
    BY <1>1, <1>2 DEF PushInv, Offset, Readable
  <1>5. CacheShape /\ i \in Nat /\ i \in ToSet(m_cache)
    BY <1>1, CacheInvParts DEF CacheShape
  <1> DEFINE rest == WithoutEntry(m_cache, i)
  <1>6. /\ rest \in Seq(Nat) /\ Once(rest) /\ ToSet(rest) = ToSet(m_cache) \ {i}
        /\ Len(rest) = Len(m_cache) - 1
    BY <1>5, WithoutEntryOnce DEF CacheShape
  <1> HIDE DEF rest
  <1>7. /\ m_cache' \in Seq(Nat) /\ Once(m_cache') /\ Len(m_cache') = Len(rest) + 1
        /\ ToSet(m_cache') = ToSet(rest) \cup {i}
    BY <1>1, <1>5, <1>6, AppendOnce DEF rest
  <1>8. Len(m_cache') <= PoolSize /\ ToSet(m_cache') = DOMAIN m_items
    <2>1. Len(m_cache') = Len(m_cache)
      BY <1>5, <1>6, <1>7 DEF CacheShape
    <2> QED BY <1>5, <1>6, <1>7, <2>1 DEF CacheShape
  <1>9. CacheInv'
    BY <1>1, <1>2, <1>7, <1>8 DEF CacheInv, CacheCoherent, Once
  <1> QED BY <1>2, <1>3, <1>4, <1>9 DEF Inv

(* operator[] of an item that is not cached: the seek writes the buffer.   *)
LEMMA ReadItemStep ==
  ASSUME Inv, NEW i \in 0 .. MaxItems - 1, ReadItem(i)
  PROVE  Inv' /\ StackStep
  <1> DEFINE n == indexFile.count
             s == indexFile.sizes
             found == Readable(Flushed, m_offsets[i + 1])
  <1>1. /\ FileInv /\ MemoryInv /\ CacheInv /\ pc = "ready" /\ pc' = "ready" /\ good
        /\ i \in 0 .. Len(m_offsets) - 1 /\ i \notin DOMAIN m_items
        /\ itemsFile' = Flushed /\ buffer' = NoBuffer
        /\ UNCHANGED <<indexFile, m_offsets, m_itemsFileSize>>
        /\ \/ \E x \in found : Prepare(m_items, m_cache, i, x) /\ good' = good
           \/ /\ found = {}
              /\ \/ Prepare(m_items, m_cache, i, Bad) /\ good' = good
                 \/ m_items' = m_items /\ m_cache' = m_cache /\ good' \in {good, FALSE}
    BY DEF Inv, ReadItem
  <1>2. /\ n \in Nat /\ s \in Seq(Nat) /\ n <= Len(s) /\ m_offsets = OffsetsOf(s, n)
        /\ Flushed \in Seq(Cell) /\ Len(s) \in Nat
    BY <1>1, OffsetsInFile, FlushedIsFile DEF MemoryInv
  <1>3. Len(m_offsets) = n
    BY <1>2, OffsetsOneMore
  <1>4. i \in Nat /\ i < n /\ i + 1 \in 1 .. n /\ (i + 1) - 1 = i
    BY <1>1, <1>2, <1>3
  <1>5. m_offsets[i + 1] = Offset(i)
    <2>1. \A j \in 1 .. n : OffsetsOf(s, n)[j] = SumOfFirst(s, j - 1)
      BY <1>2, OffsetsOneMore
    <2>2. OffsetsOf(s, n)[i + 1] = SumOfFirst(s, (i + 1) - 1)
      BY <1>4, <2>1
    <2> QED BY <1>2, <1>4, <2>2 DEF Offset
  <1>6. Offset(i) \in Nat
    BY <1>1, <1>2, <1>4, OffsetsInFile
  <1>7. buffer'.cells = <<>> /\ buffer'.at = 0 /\ buffer' \in [at : Nat, cells : Seq(Cell)]
    BY <1>1 DEF NoBuffer
  <1>8. Flushed' = Flushed /\ Flushed' = itemsFile'
    BY <1>1, <1>2, <1>7, WriteNothing DEF Flushed
  <1>9. FileInv'
    BY <1>1, <1>2, <1>7 DEF FileInv, IndexReadable
  <1>10. MemoryInv' /\ BufferInv' /\ PushInv'
    BY <1>1, <1>7 DEF MemoryInv, BufferInv, PushInv, Offset
  <1>11. Stack' = Stack
    <2>1. \A j : ItemIn(Flushed, j)' = ItemIn(Flushed, j)
      BY <1>1, <1>8 DEF ItemIn
    <2> QED BY <1>1, <2>1 DEF Stack
  <1>12. LastIsDurable'
    <2>1. Below(itemsFile', Flushed', SumOfFirst(indexFile'.sizes, indexFile'.count))
      BY <1>8 DEF Below
    <2> QED BY <1>9, <2>1, LastDurableNext
  <1>13. /\ CacheShape
         /\ \A j \in DOMAIN m_items : j < n /\ (Stack[j + 1] # Bad => m_items[j] = Stack[j + 1])
    BY <1>1, CacheInvParts
  <1>14. Stack[i + 1] = ItemAt(Flushed, Offset(i), s[i + 1])
    <2>1. Stack[i + 1] = ItemIn(Flushed, i + 1)
      BY <1>1, <1>4, StackIsSeq
    <2> QED BY <1>4, <2>1 DEF ItemIn, Offset
  <1>15. ASSUME NEW x, Prepare(m_items, m_cache, i, x), Stack[i + 1] # Bad => x = Stack[i + 1]
         PROVE  CacheInv'
    <2>1. /\ CacheShape'
          /\ \A j \in DOMAIN m_items' :
               IF j = i THEN m_items'[j] = x ELSE j \in DOMAIN m_items /\ m_items'[j] = m_items[j]
      BY <1>1, <1>4, <1>13, <1>15, PrepareKeepsShape
    <2>2. \A j \in DOMAIN m_items' :
            j < n /\ (Stack[j + 1] # Bad => m_items'[j] = Stack[j + 1])
      BY <1>4, <1>13, <1>15, <2>1
    <2> QED BY <1>1, <1>11, <2>1, <2>2 DEF CacheInv, CacheCoherent, CacheShape, Once
  <1>16. CacheInv'
    <2>1. CASE \E x \in found : Prepare(m_items, m_cache, i, x)
      <3>1. PICK x \in found : Prepare(m_items, m_cache, i, x)
        BY <2>1
      <3>2. x \in Readable(Flushed, Offset(i))
        BY <1>5, <3>1
      <3>3. Stack[i + 1] # Bad => x = Stack[i + 1]
        BY <1>2, <1>6, <1>14, <3>2, ItemAtIsItem
      <3> QED BY <1>15, <3>1, <3>3
    <2>2. CASE found = {} /\ Prepare(m_items, m_cache, i, Bad)
      <3>1. Readable(Flushed, Offset(i)) = {}
        BY <1>5, <2>2
      <3>2. Stack[i + 1] = Bad
        BY <1>2, <1>6, <1>14, <3>1, ItemAtIsItem
      <3> QED BY <1>15, <2>2, <3>2
    <2>3. CASE m_items' = m_items /\ m_cache' = m_cache
      BY <1>1, <1>11, <2>3, CacheKept
    <2> QED BY <1>1, <2>1, <2>2, <2>3
  <1> QED BY <1>9, <1>10, <1>11, <1>12, <1>16, FlushStep DEF Inv

(* The accessor goes away: what it leaves is a stack without a buffer.     *)
LEMMA ForgetKeepsInv ==
  ASSUME Inv, Forget, itemsFile' \in Seq(Cell)
  PROVE  /\ Inv' /\ indexFile' = indexFile /\ Flushed' = itemsFile' /\ LastIsDurable'
  <1>1. /\ FileInv /\ pc' = "down" /\ buffer' = NoBuffer /\ m_items' = <<>> /\ m_cache' = <<>>
        /\ good' = TRUE /\ indexFile' = indexFile
    BY DEF Inv, Forget
  <1>2. buffer'.cells = <<>> /\ buffer'.at = 0 /\ buffer' \in [at : Nat, cells : Seq(Cell)]
    BY <1>1 DEF NoBuffer
  <1>3. Flushed' = itemsFile'
    BY <1>2, WriteNothing DEF Flushed
  <1>4. FileInv'
    BY <1>1, <1>2 DEF FileInv, IndexReadable
  <1>5. MemoryInv' /\ BufferInv' /\ PushInv'
    BY <1>1, <1>2 DEF MemoryInv, BufferInv, PushInv
  <1>6. CacheInv'
    BY <1>1, CacheCleared
  <1>7. LastIsDurable'
    <2>1. Below(itemsFile', Flushed', SumOfFirst(indexFile'.sizes, indexFile'.count))
      BY <1>3 DEF Below
    <2> QED BY <1>4, <2>1, LastDurableNext
  <1> QED BY <1>1, <1>3, <1>4, <1>5, <1>6, <1>7 DEF Inv

(* The destructor writes the buffer; a stream that has failed has none.    *)
LEMMA CloseStep ==
  ASSUME Inv, Close
  PROVE  Inv' /\ StackStep
  <1>1. /\ FileInv /\ BufferInv /\ Forget /\ itemsFile' = IF good THEN Flushed ELSE itemsFile
    BY DEF Inv, Close
  <1>2. itemsFile' = Flushed
    BY <1>1, BufferedIsLast DEF BufferInv, FileInv
  <1>3. Flushed \in Seq(Cell)
    BY <1>1, FlushedIsFile
  <1>4. Inv' /\ indexFile' = indexFile /\ Flushed' = Flushed /\ LastIsDurable'
    BY <1>1, <1>2, <1>3, ForgetKeepsInv
  <1>5. Stack' = Stack
    <2>1. \A j : ItemIn(Flushed, j)' = ItemIn(Flushed, j)
      BY <1>4 DEF ItemIn
    <2> QED BY <1>4, <2>1 DEF Stack
  <1> QED BY <1>4, <1>5, FlushStep

(* A crash loses the buffer: the last item at most.                        *)
LEMMA CrashStep ==
  ASSUME Inv, Crash
  PROVE  Inv' /\ StackStep
  <1> DEFINE n == indexFile.count
  <1>1. FileInv /\ BufferInv /\ Forget /\ itemsFile' = itemsFile /\ itemsFile \in Seq(Cell)
    BY DEF Inv, Crash, FileInv
  <1>2. Inv' /\ indexFile' = indexFile /\ Flushed' = itemsFile /\ LastIsDurable'
    BY <1>1, ForgetKeepsInv
  <1>3. Stack' = [i \in 1 .. n |-> ItemIn(itemsFile, i)]
    BY <1>2 DEF Stack, ItemIn
  <1>4. /\ n \in Nat /\ Stack \in Seq(Item \cup {Bad}) /\ Len(Stack) = n
        /\ \A i \in 1 .. n : Stack[i] = ItemIn(Flushed, i)
        /\ \A i \in 1 .. n : ItemIn(itemsFile, i) \in Item \cup {Bad}
    BY <1>1, StackIsSeq, OffsetsInFile
  <1>5. \A i \in 1 .. n - 1 : ItemIn(itemsFile, i) = Stack[i]
    <2>1. CASE n = 0
      BY <2>1
    <2>2. CASE n > 0
      <3>1. Below(itemsFile, Flushed, Offset(n - 1)) /\ Flushed \in Seq(Cell) /\ n - 1 \in 0 .. n
        BY <1>1, <1>4, <2>2, BufferedIsLast, FlushedIsFile
      <3>2. \A i \in 1 .. n - 1 : ItemIn(itemsFile, i) = ItemIn(Flushed, i)
        BY <1>1, <3>1, ItemsBelow
      <3> QED BY <1>4, <3>2
    <2> QED BY <1>4, <2>1, <2>2
  <1>6. CASE LastIsDurable
    <2>1. n > 0 => ItemIn(itemsFile, n) = Stack[n]
      BY <1>6 DEF LastIsDurable
    <2>2. \A i \in 1 .. n : ItemIn(itemsFile, i) = Stack[i]
      <3> TAKE i \in 1 .. n
      <3>1. i \in 1 .. n - 1 \/ (i = n /\ n > 0)
        BY <1>4
      <3> QED BY <1>5, <2>1, <3>1
    <2>3. Stack = [i \in 1 .. n |-> Stack[i]]
      BY <1>4
    <2>4. Stack' = Stack
      BY <1>3, <2>2, <2>3
    <2> QED BY <1>2, <2>4, FlushStep
  <1>7. CASE ~LastIsDurable
    <2>1. n > 0
      BY <1>4, <1>7 DEF LastIsDurable
    <2> DEFINE f == SubSeq(Stack, 1, n - 1)
               x == ItemIn(itemsFile, n)
               a == Append(f, x)
    <2>2. x \in Item \cup {Bad} /\ \A i \in 1 .. n - 1 : Stack[i] \in Item \cup {Bad}
      BY <1>4, <2>1
    <2>3. /\ f \in Seq(Item \cup {Bad}) /\ Len(f) = IF 1 <= n - 1 THEN (n - 1) - 1 + 1 ELSE 0
          /\ \A i \in 1 .. (n - 1) - 1 + 1 : f[i] = Stack[1 + i - 1]
      BY <1>4, <2>2, SubSeqProperties
    <2>4. Front(Stack) = f
      BY <1>4 DEF Front
    <2> HIDE DEF f, x
    <2>5. Len(f) = n - 1 /\ \A i \in 1 .. n - 1 : f[i] = Stack[i]
      BY <1>4, <2>1, <2>3
    <2>6. /\ a \in Seq(Item \cup {Bad}) /\ Len(a) = n /\ a[n] = x
          /\ \A i \in 1 .. n - 1 : a[i] = f[i]
      <3>1. /\ a \in Seq(Item \cup {Bad}) /\ Len(a) = Len(f) + 1 /\ a[Len(f) + 1] = x
            /\ \A i \in 1 .. Len(f) : a[i] = f[i]
        BY <2>2, <2>3, AppendProperties
      <3>2. Len(f) + 1 = n
        BY <1>4, <2>5
      <3> HIDE DEF a
      <3> QED BY <2>5, <3>1, <3>2
    <2> HIDE DEF a
    <2>7. \A i \in 1 .. n : a[i] = ItemIn(itemsFile, i)
      <3> TAKE i \in 1 .. n
      <3>1. i \in 1 .. n - 1 \/ i = n
        BY <1>4
      <3> QED BY <1>5, <2>5, <2>6, <3>1 DEF x
    <2>8. a = [i \in 1 .. n |-> a[i]]
      BY <2>6
    <2>9. Stack' = Append(Front(Stack), x)
      BY <1>3, <2>4, <2>7, <2>8 DEF a
    <2>10. ImplementsStack!Crash
      BY <1>2, <1>7, <2>2, <2>9 DEF ImplementsStack!Crash, ImplementsStack!Front, Front
    <2> QED BY <1>2, <2>10 DEF StackStep, ImplementsStack!Next
  <1> QED BY <1>6, <1>7

-----------------------------------------------------------------------------
LEMMA InitInv ==
  ASSUME Init
  PROVE  Inv /\ ImplementsStack!Init
  <1>1. /\ indexFile.count = 0 /\ indexFile.sizes = <<>> /\ buffer.at = 0 /\ buffer.cells = <<>>
        /\ indexFile \in [count : Nat, sizes : Seq(Nat)] /\ buffer \in [at : Nat, cells : Seq(Cell)]
    BY DEF Init, NoBuffer
  <1>2. FileInv
    BY <1>1 DEF Init, FileInv, IndexReadable
  <1>3. OffsetsOf(<<>>, 0) = <<>> /\ SumOfFirst(<<>>, 0) = 0
    BY SumDefined DEF OffsetsOf
  <1>4. MemoryInv /\ BufferInv /\ PushInv
    BY <1>1, <1>3 DEF Init, MemoryInv, BufferInv, PushInv, Offset
  <1>5. DOMAIN m_items = {} /\ DOMAIN m_cache = {} /\ m_cache \in Seq(Nat) /\ Len(m_cache) = 0
    BY DEF Init
  <1>6. CacheInv
    BY <1>5, PoolSizeAssumption DEF CacheInv, CacheCoherent, ToSet
  <1>7. Stack = <<>> /\ LastIsDurable
    BY <1>1 DEF Stack, LastIsDurable
  <1> QED BY <1>2, <1>4, <1>6, <1>7 DEF Inv, ImplementsStack!Init

(* Every step keeps the invariant and is a step of BlockStack.             *)
LEMMA StepImplementsStack ==
  ASSUME Inv, [Next]_vars
  PROVE  Inv' /\ StackStep
  <1>1. CASE UNCHANGED vars
    <2>1. /\ FileInv /\ MemoryInv /\ BufferInv /\ PushInv /\ CacheInv
          /\ UNCHANGED <<itemsFile, buffer, indexFile, m_offsets, m_itemsFileSize, m_items, m_cache,
                         good, pc, item>>
      BY <1>1 DEF vars, memoryVars, Inv
    <2>2. StackStep /\ Stack' = Stack /\ Flushed' = Flushed
      BY <2>1, QuietStep
    <2>3. FileInv' /\ MemoryInv' /\ BufferInv'
      BY <2>1 DEF FileInv, IndexReadable, MemoryInv, BufferInv, Offset
    <2>4. PushInv'
      BY <2>1, <2>2 DEF PushInv, Offset, Readable
    <2>5. CacheInv'
      BY <2>1, <2>2, CacheKept
    <2> QED BY <2>2, <2>3, <2>4, <2>5 DEF Inv
  <1>2. CASE Next
    BY <1>2, WriteItemStep, WriteSizeStep, WriteCountStep, WriteIndexFailsStep, PopBackStep, ClearStep,
       GetCachedStep, ReadItemStep, CloseStep, CrashStep, OpenStep DEF Next
  <1> QED BY <1>1, <1>2

LEMMA AccessorInvariant == Spec => []Inv
  <1>1. Inv /\ [Next]_vars => Inv'
    BY StepImplementsStack
  <1>2. Init => Inv
    BY InitInv
  <1> QED BY <1>1, <1>2, PTL DEF Spec

(* Whenever push_back, pop_back, clear or operator[] has returned or       *)
(* thrown, m_offsets and m_itemsFileSize are what init would compute from  *)
(* the index file.                                                         *)
THEOREM MemoryAlwaysMatches == Spec => []MemoryMatchesIndex
  <1>1. Inv => MemoryMatchesIndex
    BY DEF Inv, MemoryInv, MemoryMatchesIndex, Offset
  <1> QED BY <1>1, AccessorInvariant, PTL

(* Whenever the process is killed, the index file lists a size for every   *)
(* item that it counts: push_back writes the size before the count.        *)
THEOREM IndexAlwaysReadable == Spec => []IndexReadable
  <1>1. Inv => IndexReadable
    BY DEF Inv, FileInv
  <1> QED BY <1>1, AccessorInvariant, PTL

(* The cache of operator[] never answers with an item that was popped or   *)
(* replaced, and prepare keeps it within m_poolSize.                       *)
THEOREM CacheAlwaysCoherent == Spec => []CacheCoherent
  <1>1. Inv => CacheCoherent
    BY DEF Inv, CacheInv
  <1> QED BY <1>1, AccessorInvariant, PTL

(* BlockAccessor implements BlockStack: a push, a pop and a clear take     *)
(* effect at the write of the count, and a crash between any two writes    *)
(* costs the last item and no other.                                       *)
THEOREM AccessorImplementsStack == Spec => StackSpec
  <1>1. Init => ImplementsStack!Init
    BY InitInv
  <1>2. Inv /\ [Next]_vars => [ImplementsStack!Next]_<<Stack, LastIsDurable>>
    BY StepImplementsStack DEF StackStep
  <1> QED BY <1>1, <1>2, AccessorInvariant, PTL DEF Spec, StackSpec, ImplementsStack!Spec
=============================================================================
