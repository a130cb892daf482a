---------------------------- MODULE BlockAccessor ----------------------------
(***************************************************************************)
(* BlockAccessor<T>: a vector of blocks kept in two files, with a cache of *)
(* the blocks used last.                                                   *)
(*                                                                         *)
(* The items file is one stream that stays open; a write to it may stay in *)
(* the buffer of the stream until the next seek.  The index file holds the *)
(* number of items and their sizes; every write to it opens and closes the *)
(* file, so it is out of the process when the call returns.  The process   *)
(* may be killed between any two of these writes.                          *)
(***************************************************************************)
EXTENDS Integers, Sequences, SequencesExt

CONSTANTS
  Item,
  Size,        \* number of cells an item takes in the file
  Bad,         \* what is read where no item is
  PoolSize,    \* m_poolSize
  MaxItems,    \* bound on the number of items
  MaxCrashes   \* bound on the number of crashes

ASSUME ItemAssumption == Size \in [Item -> Nat \ {0}] /\ Bad \notin Item
ASSUME PoolSizeAssumption == PoolSize \in Nat \ {0}
ASSUME AccessorBounds == MaxItems \in Nat /\ MaxCrashes \in Nat

VARIABLES
  itemsFile,       \* the cells of the items file that have left the process
  buffer,          \* cells that m_itemsFile has not written yet, and their offset
  indexFile,       \* the number of items and their sizes
  m_offsets,
  m_itemsFileSize, \* the end of the last item
  m_items,         \* the cached items, by index
  m_cache,         \* their indexes, the one used last at the end
  good,            \* m_itemsFile has not failed
  pc,              \* the step of push_back, or "ready", or "down"
  item,            \* the argument of push_back, or Bad when it does not run
  crashes

memoryVars == <<m_offsets, m_itemsFileSize, m_items, m_cache>>
vars == <<itemsFile, buffer, indexFile, memoryVars, good, pc, item, crashes>>

-----------------------------------------------------------------------------
(* Files.  An item is the sequence of its parts; a write beyond the end    *)
(* of the file leaves a hole.                                              *)
Hole == [item |-> Bad, part |-> 0]
Cell == [item : Item \cup {Bad}, part : Nat]
Cells(x) == [p \in 1 .. Size[x] |-> [item |-> x, part |-> p]]
NoBuffer == [at |-> 0, cells |-> <<>>]

Write(file, at, cells) ==
  LET end == at + Len(cells) IN
  [p \in 1 .. (IF cells = <<>> \/ end < Len(file) THEN Len(file) ELSE end) |->
     IF p > at /\ p <= end THEN cells[p - at]
     ELSE IF p <= Len(file) THEN file[p] ELSE Hole]

(* The file as the process sees it: a seek writes the buffer first.        *)
Flushed == Write(itemsFile, buffer.at, buffer.cells)

(* The items that can be read at an offset: deserialisation takes what the *)
(* bytes there say, whatever size the index has for it.                    *)
Readable(file, at) ==
  {x \in Item : /\ at + Size[x] <= Len(file)
                /\ \A p \in 1 .. Size[x] : file[at + p] = Cells(x)[p]}

(* Where the sizes of the index file put the items.                        *)
SumOfFirst(sizes, n) ==
  LET sum[k \in Nat] == IF k = 0 THEN 0 ELSE sum[k - 1] + sizes[k] IN sum[n]
OffsetsOf(sizes, n) == [i \in 1 .. n |-> SumOfFirst(sizes, i - 1)]

-----------------------------------------------------------------------------
(* The list without the entry of an item, which the item points to.        *)
WithoutEntry(order, index) ==
  IF \E p \in DOMAIN order : order[p] = index
  THEN RemoveAt(order, CHOOSE p \in DOMAIN order : order[p] = index)
  ELSE order

(* prepare: the item used longest ago makes room for the new one.          *)
Prepare(cache, order, index, x) ==
  LET full == Len(order) = PoolSize
      kept == IF full THEN DOMAIN cache \ {Head(order)} ELSE DOMAIN cache
  IN  /\ m_items' = [i \in kept \cup {index} |-> IF i = index THEN x ELSE cache[i]]
      /\ m_cache' = Append(IF full THEN Tail(order) ELSE order, index)

(* push_back: the item goes to the stream, which keeps what fits in its    *)
(* buffer; then its size and then the new count go to the index file.      *)
(* Mutant: the item is written where the stream happens to be, after what  *)
(* it wrote last.                                                          *)
WriteItemWithoutSeek(x) ==
  /\ pc = "ready" /\ good /\ Len(m_offsets) < MaxItems
  /\ itemsFile' = Flushed
  /\ buffer' = [at |-> Len(Flushed), cells |-> Cells(x)]
  /\ item' = x
  /\ pc' = "size"
  /\ UNCHANGED <<indexFile, memoryVars, good, crashes>>
WriteItem(x) ==
  /\ pc = "ready" /\ good /\ Len(m_offsets) < MaxItems
  /\ \E k \in 0 .. Size[x] :
       /\ itemsFile' = Write(Flushed, m_itemsFileSize, SubSeq(Cells(x), 1, k))
       /\ buffer' = [at |-> m_itemsFileSize + k, cells |-> SubSeq(Cells(x), k + 1, Size[x])]
  /\ item' = x
  /\ pc' = "size"
  /\ UNCHANGED <<indexFile, memoryVars, good, crashes>>

(* Mutant: the count goes out in the place of the size.                    *)
WriteCountForSize ==
  /\ pc = "size"
  /\ indexFile' = [indexFile EXCEPT !.count = Len(m_offsets) + 1]
  /\ pc' = "count"
  /\ UNCHANGED <<itemsFile, buffer, memoryVars, good, item, crashes>>
WriteSize ==
  /\ pc = "size"
  /\ LET n == Len(m_offsets) IN
     indexFile' = [indexFile EXCEPT !.sizes =
       IF n < Len(@) THEN [@ EXCEPT ![n + 1] = Size[item]] ELSE Append(@, Size[item])]
  /\ pc' = "count"
  /\ UNCHANGED <<itemsFile, buffer, memoryVars, good, item, crashes>>

WriteCount ==
  /\ pc = "count"
  /\ indexFile' = [indexFile EXCEPT !.count = Len(m_offsets) + 1]
  /\ m_offsets' = Append(m_offsets, m_itemsFileSize)
  /\ m_itemsFileSize' = m_itemsFileSize + Size[item]
  /\ Prepare(m_items, m_cache, Len(m_offsets), item)
  /\ pc' = "ready" /\ item' = Bad
  /\ UNCHANGED <<itemsFile, buffer, good, crashes>>

(* writeIndex cannot open the file: push_back throws, the vector is as it  *)
(* was.                                                                    *)
WriteIndexFails ==
  /\ pc \in {"size", "count"}
  /\ pc' = "ready" /\ item' = Bad
  /\ UNCHANGED <<itemsFile, buffer, indexFile, memoryVars, good, crashes>>

(* Mutants: the cache, or the end of the file, is left as it was.          *)
PopBackKeepingItem ==
  /\ pc = "ready" /\ m_offsets # <<>>
  /\ indexFile' = [indexFile EXCEPT !.count = Len(m_offsets) - 1]
  /\ m_itemsFileSize' = Last(m_offsets)
  /\ m_offsets' = Front(m_offsets)
  /\ UNCHANGED <<m_items, m_cache, itemsFile, buffer, good, pc, item, crashes>>
PopBackKeepingSize ==
  /\ pc = "ready" /\ m_offsets # <<>>
  /\ indexFile' = [indexFile EXCEPT !.count = Len(m_offsets) - 1]
  /\ m_offsets' = Front(m_offsets)
  /\ LET n == Len(m_offsets) - 1 IN
     /\ m_items' = [i \in DOMAIN m_items \ {n} |-> m_items[i]]
     /\ m_cache' = WithoutEntry(m_cache, n)
  /\ UNCHANGED <<m_itemsFileSize, itemsFile, buffer, good, pc, item, crashes>>
PopBack ==
  /\ pc = "ready" /\ m_offsets # <<>>
  /\ indexFile' = [indexFile EXCEPT !.count = Len(m_offsets) - 1]
  /\ m_itemsFileSize' = Last(m_offsets)
  /\ m_offsets' = Front(m_offsets)
  /\ LET n == Len(m_offsets) - 1 IN
     /\ m_items' = [i \in DOMAIN m_items \ {n} |-> m_items[i]]
     /\ m_cache' = WithoutEntry(m_cache, n)
  /\ UNCHANGED <<itemsFile, buffer, good, pc, item, crashes>>

Clear ==
  /\ pc = "ready"
  /\ indexFile' = [indexFile EXCEPT !.count = 0]
  /\ m_offsets' = <<>> /\ m_itemsFileSize' = 0
  /\ m_items' = <<>> /\ m_cache' = <<>>
  /\ UNCHANGED <<itemsFile, buffer, good, pc, item, crashes>>

(* operator[] of a cached item, and of one that has to be read.  Bytes     *)
(* that are no item may end the file (the stream fails for good) or the    *)
(* deserialisation, or pass for some block.                                *)
GetCached(i) ==
  /\ pc = "ready" /\ i \in DOMAIN m_items
  /\ m_cache' = Append(WithoutEntry(m_cache, i), i)
  /\ UNCHANGED <<itemsFile, buffer, indexFile, m_offsets, m_itemsFileSize, m_items, good, pc,
                 item, crashes>>

ReadItem(i) ==
  /\ pc = "ready" /\ good
  /\ i \in 0 .. Len(m_offsets) - 1 /\ i \notin DOMAIN m_items
  /\ itemsFile' = Flushed
  /\ buffer' = NoBuffer
  /\ LET found == Readable(Flushed, m_offsets[i + 1]) IN
     \/ \E x \in found : Prepare(m_items, m_cache, i, x) /\ UNCHANGED good
     \/ /\ found = {}
        /\ \/ Prepare(m_items, m_cache, i, Bad) /\ UNCHANGED good
           \/ UNCHANGED <<m_items, m_cache>> /\ good' \in {good, FALSE}
  /\ UNCHANGED <<indexFile, m_offsets, m_itemsFileSize, pc, item, crashes>>

-----------------------------------------------------------------------------
(* The accessor goes away with what it held in memory: the destructor of   *)
(* the stream writes its buffer, the end of the process does not.          *)
Forget ==
  /\ pc' = "down"
  /\ buffer' = NoBuffer
  /\ m_offsets' = <<>> /\ m_itemsFileSize' = 0
  /\ m_items' = <<>> /\ m_cache' = <<>>
  /\ good' = TRUE /\ item' = Bad
  /\ UNCHANGED indexFile

Close ==
  /\ pc = "ready"
  /\ itemsFile' = IF good THEN Flushed ELSE itemsFile
  /\ Forget
  /\ UNCHANGED crashes

Crash ==
  /\ pc # "down"
  /\ crashes < MaxCrashes
  /\ crashes' = crashes + 1
  /\ Forget
  /\ UNCHANGED itemsFile

(* init and initIndex.                                                     *)
Open ==
  /\ pc = "down"
  /\ indexFile.count <= Len(indexFile.sizes)
  /\ m_offsets' = OffsetsOf(indexFile.sizes, indexFile.count)
  /\ m_itemsFileSize' = SumOfFirst(indexFile.sizes, indexFile.count)
  /\ pc' = "ready"
  /\ UNCHANGED <<itemsFile, buffer, indexFile, m_items, m_cache, good, item, crashes>>

Init ==
  /\ itemsFile = <<>> /\ buffer = NoBuffer
  /\ indexFile = [count |-> 0, sizes |-> <<>>]
  /\ m_offsets = <<>> /\ m_itemsFileSize = 0
  /\ m_items = <<>> /\ m_cache = <<>>
  /\ good = TRUE
  /\ pc = "ready"
  /\ item = Bad
  /\ crashes = 0

Next ==
  \/ \E x \in Item : WriteItem(x)
  \/ WriteSize \/ WriteCount \/ WriteIndexFails
  \/ PopBack \/ Clear
  \/ \E i \in 0 .. MaxItems - 1 : GetCached(i) \/ ReadItem(i)
  \/ Close \/ Crash \/ Open

Spec == Init /\ [][Next]_vars

-----------------------------------------------------------------------------
(* The types of the variables.                                             *)
TypeOK ==
  /\ itemsFile \in Seq(Cell)
  /\ buffer \in [at : Nat, cells : Seq(Cell)]
  /\ indexFile \in [count : Nat, sizes : Seq(Nat)]
  /\ m_offsets \in Seq(Nat) /\ m_itemsFileSize \in Nat
  /\ DOMAIN m_items \subseteq Nat
  /\ \A i \in DOMAIN m_items : m_items[i] \in Item \cup {Bad}
  /\ m_cache \in Seq(Nat)
  /\ good \in BOOLEAN
  /\ pc \in {"ready", "size", "count", "down"}
  /\ item \in Item \cup {Bad}
  /\ crashes \in Nat

(* The stack that the two files and the buffer hold: the items that the    *)
(* index counts, each where the sizes before it put it, of the size the    *)
(* index gives it.                                                         *)
ItemAt(file, at, size) ==
  LET found == {x \in Readable(file, at) : Size[x] = size}
  IN  IF found = {} THEN Bad ELSE CHOOSE x \in found : TRUE
ItemIn(file, i) == ItemAt(file, SumOfFirst(indexFile.sizes, i - 1), indexFile.sizes[i])
Stack == [i \in 1 .. indexFile.count |-> ItemIn(Flushed, i)]
LastIsDurable ==
  indexFile.count > 0 => ItemIn(itemsFile, indexFile.count) = Stack[indexFile.count]

(* The accessor implements BlockStack: a push, a pop and a clear take      *)
(* effect at the write of the count, reads change nothing, and a crash     *)
(* between any two writes can cost the last item and no other.             *)
ImplementsStack == INSTANCE BlockStack WITH stack <- Stack, durable <- LastIsDurable
StackSpec == ImplementsStack!Spec

(* What is in memory agrees with the files whenever a call has returned or *)
(* thrown, so that a restart finds the same items at the same offsets.     *)
MemoryMatchesIndex ==
  pc = "ready" =>
    /\ m_offsets = OffsetsOf(indexFile.sizes, indexFile.count)
    /\ m_itemsFileSize = SumOfFirst(indexFile.sizes, indexFile.count)

(* The cache answers what the file would: an item that was popped, or that *)
(* another one replaced after a pop, is never served.  It never holds more *)
(* than its size, and the order of use lists it once.                      *)
CacheCoherent ==
  /\ \A i \in DOMAIN m_items :
       i < indexFile.count /\ (Stack[i + 1] # Bad => m_items[i] = Stack[i + 1])
  /\ ToSet(m_cache) = DOMAIN m_items /\ Len(m_cache) <= PoolSize
  /\ \A i, j \in DOMAIN m_cache : m_cache[i] = m_cache[j] => i = j

(* Whenever the process stops, the index file lists a size for every item  *)
(* it counts: init can read it.                                            *)
IndexReadable == indexFile.count <= Len(indexFile.sizes)
=============================================================================
