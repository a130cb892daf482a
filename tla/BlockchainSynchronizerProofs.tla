-------------------- MODULE BlockchainSynchronizerProofs --------------------
EXTENDS BlockchainSynchronizer, SequenceTheorems, WellFoundedInduction, TLAPS

(***************************************************************************)
(* The synchronizer of a wallet, for every tree of blocks, every set of    *)
(* consumers, and any number of changes, calls and failures.               *)
(***************************************************************************)

-----------------------------------------------------------------------------
(* Numbers.  A set of naturals that is not empty has a least element, so   *)
(* that Min and, below a bound, Max are what their names say.              *)
LEMMA LeastExists ==
  ASSUME NEW T \in SUBSET Nat, T # {}
  PROVE  \E x \in T : \A y \in T : x <= y
  <1> DEFINE R == OpToRel(<, Nat)
  <1>1. IsWellFoundedOn(R, Nat)
    BY NatLessThanWellFounded
  <1>2. \E x \in T : \A y \in T : ~ (<<y, x>> \in R)
    <2> HIDE DEF R
    <2> QED BY <1>1, WFMin
  <1>3. PICK x \in T : \A y \in T : ~ (<<y, x>> \in R)
    BY <1>2
  <1>4. \A y \in T : ~ (y < x)
    BY <1>3 DEF OpToRel
  <1>5. \A y \in T : x <= y
    BY <1>4
  <1> QED BY <1>5

LEMMA MinIsLeast ==
  ASSUME NEW T \in SUBSET Nat, T # {}
  PROVE  Min(T) \in T /\ \A y \in T : Min(T) <= y
  BY LeastExists DEF Min

LEMMA MinOfTwo ==
  ASSUME NEW m \in Nat, NEW n \in Nat
  PROVE  Min({m, n}) = IF m <= n THEN m ELSE n
  <1>1. {m, n} \in SUBSET Nat /\ {m, n} # {}
    OBVIOUS
  <1>2. Min({m, n}) \in {m, n} /\ \A y \in {m, n} : Min({m, n}) <= y
    BY <1>1, MinIsLeast
  <1> QED BY <1>2

LEMMA MaxIsGreatest ==
  ASSUME NEW T \in SUBSET Nat, T # {}, NEW n \in Nat, \A y \in T : y <= n
  PROVE  Max(T) \in T /\ \A y \in T : Max(T) >= y
  <1> DEFINE U == {m \in Nat : \A y \in T : y <= m}
  <1>1. U \in SUBSET Nat /\ U # {}
    OBVIOUS
  <1>2. PICK x \in U : \A y \in U : x <= y
    BY <1>1, LeastExists
  <1>3. x \in T
    <2>1. SUFFICES ASSUME x \notin T PROVE FALSE
      OBVIOUS
    <2>2. \A y \in T : y < x
      BY <2>1
    <2>3. x # 0
      <3>1. PICK z \in T : TRUE
        OBVIOUS
      <3>2. z \in Nat /\ z < x
        BY <2>2
      <3> QED BY <3>2
    <2>4. x - 1 \in U
      BY <2>2, <2>3
    <2> QED BY <1>2, <2>4
  <1>4. \A y \in T : x >= y
    OBVIOUS
  <1> QED BY <1>3, <1>4 DEF Max

(* Induction, for a set in place of a property.                            *)
LEMMA SetInduction ==
  ASSUME NEW S, 0 \in S, \A n \in Nat : n \in S => n + 1 \in S
  PROVE  Nat \subseteq S
  <1> DEFINE T == Nat \ S
  <1>1. SUFFICES ASSUME T # {} PROVE FALSE
    OBVIOUS
  <1>2. PICK x \in T : \A y \in T : x <= y
    BY <1>1, LeastExists
  <1>3. x # 0 /\ x \in Nat
    OBVIOUS
  <1>4. x - 1 \in T
    BY <1>3
  <1> QED BY <1>2, <1>3, <1>4

-----------------------------------------------------------------------------
(* The block tree.  The work of a block is more than that of its parent,   *)
(* so that PathTo, which goes from block to parent, has the values its     *)
(* definition gives it.                                                    *)
IsPathBelow(g, n) ==
  \A b \in Block : Work[b] < n =>
    g[b] = IF b = Genesis THEN <<b>> ELSE Append(g[Parent[b]], b)

LEMMA ParentIsBelow ==
  ASSUME NEW b \in Block, b # Genesis
  PROVE  Parent[b] \in Block /\ Work[b] \in Nat /\ Work[Parent[b]] \in Nat
         /\ Work[Parent[b]] < Work[b]
  BY BlockAssumption

LEMMA PathsExist == \A n \in Nat : \E g : IsPathBelow(g, n)
  <1> DEFINE S == {n \in Nat : \E g : IsPathBelow(g, n)}
  <1>1. 0 \in S
    <2>1. IsPathBelow(<<>>, 0)
      BY BlockAssumption DEF IsPathBelow
    <2> QED BY <2>1
  <1>2. ASSUME NEW n \in Nat, n \in S PROVE n + 1 \in S
    <2>1. PICK g : IsPathBelow(g, n)
      BY <1>2
    <2> DEFINE h == [b \in Block |-> IF Work[b] < n THEN g[b]
                                     ELSE IF b = Genesis THEN <<b>> ELSE Append(g[Parent[b]], b)]
    <2>2. ASSUME NEW b \in Block, Work[b] < n + 1
          PROVE  h[b] = IF b = Genesis THEN <<b>> ELSE Append(h[Parent[b]], b)
      <3>1. h[b] = IF b = Genesis THEN <<b>> ELSE Append(g[Parent[b]], b)
        BY <2>1 DEF IsPathBelow
      <3>2. CASE b = Genesis
        BY <3>1, <3>2
      <3>3. CASE b # Genesis
        <4>1. Parent[b] \in Block /\ Work[Parent[b]] < n
          BY <2>2, <3>3, ParentIsBelow
        <4>2. h[Parent[b]] = g[Parent[b]]
          BY <4>1
        <4> QED BY <3>1, <3>3, <4>2
      <3> QED BY <3>2, <3>3
    <2> HIDE DEF h
    <2>3. IsPathBelow(h, n + 1)
      BY <2>2 DEF IsPathBelow
    <2> QED BY <2>3
  <1> HIDE DEF S
  <1>3. Nat \subseteq S
    BY <1>1, <1>2, SetInduction
  <1> QED BY <1>3 DEF S

LEMMA PathsUnique ==
  ASSUME NEW g, NEW h, NEW n \in Nat, IsPathBelow(g, n), IsPathBelow(h, n)
  PROVE  \A b \in Block : Work[b] < n => g[b] = h[b]
  <1> DEFINE S == {m \in Nat : m <= n => \A b \in Block : Work[b] < m => g[b] = h[b]}
  <1>1. 0 \in S
    BY BlockAssumption
  <1>2. ASSUME NEW m \in Nat, m \in S PROVE m + 1 \in S
    <2>1. SUFFICES ASSUME m + 1 <= n, NEW b \in Block, Work[b] < m + 1 PROVE g[b] = h[b]
      OBVIOUS
    <2>2. \A a \in Block : Work[a] < m => g[a] = h[a]
      BY <1>2, <2>1
    <2>3. Work[b] \in Nat /\ Work[b] < n
      BY <2>1, BlockAssumption
    <2>4. /\ g[b] = IF b = Genesis THEN <<b>> ELSE Append(g[Parent[b]], b)
          /\ h[b] = IF b = Genesis THEN <<b>> ELSE Append(h[Parent[b]], b)
      BY <2>3 DEF IsPathBelow
    <2>5. CASE b = Genesis
      BY <2>4, <2>5
    <2>6. CASE b # Genesis
      <3>1. Parent[b] \in Block /\ Work[Parent[b]] < m
        BY <2>1, <2>3, <2>6, ParentIsBelow
      <3> QED BY <2>2, <2>4, <2>6, <3>1
    <2> QED BY <2>5, <2>6
  <1> HIDE DEF S
  <1>3. Nat \subseteq S
    BY <1>1, <1>2, SetInduction
  <1> QED BY <1>3 DEF S

LEMMA PathDefined ==
  \A b \in Block : PathTo[b] = IF b = Genesis THEN <<b>> ELSE Append(PathTo[Parent[b]], b)
  <1> DEFINE G(n) == CHOOSE g : IsPathBelow(g, n)
             f == [b \in Block |-> G(Work[b] + 1)[b]]
             IsPaths(h) == h = [b \in Block |-> IF b = Genesis THEN <<b>> ELSE Append(h[Parent[b]], b)]
  <1>1. \A n \in Nat : IsPathBelow(G(n), n)
    BY PathsExist
  <1>2. ASSUME NEW b \in Block
        PROVE  f[b] = IF b = Genesis THEN <<b>> ELSE Append(f[Parent[b]], b)
    <2>1. Work[b] \in Nat /\ Work[b] + 1 \in Nat
      BY BlockAssumption
    <2>2. IsPathBelow(G(Work[b] + 1), Work[b] + 1)
      BY <1>1, <2>1
    <2> HIDE DEF G
    <2>3. f[b] = IF b = Genesis THEN <<b>> ELSE Append(G(Work[b] + 1)[Parent[b]], b)
      BY <2>1, <2>2 DEF IsPathBelow
    <2>4. CASE b = Genesis
      BY <2>3, <2>4
    <2>5. CASE b # Genesis
      <3> DEFINE p == Parent[b]
      <3>1. p \in Block /\ Work[p] \in Nat /\ Work[p] < Work[b]
        BY <2>5, ParentIsBelow
      <3> HIDE DEF p
      <3>2. Work[p] + 1 \in Nat /\ IsPathBelow(G(Work[p] + 1), Work[p] + 1)
        BY <1>1, <3>1
      <3>3. IsPathBelow(G(Work[b] + 1), Work[p] + 1)
        <4>1. \A a \in Block : Work[a] < Work[p] + 1 => Work[a] < Work[b] + 1
          BY <2>1, <3>1, BlockAssumption
        <4> QED BY <2>2, <4>1 DEF IsPathBelow
      <3>4. \A a \in Block : Work[a] < Work[p] + 1 => G(Work[b] + 1)[a] = G(Work[p] + 1)[a]
        BY <3>2, <3>3, PathsUnique
      <3>5. G(Work[b] + 1)[p] = f[p]
        BY <3>1, <3>4
      <3> QED BY <2>3, <2>5, <3>5 DEF p
    <2> QED BY <2>4, <2>5
  <1>3. f = [b \in Block |-> f[b]]
    OBVIOUS
  <1> HIDE DEF f
  <1>4. IsPaths(f)
    BY <1>2, <1>3
  <1> DEFINE paths == CHOOSE h : IsPaths(h)
  <1>5. IsPaths(paths)
    BY <1>4
  <1>6. PathTo = paths
    BY DEF PathTo
  <1> HIDE DEF paths
  <1>7. \A b \in Block : paths[b] = IF b = Genesis THEN <<b>> ELSE Append(paths[Parent[b]], b)
    BY <1>5
  <1> QED BY <1>6, <1>7

-----------------------------------------------------------------------------
(* What a path is: it leads from the genesis block to its block through    *)
(* blocks of growing work, and its beginnings are the paths to the blocks  *)
(* on it.                                                                  *)
LEMMA SameSeq ==
  ASSUME NEW S, NEW s \in Seq(S), NEW t \in Seq(S), Len(s) = Len(t),
         \A i \in 1 .. Len(s) : s[i] = t[i]
  PROVE  s = t
  <1>1. Len(s) \in Nat /\ s = [i \in 1 .. Len(s) |-> s[i]] /\ t = [i \in 1 .. Len(t) |-> t[i]]
    OBVIOUS
  <1> QED BY <1>1

(* The first i elements of a sequence.                                     *)
LEMMA PrefixOf ==
  ASSUME NEW S, NEW s \in Seq(S), NEW i \in 0 .. Len(s)
  PROVE  /\ SubSeq(s, 1, i) \in Seq(S) /\ Len(SubSeq(s, 1, i)) = i
         /\ \A j \in 1 .. i : SubSeq(s, 1, i)[j] = s[j]
  <1>1. 1 \in Int /\ i \in Int /\ \A j \in 1 .. i : s[j] \in S
    OBVIOUS
  <1>2. /\ SubSeq(s, 1, i) \in Seq(S)
        /\ Len(SubSeq(s, 1, i)) = IF 1 <= i THEN i - 1 + 1 ELSE 0
        /\ \A j \in 1 .. i - 1 + 1 : SubSeq(s, 1, i)[j] = s[1 + j - 1]
    BY <1>1, SubSeqProperties
  <1>3. \A j \in 1 .. i : SubSeq(s, 1, i)[j] = s[j]
    BY <1>2
  <1> QED BY <1>2, <1>3

IsPathTo(b, path) ==
  /\ path \in Seq(Block) /\ Len(path) \in Nat \ {0}
  /\ path[Len(path)] = b /\ path[1] = Genesis
  /\ \A i \in 1 .. Len(path) - 1 : Work[path[i]] < Work[b]
  /\ \A i \in 1 .. Len(path) : PathTo[path[i]] = SubSeq(path, 1, i)

LEMMA PathOfGenesis == IsPathTo(Genesis, PathTo[Genesis])
  <1>1. PathTo[Genesis] = <<Genesis>> /\ Genesis \in Block
    BY PathDefined, BlockAssumption
  <1>2. <<Genesis>> \in Seq(Block) /\ Len(<<Genesis>>) = 1 /\ <<Genesis>>[1] = Genesis
    BY <1>1
  <1>3. /\ SubSeq(<<Genesis>>, 1, 1) \in Seq(Block) /\ Len(SubSeq(<<Genesis>>, 1, 1)) = 1
        /\ \A j \in 1 .. 1 : SubSeq(<<Genesis>>, 1, 1)[j] = <<Genesis>>[j]
    BY <1>2, PrefixOf
  <1>4. SubSeq(<<Genesis>>, 1, 1) = <<Genesis>>
    BY <1>2, <1>3, SameSeq
  <1> DEFINE p == PathTo[Genesis]
  <1>5. p \in Seq(Block) /\ Len(p) = 1 /\ p[1] = Genesis /\ PathTo[p[1]] = SubSeq(p, 1, 1)
    BY <1>1, <1>2, <1>4
  <1> HIDE DEF p
  <1>6. IsPathTo(Genesis, p)
    <2>1. \A i \in 1 .. Len(p) : i = 1
      BY <1>5
    <2>2. \A i \in 1 .. Len(p) - 1 : FALSE
      BY <1>5
    <2> QED BY <1>5, <2>1, <2>2 DEF IsPathTo
  <1> QED BY <1>6 DEF p

LEMMA PathOfChild ==
  ASSUME NEW b \in Block, b # Genesis, IsPathTo(Parent[b], PathTo[Parent[b]])
  PROVE  IsPathTo(b, PathTo[b])
  <1> DEFINE p == PathTo[Parent[b]]
             q == PathTo[b]
  <1>1. q = Append(p, b)
    BY PathDefined
  <1>2. Parent[b] \in Block /\ Work[b] \in Nat /\ Work[Parent[b]] \in Nat /\ Work[Parent[b]] < Work[b]
    BY ParentIsBelow
  <1>3. /\ p \in Seq(Block) /\ Len(p) \in Nat \ {0} /\ p[Len(p)] = Parent[b] /\ p[1] = Genesis
        /\ \A i \in 1 .. Len(p) - 1 : Work[p[i]] < Work[Parent[b]]
        /\ \A i \in 1 .. Len(p) : PathTo[p[i]] = SubSeq(p, 1, i)
    BY DEF IsPathTo
  <1> HIDE DEF p, q
  <1>4. /\ q \in Seq(Block) /\ Len(q) = Len(p) + 1
        /\ \A i \in 1 .. Len(p) : q[i] = p[i]
        /\ q[Len(p) + 1] = b
    BY <1>1, <1>3, AppendProperties
  <1>5. q[Len(q)] = b /\ q[1] = Genesis /\ Len(q) \in Nat \ {0}
    BY <1>3, <1>4
  <1>6. ASSUME NEW i \in 1 .. Len(q) - 1 PROVE Work[q[i]] < Work[b]
    <2>1. i \in 1 .. Len(p) /\ q[i] = p[i] /\ p[i] \in Block
      BY <1>3, <1>4
    <2>2. Work[p[i]] \in Nat
      BY <2>1, BlockAssumption
    <2>3. CASE i = Len(p)
      BY <1>2, <1>3, <2>1, <2>3
    <2>4. CASE i # Len(p)
      <3>1. Work[p[i]] < Work[Parent[b]]
        BY <1>3, <2>1, <2>4
      <3> QED BY <1>2, <2>1, <2>2, <3>1
    <2> QED BY <2>3, <2>4
  <1>7. ASSUME NEW i \in 1 .. Len(q) PROVE PathTo[q[i]] = SubSeq(q, 1, i)
    <2>1. i \in 0 .. Len(q)
      OBVIOUS
    <2>2. /\ SubSeq(q, 1, i) \in Seq(Block) /\ Len(SubSeq(q, 1, i)) = i
          /\ \A j \in 1 .. i : SubSeq(q, 1, i)[j] = q[j]
      BY <1>4, <2>1, PrefixOf
    <2>3. CASE i = Len(q)
      <3>1. SubSeq(q, 1, i) = q
        BY <1>4, <2>2, <2>3, SameSeq
      <3>2. PathTo[q[i]] = q
        BY <1>5, <2>3 DEF q
      <3> QED BY <3>1, <3>2
    <2>4. CASE i # Len(q)
      <3>1. i \in 1 .. Len(p) /\ i \in 0 .. Len(p) /\ q[i] = p[i]
        BY <1>3, <1>4, <2>4
      <3>2. /\ SubSeq(p, 1, i) \in Seq(Block) /\ Len(SubSeq(p, 1, i)) = i
            /\ \A j \in 1 .. i : SubSeq(p, 1, i)[j] = p[j]
        BY <1>3, <3>1, PrefixOf
      <3>3. \A j \in 1 .. i : p[j] = q[j]
        BY <1>3, <1>4, <3>1
      <3>4. SubSeq(q, 1, i) = SubSeq(p, 1, i)
        BY <2>2, <3>2, <3>3, SameSeq
      <3> QED BY <1>3, <3>1, <3>4
    <2> QED BY <2>3, <2>4
  <1>8. IsPathTo(b, q)
    BY <1>4, <1>5, <1>6, <1>7 DEF IsPathTo
  <1> QED BY <1>8 DEF q

LEMMA PathFacts == \A b \in Block : IsPathTo(b, PathTo[b])
  <1> DEFINE S == {n \in Nat : \A b \in Block : Work[b] < n => IsPathTo(b, PathTo[b])}
  <1>1. 0 \in S
    BY BlockAssumption
  <1>2. ASSUME NEW n \in Nat, n \in S PROVE n + 1 \in S
    <2>1. SUFFICES ASSUME NEW b \in Block, Work[b] < n + 1 PROVE IsPathTo(b, PathTo[b])
      OBVIOUS
    <2>2. \A a \in Block : Work[a] < n => IsPathTo(a, PathTo[a])
      BY <1>2
    <2>3. CASE b = Genesis
      BY <2>3, PathOfGenesis
    <2>4. CASE b # Genesis
      <3>1. Parent[b] \in Block /\ Work[Parent[b]] < n
        BY <2>1, <2>4, ParentIsBelow
      <3>2. IsPathTo(Parent[b], PathTo[Parent[b]])
        BY <2>2, <3>1
      <3> QED BY <2>4, <3>2, PathOfChild
    <2> QED BY <2>3, <2>4
  <1> HIDE DEF S
  <1>3. Nat \subseteq S
    BY <1>1, <1>2, SetInduction
  <1>4. ASSUME NEW b \in Block PROVE IsPathTo(b, PathTo[b])
    <2>1. Work[b] \in Nat /\ Work[b] + 1 \in Nat /\ Work[b] < Work[b] + 1
      BY BlockAssumption
    <2>2. Work[b] + 1 \in S
      BY <1>3, <2>1
    <2> QED BY <2>1, <2>2 DEF S
  <1> QED BY <1>4

(* The position of a block on a path is its height, and a path of one      *)
(* block is that of the genesis block.                                     *)
LEMMA PathHeights ==
  ASSUME NEW b \in Block
  PROVE  /\ PathTo[b] \in Seq(Block) /\ Len(PathTo[b]) \in Nat \ {0}
         /\ PathTo[b][Len(PathTo[b])] = b /\ PathTo[b][1] = Genesis
         /\ \A i \in 1 .. Len(PathTo[b]) :
              PathTo[b][i] \in Block /\ Len(PathTo[PathTo[b][i]]) = i
         /\ Len(PathTo[b]) = 1 => b = Genesis
  <1>1. IsPathTo(b, PathTo[b])
    BY PathFacts
  <1>2. /\ PathTo[b] \in Seq(Block) /\ Len(PathTo[b]) \in Nat \ {0}
        /\ PathTo[b][Len(PathTo[b])] = b /\ PathTo[b][1] = Genesis
    BY <1>1 DEF IsPathTo
  <1>3. ASSUME NEW i \in 1 .. Len(PathTo[b])
        PROVE  PathTo[b][i] \in Block /\ Len(PathTo[PathTo[b][i]]) = i
    <2>1. PathTo[PathTo[b][i]] = SubSeq(PathTo[b], 1, i)
      BY <1>1 DEF IsPathTo
    <2>2. i \in 0 .. Len(PathTo[b])
      BY <1>2
    <2>3. Len(SubSeq(PathTo[b], 1, i)) = i
      BY <1>2, <2>2, PrefixOf
    <2> QED BY <1>2, <2>1, <2>3
  <1> QED BY <1>2, <1>3

(* Two paths that meet are the same up to there.                           *)
LEMMA PathsMeet ==
  ASSUME NEW a \in Block, NEW b \in Block, NEW i \in 1 .. Len(PathTo[a]), i <= Len(PathTo[b]),
         PathTo[a][i] = PathTo[b][i]
  PROVE  SubSeq(PathTo[a], 1, i) = SubSeq(PathTo[b], 1, i)
         /\ \A j \in 1 .. i : PathTo[a][j] = PathTo[b][j]
  <1>1. i \in 1 .. Len(PathTo[b])
    BY PathHeights
  <1>2. SubSeq(PathTo[a], 1, i) = SubSeq(PathTo[b], 1, i)
    BY <1>1, PathFacts DEF IsPathTo
  <1>3. i \in 0 .. Len(PathTo[a]) /\ i \in 0 .. Len(PathTo[b])
    BY <1>1, PathHeights
  <1>4. /\ \A j \in 1 .. i : SubSeq(PathTo[a], 1, i)[j] = PathTo[a][j]
        /\ \A j \in 1 .. i : SubSeq(PathTo[b], 1, i)[j] = PathTo[b][j]
    BY <1>3, PathHeights, PrefixOf
  <1> QED BY <1>2, <1>4

-----------------------------------------------------------------------------
(* An interval that the node sends is the end of the path to its last      *)
(* block q, from a position on.                                            *)
IsInterval(j, q) ==
  /\ q \in Block /\ j.start \in 1 .. Len(PathTo[q])
  /\ j.blocks = SubSeq(PathTo[q], j.start, Len(PathTo[q]))

LEMMA IntervalBlocks ==
  ASSUME NEW j, NEW q, IsInterval(j, q)
  PROVE  /\ j.blocks \in Seq(Block) /\ Len(j.blocks) = Len(PathTo[q]) - j.start + 1
         /\ \A i \in j.start .. Len(PathTo[q]) : j.blocks[i - j.start + 1] = PathTo[q][i]
         /\ Last(j.blocks) = q
  <1> DEFINE e == Len(PathTo[q])
             a == j.start
  <1>1. q \in Block /\ a \in 1 .. e /\ j.blocks = SubSeq(PathTo[q], a, e) /\ e \in Nat \ {0}
    BY PathHeights DEF IsInterval
  <1>2. PathTo[q] \in Seq(Block) /\ PathTo[q][e] = q
    BY <1>1, PathHeights
  <1>3. a \in Int /\ e \in Int /\ \A i \in a .. e : PathTo[q][i] \in Block
    BY <1>1, <1>2
  <1> HIDE DEF a, e
  <1>4. /\ j.blocks \in Seq(Block) /\ Len(j.blocks) = IF a <= e THEN e - a + 1 ELSE 0
        /\ \A i \in 1 .. e - a + 1 : j.blocks[i] = PathTo[q][a + i - 1]
    BY <1>1, <1>3, SubSeqProperties
  <1>5. Len(j.blocks) = e - a + 1
    BY <1>1, <1>4
  <1>6. ASSUME NEW i \in a .. e PROVE j.blocks[i - a + 1] = PathTo[q][i]
    <2>1. i - a + 1 \in 1 .. e - a + 1 /\ a + (i - a + 1) - 1 = i
      BY <1>1
    <2> QED BY <1>4, <2>1
  <1>7. Last(j.blocks) = j.blocks[e - a + 1] /\ e \in a .. e
    BY <1>1, <1>5 DEF Last
  <1>8. Last(j.blocks) = q
    BY <1>2, <1>6, <1>7
  <1> QED BY <1>4, <1>5, <1>6, <1>8 DEF a, e

(* A chain in which every block stands at its height.                      *)
HasHeights(s) ==
  /\ s \in Seq(Block) /\ Len(s) \in Nat \ {0}
  /\ \A i \in 1 .. Len(s) : Len(PathTo[s[i]]) = i

LEMMA HeightsBegin ==
  ASSUME NEW s, HasHeights(s)
  PROVE  s[1] = Genesis
  <1>1. /\ s \in Seq(Block) /\ Len(s) \in Nat \ {0}
        /\ \A i \in 1 .. Len(s) : Len(PathTo[s[i]]) = i
    BY DEF HasHeights
  <1>2. 1 \in 1 .. Len(s)
    BY <1>1
  <1>3. s[1] \in Block
    BY <1>1, <1>2
  <1>4. Len(PathTo[s[1]]) = 1
    BY <1>1, <1>2, Zenon
  <1> QED BY <1>3, <1>4, PathHeights

(* checkInterval: where an interval that begins within the chain leaves    *)
(* it.                                                                     *)
LEMMA Position ==
  ASSUME NEW s, NEW j, NEW q, HasHeights(s), IsInterval(j, q), j.start <= Len(s)
  PROVE  /\ NewBlockPosition(s, j) \in 2 .. Len(s) + 1
         /\ NewBlockPosition(s, j) >= j.start
         /\ \A i \in j.start .. NewBlockPosition(s, j) - 1 :
              i <= Len(PathTo[q]) => s[i] = PathTo[q][i]
         /\ NewBlockPosition(s, j) = j.start => s[j.start] # PathTo[q][j.start]
         /\ HasNewBlocks(s, j) <=> NewBlockPosition(s, j) <= Len(PathTo[q])
         /\ ~HasNewBlocks(s, j) => NewBlockPosition(s, j) = Len(s) + 1
  <1> DEFINE e == Len(PathTo[q])
             a == j.start
             p == NewBlockPosition(s, j)
             M == Mismatches(s, j)
  <1>1. /\ q \in Block /\ a \in 1 .. e /\ e \in Nat \ {0} /\ Len(s) \in Nat \ {0}
        /\ PathTo[q][1] = Genesis /\ s[1] = Genesis
    BY PathHeights, HeightsBegin DEF IsInterval, HasHeights
  <1>2. Len(j.blocks) = e - a + 1 /\ \A i \in a .. e : j.blocks[i - a + 1] = PathTo[q][i]
    BY IntervalBlocks
  <1>3. a <= Len(s)
    OBVIOUS
  <1>4. M = {i \in a .. Min({Len(s), a + Len(j.blocks) - 1}) : s[i] # j.blocks[i - a + 1]}
    BY DEF Mismatches
  <1>5. p = IF M # {} THEN Min(M) ELSE Len(s) + 1
    BY DEF NewBlockPosition
  <1>6. HasNewBlocks(s, j) <=> p < a + Len(j.blocks)
    BY DEF HasNewBlocks
  <1> HIDE DEF e, a, p, M
  <1>7. a + Len(j.blocks) = e + 1 /\ a + Len(j.blocks) - 1 = e
    BY <1>1, <1>2
  <1>8. Min({Len(s), a + Len(j.blocks) - 1}) = IF Len(s) <= e THEN Len(s) ELSE e
    BY <1>1, <1>7, MinOfTwo
  <1>9. \A i : i \in M <=> i \in a .. e /\ i <= Len(s) /\ s[i] # PathTo[q][i]
    <2> TAKE i
    <2>1. i \in M <=> i \in a .. (IF Len(s) <= e THEN Len(s) ELSE e) /\ s[i] # j.blocks[i - a + 1]
      BY <1>4, <1>8
    <2>2. i \in a .. (IF Len(s) <= e THEN Len(s) ELSE e) <=> i \in a .. e /\ i <= Len(s)
      BY <1>1
    <2> QED BY <1>2, <2>1, <2>2
  <1>10. M \in SUBSET Nat
    BY <1>1, <1>9
  <1>11. CASE M = {}
    <2>1. p = Len(s) + 1
      BY <1>5, <1>11
    <2>2. \A i \in a .. p - 1 : i <= e => s[i] = PathTo[q][i]
      BY <1>1, <1>9, <1>11, <2>1
    <2>3. p \in 2 .. Len(s) + 1 /\ p > a
      BY <1>1, <1>3, <2>1
    <2> QED BY <1>1, <1>6, <1>7, <2>1, <2>2, <2>3 DEF a, p, e
  <1>12. CASE M # {}
    <2>1. p \in M /\ \A i \in M : p <= i
      BY <1>5, <1>10, <1>12, MinIsLeast
    <2>2. p \in a .. e /\ p <= Len(s) /\ s[p] # PathTo[q][p]
      BY <1>9, <2>1
    <2>3. p # 1
      BY <1>1, <2>2
    <2>4. \A i \in a .. p - 1 : i <= e => s[i] = PathTo[q][i]
      <3> SUFFICES ASSUME NEW i \in a .. p - 1, i <= e, s[i] # PathTo[q][i] PROVE FALSE
        OBVIOUS
      <3>1. i \in M /\ i < p
        BY <1>1, <1>9, <2>2
      <3> QED BY <1>1, <2>1, <2>2, <3>1
    <2>5. p \in 2 .. Len(s) + 1 /\ p >= a /\ p <= e
      BY <1>1, <2>2, <2>3
    <2> QED BY <1>1, <1>6, <1>7, <2>2, <2>4, <2>5 DEF a, p, e
  <1> QED BY <1>11, <1>12

(* detach and addBlocks keep every block at its height.                    *)
LEMMA DetachKeepsHeights ==
  ASSUME NEW s, NEW j, NEW q, HasHeights(s), IsInterval(j, q), j.start <= Len(s)
  PROVE  /\ HasHeights(Detach(s, j)) /\ Len(Detach(s, j)) = NewBlockPosition(s, j) - 1
         /\ \A i \in 1 .. NewBlockPosition(s, j) - 1 : Detach(s, j)[i] = s[i]
  <1> DEFINE p == NewBlockPosition(s, j)
             d == Detach(s, j)
  <1>1. p \in 2 .. Len(s) + 1
    BY Position
  <1>2. s \in Seq(Block) /\ Len(s) \in Nat /\ \A i \in 1 .. Len(s) : Len(PathTo[s[i]]) = i
    BY DEF HasHeights
  <1>3. d = SubSeq(s, 1, p - 1)
    BY DEF Detach
  <1> HIDE DEF p, d
  <1>4. p - 1 \in 0 .. Len(s) /\ p - 1 \in Nat \ {0}
    BY <1>1, <1>2
  <1>5. d \in Seq(Block) /\ Len(d) = p - 1 /\ \A i \in 1 .. p - 1 : d[i] = s[i]
    BY <1>2, <1>3, <1>4, PrefixOf
  <1>6. \A i \in 1 .. Len(d) : Len(PathTo[d[i]]) = i
    BY <1>2, <1>4, <1>5
  <1> QED BY <1>4, <1>5, <1>6 DEF HasHeights, p, d

LEMMA AddBlocksShape ==
  ASSUME NEW s, NEW j, NEW q, HasHeights(s), IsInterval(j, q), j.start <= Len(s),
         HasNewBlocks(s, j)
  PROVE  /\ AddBlocks(s, j) \in Seq(Block) /\ Len(AddBlocks(s, j)) = Len(PathTo[q])
         /\ \A i \in 1 .. Len(PathTo[q]) : AddBlocks(s, j)[i] =
              IF i < NewBlockPosition(s, j) THEN s[i] ELSE PathTo[q][i]
  <1> DEFINE e == Len(PathTo[q])
             a == j.start
             p == NewBlockPosition(s, j)
             d == Detach(s, j)
             t == SubSeq(j.blocks, p - a + 1, Len(j.blocks))
             r == AddBlocks(s, j)
  <1>1. /\ a \in 1 .. e /\ e \in Nat \ {0} /\ p \in 2 .. Len(s) + 1 /\ p >= a /\ p <= e
        /\ Len(s) \in Nat
    BY Position, PathHeights DEF IsInterval, HasHeights
  <1>2. d \in Seq(Block) /\ Len(d) = p - 1 /\ \A i \in 1 .. p - 1 : d[i] = s[i]
    BY DetachKeepsHeights DEF HasHeights
  <1>3. /\ j.blocks \in Seq(Block) /\ Len(j.blocks) = e - a + 1
        /\ \A i \in a .. e : j.blocks[i - a + 1] = PathTo[q][i]
    BY IntervalBlocks
  <1>4. r = d \o t
    BY DEF AddBlocks
  <1>5. t = SubSeq(j.blocks, p - a + 1, e - a + 1)
    BY <1>3
  <1> HIDE DEF e, a, p, d, t, r
  <1> DEFINE m == p - a + 1
             n == e - a + 1
  <1>6. m \in Int /\ n \in Int /\ m >= 1 /\ m <= n
    BY <1>1
  <1>7. t = SubSeq(j.blocks, m, n) /\ Len(j.blocks) = n
    BY <1>3, <1>5
  <1> HIDE DEF m, n
  <1>8. \A i \in m .. n : j.blocks[i] \in Block
    BY <1>3, <1>6, <1>7
  <1>9. /\ t \in Seq(Block) /\ Len(t) = IF m <= n THEN n - m + 1 ELSE 0
        /\ \A i \in 1 .. n - m + 1 : t[i] = j.blocks[m + i - 1]
    BY <1>6, <1>7, <1>8, SubSeqProperties
  <1>10. Len(t) = e - p + 1 /\ n - m + 1 = e - p + 1
    BY <1>1, <1>6, <1>9 DEF m, n
  <1>11. ASSUME NEW i \in 1 .. e - p + 1 PROVE t[i] = PathTo[q][p + i - 1]
    <2>1. i \in 1 .. n - m + 1
      BY <1>10
    <2>2. t[i] = j.blocks[m + i - 1]
      BY <1>9, <2>1
    <2> DEFINE k == p + i - 1
    <2>3. k \in a .. e /\ m + i - 1 = k - a + 1
      BY <1>1 DEF m
    <2> HIDE DEF k
    <2>4. j.blocks[k - a + 1] = PathTo[q][k]
      BY <1>3, <2>3
    <2> QED BY <2>2, <2>3, <2>4 DEF k
  <1>12. /\ r \in Seq(Block) /\ Len(r) = Len(d) + Len(t)
         /\ \A i \in 1 .. Len(d) + Len(t) : r[i] = IF i <= Len(d) THEN d[i] ELSE t[i - Len(d)]
    BY <1>2, <1>4, <1>9, ConcatProperties
  <1>13. Len(r) = e
    BY <1>1, <1>2, <1>10, <1>12
  <1>14. ASSUME NEW i \in 1 .. e PROVE r[i] = IF i < p THEN s[i] ELSE PathTo[q][i]
    <2>1. i \in 1 .. Len(d) + Len(t)
      BY <1>1, <1>2, <1>10
    <2>2. CASE i < p
      <3>1. i <= Len(d) /\ i \in 1 .. p - 1
        BY <1>1, <1>2, <2>2
      <3> QED BY <1>2, <1>12, <2>1, <2>2, <3>1
    <2>3. CASE ~ (i < p)
      <3>1. ~ (i <= Len(d)) /\ i - Len(d) = i - p + 1 /\ i - p + 1 \in 1 .. e - p + 1
            /\ p + (i - p + 1) - 1 = i
        BY <1>1, <1>2, <2>3
      <3>2. r[i] = t[i - p + 1]
        BY <1>12, <2>1, <3>1
      <3>3. t[i - p + 1] = PathTo[q][p + (i - p + 1) - 1]
        BY <1>11, <3>1
      <3> QED BY <2>3, <3>1, <3>2, <3>3
    <2> QED BY <2>2, <2>3
  <1> QED BY <1>12, <1>13, <1>14 DEF e, p, r

LEMMA AddBlocksKeepsHeights ==
  ASSUME NEW s, NEW j, NEW q, HasHeights(s), IsInterval(j, q), j.start <= Len(s)
  PROVE  HasHeights(AddBlocks(s, j))
  <1>1. CASE ~HasNewBlocks(s, j)
    BY <1>1 DEF AddBlocks
  <1>2. CASE HasNewBlocks(s, j)
    <2> DEFINE e == Len(PathTo[q])
               r == AddBlocks(s, j)
               p == NewBlockPosition(s, j)
    <2>1. r \in Seq(Block) /\ Len(r) = e /\ \A i \in 1 .. e : r[i] = IF i < p THEN s[i] ELSE PathTo[q][i]
      BY <1>2, AddBlocksShape
    <2>2. q \in Block /\ e \in Nat \ {0} /\ p \in 2 .. Len(s) + 1 /\ Len(s) \in Nat
      BY Position, PathHeights DEF IsInterval, HasHeights
    <2>3. \A i \in 1 .. e : Len(PathTo[PathTo[q][i]]) = i
      BY <2>2, PathHeights
    <2>4. \A i \in 1 .. Len(s) : Len(PathTo[s[i]]) = i
      BY DEF HasHeights
    <2> HIDE DEF e, r, p
    <2>5. \A i \in 1 .. e : Len(PathTo[r[i]]) = i
      <3> TAKE i \in 1 .. e
      <3>1. CASE i < p
        <4>1. i \in 1 .. Len(s)
          BY <2>2, <3>1
        <4> QED BY <2>1, <2>4, <3>1, <4>1
      <3>2. CASE ~ (i < p)
        BY <2>1, <2>3, <3>2
      <3> QED BY <3>1, <3>2
    <2>6. HasHeights(r)
      BY <2>1, <2>2, <2>5 DEF HasHeights
    <2> QED BY <2>6 DEF r
  <1> QED BY <1>1, <1>2

-----------------------------------------------------------------------------
(* The worker and the user: while the worker runs there are consumers, and *)
(* a stop has been asked for only by a user who waits for the worker.      *)
RunInv ==
  /\ m_futureState \in {idle, poolSync, blockchainSync, stopped}
  /\ m_consumers \subseteq Consumer
  /\ nodeTail \in Block
  /\ m_addTransactionTasks \in Seq(Tx)
  /\ pc \notin {"none", "ended"} =>
       m_consumers # {} /\ (m_futureState = stopped => userPc = "joining")
  /\ pc = "ended" => userPc = "joining"

StopKept == m_futureState = stopped /\ m_futureState' # stopped => pc = "none"

AddKept == Len(m_addTransactionTasks') < Len(m_addTransactionTasks) /\ reply' = "error" =>
             \A c \in Consumer : unconfirmed'[c] \subseteq unconfirmed[c]

(* What most steps leave alone: the consumers, their chains, and the       *)
(* answer of the node that the worker is about to give them.               *)
SyncPcs == {"queryBlocks", "processBlocks", "updateConsumers"}
ChainsKept ==
  /\ m_consumers' = m_consumers /\ m_blockchain' = m_blockchain
  /\ pc' \in SyncPcs => pc' = pc /\ job' = job

(* The user's and the node's steps.                                        *)
LEMMA OutsideStep ==
  ASSUME RunInv, User \/ Node \/ Announcements
  PROVE  /\ RunInv' /\ StopKept /\ AddKept
         /\ \/ ChainsKept
            \/ /\ pc = "none"
               /\ \E c \in Consumer : AddConsumer(c) \/ RemoveConsumer(c)
  <1> USE DEF RunInv, StopKept, AddKept, ChainsKept, SyncPcs, userVars, dataVars, taskVars, nodeVars,
              idle, poolSync, blockchainSync, stopped, IsStopped, SetFutureState
  <1>1. ASSUME NEW c \in Consumer, AddConsumer(c) \/ RemoveConsumer(c)
        PROVE  /\ RunInv' /\ StopKept /\ AddKept
               /\ pc = "none" /\ \E d \in Consumer : AddConsumer(d) \/ RemoveConsumer(d)
    <2>1. userPc = "ready" /\ m_futureState = stopped
      BY <1>1 DEF AddConsumer, RemoveConsumer
    <2>2. pc = "none"
      BY <2>1
    <2>3. ASSUME AddConsumer(c) PROVE RunInv' /\ StopKept /\ AddKept
      BY <2>2, <2>3 DEF AddConsumer
    <2>4. ASSUME RemoveConsumer(c) PROVE RunInv' /\ StopKept /\ AddKept
      BY <2>2, <2>4 DEF RemoveConsumer
    <2> HIDE DEF RunInv, StopKept, AddKept
    <2> QED BY <1>1, <2>2, <2>3, <2>4
  <1>2. ASSUME Start PROVE RunInv' /\ StopKept /\ AddKept /\ ChainsKept
    BY <1>2 DEF Start
  <1>3. ASSUME Stop PROVE RunInv' /\ StopKept /\ AddKept /\ ChainsKept
    BY <1>3 DEF Stop
  <1>4. ASSUME Join PROVE RunInv' /\ StopKept /\ AddKept /\ ChainsKept
    BY <1>4 DEF Join
  <1>5. ASSUME NEW t \in Tx, AddUnconfirmedTransaction(t)
        PROVE  RunInv' /\ StopKept /\ AddKept /\ ChainsKept
    <2>1. m_addTransactionTasks' = Append(m_addTransactionTasks, t)
      BY <1>5 DEF AddUnconfirmedTransaction
    <2>2. m_addTransactionTasks' \in Seq(Tx)
          /\ Len(m_addTransactionTasks') = Len(m_addTransactionTasks) + 1
      BY <2>1, AppendProperties
    <2>3. ~ (Len(m_addTransactionTasks') < Len(m_addTransactionTasks))
      BY <2>2
    <2>4. /\ pc' = pc /\ userPc' = userPc /\ m_futureState' = m_futureState /\ job' = job
          /\ m_consumers' = m_consumers /\ m_blockchain' = m_blockchain /\ nodeTail' = nodeTail
      BY <1>5 DEF AddUnconfirmedTransaction
    <2> QED BY <2>2, <2>3, <2>4
  <1>6. ASSUME NEW t \in Tx, RemoveUnconfirmedTransaction(t)
        PROVE  RunInv' /\ StopKept /\ AddKept /\ ChainsKept
    BY <1>6 DEF RemoveUnconfirmedTransaction
  <1>7. ASSUME GetConsumerState PROVE RunInv' /\ StopKept /\ AddKept /\ ChainsKept
    BY <1>7 DEF GetConsumerState
  <1>8. ASSUME ReturnConsumerState PROVE RunInv' /\ StopKept /\ AddKept /\ ChainsKept
    BY <1>8 DEF ReturnConsumerState
  <1>9. ASSUME NEW b \in Block, BlockchainChanges(b)
        PROVE  RunInv' /\ StopKept /\ AddKept /\ ChainsKept
    BY <1>9 DEF BlockchainChanges
  <1>10. ASSUME LastKnownHeightChanges PROVE RunInv' /\ StopKept /\ AddKept /\ ChainsKept
    BY <1>10 DEF LastKnownHeightChanges
  <1>11. ASSUME NEW t \in Tx, PoolChanges(t)
        PROVE  RunInv' /\ StopKept /\ AddKept /\ ChainsKept
    BY <1>11 DEF PoolChanges
  <1>12. ASSUME NEW e \in {"blockchain", "pool"}, Announce(e)
        PROVE  RunInv' /\ StopKept /\ AddKept /\ ChainsKept
    BY <1>12 DEF Announce
  <1>13. ASSUME NEW e \in {"blockchain", "pool"}, Notified(e)
        PROVE  RunInv' /\ StopKept /\ AddKept /\ ChainsKept
    BY <1>13 DEF Notified
  <1> HIDE DEF RunInv, StopKept, AddKept, ChainsKept
  <1> DEFINE Changes == \E c \in Consumer : AddConsumer(c) \/ RemoveConsumer(c)
             Kept == RunInv' /\ StopKept /\ AddKept /\ ChainsKept
  <1>14. ASSUME User PROVE Kept \/ Changes
    BY <1>2, <1>3, <1>4, <1>5, <1>6, <1>7, <1>8, <1>14 DEF User
  <1>15. ASSUME Node PROVE Kept
    BY <1>9, <1>10, <1>11, <1>15 DEF Node
  <1>16. ASSUME Announcements PROVE Kept
    BY <1>12, <1>13, <1>16 DEF Announcements
  <1>17. CASE Changes
    <2>1. PICK c \in Consumer : AddConsumer(c) \/ RemoveConsumer(c)
      BY <1>17
    <2>2. RunInv' /\ StopKept /\ AddKept /\ pc = "none"
      BY <1>1, <2>1
    <2> QED BY <1>17, <2>2
  <1>18. CASE Kept
    BY <1>18
  <1> QED BY <1>14, <1>15, <1>16, <1>17, <1>18

(* The worker's steps.                                                     *)
LEMMA WorkerStep ==
  ASSUME RunInv, Worker
  PROVE  /\ RunInv' /\ StopKept /\ AddKept
         /\ \/ ChainsKept
            \/ StartBlockchainSync \/ QueryBlocks \/ ProcessBlocks \/ UpdateConsumers
  <1> USE DEF RunInv, StopKept, AddKept, ChainsKept, SyncPcs, userVars, dataVars, taskVars, nodeVars,
              syncFrame, At, Goto, idle, poolSync, blockchainSync, stopped, SetFutureState,
              IdleUnlessStopped
  <1>1. ASSUME CheckIfShouldStop PROVE RunInv' /\ StopKept /\ AddKept /\ ChainsKept
    BY <1>1 DEF CheckIfShouldStop
  <1>2. ASSUME ActualizeFutureState PROVE RunInv' /\ StopKept /\ AddKept /\ ChainsKept
    BY <1>2 DEF ActualizeFutureState
  <1>3. ASSUME DoRemoveUnconfirmedTransaction PROVE RunInv' /\ StopKept /\ AddKept /\ ChainsKept
    BY <1>3 DEF DoRemoveUnconfirmedTransaction
  <1>4. ASSUME DoAddUnconfirmedTransaction PROVE RunInv' /\ StopKept /\ AddKept /\ ChainsKept
    <2>1. /\ m_addTransactionTasks # <<>> /\ m_addTransactionTasks' = Tail(m_addTransactionTasks)
          /\ pc' = pc /\ userPc' = userPc /\ m_futureState' = m_futureState /\ job' = job
          /\ m_consumers' = m_consumers /\ m_blockchain' = m_blockchain /\ nodeTail' = nodeTail
      BY <1>4 DEF DoAddUnconfirmedTransaction
    <2>2. m_addTransactionTasks' \in Seq(Tx)
      BY <2>1, HeadTailProperties
    <2>3. reply' = "error" => \E k \in m_consumers : \E t : unconfirmed' = RolledBack(k, t)
      BY <1>4 DEF DoAddUnconfirmedTransaction
    <2>4. reply' = "error" => \A c \in Consumer : unconfirmed'[c] \subseteq unconfirmed[c]
      BY <2>3 DEF RolledBack
    <2>5. RunInv'
      BY <2>1, <2>2
    <2>6. StopKept /\ AddKept /\ ChainsKept
      BY <2>1, <2>4
    <2> QED BY <2>5, <2>6
  <1>5. ASSUME SwitchState PROVE RunInv' /\ StopKept /\ AddKept /\ ChainsKept
    <2>1. AfterSwitch[m_futureState].future \in {idle, poolSync, blockchainSync, stopped}
          /\ (AfterSwitch[m_futureState].future = stopped <=> m_futureState = stopped)
      BY DEF AfterSwitch
    <2>2. /\ AfterSwitch[m_futureState].pc \notin SyncPcs \cup {"none"}
          /\ AfterSwitch[m_futureState].pc = "ended" => m_futureState = stopped
      BY DEF AfterSwitch
    <2>3. /\ m_futureState' = AfterSwitch[m_futureState].future /\ pc' = AfterSwitch[m_futureState].pc
          /\ pc = "tasks" /\ userPc' = userPc /\ m_addTransactionTasks' = m_addTransactionTasks
          /\ m_consumers' = m_consumers /\ m_blockchain' = m_blockchain /\ nodeTail' = nodeTail
      BY <1>5 DEF SwitchState
    <2>4. RunInv'
      BY <2>1, <2>2, <2>3
    <2>5. StopKept /\ AddKept /\ ChainsKept
      BY <2>1, <2>2, <2>3
    <2> QED BY <2>4, <2>5
  <1>6. ASSUME WakeUp PROVE RunInv' /\ StopKept /\ AddKept /\ ChainsKept
    BY <1>6 DEF WakeUp
  <1>7. ASSUME ReportError PROVE RunInv' /\ StopKept /\ AddKept /\ ChainsKept
    BY <1>7 DEF ReportError
  <1>8. ASSUME HandleResult PROVE RunInv' /\ StopKept /\ AddKept /\ ChainsKept
    BY <1>8 DEF HandleResult
  <1>9. ASSUME NotifyInterrupted PROVE RunInv' /\ StopKept /\ AddKept /\ ChainsKept
    BY <1>9 DEF NotifyInterrupted
  <1>10. ASSUME StartPoolSync PROVE RunInv' /\ StopKept /\ AddKept /\ ChainsKept
    BY <1>10 DEF StartPoolSync
  <1>11. ASSUME QueryUnion PROVE RunInv' /\ StopKept /\ AddKept /\ ChainsKept
    BY <1>11 DEF QueryUnion
  <1>12. ASSUME UnionAnswered PROVE RunInv' /\ StopKept /\ AddKept /\ ChainsKept
    BY <1>12 DEF UnionAnswered, BlockchainOutdated, ApplyTo
  <1>13. ASSUME QueryIntersection PROVE RunInv' /\ StopKept /\ AddKept /\ ChainsKept
    BY <1>13 DEF QueryIntersection
  <1>14. ASSUME IntersectionAnswered PROVE RunInv' /\ StopKept /\ AddKept /\ ChainsKept
    BY <1>14 DEF IntersectionAnswered, BlockchainOutdated, ApplyTo
  <1>15. ASSUME LockConsumers PROVE RunInv' /\ StopKept /\ AddKept /\ ChainsKept
    BY <1>15 DEF LockConsumers
  <1>16. ASSUME OnPoolUpdated PROVE RunInv' /\ StopKept /\ AddKept /\ ChainsKept
    BY <1>16 DEF OnPoolUpdated, FinishPool
  <1>17. ASSUME PoolProcessed PROVE RunInv' /\ StopKept /\ AddKept /\ ChainsKept
    BY <1>17 DEF PoolProcessed, FinishPool
  <1>18. ASSUME StartBlockchainSync PROVE RunInv' /\ StopKept /\ AddKept
    BY <1>18 DEF StartBlockchainSync
  <1>19. ASSUME QueryBlocks PROVE RunInv' /\ StopKept /\ AddKept
    BY <1>19 DEF QueryBlocks
  <1>20. ASSUME ProcessBlocks PROVE RunInv' /\ StopKept /\ AddKept
    BY <1>20 DEF ProcessBlocks
  <1>21. ASSUME UpdateConsumers PROVE RunInv' /\ StopKept /\ AddKept
    BY <1>21 DEF UpdateConsumers
  <1> HIDE DEF RunInv, StopKept, AddKept, ChainsKept
  <1> QED
    BY <1>1, <1>2, <1>3, <1>4, <1>5, <1>6, <1>7, <1>8, <1>9, <1>10, <1>11, <1>12, <1>13, <1>14, <1>15, <1>16, <1>17, <1>18, <1>19, <1>20, <1>21 DEF Worker

-----------------------------------------------------------------------------
(* What the worker asks for and what it gets.  getCommonHistory takes the  *)
(* blocks of the shortest chain.                                           *)
LEMMA ShortestIsShortest ==
  ASSUME m_consumers # {}, m_consumers \subseteq Consumer,
         \A c \in m_consumers : Len(m_blockchain[c]) \in Nat
  PROVE  /\ Shortest \in m_consumers
         /\ \A c \in m_consumers : Len(m_blockchain[Shortest]) <= Len(m_blockchain[c])
  <1> DEFINE L == {Len(m_blockchain[c]) : c \in m_consumers}
  <1>1. L \in SUBSET Nat /\ L # {}
    OBVIOUS
  <1>2. PICK n \in L : \A m \in L : n <= m
    BY <1>1, LeastExists
  <1> DEFINE C == {c \in m_consumers : Len(m_blockchain[c]) = n}
  <1>3. C \in SUBSET Nat /\ C # {}
    BY <1>2, ConsumerAssumption
  <1>4. PICK c \in C : \A d \in C : c <= d
    BY <1>3, LeastExists
  <1> DEFINE Ahead(a, d) == \/ Len(m_blockchain[a]) < Len(m_blockchain[d])
                            \/ Len(m_blockchain[a]) = Len(m_blockchain[d]) /\ a <= d
  <1>5. c \in m_consumers /\ \A d \in m_consumers : Ahead(c, d)
    <2>1. c \in m_consumers /\ Len(m_blockchain[c]) = n /\ n \in Nat
      BY <1>1, <1>4
    <2>2. ASSUME NEW d \in m_consumers PROVE Ahead(c, d)
      <3>1. Len(m_blockchain[d]) \in L /\ n <= Len(m_blockchain[d]) /\ Len(m_blockchain[d]) \in Nat
        BY <1>2
      <3>2. CASE Len(m_blockchain[d]) = n
        BY <1>4, <2>1, <3>2
      <3>3. CASE Len(m_blockchain[d]) # n
        BY <2>1, <3>1, <3>3
      <3> QED BY <3>2, <3>3
    <2> QED BY <2>1, <2>2
  <1>6. Shortest = CHOOSE a \in m_consumers : \A d \in m_consumers : Ahead(a, d)
    BY DEF Shortest
  <1> HIDE DEF Ahead
  <1>7. Shortest \in m_consumers /\ \A d \in m_consumers : Ahead(Shortest, d)
    BY <1>5, <1>6
  <1>8. \A d \in m_consumers : Len(m_blockchain[Shortest]) <= Len(m_blockchain[d])
    BY <1>7 DEF Ahead
  <1> QED BY <1>7, <1>8

LEMMA HistoryOfChain ==
  ASSUME NEW s, HasHeights(s), NEW n \in Nat
  PROVE  /\ Genesis \in ShortHistory(s, n)
         /\ \A b \in ShortHistory(s, n) : \E i \in 1 .. Len(s) : b = s[i]
  <1> DEFINE sz == Min({Len(s), n})
             O == {Offset(k) : k \in 1 .. sz}
  <1>1. Len(s) \in Nat \ {0} /\ s[1] = Genesis
    BY HeightsBegin DEF HasHeights
  <1>2. sz \in Nat /\ sz <= Len(s)
    BY <1>1, MinOfTwo
  <1>3. ShortHistory(s, n) = {s[1]} \cup {s[sz - o + 1] : o \in O \cap 1 .. sz - 1}
    BY DEF ShortHistory
  <1> HIDE DEF sz, O
  <1>4. \A o \in O \cap 1 .. sz - 1 : sz - o + 1 \in 1 .. Len(s)
    BY <1>2
  <1>5. 1 \in 1 .. Len(s)
    BY <1>1
  <1> QED BY <1>1, <1>3, <1>4, <1>5

(* queryBlocksLite: a part of the main chain of the node.                  *)
LEMMA IntervalOfNode ==
  ASSUME NEW n \in Block, NEW a \in 1 .. Len(PathTo[n]), NEW e \in a .. Len(PathTo[n]), NEW j,
         j.start = a, j.blocks = SubSeq(PathTo[n], a, e)
  PROVE  /\ IsInterval(j, PathTo[n][e]) /\ PathTo[PathTo[n][e]][a] = PathTo[n][a]
         /\ Work[PathTo[n][e]] <= Work[n]
  <1> DEFINE N == PathTo[n]
             q == PathTo[n][e]
             Q == PathTo[q]
  <1>1. /\ N \in Seq(Block) /\ Len(N) \in Nat \ {0} /\ N[Len(N)] = n
        /\ \A i \in 1 .. Len(N) - 1 : Work[N[i]] < Work[n]
        /\ \A i \in 1 .. Len(N) : PathTo[N[i]] = SubSeq(N, 1, i)
    BY PathFacts DEF IsPathTo
  <1>2. e \in 1 .. Len(N) /\ e \in 0 .. Len(N) /\ a \in Nat \ {0} /\ e \in Nat /\ a <= e
    BY <1>1
  <1>3. q \in Block /\ Q = SubSeq(N, 1, e)
    BY <1>1, <1>2
  <1> HIDE DEF N, q, Q
  <1>4. Q \in Seq(Block) /\ Len(Q) = e /\ \A i \in 1 .. e : Q[i] = N[i]
    BY <1>1, <1>2, <1>3, PrefixOf
  <1>5. a \in Int /\ e \in Int /\ \A i \in a .. e : N[i] \in Block /\ Q[i] \in Block /\ Q[i] = N[i]
    BY <1>1, <1>2, <1>4
  <1> DEFINE X == SubSeq(N, a, e)
             Y == SubSeq(Q, a, e)
  <1>6. /\ X \in Seq(Block) /\ Len(X) = IF a <= e THEN e - a + 1 ELSE 0
        /\ \A i \in 1 .. e - a + 1 : X[i] = N[a + i - 1]
    BY <1>5, SubSeqProperties
  <1>7. /\ Y \in Seq(Block) /\ Len(Y) = IF a <= e THEN e - a + 1 ELSE 0
        /\ \A i \in 1 .. e - a + 1 : Y[i] = Q[a + i - 1]
    BY <1>5, SubSeqProperties
  <1>8. \A i \in 1 .. e - a + 1 : Q[a + i - 1] = N[a + i - 1]
    <2> TAKE i \in 1 .. e - a + 1
    <2>1. a + i - 1 \in a .. e
      BY <1>2
    <2> QED BY <1>5, <2>1
  <1> HIDE DEF X, Y
  <1>9. Len(X) = e - a + 1 /\ Len(Y) = e - a + 1 /\ \A i \in 1 .. e - a + 1 : X[i] = Y[i]
    <2>1. Len(X) = e - a + 1 /\ Len(Y) = e - a + 1
      BY <1>2, <1>6, <1>7
    <2>2. \A i \in 1 .. e - a + 1 : X[i] = Y[i]
      BY <1>6, <1>7, <1>8, Zenon
    <2> QED BY <2>1, <2>2
  <1>10. SubSeq(N, a, e) = SubSeq(Q, a, e)
    <2>1. X = Y
      BY <1>6, <1>7, <1>9, SameSeq
    <2> QED BY <2>1 DEF X, Y
  <1>11. IsInterval(j, q)
    <2>1. j.start \in 1 .. Len(Q) /\ j.blocks = SubSeq(Q, j.start, Len(Q))
      BY <1>2, <1>4, <1>10 DEF N
    <2> QED BY <1>3, <2>1 DEF IsInterval, Q
  <1>12. Q[a] = N[a]
    BY <1>5
  <1>13. Work[q] <= Work[n]
    <2>1. Work[n] \in Nat
      BY BlockAssumption
    <2>2. CASE e = Len(N)
      BY <1>1, <2>1, <2>2 DEF q, N
    <2>3. CASE e # Len(N)
      <3>1. Work[N[e]] < Work[n]
        BY <1>1, <1>2, <2>3
      <3>2. Work[N[e]] \in Nat
        BY <1>3, BlockAssumption DEF q, N
      <3> QED BY <2>1, <3>1, <3>2 DEF q, N
    <2> QED BY <2>2, <2>3
  <1> QED BY <1>11, <1>12, <1>13 DEF N, q, Q

-----------------------------------------------------------------------------
(* Every block a consumer keeps stands at its height; the worker asks only *)
(* for what no chain is too short for; and what it gets begins within all  *)
(* chains.  This needs nothing but the asserts of the code to hold.        *)
HeightInv ==
  /\ m_blockchain \in [Consumer -> Seq(Block)]
  /\ \A c \in m_consumers : HasHeights(m_blockchain[c])

QueryInv == At("queryBlocks") =>
  /\ Genesis \in job.knownBlocks
  /\ \A b \in job.knownBlocks :
       b \in Block /\ \A c \in m_consumers : Len(PathTo[b]) <= Len(m_blockchain[c])

IntervalInv == pc \in {"processBlocks", "updateConsumers"} =>
  \E q \in Block : IsInterval(job, q) /\ \A c \in m_consumers : job.start <= Len(m_blockchain[c])

FitInv == RunInv /\ HeightInv /\ QueryInv /\ IntervalInv

LEMMA GenesisHasHeights == HasHeights(<<Genesis>>)
  <1>1. PathTo[Genesis] = <<Genesis>> /\ Genesis \in Block
    BY PathDefined, BlockAssumption
  <1>2. <<Genesis>> \in Seq(Block) /\ Len(<<Genesis>>) = 1 /\ <<Genesis>>[1] = Genesis
    BY <1>1
  <1>3. \A i \in 1 .. Len(<<Genesis>>) : i = 1
    BY <1>2
  <1>4. Len(PathTo[<<Genesis>>[1]]) = 1
    BY <1>1, <1>2
  <1>5. \A i \in 1 .. Len(<<Genesis>>) : Len(PathTo[<<Genesis>>[i]]) = i
    BY <1>3, <1>4, Zenon
  <1> QED BY <1>2, <1>5 DEF HasHeights

LEMMA FitKept ==
  ASSUME FitInv, RunInv', ChainsKept
  PROVE  FitInv'
  BY DEF FitInv, HeightInv, QueryInv, IntervalInv, ChainsKept, SyncPcs, At

LEMMA FitConsumers ==
  ASSUME FitInv, RunInv', pc = "none", NEW c \in Consumer, AddConsumer(c) \/ RemoveConsumer(c)
  PROVE  FitInv'
  <1>1. pc' = "none"
    BY DEF AddConsumer, RemoveConsumer
  <1>2. QueryInv' /\ IntervalInv'
    BY <1>1 DEF QueryInv, IntervalInv, At
  <1>3. CASE AddConsumer(c)
    <2>1. m_consumers' = m_consumers \cup {c} /\ m_blockchain' = [m_blockchain EXCEPT ![c] = <<Genesis>>]
      BY <1>3 DEF AddConsumer
    <2>2. HasHeights(<<Genesis>>) /\ <<Genesis>> \in Seq(Block)
      BY GenesisHasHeights, BlockAssumption
    <2>3. HeightInv'
      BY <2>1, <2>2 DEF FitInv, HeightInv, RunInv
    <2> QED BY <1>2, <2>3 DEF FitInv
  <1>4. CASE RemoveConsumer(c)
    <2>1. m_consumers' = m_consumers \ {c} /\ m_blockchain' = [m_blockchain EXCEPT ![c] = <<>>]
      BY <1>4 DEF RemoveConsumer
    <2>2. <<>> \in Seq(Block)
      OBVIOUS
    <2>3. HeightInv'
      BY <2>1, <2>2 DEF FitInv, HeightInv, RunInv
    <2> QED BY <1>2, <2>3 DEF FitInv
  <1> QED BY <1>3, <1>4

LEMMA FitStartBlockchainSync ==
  ASSUME FitInv, RunInv', StartBlockchainSync
  PROVE  FitInv'
  <1> DEFINE s == m_blockchain[Shortest]
             n == Len(NodeChain)
             h == ShortHistory(s, n)
  <1>1. /\ pc = "startBlockchainSync" /\ pc' = "queryBlocks" /\ job' = [knownBlocks |-> h]
        /\ m_consumers' = m_consumers /\ m_blockchain' = m_blockchain
    BY DEF StartBlockchainSync, At, Goto, syncFrame, userVars, dataVars
  <1>2. m_consumers # {} /\ m_consumers \subseteq Consumer /\ nodeTail \in Block
    BY <1>1 DEF FitInv, RunInv
  <1>3. \A c \in m_consumers : HasHeights(m_blockchain[c]) /\ Len(m_blockchain[c]) \in Nat
    BY DEF FitInv, HeightInv, HasHeights
  <1>4. Shortest \in m_consumers /\ \A c \in m_consumers : Len(s) <= Len(m_blockchain[c])
    BY <1>2, <1>3, ShortestIsShortest
  <1>5. n \in Nat
    BY <1>2, PathHeights DEF NodeChain
  <1>6. HasHeights(s)
    BY <1>3, <1>4
  <1> HIDE DEF s, n
  <1>7. Genesis \in h /\ \A b \in h : \E i \in 1 .. Len(s) : b = s[i]
    BY <1>5, <1>6, HistoryOfChain
  <1> HIDE DEF h
  <1>8. ASSUME NEW b \in h
        PROVE  b \in Block /\ \A c \in m_consumers : Len(PathTo[b]) <= Len(m_blockchain[c])
    <2>1. PICK i \in 1 .. Len(s) : b = s[i]
      BY <1>7
    <2>2. s \in Seq(Block) /\ Len(s) \in Nat /\ Len(PathTo[s[i]]) = i
      BY <1>6 DEF HasHeights
    <2>3. b \in Block /\ Len(PathTo[b]) = i /\ i <= Len(s) /\ i \in Nat
      BY <2>1, <2>2
    <2> QED BY <1>3, <1>4, <2>2, <2>3
  <1>9. QueryInv'
    BY <1>1, <1>7, <1>8 DEF QueryInv, At
  <1>10. HeightInv' /\ IntervalInv'
    BY <1>1 DEF FitInv, HeightInv, IntervalInv
  <1> QED BY <1>9, <1>10 DEF FitInv

(* The answer of the node: the interval that it sends, and where it comes  *)
(* from.                                                                   *)
LEMMA AnswerOfNode ==
  ASSUME FitInv, QueryBlocks
  PROVE  \/ pc' \notin SyncPcs
         \/ /\ pc' = "processBlocks"
            /\ \E q \in Block :
                 /\ IsInterval(job', q) /\ Work[q] <= Work[nodeTail]
                 /\ PathTo[q][job'.start] \in job.knownBlocks
                 /\ job'.start = Len(PathTo[PathTo[q][job'.start]])
  <1>1. CASE job' = NoJob /\ pc' = "failed"
    BY <1>1 DEF SyncPcs
  <1>2. CASE ~ (job' = NoJob /\ pc' = "failed")
    <2> DEFINE N == NodeChain
               K == {i \in 1 .. Len(N) : N[i] \in job.knownBlocks}
               a == Max(K)
               e == Min({Len(N), a + BlockLimit - 1})
    <2>1. /\ pc = "queryBlocks" /\ pc' = "processBlocks"
          /\ job' = [start |-> a, blocks |-> SubSeq(N, a, e)]
      BY <1>2 DEF QueryBlocks, At, Goto
    <2>2. nodeTail \in Block /\ Genesis \in job.knownBlocks
      BY <2>1 DEF FitInv, RunInv, QueryInv, At
    <2>3. N = PathTo[nodeTail] /\ Len(N) \in Nat \ {0} /\ N[1] = Genesis
      BY <2>2, PathHeights DEF NodeChain
    <2>4. 1 \in K /\ K \in SUBSET Nat /\ K # {} /\ \A i \in K : i <= Len(N)
      BY <2>2, <2>3
    <2>5. a \in K
      <3> HIDE DEF K
      <3> QED BY <2>3, <2>4, MaxIsGreatest
    <2> HIDE DEF a
    <2>6. a \in 1 .. Len(N) /\ N[a] \in job.knownBlocks
      BY <2>5
    <2>7. a + BlockLimit - 1 \in Nat /\ a + BlockLimit - 1 >= a
      BY <2>3, <2>6, LimitAssumption
    <2>8. e \in a .. Len(N)
      BY <2>3, <2>6, <2>7, MinOfTwo
    <2> HIDE DEF e, N
    <2>9. a \in 1 .. Len(PathTo[nodeTail]) /\ e \in a .. Len(PathTo[nodeTail])
      BY <2>3, <2>6, <2>8
    <2>10. job'.start = a /\ job'.blocks = SubSeq(PathTo[nodeTail], a, e)
      BY <2>1, <2>3
    <2> DEFINE q == PathTo[nodeTail][e]
    <2>11. IsInterval(job', q) /\ PathTo[q][a] = PathTo[nodeTail][a] /\ Work[q] <= Work[nodeTail]
      BY <2>2, <2>9, <2>10, IntervalOfNode
    <2>12. e \in 1 .. Len(PathTo[nodeTail])
      BY <2>3, <2>9
    <2>13. q \in Block /\ Len(PathTo[PathTo[nodeTail][a]]) = a
      BY <2>2, <2>9, <2>12, PathHeights
    <2>14. PathTo[q][job'.start] \in job.knownBlocks
      BY <2>3, <2>6, <2>10, <2>11
    <2>15. job'.start = Len(PathTo[PathTo[q][job'.start]])
      BY <2>10, <2>11, <2>13
    <2> HIDE DEF q
    <2> QED BY <2>1, <2>11, <2>13, <2>14, <2>15
  <1> QED BY <1>1, <1>2

LEMMA FitQueryBlocks ==
  ASSUME FitInv, RunInv', QueryBlocks
  PROVE  FitInv'
  <1>1. m_consumers' = m_consumers /\ m_blockchain' = m_blockchain /\ pc = "queryBlocks"
    BY DEF QueryBlocks, syncFrame, userVars, dataVars, At
  <1>2. HeightInv'
    BY <1>1 DEF FitInv, HeightInv
  <1>3. CASE pc' \notin SyncPcs
    BY <1>2, <1>3 DEF FitInv, QueryInv, IntervalInv, At, SyncPcs
  <1>4. CASE pc' \in SyncPcs
    <2>1. PICK q \in Block :
            /\ IsInterval(job', q) /\ PathTo[q][job'.start] \in job.knownBlocks
            /\ job'.start = Len(PathTo[PathTo[q][job'.start]])
      BY <1>4, AnswerOfNode
    <2>2. pc' = "processBlocks"
      BY <1>4, AnswerOfNode
    <2>3. \A c \in m_consumers : job'.start <= Len(m_blockchain[c])
      BY <1>1, <2>1 DEF FitInv, QueryInv, At
    <2>4. IntervalInv'
      BY <1>1, <2>1, <2>3 DEF IntervalInv
    <2>5. QueryInv'
      BY <2>2 DEF QueryInv, At
    <2> QED BY <1>2, <2>4, <2>5 DEF FitInv
  <1> QED BY <1>3, <1>4

LEMMA FitProcessBlocks ==
  ASSUME FitInv, RunInv', ProcessBlocks
  PROVE  FitInv'
  <1>1. /\ m_consumers' = m_consumers /\ m_blockchain' = m_blockchain /\ pc = "processBlocks"
        /\ pc' \in SyncPcs => pc' = "updateConsumers" /\ job' = job
    BY DEF ProcessBlocks, syncFrame, userVars, dataVars, At, Goto, SyncPcs
  <1>2. HeightInv'
    BY <1>1 DEF FitInv, HeightInv
  <1>3. QueryInv' /\ IntervalInv'
    BY <1>1 DEF FitInv, IntervalInv, QueryInv, At, SyncPcs
  <1> QED BY <1>2, <1>3 DEF FitInv

LEMMA FitUpdateConsumers ==
  ASSUME FitInv, RunInv', UpdateConsumers
  PROVE  FitInv'
  <1>1. pc = "updateConsumers" /\ m_consumers' = m_consumers /\ pc' \notin SyncPcs
    BY DEF UpdateConsumers, syncFrame, userVars, At, Goto, SyncPcs
  <1>2. PICK q \in Block : IsInterval(job, q) /\ \A c \in m_consumers : job.start <= Len(m_blockchain[c])
    BY <1>1 DEF FitInv, IntervalInv
  <1>3. m_blockchain \in [Consumer -> Seq(Block)] /\ \A c \in m_consumers : HasHeights(m_blockchain[c])
    BY DEF FitInv, HeightInv
  <1>4. \A c \in m_consumers : /\ HasHeights(AddBlocks(m_blockchain[c], job))
                               /\ HasHeights(Detach(m_blockchain[c], job))
    BY <1>2, <1>3, AddBlocksKeepsHeights, DetachKeepsHeights
  <1>5. \A c \in m_consumers : /\ AddBlocks(m_blockchain[c], job) \in Seq(Block)
                               /\ Detach(m_blockchain[c], job) \in Seq(Block)
    BY <1>4 DEF HasHeights
  <1>6. \/ m_blockchain' = AllChains
        \/ \E k \in m_consumers : m_blockchain' = ChainsBefore(k)
    BY DEF UpdateConsumers
  <1>7. HeightInv'
    <2>1. CASE m_blockchain' = AllChains
      BY <1>1, <1>3, <1>4, <1>5, <2>1 DEF AllChains, HeightInv, FitInv, RunInv
    <2>2. CASE \E k \in m_consumers : m_blockchain' = ChainsBefore(k)
      BY <1>1, <1>3, <1>4, <1>5, <2>2 DEF ChainsBefore, HeightInv, FitInv, RunInv
    <2> QED BY <1>6, <2>1, <2>2
  <1>8. QueryInv' /\ IntervalInv'
    BY <1>1 DEF QueryInv, IntervalInv, At, SyncPcs
  <1> QED BY <1>7, <1>8 DEF FitInv

LEMMA InitFits == Init => FitInv
  <1> SUFFICES ASSUME Init PROVE FitInv
    OBVIOUS
  <1>1. RunInv
    BY BlockAssumption DEF Init, RunInv, idle, poolSync, blockchainSync, stopped
  <1>2. HeightInv
    BY DEF Init, HeightInv
  <1>3. QueryInv /\ IntervalInv
    BY DEF Init, QueryInv, IntervalInv, At
  <1> QED BY <1>1, <1>2, <1>3 DEF FitInv

LEMMA StepFits == FitInv /\ [Next]_vars => FitInv' /\ (vars' # vars => StopKept /\ AddKept)
  <1> SUFFICES ASSUME FitInv, [Next]_vars PROVE FitInv' /\ (vars' # vars => StopKept /\ AddKept)
    OBVIOUS
  <1>1. RunInv
    BY DEF FitInv
  <1>2. CASE User \/ Node \/ Announcements
    <2>1. /\ RunInv' /\ StopKept /\ AddKept
          /\ \/ ChainsKept
             \/ /\ pc = "none"
                /\ \E c \in Consumer : AddConsumer(c) \/ RemoveConsumer(c)
      BY <1>1, <1>2, OutsideStep
    <2> QED BY <2>1, FitKept, FitConsumers
  <1>3. CASE Worker
    <2>1. /\ RunInv' /\ StopKept /\ AddKept
          /\ \/ ChainsKept
             \/ StartBlockchainSync \/ QueryBlocks \/ ProcessBlocks \/ UpdateConsumers
      BY <1>1, <1>3, WorkerStep
    <2> QED BY <2>1, FitKept, FitStartBlockchainSync, FitQueryBlocks, FitProcessBlocks, FitUpdateConsumers
  <1>4. CASE UNCHANGED vars
    <2>1. /\ m_futureState' = m_futureState /\ m_consumers' = m_consumers /\ nodeTail' = nodeTail
          /\ m_addTransactionTasks' = m_addTransactionTasks /\ pc' = pc /\ userPc' = userPc
          /\ m_blockchain' = m_blockchain /\ job' = job
      BY <1>4 DEF vars, userVars, dataVars, taskVars, nodeVars
    <2>2. FitInv'
      BY <2>1 DEF FitInv, RunInv, HeightInv, QueryInv, IntervalInv, At
    <2> QED BY <1>4, <2>2
  <1> QED BY <1>2, <1>3, <1>4 DEF Next

(* The asserts of checkInterval, detach and addBlocks hold whatever the    *)
(* node answers, whatever it switches to between query and answer,         *)
(* whichever consumer refuses or throws, and whichever consumers are added *)
(* and removed while the synchronizer is stopped.                          *)
THEOREM IntervalsAlwaysFit == Spec => []IntervalFits
  <1>1. Spec => []FitInv
    <2>1. Init => FitInv
      BY InitFits
    <2>2. FitInv /\ [Next]_vars => FitInv'
      BY StepFits
    <2> QED BY <2>1, <2>2, PTL DEF Spec
  <1>2. FitInv => IntervalFits
    <2> SUFFICES ASSUME FitInv, At("updateConsumers"), NEW c \in m_consumers
                 PROVE  /\ job.start <= Len(m_blockchain[c]) + 1
                        /\ Detach(m_blockchain[c], job) # <<>>
      BY DEF IntervalFits
    <2>1. PICK q \in Block :
            IsInterval(job, q) /\ \A d \in m_consumers : job.start <= Len(m_blockchain[d])
      BY DEF FitInv, IntervalInv, At
    <2>2. HasHeights(m_blockchain[c]) /\ job.start <= Len(m_blockchain[c])
      BY <2>1 DEF FitInv, HeightInv
    <2>3. HasHeights(Detach(m_blockchain[c], job))
      BY <2>1, <2>2, DetachKeepsHeights
    <2>4. Detach(m_blockchain[c], job) # <<>>
      BY <2>3 DEF HasHeights
    <2>5. job.start \in Nat /\ Len(m_blockchain[c]) \in Nat
      BY <2>1, <2>2, PathHeights DEF IsInterval, HasHeights
    <2> QED BY <2>2, <2>4, <2>5
  <1> QED BY <1>1, <1>2, PTL

(* A stop that the user asked for is kept until the worker has ended: no   *)
(* notification of the node, no error path and no change of state takes it *)
(* back, and only start, after the join, does.                             *)
THEOREM StopAlwaysKept == Spec => StopIsKept
  <1>1. Init => FitInv
    BY InitFits
  <1>2. FitInv /\ [Next]_vars => FitInv'
    BY StepFits
  <1>3. FitInv /\ [Next]_vars => [m_futureState = stopped /\ m_futureState' # stopped => pc = "none"]_vars
    BY StepFits DEF StopKept
  <1> QED BY <1>1, <1>2, <1>3, PTL DEF Spec, StopIsKept

(* doAddUnconfirmedTransaction that answers with an error has left the     *)
(* transaction with none of the consumers, however many had added it       *)
(* before one refused.                                                     *)
THEOREM FailedAddsLeaveNothing == Spec => FailedAddLeavesNothing
  <1>1. Init => FitInv
    BY InitFits
  <1>2. FitInv /\ [Next]_vars => FitInv'
    BY StepFits
  <1>3. FitInv /\ [Next]_vars =>
          [Len(m_addTransactionTasks') < Len(m_addTransactionTasks) /\ reply' = "error" =>
             \A c \in Consumer : unconfirmed'[c] \subseteq unconfirmed[c]]_vars
    BY StepFits DEF AddKept
  <1> QED BY <1>1, <1>2, <1>3, PTL DEF Spec, FailedAddLeavesNothing

-----------------------------------------------------------------------------
(* Chains that are paths.  An interval that begins with a block of the     *)
(* chain turns it into the path to its last block, or is a part of it.     *)
Comparable(s, t) == \A i \in 1 .. Len(s) : i <= Len(t) => s[i] = t[i]

Extends(s, q) == Len(PathTo[q]) <= Len(s) /\ \A i \in 1 .. Len(PathTo[q]) : s[i] = PathTo[q][i]

LEMMA PathHasHeights ==
  ASSUME NEW t \in Block
  PROVE  HasHeights(PathTo[t])
  BY PathHeights DEF HasHeights

LEMMA LinkedPosition ==
  ASSUME NEW t \in Block, NEW j, NEW q, IsInterval(j, q), j.start <= Len(PathTo[t]),
         PathTo[t][j.start] = PathTo[q][j.start]
  PROVE  /\ NewBlockPosition(PathTo[t], j) \in 2 .. Len(PathTo[t]) + 1
         /\ \A i \in 1 .. NewBlockPosition(PathTo[t], j) - 1 :
              i <= Len(PathTo[q]) => PathTo[t][i] = PathTo[q][i]
         /\ HasNewBlocks(PathTo[t], j) <=> NewBlockPosition(PathTo[t], j) <= Len(PathTo[q])
         /\ ~HasNewBlocks(PathTo[t], j) => NewBlockPosition(PathTo[t], j) = Len(PathTo[t]) + 1
  <1> DEFINE s == PathTo[t]
             p == NewBlockPosition(s, j)
             e == Len(PathTo[q])
             a == j.start
  <1>1. HasHeights(s)
    BY PathHasHeights
  <1>2. /\ p \in 2 .. Len(s) + 1 /\ p >= a /\ (p = a => s[a] # PathTo[q][a])
        /\ \A i \in a .. p - 1 : i <= e => s[i] = PathTo[q][i]
        /\ HasNewBlocks(s, j) <=> p <= e
        /\ ~HasNewBlocks(s, j) => p = Len(s) + 1
    BY <1>1, Position
  <1>3. q \in Block /\ a \in 1 .. e /\ e \in Nat \ {0} /\ Len(s) \in Nat \ {0} /\ a <= Len(s)
    BY PathHeights DEF IsInterval
  <1>4. s[a] = PathTo[q][a]
    OBVIOUS
  <1>5. \A i \in 1 .. a : s[i] = PathTo[q][i]
    <2>1. a \in 1 .. Len(PathTo[t]) /\ a <= Len(PathTo[q])
      BY <1>3
    <2> QED BY <1>3, <2>1, PathsMeet
  <1> HIDE DEF s, p, e, a
  <1>6. ASSUME NEW i \in 1 .. p - 1, i <= e PROVE s[i] = PathTo[q][i]
    <2>1. CASE i <= a
      BY <1>2, <1>3, <1>5, <1>6, <2>1
    <2>2. CASE ~ (i <= a)
      <3>1. i \in a .. p - 1
        BY <1>2, <1>3, <2>2
      <3> QED BY <1>2, <1>6, <3>1
    <2> QED BY <2>1, <2>2
  <1> QED BY <1>2, <1>6 DEF s, p, e

LEMMA LinkedAddBlocks ==
  ASSUME NEW t \in Block, NEW j, NEW q, IsInterval(j, q), j.start <= Len(PathTo[t]),
         PathTo[t][j.start] = PathTo[q][j.start]
  PROVE  \/ /\ HasNewBlocks(PathTo[t], j) /\ AddBlocks(PathTo[t], j) = PathTo[q]
         \/ /\ ~HasNewBlocks(PathTo[t], j) /\ AddBlocks(PathTo[t], j) = PathTo[t]
            /\ Extends(PathTo[t], q)
  <1> DEFINE s == PathTo[t]
             p == NewBlockPosition(s, j)
             e == Len(PathTo[q])
             r == AddBlocks(s, j)
  <1>1. /\ p \in 2 .. Len(s) + 1 /\ \A i \in 1 .. p - 1 : i <= e => s[i] = PathTo[q][i]
        /\ HasNewBlocks(s, j) <=> p <= e
        /\ ~HasNewBlocks(s, j) => p = Len(s) + 1
    BY LinkedPosition
  <1>2. q \in Block /\ e \in Nat \ {0} /\ Len(s) \in Nat \ {0} /\ PathTo[q] \in Seq(Block)
    BY PathHeights DEF IsInterval
  <1>3. CASE HasNewBlocks(s, j)
    <2>1. r \in Seq(Block) /\ Len(r) = e /\ \A i \in 1 .. e : r[i] = IF i < p THEN s[i] ELSE PathTo[q][i]
      BY <1>3, PathHasHeights, AddBlocksShape
    <2> HIDE DEF r, p, s
    <2>2. \A i \in 1 .. e : r[i] = PathTo[q][i]
      <3> TAKE i \in 1 .. e
      <3>1. CASE i < p
        <4>1. i \in 1 .. p - 1 /\ i <= e
          BY <1>1, <1>2, <3>1
        <4> QED BY <1>1, <2>1, <3>1, <4>1
      <3>2. CASE ~ (i < p)
        BY <2>1, <3>2
      <3> QED BY <3>1, <3>2
    <2>3. r = PathTo[q]
      BY <1>2, <2>1, <2>2, SameSeq
    <2> QED BY <1>3, <2>3 DEF r, s
  <1>4. CASE ~HasNewBlocks(s, j)
    <2>1. r = s
      BY <1>4 DEF AddBlocks
    <2>2. p = Len(s) + 1 /\ e < p
      BY <1>1, <1>2, <1>4
    <2> HIDE DEF r, p, s, e
    <2>3. e <= Len(s) /\ \A i \in 1 .. e : s[i] = PathTo[q][i]
      BY <1>1, <1>2, <2>2
    <2> QED BY <1>4, <2>1, <2>3 DEF Extends, r, s, e
  <1> QED BY <1>3, <1>4

LEMMA LinkedDetach ==
  ASSUME NEW t \in Block, NEW j, NEW q, IsInterval(j, q), j.start <= Len(PathTo[t]),
         PathTo[t][j.start] = PathTo[q][j.start], HasNewBlocks(PathTo[t], j)
  PROVE  \E b \in Block : /\ Detach(PathTo[t], j) = PathTo[b]
                          /\ Extends(PathTo[t], b) /\ Extends(PathTo[q], b)
  <1> DEFINE s == PathTo[t]
             p == NewBlockPosition(s, j)
             e == Len(PathTo[q])
             b == s[p - 1]
  <1>1. /\ p \in 2 .. Len(s) + 1 /\ \A i \in 1 .. p - 1 : i <= e => s[i] = PathTo[q][i]
        /\ p <= e
    BY LinkedPosition
  <1>2. q \in Block /\ e \in Nat \ {0} /\ Len(s) \in Nat \ {0} /\ s \in Seq(Block)
    BY PathHeights DEF IsInterval
  <1>3. p - 1 \in 1 .. Len(s) /\ p - 1 \in 0 .. Len(s) /\ p - 1 <= e
    BY <1>1, <1>2
  <1>4. b \in Block /\ PathTo[b] = SubSeq(s, 1, p - 1)
    BY <1>2, <1>3, PathFacts DEF IsPathTo
  <1>5. Detach(s, j) = PathTo[b]
    BY <1>4 DEF Detach
  <1> HIDE DEF s, p, e, b
  <1>6. Len(PathTo[b]) = p - 1 /\ \A i \in 1 .. p - 1 : PathTo[b][i] = s[i]
    BY <1>2, <1>3, <1>4, PrefixOf
  <1>7. \A i \in 1 .. p - 1 : i <= e
    BY <1>2, <1>3
  <1>8. \A i \in 1 .. p - 1 : s[i] = PathTo[q][i]
    BY <1>1, <1>7
  <1>9. Extends(s, b)
    BY <1>3, <1>6 DEF Extends
  <1>10. Extends(PathTo[q], b)
    BY <1>3, <1>6, <1>8 DEF Extends, e
  <1> QED BY <1>4, <1>5, <1>9, <1>10 DEF s

(* When two chains are comparable.                                         *)
LEMMA ExtensionsCompare ==
  ASSUME NEW s \in Seq(Block), NEW b \in Block, Extends(s, b)
  PROVE  Comparable(s, PathTo[b]) /\ Comparable(PathTo[b], s)
  <1>1. Len(PathTo[b]) \in Nat \ {0} /\ Len(s) \in Nat
    BY PathHeights
  <1> QED BY <1>1 DEF Extends, Comparable

LEMMA PrefixesCompare ==
  ASSUME NEW s \in Seq(Block), NEW r \in Seq(Block), NEW b \in Block, Extends(s, b),
         Comparable(s, r), Comparable(r, s)
  PROVE  Comparable(PathTo[b], r) /\ Comparable(r, PathTo[b])
  <1>1. Len(PathTo[b]) \in Nat \ {0} /\ Len(s) \in Nat /\ Len(r) \in Nat
    BY PathHeights
  <1> QED BY <1>1 DEF Extends, Comparable

LEMMA ExtendsTransitive ==
  ASSUME NEW s \in Seq(Block), NEW q \in Block, NEW b \in Block, Extends(s, q), Extends(PathTo[q], b)
  PROVE  Extends(s, b)
  <1>1. Len(PathTo[b]) \in Nat \ {0} /\ Len(s) \in Nat /\ Len(PathTo[q]) \in Nat
    BY PathHeights
  <1> QED BY <1>1 DEF Extends

-----------------------------------------------------------------------------
(* All chains are paths, and of two one is a beginning of the other.  A    *)
(* consumer that fails half-way breaks the second when there is one before *)
(* it, which has the new blocks, and one after it, which has the old: they *)
(* part ways, and only the chain that failed keeps to what they share.     *)
NoneBetween ==
  \/ Failures \cap {"refusal", "exception"} = {}
  \/ \A c, d, e \in Consumer : c = d \/ d = e \/ c = e

LinkInv ==
  /\ FitInv
  /\ \A c \in m_consumers : \E t \in Block : m_blockchain[c] = PathTo[t]
  /\ \A c, d \in m_consumers : Comparable(m_blockchain[c], m_blockchain[d])
  /\ At("queryBlocks") =>
       \A b \in job.knownBlocks : \A c \in m_consumers : m_blockchain[c][Len(PathTo[b])] = b
  /\ pc \in {"processBlocks", "updateConsumers"} =>
       \A q \in Block : IsInterval(job, q) =>
         \A c \in m_consumers : m_blockchain[c][job.start] = PathTo[q][job.start]

LEMMA LinkKept ==
  ASSUME LinkInv, FitInv', ChainsKept
  PROVE  LinkInv'
  BY DEF LinkInv, ChainsKept, SyncPcs, At

LEMMA LinkConsumers ==
  ASSUME LinkInv, FitInv', pc = "none", NEW c \in Consumer, AddConsumer(c) \/ RemoveConsumer(c)
  PROVE  LinkInv'
  <1>1. pc' = "none"
    BY DEF AddConsumer, RemoveConsumer
  <1>2. m_blockchain \in [Consumer -> Seq(Block)] /\ m_consumers \subseteq Consumer
    BY DEF LinkInv, FitInv, HeightInv, RunInv
  <1>3. CASE AddConsumer(c)
    <2>1. /\ m_consumers' = m_consumers \cup {c} /\ c \notin m_consumers
          /\ m_blockchain' = [m_blockchain EXCEPT ![c] = <<Genesis>>]
      BY <1>3 DEF AddConsumer
    <2>2. Genesis \in Block /\ PathTo[Genesis] = <<Genesis>>
      BY PathDefined, BlockAssumption
    <2>3. m_blockchain'[c] = PathTo[Genesis] /\ \A d \in m_consumers : m_blockchain'[d] = m_blockchain[d]
      BY <1>2, <2>1, <2>2
    <2>4. ASSUME NEW d \in m_consumers
          PROVE  Comparable(PathTo[Genesis], m_blockchain[d]) /\ Comparable(m_blockchain[d], PathTo[Genesis])
      <3>1. HasHeights(m_blockchain[d]) /\ m_blockchain[d] \in Seq(Block)
        BY <1>2 DEF LinkInv, FitInv, HeightInv
      <3>2. m_blockchain[d][1] = Genesis /\ Len(m_blockchain[d]) \in Nat \ {0}
        BY <3>1, HeightsBegin DEF HasHeights
      <3>3. Len(PathTo[Genesis]) = 1 /\ PathTo[Genesis][1] = Genesis
        BY <2>2
      <3>4. \A i \in 1 .. Len(PathTo[Genesis]) : i = 1
        BY <3>3
      <3>5. Extends(m_blockchain[d], Genesis)
        BY <3>2, <3>3, <3>4 DEF Extends
      <3> QED BY <2>2, <3>1, <3>5, ExtensionsCompare
    <2>5. Comparable(PathTo[Genesis], PathTo[Genesis])
      BY DEF Comparable
    <2>6. \A d \in m_consumers' : \E t \in Block : m_blockchain'[d] = PathTo[t]
      BY <2>1, <2>2, <2>3 DEF LinkInv
    <2>7. \A d, e \in m_consumers' : Comparable(m_blockchain'[d], m_blockchain'[e])
      BY <2>1, <2>3, <2>4, <2>5 DEF LinkInv
    <2> QED BY <1>1, <2>6, <2>7 DEF LinkInv, At
  <1>4. CASE RemoveConsumer(c)
    <2>1. m_consumers' = m_consumers \ {c} /\ m_blockchain' = [m_blockchain EXCEPT ![c] = <<>>]
      BY <1>4 DEF RemoveConsumer
    <2>2. \A d \in m_consumers' : d \in m_consumers /\ m_blockchain'[d] = m_blockchain[d]
      BY <1>2, <2>1
    <2> QED BY <1>1, <2>2 DEF LinkInv, At
  <1> QED BY <1>3, <1>4

LEMMA LinkStartBlockchainSync ==
  ASSUME LinkInv, FitInv', StartBlockchainSync
  PROVE  LinkInv'
  <1> DEFINE s == m_blockchain[Shortest]
             n == Len(NodeChain)
             h == ShortHistory(s, n)
  <1>1. /\ pc = "startBlockchainSync" /\ pc' = "queryBlocks" /\ job' = [knownBlocks |-> h]
        /\ m_consumers' = m_consumers /\ m_blockchain' = m_blockchain
    BY DEF StartBlockchainSync, At, Goto, syncFrame, userVars, dataVars
  <1>2. m_consumers # {} /\ m_consumers \subseteq Consumer /\ nodeTail \in Block
    BY <1>1 DEF LinkInv, FitInv, RunInv
  <1>3. \A c \in m_consumers : HasHeights(m_blockchain[c]) /\ Len(m_blockchain[c]) \in Nat
    BY DEF LinkInv, FitInv, HeightInv, HasHeights
  <1>4. Shortest \in m_consumers /\ \A c \in m_consumers : Len(s) <= Len(m_blockchain[c])
    BY <1>2, <1>3, ShortestIsShortest
  <1>5. n \in Nat /\ HasHeights(s)
    BY <1>2, <1>3, <1>4, PathHeights DEF NodeChain
  <1>6. \A c \in m_consumers : Comparable(s, m_blockchain[c])
    BY <1>4 DEF LinkInv
  <1> HIDE DEF s, n
  <1>7. \A b \in h : \E i \in 1 .. Len(s) : b = s[i]
    BY <1>5, HistoryOfChain
  <1> HIDE DEF h
  <1>8. ASSUME NEW b \in h, NEW c \in m_consumers PROVE m_blockchain[c][Len(PathTo[b])] = b
    <2>1. PICK i \in 1 .. Len(s) : b = s[i]
      BY <1>7
    <2>2. Len(PathTo[b]) = i /\ Len(s) \in Nat
      BY <1>5, <2>1 DEF HasHeights
    <2>3. i <= Len(m_blockchain[c])
      BY <1>3, <1>4, <2>2
    <2> QED BY <1>6, <2>1, <2>2, <2>3 DEF Comparable
  <1> QED BY <1>1, <1>8 DEF LinkInv, At

LEMMA LinkQueryBlocks ==
  ASSUME LinkInv, FitInv', QueryBlocks
  PROVE  LinkInv'
  <1>1. m_consumers' = m_consumers /\ m_blockchain' = m_blockchain /\ pc = "queryBlocks"
    BY DEF QueryBlocks, syncFrame, userVars, dataVars, At
  <1>2. FitInv
    BY DEF LinkInv
  <1>3. CASE pc' \notin SyncPcs
    BY <1>1, <1>3 DEF LinkInv, At, SyncPcs
  <1>4. CASE pc' \in SyncPcs
    <2>1. PICK q \in Block :
            /\ IsInterval(job', q) /\ PathTo[q][job'.start] \in job.knownBlocks
            /\ job'.start = Len(PathTo[PathTo[q][job'.start]])
      BY <1>2, <1>4, AnswerOfNode
    <2>2. pc' = "processBlocks"
      BY <1>2, <1>4, AnswerOfNode
    <2>3. \A c \in m_consumers : m_blockchain[c][job'.start] = PathTo[q][job'.start]
      BY <1>1, <2>1 DEF LinkInv, At
    <2>4. \A r \in Block : IsInterval(job', r) => r = q
      BY <2>1, IntervalBlocks
    <2> QED BY <1>1, <2>2, <2>3, <2>4 DEF LinkInv, At
  <1> QED BY <1>3, <1>4

LEMMA LinkProcessBlocks ==
  ASSUME LinkInv, FitInv', ProcessBlocks
  PROVE  LinkInv'
  <1>1. /\ m_consumers' = m_consumers /\ m_blockchain' = m_blockchain /\ pc = "processBlocks"
        /\ pc' \in SyncPcs => pc' = "updateConsumers" /\ job' = job
    BY DEF ProcessBlocks, syncFrame, userVars, dataVars, At, Goto, SyncPcs
  <1> QED BY <1>1 DEF LinkInv, At, SyncPcs

(* updateConsumers: what becomes of the chain of a consumer, by whether it *)
(* has the new blocks, only lost the old ones, or was not reached.         *)
LEMMA UpdatedChains ==
  ASSUME LinkInv, UpdateConsumers
  PROVE  \E q \in Block :
           /\ IsInterval(job, q)
           /\ \A c \in m_consumers :
                /\ \/ AddBlocks(m_blockchain[c], job) = PathTo[q]
                   \/ /\ AddBlocks(m_blockchain[c], job) = m_blockchain[c]
                      /\ Extends(m_blockchain[c], q)
                /\ HasNewBlocks(m_blockchain[c], job) =>
                     \E b \in Block : /\ Detach(m_blockchain[c], job) = PathTo[b]
                                      /\ Extends(m_blockchain[c], b) /\ Extends(PathTo[q], b)
  <1>1. pc = "updateConsumers"
    BY DEF UpdateConsumers, At
  <1>2. PICK q \in Block :
          IsInterval(job, q) /\ \A c \in m_consumers : job.start <= Len(m_blockchain[c])
    BY <1>1 DEF LinkInv, FitInv, IntervalInv
  <1>3. ASSUME NEW c \in m_consumers
        PROVE  /\ \/ AddBlocks(m_blockchain[c], job) = PathTo[q]
                  \/ /\ AddBlocks(m_blockchain[c], job) = m_blockchain[c]
                     /\ Extends(m_blockchain[c], q)
               /\ HasNewBlocks(m_blockchain[c], job) =>
                    \E b \in Block : /\ Detach(m_blockchain[c], job) = PathTo[b]
                                     /\ Extends(m_blockchain[c], b) /\ Extends(PathTo[q], b)
    <2>1. PICK t \in Block : m_blockchain[c] = PathTo[t]
      BY DEF LinkInv
    <2>2. job.start <= Len(PathTo[t]) /\ PathTo[t][job.start] = PathTo[q][job.start]
      BY <1>1, <1>2, <2>1 DEF LinkInv
    <2>3. \/ AddBlocks(PathTo[t], job) = PathTo[q]
          \/ AddBlocks(PathTo[t], job) = PathTo[t] /\ Extends(PathTo[t], q)
      BY <1>2, <2>2, LinkedAddBlocks
    <2>4. HasNewBlocks(PathTo[t], job) =>
            \E b \in Block : /\ Detach(PathTo[t], job) = PathTo[b]
                             /\ Extends(PathTo[t], b) /\ Extends(PathTo[q], b)
      BY <1>2, <2>2, LinkedDetach
    <2> QED BY <2>1, <2>3, <2>4
  <1> QED BY <1>2, <1>3

(* Two chains that have been given the same blocks.                        *)
LEMMA BothAdded ==
  ASSUME NEW s \in Seq(Block), NEW r \in Seq(Block), NEW s1, NEW r1, NEW q \in Block, Comparable(s, r),
         s1 = PathTo[q] \/ (s1 = s /\ Extends(s, q)), r1 = PathTo[q] \/ (r1 = r /\ Extends(r, q))
  PROVE  Comparable(s1, r1)
  <1>1. Comparable(PathTo[q], PathTo[q])
    BY DEF Comparable
  <1>2. Extends(s, q) => Comparable(s, PathTo[q])
    BY ExtensionsCompare
  <1>3. Extends(r, q) => Comparable(PathTo[q], r)
    BY ExtensionsCompare
  <1> QED BY <1>1, <1>2, <1>3

LEMMA LinkUpdateConsumers ==
  ASSUME NoneBetween, LinkInv, FitInv', UpdateConsumers
  PROVE  LinkInv'
  <1>1. pc = "updateConsumers" /\ m_consumers' = m_consumers /\ pc' \notin SyncPcs
    BY DEF UpdateConsumers, syncFrame, userVars, At, Goto, SyncPcs
  <1>2. m_blockchain \in [Consumer -> Seq(Block)] /\ m_consumers \subseteq Consumer
    BY DEF LinkInv, FitInv, HeightInv, RunInv
  <1>3. PICK q \in Block :
          \A c \in m_consumers :
            /\ \/ AddBlocks(m_blockchain[c], job) = PathTo[q]
               \/ /\ AddBlocks(m_blockchain[c], job) = m_blockchain[c]
                  /\ Extends(m_blockchain[c], q)
            /\ HasNewBlocks(m_blockchain[c], job) =>
                 \E b \in Block : /\ Detach(m_blockchain[c], job) = PathTo[b]
                                  /\ Extends(m_blockchain[c], b) /\ Extends(PathTo[q], b)
    BY UpdatedChains
  <1> DEFINE Added(c) == AddBlocks(m_blockchain[c], job)
  <1>4. \A c \in m_consumers : m_blockchain[c] \in Seq(Block)
    BY <1>2
  <1>5. \A c \in m_consumers : \E t \in Block : Added(c) = PathTo[t]
    BY <1>3 DEF LinkInv
  <1>6. ASSUME NEW c \in m_consumers, NEW d \in m_consumers PROVE Comparable(Added(c), Added(d))
    <2> DEFINE s == m_blockchain[c]
               r == m_blockchain[d]
    <2>1. s \in Seq(Block) /\ r \in Seq(Block) /\ Comparable(s, r)
      BY <1>4 DEF LinkInv
    <2>2. Added(c) = PathTo[q] \/ (Added(c) = s /\ Extends(s, q))
      BY <1>3
    <2>3. Added(d) = PathTo[q] \/ (Added(d) = r /\ Extends(r, q))
      BY <1>3
    <2> HIDE DEF s, r, Added
    <2> QED BY <2>1, <2>2, <2>3, BothAdded
  <1>7. CASE m_blockchain' = AllChains
    <2>1. \A c \in m_consumers : m_blockchain'[c] = Added(c)
      BY <1>2, <1>7 DEF AllChains
    <2> HIDE DEF Added
    <2>2. \A c \in m_consumers' : \E t \in Block : m_blockchain'[c] = PathTo[t]
      BY <1>1, <1>5, <2>1
    <2>3. \A c, d \in m_consumers' : Comparable(m_blockchain'[c], m_blockchain'[d])
      BY <1>1, <1>6, <2>1
    <2> QED BY <1>1, <2>2, <2>3 DEF LinkInv, At, SyncPcs
  <1>8. CASE \E k \in m_consumers : /\ HasNewBlocks(m_blockchain[k], job)
                                    /\ m_blockchain' = ChainsBefore(k)
                                    /\ Failures \cap {"refusal", "exception"} # {}
    <2>1. PICK k \in m_consumers : /\ HasNewBlocks(m_blockchain[k], job)
                                   /\ m_blockchain' = ChainsBefore(k)
                                   /\ Failures \cap {"refusal", "exception"} # {}
      BY <1>8
    <2>2. PICK b \in Block : /\ Detach(m_blockchain[k], job) = PathTo[b]
                             /\ Extends(m_blockchain[k], b) /\ Extends(PathTo[q], b)
      BY <1>3, <2>1
    <2>3. \A c \in m_consumers : m_blockchain'[c] = IF c > k THEN m_blockchain[c]
                                                    ELSE IF c < k THEN Added(c) ELSE PathTo[b]
      <3> TAKE c \in m_consumers
      <3>1. c \in Consumer /\ c \in Nat /\ k \in Nat
        BY <1>2, ConsumerAssumption
      <3>2. m_blockchain'[c] = ChainsBefore(k)[c]
        BY <2>1
      <3>3. CASE c > k
        BY <3>1, <3>2, <3>3 DEF ChainsBefore
      <3>4. CASE c < k
        BY <3>1, <3>2, <3>4 DEF ChainsBefore
      <3>5. CASE c = k
        BY <2>2, <3>1, <3>2, <3>5 DEF ChainsBefore
      <3> QED BY <3>1, <3>3, <3>4, <3>5
    <2> HIDE DEF Added
    <2>4. \A c \in m_consumers' : \E t \in Block : m_blockchain'[c] = PathTo[t]
      BY <1>1, <1>5, <2>2, <2>3 DEF LinkInv
    <2>5. ASSUME NEW c \in m_consumers, NEW d \in m_consumers, c < k, d > k PROVE FALSE
      <3>1. c \in Nat /\ d \in Nat /\ k \in Nat /\ c \in Consumer /\ d \in Consumer /\ k \in Consumer
        BY <1>2, ConsumerAssumption
      <3>2. c # k /\ d # k /\ c # d
        BY <2>5, <3>1
      <3> QED BY <2>1, <3>1, <3>2 DEF NoneBetween
    <2>6. ASSUME NEW c \in m_consumers, c > k
          PROVE  Comparable(PathTo[b], m_blockchain[c]) /\ Comparable(m_blockchain[c], PathTo[b])
      <3>1. /\ Comparable(m_blockchain[k], m_blockchain[c]) /\ Comparable(m_blockchain[c], m_blockchain[k])
            /\ m_blockchain[k] \in Seq(Block) /\ m_blockchain[c] \in Seq(Block)
        BY <1>4 DEF LinkInv
      <3> QED BY <2>2, <3>1, PrefixesCompare
    <2>7. ASSUME NEW c \in m_consumers, c < k
          PROVE  Comparable(PathTo[b], Added(c)) /\ Comparable(Added(c), PathTo[b])
      <3>1. m_blockchain[c] \in Seq(Block) /\ PathTo[q] \in Seq(Block)
        BY <1>4, PathHeights
      <3>2. CASE Added(c) = PathTo[q]
        BY <2>2, <3>1, <3>2, ExtensionsCompare
      <3>3. CASE Added(c) = m_blockchain[c] /\ Extends(m_blockchain[c], q)
        <4>1. Extends(m_blockchain[c], b)
          BY <2>2, <3>1, <3>3, ExtendsTransitive
        <4> QED BY <3>1, <3>3, <4>1, ExtensionsCompare
      <3> QED BY <1>3, <3>2, <3>3 DEF Added
    <2>8. Comparable(PathTo[b], PathTo[b])
      BY DEF Comparable
    <2>9. ASSUME NEW c \in m_consumers, NEW d \in m_consumers
          PROVE  Comparable(m_blockchain'[c], m_blockchain'[d])
      <3>1. c \in Nat /\ d \in Nat /\ k \in Nat
        BY <1>2, ConsumerAssumption
      <3>2. Comparable(m_blockchain[c], m_blockchain[d])
        BY DEF LinkInv
      <3>3. CASE c > k
        <4>1. m_blockchain'[c] = m_blockchain[c]
          BY <2>3, <3>3
        <4>2. CASE d > k
          BY <2>3, <3>2, <4>1, <4>2
        <4>3. CASE d < k
          BY <2>5, <3>3, <4>3
        <4>4. CASE d = k
          <5>1. m_blockchain'[d] = PathTo[b]
            BY <2>3, <3>1, <4>4
          <5> QED BY <2>6, <3>3, <4>1, <5>1
        <4> QED BY <3>1, <4>2, <4>3, <4>4
      <3>4. CASE c < k
        <4>1. m_blockchain'[c] = Added(c)
          BY <2>3, <3>1, <3>4
        <4>2. CASE d > k
          BY <2>5, <3>4, <4>2
        <4>3. CASE d < k
          <5>1. m_blockchain'[d] = Added(d)
            BY <2>3, <3>1, <4>3
          <5> QED BY <1>6, <4>1, <5>1
        <4>4. CASE d = k
          <5>1. m_blockchain'[d] = PathTo[b]
            BY <2>3, <3>1, <4>4
          <5> QED BY <2>7, <3>4, <4>1, <5>1
        <4> QED BY <3>1, <4>2, <4>3, <4>4
      <3>5. CASE c = k
        <4>1. m_blockchain'[c] = PathTo[b]
          BY <2>3, <3>1, <3>5
        <4>2. CASE d > k
          BY <2>3, <2>6, <4>1, <4>2
        <4>3. CASE d < k
          <5>1. m_blockchain'[d] = Added(d)
            BY <2>3, <3>1, <4>3
          <5> QED BY <2>7, <4>1, <4>3, <5>1
        <4>4. CASE d = k
          BY <2>8, <3>5, <4>1, <4>4
        <4> QED BY <3>1, <4>2, <4>3, <4>4
      <3> QED BY <3>1, <3>3, <3>4, <3>5
    <2>10. \A c, d \in m_consumers' : Comparable(m_blockchain'[c], m_blockchain'[d])
      BY <1>1, <2>9
    <2> QED BY <1>1, <2>4, <2>10 DEF LinkInv, At, SyncPcs
  <1>9. \/ m_blockchain' = AllChains
        \/ \E k \in m_consumers : /\ HasNewBlocks(m_blockchain[k], job)
                                  /\ m_blockchain' = ChainsBefore(k)
                                  /\ Failures \cap {"refusal", "exception"} # {}
    BY DEF UpdateConsumers, Fails
  <1> QED BY <1>7, <1>8, <1>9

LEMMA StepLinks == NoneBetween => (LinkInv /\ [Next]_vars => LinkInv')
  <1> SUFFICES ASSUME NoneBetween, LinkInv, [Next]_vars PROVE LinkInv'
    OBVIOUS
  <1>1. FitInv /\ RunInv
    BY DEF LinkInv, FitInv
  <1>2. FitInv'
    BY <1>1, StepFits
  <1>3. CASE User \/ Node \/ Announcements
    <2>1. \/ ChainsKept
          \/ /\ pc = "none"
             /\ \E c \in Consumer : AddConsumer(c) \/ RemoveConsumer(c)
      BY <1>1, <1>3, OutsideStep
    <2> QED BY <1>2, <2>1, LinkKept, LinkConsumers
  <1>4. CASE Worker
    <2>1. \/ ChainsKept
          \/ StartBlockchainSync \/ QueryBlocks \/ ProcessBlocks \/ UpdateConsumers
      BY <1>1, <1>4, WorkerStep
    <2> QED BY <1>2, <2>1, LinkKept, LinkStartBlockchainSync, LinkQueryBlocks, LinkProcessBlocks,
               LinkUpdateConsumers
  <1>5. CASE UNCHANGED vars
    <2>1. ChainsKept
      BY <1>5 DEF vars, userVars, dataVars, ChainsKept
    <2> QED BY <1>2, <2>1, LinkKept
  <1> QED BY <1>3, <1>4, <1>5 DEF Next

LEMMA InitLinks == Init => LinkInv
  BY InitFits DEF Init, LinkInv, At

(* The chain of every consumer stays a path of the block tree whatever the *)
(* node switches to and whatever fails, as long as no consumer that fails  *)
(* leaves one before and one after it: with two consumers at most, or with *)
(* any number when none of them refuses blocks or throws.                  *)
THEOREM ChainsAlwaysLinked ==
  ASSUME NoneBetween
  PROVE  Spec => []ChainsLinked
  <1>1. Init => LinkInv
    BY InitLinks
  <1>2. LinkInv /\ [Next]_vars => LinkInv'
    BY StepLinks
  <1>3. LinkInv => ChainsLinked
    <2> SUFFICES ASSUME LinkInv, NEW c \in m_consumers
                 PROVE  Len(m_blockchain[c]) > 0 /\ m_blockchain[c] = PathTo[Last(m_blockchain[c])]
      BY DEF ChainsLinked
    <2>1. PICK t \in Block : m_blockchain[c] = PathTo[t]
      BY DEF LinkInv
    <2>2. Len(PathTo[t]) \in Nat \ {0} /\ PathTo[t][Len(PathTo[t])] = t
      BY PathHeights
    <2> QED BY <2>1, <2>2 DEF Last
  <1> QED BY <1>1, <1>2, <1>3, PTL DEF Spec

-----------------------------------------------------------------------------
(* A synchronizer none of whose calls fails.  The blocks that the worker   *)
(* asked for last are on every chain, and no chain has more work than the  *)
(* node's: a chain on which the tail of the node lies ends there.  What    *)
(* the node does after it has answered it announces, and the worker stays  *)
(* among the observers until it stops; so what the worker knows is either  *)
(* still true or on its way to be corrected.                               *)
LoopPcs == {"loop", "actualize", "tasks", "waiting"}
BlockPcs == {"startBlockchainSync", "queryBlocks", "processBlocks", "updateConsumers", "updated",
             "processed"}
PoolPcs == {"startPoolSync", "queryUnion", "unionAnswered", "queryIntersection",
            "intersectionAnswered", "processPoolTxs", "onPoolUpdated"}
Ended == {"none", "ended"}

(* The control of the worker: nothing has failed, a notification does not  *)
(* come between the tasks and the switch, a round of blocks is followed by *)
(* another round, and the worker observes the node unless it is about to   *)
(* begin or to end.                                                        *)
ControlInv ==
  /\ pc # "failed"
  /\ pc = "tasks" => m_stateMutex # Free
  /\ pc = "updated" => job.result \in {"addedNewBlocks", "nothingChanged"}
  /\ pc \in BlockPcs => m_futureState # idle
  /\ pc \notin Ended \cup LoopPcs => m_currentState # stopped
  /\ pc = "waiting" => m_currentState # stopped
  /\ pc \notin Ended /\ m_futureState # stopped =>
       \/ observing
       \/ pc \in {"loop", "actualize"} /\ m_currentState = stopped /\ m_futureState = blockchainSync

(* The blocks: b lies on every chain.                                      *)
OnChains(b) ==
  /\ b \in Block /\ Work[b] <= Work[nodeTail]
  /\ \A c \in m_consumers : Extends(m_blockchain[c], b)

LastIsKnown ==
  \/ pc = "processed" /\ m_futureState # stopped
  \/ pc \in LoopPcs /\ m_futureState \in {idle, poolSync}
  \/ pc \in PoolPcs

BlockInv ==
  /\ \A c \in m_consumers : \E t \in Block : m_blockchain[c] = PathTo[t] /\ Work[t] <= Work[nodeTail]
  /\ pc \in {"processBlocks", "updateConsumers"} =>
       \A q \in Block : IsInterval(job, q) => Work[q] <= Work[nodeTail]
  /\ pc = "updated" => OnChains(job.last)
  /\ LastIsKnown => OnChains(lastBlockId)

(* The tail: every chain ends in lastBlockId once the node has confirmed   *)
(* it, and that is still the tail of the node or a change is announced.    *)
OnLast == lastBlockId \in Block /\ \A c \in m_consumers : m_blockchain[c] = PathTo[lastBlockId]

BlockPending == "blockchain" \in events \cup calls \/ m_futureState \in {blockchainSync, stopped}

Confirmed ==
  \/ pc \in {"queryIntersection", "processPoolTxs", "onPoolUpdated"}
  \/ pc \in {"unionAnswered", "intersectionAnswered"} /\ job.answer.actual
  \/ pc \in LoopPcs /\ m_futureState = idle

TailInv == Confirmed => OnLast /\ (lastBlockId = nodeTail \/ BlockPending)

(* The pool: what the worker has been told, and has yet to tell, makes     *)
(* every pool the node's, or a change is announced.                        *)
PoolPending == "pool" \in events \cup calls \/ m_futureState # idle

Applied(old, new, deleted) == (old \cup new) \ deleted

PoolInv ==
  /\ DOMAIN m_poolTxs = Consumer
  /\ pc = "queryUnion" => job.known = PoolUnion /\ job.both = PoolIntersection
  /\ pc = "unionAnswered" =>
       /\ job.both = PoolIntersection
       /\ job.same => PoolUnion = PoolIntersection
       /\ PoolPending \/ (/\ job.answer.new = nodePool \ PoolUnion
                          /\ job.answer.deleted = PoolUnion \ nodePool)
  /\ pc = "queryIntersection" =>
       job.known = PoolIntersection /\ (PoolPending \/ job.deleted = PoolUnion \ nodePool)
  /\ pc = "intersectionAnswered" =>
       PoolPending \/ (/\ job.answer.new = nodePool \ PoolIntersection
                       /\ job.deleted = PoolUnion \ nodePool)
  /\ pc \in {"processPoolTxs", "onPoolUpdated"} =>
       /\ job.left \subseteq m_consumers
       /\ PoolPending \/ \A c \in m_consumers :
            IF c \in job.left THEN Applied(m_poolTxs[c], job.new, job.deleted) = nodePool
            ELSE m_poolTxs[c] = nodePool
  /\ pc \in LoopPcs => PoolPending \/ \A c \in m_consumers : m_poolTxs[c] = nodePool

SyncInv == LinkInv /\ ControlInv /\ BlockInv /\ TailInv /\ PoolInv

(* What most steps leave of each part.                                     *)
BlocksStay ==
  /\ m_consumers' = m_consumers /\ m_blockchain' = m_blockchain /\ lastBlockId' = lastBlockId
  /\ nodeTail' \in Block /\ Work[nodeTail] <= Work[nodeTail']
  /\ pc' \in {"processBlocks", "updateConsumers"} =>
       pc \in {"processBlocks", "updateConsumers"} /\ job' = job
  /\ pc' = "updated" => pc = "updated" /\ job' = job
  /\ LastIsKnown' => LastIsKnown

TailStays ==
  Confirmed' =>
    /\ Confirmed
    /\ m_consumers' = m_consumers /\ m_blockchain' = m_blockchain /\ lastBlockId' = lastBlockId
    /\ (nodeTail' = nodeTail /\ (BlockPending => BlockPending')) \/ BlockPending'

PoolStays ==
  /\ m_poolTxs' = m_poolTxs
  /\ pc' \in (LoopPcs \cup PoolPcs) \ {"startPoolSync"} =>
       /\ m_consumers' = m_consumers
       /\ (nodePool' = nodePool /\ (PoolPending => PoolPending')) \/ PoolPending'
  /\ pc' \in PoolPcs \ {"startPoolSync"} =>
       /\ job' = job
       /\ pc' = pc \/ (pc = "processPoolTxs" /\ pc' = "onPoolUpdated")
  /\ pc' \in LoopPcs => pc \in LoopPcs \/ PoolPending'

(* A block that the chains reach from the genesis block has at least its   *)
(* work; a chain on which a block of the same work lies ends in it.        *)
LEMMA GenesisIsLeast ==
  ASSUME NEW b \in Block
  PROVE  Work[Genesis] <= Work[b]
  <1>1. IsPathTo(b, PathTo[b])
    BY PathFacts
  <1>2. Work[Genesis] \in Nat /\ Work[b] \in Nat
    BY BlockAssumption
  <1>3. CASE Len(PathTo[b]) = 1
    BY <1>2, <1>3, PathHeights
  <1>4. CASE Len(PathTo[b]) # 1
    <2>1. Len(PathTo[b]) \in Nat \ {0}
      BY PathHeights
    <2>2. 1 \in 1 .. Len(PathTo[b]) - 1
      <3>1. \A n \in Nat \ {0} : n # 1 => 1 \in 1 .. n - 1
        OBVIOUS
      <3> QED BY <1>4, <2>1, <3>1, Zenon
    <2> QED BY <1>1, <1>2, <2>2 DEF IsPathTo
  <1> QED BY <1>3, <1>4

LEMMA EndsThere ==
  ASSUME NEW t \in Block, NEW b \in Block, Extends(PathTo[t], b), Work[t] <= Work[b]
  PROVE  PathTo[t] = PathTo[b]
  <1>1. IsPathTo(t, PathTo[t])
    BY PathFacts
  <1>2. Len(PathTo[b]) \in Nat \ {0} /\ PathTo[b][Len(PathTo[b])] = b
        /\ PathTo[b] \in Seq(Block) /\ PathTo[t] \in Seq(Block)
    BY PathHeights
  <1>3. PathTo[t][Len(PathTo[b])] = b /\ Len(PathTo[b]) <= Len(PathTo[t])
    BY <1>2 DEF Extends
  <1>4. Len(PathTo[t]) \in Nat /\ Work[b] \in Nat /\ Work[t] \in Nat
    BY <1>2, BlockAssumption
  <1>5. Len(PathTo[b]) = Len(PathTo[t])
    <2> SUFFICES ASSUME Len(PathTo[b]) < Len(PathTo[t]) PROVE FALSE
      BY <1>2, <1>3, <1>4
    <2>1. Len(PathTo[b]) \in 1 .. Len(PathTo[t]) - 1
      BY <1>2, <1>4
    <2>2. \A i \in 1 .. Len(PathTo[t]) - 1 : Work[PathTo[t][i]] < Work[t]
      BY <1>1, Zenon DEF IsPathTo
    <2>3. Work[b] < Work[t]
      BY <1>3, <2>1, <2>2, Zenon
    <2> QED BY <1>4, <2>3
  <1> QED BY <1>2, <1>3, <1>5, PathHeights

LEMMA IntervalUnique ==
  ASSUME NEW j, NEW q, NEW r, IsInterval(j, q), IsInterval(j, r)
  PROVE  q = r
  BY IntervalBlocks

LEMMA BlockKept ==
  ASSUME BlockInv, nodeTail \in Block, BlocksStay
  PROVE  BlockInv'
  <1>1. /\ m_consumers' = m_consumers /\ m_blockchain' = m_blockchain /\ lastBlockId' = lastBlockId
        /\ nodeTail' \in Block /\ Work[nodeTail] <= Work[nodeTail']
    BY DEF BlocksStay
  <1>2. ASSUME NEW b \in Block, Work[b] <= Work[nodeTail] PROVE Work[b] <= Work[nodeTail']
    <2>1. Work[b] \in Nat /\ Work[nodeTail] \in Nat /\ Work[nodeTail'] \in Nat
      BY <1>1, BlockAssumption
    <2> QED BY <1>1, <1>2, <2>1
  <1>3. ASSUME NEW b, OnChains(b)
        PROVE  /\ b \in Block /\ Work[b] <= Work[nodeTail']
               /\ \A c \in m_consumers' : Extends(m_blockchain'[c], b)
    BY <1>1, <1>2, <1>3 DEF OnChains
  <1>4. \A c \in m_consumers' : \E t \in Block : m_blockchain'[c] = PathTo[t] /\ Work[t] <= Work[nodeTail']
    BY <1>1, <1>2 DEF BlockInv
  <1>5. pc' \in {"processBlocks", "updateConsumers"} =>
          \A q \in Block : IsInterval(job', q) => Work[q] <= Work[nodeTail']
    BY <1>2 DEF BlockInv, BlocksStay
  <1>6. pc' = "updated" => OnChains(job.last)' 
    BY <1>1, <1>3 DEF BlockInv, BlocksStay, OnChains
  <1>7. LastIsKnown' => OnChains(lastBlockId)'
    BY <1>1, <1>3 DEF BlockInv, BlocksStay, OnChains
  <1> QED BY <1>4, <1>5, <1>6, <1>7 DEF BlockInv

LEMMA TailKept ==
  ASSUME TailInv, TailStays
  PROVE  TailInv'
  <1> SUFFICES ASSUME Confirmed' PROVE (OnLast /\ (lastBlockId = nodeTail \/ BlockPending))'
    BY DEF TailInv
  <1>1. OnLast /\ (lastBlockId = nodeTail \/ BlockPending)
    BY DEF TailInv, TailStays
  <1>2. OnLast'
    BY <1>1 DEF TailStays, OnLast
  <1>3. lastBlockId' = nodeTail' \/ BlockPending'
    BY <1>1 DEF TailStays
  <1> QED BY <1>2, <1>3

LEMMA PoolKept ==
  ASSUME PoolInv, PoolStays
  PROVE  PoolInv'
  <1> USE DEF LoopPcs, PoolPcs
  <1>1. DOMAIN m_poolTxs' = Consumer
    BY DEF PoolInv, PoolStays
  <1>2. CASE pc' \notin LoopPcs \cup PoolPcs
    BY <1>1, <1>2 DEF PoolInv
  <1>3. CASE pc' = "startPoolSync"
    BY <1>1, <1>3 DEF PoolInv
  <1>4. ASSUME pc' \in (LoopPcs \cup PoolPcs) \ {"startPoolSync"}
        PROVE  /\ PoolUnion' = PoolUnion /\ PoolIntersection' = PoolIntersection
               /\ (nodePool' = nodePool /\ (PoolPending => PoolPending')) \/ PoolPending'
               /\ m_poolTxs' = m_poolTxs /\ m_consumers' = m_consumers
    <2>1. /\ m_poolTxs' = m_poolTxs /\ m_consumers' = m_consumers
          /\ (nodePool' = nodePool /\ (PoolPending => PoolPending')) \/ PoolPending'
      BY <1>4 DEF PoolStays
    <2> QED BY <2>1, Zenon DEF PoolUnion, PoolIntersection
  <1>5. CASE pc' \in LoopPcs
    <2>1. PoolPending' \/ \A c \in m_consumers' : m_poolTxs'[c] = nodePool'
      BY <1>4, <1>5 DEF PoolInv, PoolStays
    <2> QED BY <1>1, <1>5, <2>1 DEF PoolInv
  <1>6. CASE pc' \in PoolPcs \ {"startPoolSync"}
    <2>1. job' = job /\ (pc' = pc \/ (pc = "processPoolTxs" /\ pc' = "onPoolUpdated"))
      BY <1>6 DEF PoolStays
    <2>2. pc' = "queryUnion" => job'.known = PoolUnion' /\ job'.both = PoolIntersection'
      BY <1>4, <1>6, <2>1 DEF PoolInv
    <2>3. pc' = "unionAnswered" =>
            /\ job'.both = PoolIntersection'
            /\ job'.same => PoolUnion' = PoolIntersection'
            /\ PoolPending' \/ (/\ job'.answer.new = nodePool' \ PoolUnion'
                                /\ job'.answer.deleted = PoolUnion' \ nodePool')
      BY <1>4, <1>6, <2>1 DEF PoolInv
    <2>4. pc' = "queryIntersection" =>
            job'.known = PoolIntersection' /\ (PoolPending' \/ job'.deleted = PoolUnion' \ nodePool')
      BY <1>4, <1>6, <2>1 DEF PoolInv
    <2>5. pc' = "intersectionAnswered" =>
            PoolPending' \/ (/\ job'.answer.new = nodePool' \ PoolIntersection'
                             /\ job'.deleted = PoolUnion' \ nodePool')
      BY <1>4, <1>6, <2>1 DEF PoolInv
    <2>6. pc' \in {"processPoolTxs", "onPoolUpdated"} =>
            /\ job'.left \subseteq m_consumers'
            /\ PoolPending' \/ \A c \in m_consumers' :
                 IF c \in job'.left THEN Applied(m_poolTxs'[c], job'.new, job'.deleted) = nodePool'
                 ELSE m_poolTxs'[c] = nodePool'
      BY <1>4, <1>6, <2>1 DEF PoolInv
    <2> QED BY <1>1, <1>6, <2>2, <2>3, <2>4, <2>5, <2>6 DEF PoolInv, Applied
  <1> QED BY <1>2, <1>3, <1>5, <1>6

(* The user's and the node's steps.                                        *)
LEMMA OutsideStays ==
  ASSUME RunInv, ControlInv, User \/ Node \/ Announcements
  PROVE  \/ ControlInv' /\ BlocksStay /\ TailStays /\ PoolStays
         \/ \E c \in Consumer : AddConsumer(c) \/ RemoveConsumer(c)
  <1> USE DEF RunInv, ControlInv, BlocksStay, TailStays, PoolStays, LastIsKnown, Confirmed,
              BlockPending, PoolPending, LoopPcs, BlockPcs, PoolPcs, Ended, userVars, dataVars, taskVars,
              nodeVars, idle, poolSync, blockchainSync, stopped, Free, StateFree, IsStopped,
              SetFutureState, Spend
  <1> DEFINE Stays == ControlInv' /\ BlocksStay /\ TailStays /\ PoolStays
  <1>1. ASSUME NEW b \in Block PROVE Work[b] \in Nat
    BY BlockAssumption
  <1>2. ASSUME Start PROVE Stays
    BY <1>1, <1>2 DEF Start
  <1>3. ASSUME Stop PROVE Stays
    BY <1>1, <1>3 DEF Stop
  <1>4. ASSUME Join PROVE Stays
    BY <1>1, <1>4 DEF Join
  <1>5. ASSUME NEW t \in Tx, AddUnconfirmedTransaction(t) PROVE Stays
    BY <1>1, <1>5 DEF AddUnconfirmedTransaction
  <1>6. ASSUME NEW t \in Tx, RemoveUnconfirmedTransaction(t) PROVE Stays
    BY <1>1, <1>6 DEF RemoveUnconfirmedTransaction
  <1>7. ASSUME GetConsumerState PROVE Stays
    BY <1>1, <1>7 DEF GetConsumerState
  <1>8. ASSUME ReturnConsumerState PROVE Stays
    BY <1>1, <1>8 DEF ReturnConsumerState
  <1>9. ASSUME NEW b \in Block, BlockchainChanges(b) PROVE Stays
    BY <1>1, <1>9 DEF BlockchainChanges
  <1>10. ASSUME LastKnownHeightChanges PROVE Stays
    BY <1>1, <1>10 DEF LastKnownHeightChanges
  <1>11. ASSUME NEW t \in Tx, PoolChanges(t) PROVE Stays
    BY <1>1, <1>11 DEF PoolChanges
  <1>12. ASSUME NEW e \in {"blockchain", "pool"}, Announce(e) PROVE Stays
    BY <1>1, <1>12 DEF Announce
  <1>13. ASSUME NEW e \in {"blockchain", "pool"}, Notified(e) PROVE Stays
    BY <1>1, <1>13 DEF Notified
  <1> HIDE DEF Stays
  <1>14. ASSUME User PROVE Stays \/ \E c \in Consumer : AddConsumer(c) \/ RemoveConsumer(c)
    BY <1>2, <1>3, <1>4, <1>5, <1>6, <1>7, <1>8, <1>14 DEF User
  <1>15. ASSUME Node PROVE Stays
    BY <1>9, <1>10, <1>11, <1>15 DEF Node
  <1>16. ASSUME Announcements PROVE Stays
    BY <1>12, <1>13, <1>16 DEF Announcements
  <1> QED BY <1>14, <1>15, <1>16 DEF Stays

(* The worker's steps, when nothing fails.                                 *)
LEMMA WorkerStays ==
  ASSUME Failures = {}, RunInv, ControlInv, Worker
  PROVE  /\ ControlInv'
         /\ BlocksStay \/ QueryBlocks \/ UpdateConsumers \/ HandleResult
         /\ TailStays \/ QueryUnion \/ QueryIntersection
         /\ \/ PoolStays
            \/ StartPoolSync \/ QueryUnion \/ UnionAnswered \/ QueryIntersection
            \/ IntersectionAnswered \/ OnPoolUpdated \/ PoolProcessed
  <1> USE DEF RunInv, ControlInv, BlocksStay, TailStays, PoolStays, LastIsKnown, Confirmed,
              BlockPending, PoolPending, LoopPcs, BlockPcs, PoolPcs, Ended, userVars, dataVars, taskVars,
              nodeVars, idle, poolSync, blockchainSync, stopped, Free, StateFree, syncFrame, At,
              Goto, Fails, SetFutureState, IdleUnlessStopped
  <1>1. nodeTail \in Block /\ Work[nodeTail] <= Work[nodeTail]
    BY BlockAssumption
  <1>2. ASSUME CheckIfShouldStop PROVE ControlInv' /\ BlocksStay /\ TailStays /\ PoolStays
    BY <1>1, <1>2 DEF CheckIfShouldStop
  <1>3. ASSUME ActualizeFutureState PROVE ControlInv' /\ BlocksStay /\ TailStays /\ PoolStays
    BY <1>1, <1>3 DEF ActualizeFutureState, Observes
  <1>4. ASSUME DoRemoveUnconfirmedTransaction PROVE ControlInv' /\ BlocksStay /\ TailStays /\ PoolStays
    BY <1>1, <1>4 DEF DoRemoveUnconfirmedTransaction
  <1>5. ASSUME DoAddUnconfirmedTransaction PROVE ControlInv' /\ BlocksStay /\ TailStays /\ PoolStays
    BY <1>1, <1>5 DEF DoAddUnconfirmedTransaction
  <1>6. ASSUME SwitchState PROVE ControlInv' /\ BlocksStay /\ TailStays /\ PoolStays
    <2> DEFINE Switch(from, future, next) ==
                 m_futureState = from => AfterSwitch[from].future = future /\ AfterSwitch[from].pc = next
    <2>1. /\ Switch(idle, idle, "waiting") /\ Switch(poolSync, idle, "startPoolSync")
          /\ Switch(blockchainSync, poolSync, "startBlockchainSync")
          /\ Switch(stopped, stopped, IF leaving THEN "ended" ELSE "loop")
      BY DEF AfterSwitch
    <2>2. \/ m_futureState = idle /\ m_futureState' = idle /\ pc' = "waiting"
          \/ m_futureState = poolSync /\ m_futureState' = idle /\ pc' = "startPoolSync"
          \/ m_futureState = blockchainSync /\ m_futureState' = poolSync /\ pc' = "startBlockchainSync"
          \/ m_futureState = stopped /\ m_futureState' = stopped /\ pc' \in {"ended", "loop"}
      BY <1>6, <2>1 DEF SwitchState
    <2>3. /\ pc = "tasks" /\ m_currentState' = m_futureState /\ observing' = observing
          /\ m_consumers' = m_consumers /\ m_blockchain' = m_blockchain /\ lastBlockId' = lastBlockId
          /\ nodeTail' = nodeTail /\ nodePool' = nodePool /\ m_poolTxs' = m_poolTxs
          /\ events' = events /\ calls' = calls
      BY <1>6 DEF SwitchState
    <2>4. ControlInv'
      BY <2>2, <2>3
    <2>5. BlocksStay /\ TailStays
      BY <1>1, <2>2, <2>3
    <2>6. PoolStays
      BY <2>2, <2>3
    <2> QED BY <2>4, <2>5, <2>6
  <1>7. ASSUME WakeUp PROVE ControlInv' /\ BlocksStay /\ TailStays /\ PoolStays
    BY <1>1, <1>7 DEF WakeUp
  <1>8. ASSUME ReportError PROVE ControlInv' /\ BlocksStay /\ TailStays /\ PoolStays
    BY <1>1, <1>8 DEF ReportError
  <1>9. ASSUME StartBlockchainSync PROVE ControlInv' /\ BlocksStay /\ TailStays /\ PoolStays
    BY <1>1, <1>9 DEF StartBlockchainSync
  <1>10. ASSUME ProcessBlocks PROVE ControlInv' /\ BlocksStay /\ TailStays /\ PoolStays
    BY <1>1, <1>10 DEF ProcessBlocks
  <1>11. ASSUME NotifyInterrupted PROVE ControlInv' /\ BlocksStay /\ TailStays /\ PoolStays
    BY <1>1, <1>11 DEF NotifyInterrupted
  <1>12. ASSUME LockConsumers PROVE ControlInv' /\ BlocksStay /\ TailStays /\ PoolStays
    BY <1>1, <1>12 DEF LockConsumers
  <1>13. ASSUME QueryBlocks PROVE ControlInv' /\ TailStays /\ PoolStays
    BY <1>1, <1>13 DEF QueryBlocks
  <1>14. ASSUME UpdateConsumers PROVE ControlInv' /\ TailStays /\ PoolStays
    BY <1>1, <1>14 DEF UpdateConsumers
  <1>15. ASSUME HandleResult PROVE ControlInv' /\ TailStays /\ PoolStays
    BY <1>1, <1>15 DEF HandleResult
  <1>16. ASSUME StartPoolSync PROVE ControlInv' /\ BlocksStay /\ TailStays
    BY <1>1, <1>16 DEF StartPoolSync
  <1>17. ASSUME QueryUnion PROVE ControlInv' /\ BlocksStay
    BY <1>1, <1>17 DEF QueryUnion
  <1>18. ASSUME UnionAnswered PROVE ControlInv' /\ BlocksStay /\ TailStays
    BY <1>1, <1>18 DEF UnionAnswered, BlockchainOutdated, ApplyTo
  <1>19. ASSUME QueryIntersection PROVE ControlInv' /\ BlocksStay
    BY <1>1, <1>19 DEF QueryIntersection
  <1>20. ASSUME IntersectionAnswered PROVE ControlInv' /\ BlocksStay /\ TailStays
    BY <1>1, <1>20 DEF IntersectionAnswered, BlockchainOutdated, ApplyTo
  <1>21. ASSUME OnPoolUpdated PROVE ControlInv' /\ BlocksStay /\ TailStays
    BY <1>1, <1>21 DEF OnPoolUpdated, FinishPool
  <1>22. ASSUME PoolProcessed PROVE ControlInv' /\ BlocksStay /\ TailStays
    BY <1>1, <1>22 DEF PoolProcessed, FinishPool
  <1> HIDE DEF ControlInv, BlocksStay, TailStays, PoolStays
  <1> QED
    BY <1>2, <1>3, <1>4, <1>5, <1>6, <1>7, <1>8, <1>9, <1>10, <1>11, <1>12, <1>13, <1>14, <1>15, <1>16, <1>17, <1>18, <1>19, <1>20, <1>21, <1>22 DEF Worker

(* The consumers change while the worker does not run.                     *)
LEMMA ConsumersKeepSync ==
  ASSUME SyncInv, pc = "none", NEW c \in Consumer, AddConsumer(c) \/ RemoveConsumer(c)
  PROVE  ControlInv' /\ BlockInv' /\ TailInv' /\ PoolInv'
  <1>1. pc' = "none" /\ nodeTail' = nodeTail
    BY DEF AddConsumer, RemoveConsumer, nodeVars
  <1>2. m_blockchain \in [Consumer -> Seq(Block)] /\ m_consumers \subseteq Consumer /\ nodeTail \in Block
    BY DEF SyncInv, LinkInv, FitInv, HeightInv, RunInv
  <1>3. ControlInv'
    BY <1>1 DEF ControlInv, BlockPcs, Ended, LoopPcs
  <1>4. TailInv'
    BY <1>1 DEF TailInv, Confirmed, LoopPcs
  <1>5. PoolInv'
    <2>1. DOMAIN m_poolTxs' = Consumer
      BY DEF SyncInv, PoolInv, AddConsumer, RemoveConsumer
    <2> QED BY <1>1, <2>1 DEF PoolInv, LoopPcs
  <1>6. \A d \in m_consumers' : \E t \in Block : m_blockchain'[d] = PathTo[t] /\ Work[t] <= Work[nodeTail]
    <2>1. Genesis \in Block /\ PathTo[Genesis] = <<Genesis>> /\ Work[Genesis] <= Work[nodeTail]
      BY <1>2, PathDefined, BlockAssumption, GenesisIsLeast
    <2>2. \A d \in m_consumers' : d = c \/ d \in m_consumers
      BY DEF AddConsumer, RemoveConsumer
    <2>3. \A d \in m_consumers' : d # c => m_blockchain'[d] = m_blockchain[d]
      BY <1>2, <2>2 DEF AddConsumer, RemoveConsumer
    <2>4. c \in m_consumers' => m_blockchain'[c] = <<Genesis>>
      BY <1>2 DEF AddConsumer, RemoveConsumer
    <2> QED BY <2>1, <2>2, <2>3, <2>4 DEF SyncInv, BlockInv
  <1>7. BlockInv'
    BY <1>1, <1>6 DEF BlockInv, LastIsKnown, LoopPcs, PoolPcs
  <1> QED BY <1>3, <1>4, <1>5, <1>7

(* The blocks that the node answers with have at most the work of its      *)
(* tail.                                                                   *)
LEMMA QueryBlocksKeepsBlocks ==
  ASSUME SyncInv, ControlInv', QueryBlocks
  PROVE  BlockInv'
  <1>1. /\ m_consumers' = m_consumers /\ m_blockchain' = m_blockchain /\ nodeTail' = nodeTail
        /\ pc' \in {"processBlocks", "failed"}
    BY DEF QueryBlocks, syncFrame, userVars, dataVars, nodeVars, Goto
  <1>2. pc' = "processBlocks"
    BY <1>1 DEF ControlInv
  <1>3. PICK q \in Block : IsInterval(job', q) /\ Work[q] <= Work[nodeTail]
    BY <1>2, AnswerOfNode DEF SyncInv, LinkInv, SyncPcs
  <1>4. \A r \in Block : IsInterval(job', r) => Work[r] <= Work[nodeTail]
    BY <1>3, IntervalUnique
  <1>5. ~ LastIsKnown'
    BY <1>2 DEF LastIsKnown, LoopPcs, PoolPcs
  <1> QED BY <1>1, <1>2, <1>4, <1>5 DEF SyncInv, BlockInv

(* They lie on every chain afterwards.                                     *)
LEMMA UpdateConsumersKeepsBlocks ==
  ASSUME Failures = {}, SyncInv, UpdateConsumers
  PROVE  BlockInv'
  <1>1. /\ pc = "updateConsumers" /\ pc' = "updated" /\ m_consumers' = m_consumers
        /\ nodeTail' = nodeTail /\ m_blockchain' = AllChains /\ job'.last = Last(job.blocks)
    BY DEF UpdateConsumers, syncFrame, userVars, nodeVars, At, Goto, Fails
  <1>2. m_blockchain \in [Consumer -> Seq(Block)] /\ m_consumers \subseteq Consumer /\ nodeTail \in Block
    BY DEF SyncInv, LinkInv, FitInv, HeightInv, RunInv
  <1>3. PICK q \in Block :
          /\ IsInterval(job, q)
          /\ \A c \in m_consumers :
               \/ AddBlocks(m_blockchain[c], job) = PathTo[q]
               \/ /\ AddBlocks(m_blockchain[c], job) = m_blockchain[c]
                  /\ Extends(m_blockchain[c], q)
    BY UpdatedChains DEF SyncInv
  <1>4. job'.last = q /\ Work[q] <= Work[nodeTail]
    BY <1>1, <1>3, IntervalBlocks DEF SyncInv, BlockInv
  <1>5. Extends(PathTo[q], q)
    BY PathHeights DEF Extends
  <1>6. \A c \in m_consumers : m_blockchain'[c] = AddBlocks(m_blockchain[c], job)
    BY <1>1, <1>2 DEF AllChains
  <1>7. \A c \in m_consumers : Extends(m_blockchain'[c], q)
    BY <1>3, <1>5, <1>6
  <1>8. OnChains(job.last)'
    BY <1>1, <1>4, <1>7 DEF OnChains
  <1>9. \A c \in m_consumers : \E t \in Block : m_blockchain'[c] = PathTo[t] /\ Work[t] <= Work[nodeTail]
    BY <1>3, <1>4, <1>6 DEF SyncInv, BlockInv
  <1>10. ~ LastIsKnown'
    BY <1>1 DEF LastIsKnown, LoopPcs, PoolPcs
  <1> QED BY <1>1, <1>8, <1>9, <1>10 DEF BlockInv

LEMMA HandleResultKeepsBlocks ==
  ASSUME SyncInv, HandleResult
  PROVE  BlockInv'
  <1>1. /\ pc = "updated" /\ pc' = "processed" /\ m_consumers' = m_consumers
        /\ m_blockchain' = m_blockchain /\ nodeTail' = nodeTail /\ lastBlockId' = job.last
    BY DEF HandleResult, syncFrame, userVars, nodeVars, At, Goto
  <1>2. OnChains(job.last)
    BY <1>1 DEF SyncInv, BlockInv
  <1>3. OnChains(lastBlockId)'
    BY <1>1, <1>2 DEF OnChains
  <1> QED BY <1>1, <1>3 DEF SyncInv, BlockInv

(* The node confirms lastBlockId: every chain on which it lies ends there. *)
LEMMA AnswerConfirms ==
  ASSUME SyncInv, pc \in PoolPcs, lastBlockId = nodeTail
  PROVE  OnLast
  <1>1. OnChains(nodeTail)
    BY DEF SyncInv, BlockInv, LastIsKnown
  <1>2. ASSUME NEW c \in m_consumers PROVE m_blockchain[c] = PathTo[nodeTail]
    <2>1. PICK t \in Block : m_blockchain[c] = PathTo[t] /\ Work[t] <= Work[nodeTail]
      BY DEF SyncInv, BlockInv
    <2>2. Extends(PathTo[t], nodeTail) /\ nodeTail \in Block
      BY <1>1, <2>1 DEF OnChains
    <2> QED BY <2>1, <2>2, EndsThere
  <1> QED BY <1>1, <1>2 DEF OnLast, OnChains

LEMMA QueriesKeepTail ==
  ASSUME Failures = {}, SyncInv, QueryUnion \/ QueryIntersection
  PROVE  TailInv'
  <1>1. /\ pc \in PoolPcs /\ m_consumers' = m_consumers /\ m_blockchain' = m_blockchain
        /\ nodeTail' = nodeTail /\ lastBlockId' = lastBlockId
        /\ pc' \in {"unionAnswered", "intersectionAnswered"}
    BY DEF QueryUnion, QueryIntersection, PoolPcs, syncFrame, userVars, nodeVars, dataVars, At, Goto,
           Fails
  <1>2. PICK known : job'.answer = Difference(known)
    BY DEF QueryUnion, QueryIntersection, Fails
  <1>3. job'.answer.actual <=> lastBlockId = nodeTail
    <2>1. Difference(known).actual = (lastBlockId = nodeTail)
      BY Zenon DEF Difference
    <2> QED BY <1>2, <2>1, Zenon
  <1>4. Confirmed' => lastBlockId = nodeTail
    BY <1>1, <1>3 DEF Confirmed, LoopPcs
  <1>5. Confirmed' => OnLast
    BY <1>1, <1>4, AnswerConfirms
  <1>6. Confirmed' => OnLast'
    BY <1>1, <1>5 DEF OnLast
  <1> QED BY <1>1, <1>4, <1>6 DEF TailInv

(* What an answer about the union of the pools and one about their         *)
(* intersection make of a pool between the two.                            *)
LEMMA AppliedDifference ==
  ASSUME NEW known, NEW both, NEW old, NEW pool, both \subseteq old, old \subseteq known
  PROVE  Applied(old, pool \ both, known \ pool) = pool
  BY DEF Applied

LEMMA PoolsBetween ==
  ASSUME NEW c \in m_consumers
  PROVE  PoolIntersection \subseteq m_poolTxs[c] /\ m_poolTxs[c] \subseteq PoolUnion
  BY DEF PoolIntersection, PoolUnion

LEMMA StartPoolSyncKeepsPool ==
  ASSUME SyncInv, StartPoolSync
  PROVE  PoolInv'
  <1>1. /\ pc' = "queryUnion" /\ job' = [known |-> PoolUnion, both |-> PoolIntersection]
        /\ m_consumers' = m_consumers /\ m_poolTxs' = m_poolTxs
    BY DEF StartPoolSync, syncFrame, userVars, dataVars, Goto
  <1>2. PoolUnion' = PoolUnion /\ PoolIntersection' = PoolIntersection
    BY <1>1, Zenon DEF PoolUnion, PoolIntersection
  <1>3. job'.known = PoolUnion /\ job'.both = PoolIntersection
    BY <1>1
  <1> QED BY <1>1, <1>2, <1>3 DEF SyncInv, PoolInv, LoopPcs

LEMMA QueryUnionKeepsPool ==
  ASSUME Failures = {}, SyncInv, QueryUnion
  PROVE  PoolInv'
  <1>1. /\ pc = "queryUnion" /\ pc' = "unionAnswered" /\ m_consumers' = m_consumers
        /\ m_poolTxs' = m_poolTxs /\ nodePool' = nodePool
        /\ job' = [both |-> job.both, same |-> job.known = job.both, answer |-> Difference(job.known)]
    BY DEF QueryUnion, syncFrame, userVars, dataVars, nodeVars, At, Goto, Fails
  <1>2. PoolUnion' = PoolUnion /\ PoolIntersection' = PoolIntersection
    BY <1>1, Zenon DEF PoolUnion, PoolIntersection
  <1>3. job.known = PoolUnion /\ job.both = PoolIntersection
    BY <1>1 DEF SyncInv, PoolInv
  <1>4. job'.both = job.both /\ job'.answer = Difference(job.known)
    BY <1>1
  <1>5. job'.same => job.known = job.both
    BY <1>1, Zenon
  <1>6. /\ job'.answer.new = nodePool \ PoolUnion
        /\ job'.answer.deleted = PoolUnion \ nodePool
    BY <1>3, <1>4 DEF Difference
  <1> QED BY <1>1, <1>2, <1>3, <1>4, <1>5, <1>6 DEF SyncInv, PoolInv, LoopPcs

LEMMA UnionAnsweredKeepsPool ==
  ASSUME SyncInv, UnionAnswered
  PROVE  PoolInv'
  <1>1. /\ pc = "unionAnswered" /\ m_consumers' = m_consumers
        /\ m_poolTxs' = m_poolTxs /\ nodePool' = nodePool /\ events' = events /\ calls' = calls
    BY DEF UnionAnswered, syncFrame, userVars, dataVars, nodeVars, At
  <1>2. PoolUnion' = PoolUnion /\ PoolIntersection' = PoolIntersection
    BY <1>1, Zenon DEF PoolUnion, PoolIntersection
  <1>3. /\ job.both = PoolIntersection /\ (job.same => PoolUnion = PoolIntersection)
        /\ PoolPending \/ (/\ job.answer.new = nodePool \ PoolUnion
                           /\ job.answer.deleted = PoolUnion \ nodePool)
        /\ DOMAIN m_poolTxs' = Consumer
    BY <1>1 DEF SyncInv, PoolInv
  <1>4. CASE BlockchainOutdated
    <2>1. pc' = "loop" /\ m_futureState' # idle
      BY <1>4 DEF BlockchainOutdated, SetFutureState, Goto, idle, blockchainSync, SyncInv, LinkInv,
                  FitInv, RunInv, poolSync, stopped
    <2>2. PoolPending'
      BY <2>1 DEF PoolPending
    <2> QED BY <1>3, <2>1, <2>2 DEF PoolInv, LoopPcs
  <1>5. CASE job.same /\ ApplyTo(job.answer.new, job.answer.deleted) /\ m_futureState' = m_futureState
    <2>1. /\ pc' = "processPoolTxs" /\ job'.left = m_consumers /\ job'.new = job.answer.new
          /\ job'.deleted = job.answer.deleted
      BY <1>5 DEF ApplyTo, Goto
    <2>2. PoolPending' <=> PoolPending
      BY <1>1, <1>5 DEF PoolPending
    <2>3. ASSUME ~PoolPending, NEW c \in m_consumers
          PROVE  Applied(m_poolTxs[c], job'.new, job'.deleted) = nodePool
      <3>1. job'.new = nodePool \ PoolIntersection /\ job'.deleted = PoolUnion \ nodePool
        BY <1>3, <1>5, <2>1, <2>3
      <3>2. PoolIntersection \subseteq m_poolTxs[c] /\ m_poolTxs[c] \subseteq PoolUnion
        BY PoolsBetween
      <3>3. Applied(m_poolTxs[c], nodePool \ PoolIntersection, PoolUnion \ nodePool) = nodePool
        BY <3>2, AppliedDifference
      <3> QED BY <3>1, <3>3
    <2> QED BY <1>1, <1>3, <2>1, <2>2, <2>3 DEF PoolInv, LoopPcs, Applied
  <1>6. CASE /\ job' = [known |-> job.both, deleted |-> job.answer.deleted]
             /\ pc' = "queryIntersection" /\ m_futureState' = m_futureState
    <2>1. job'.known = job.both /\ job'.deleted = job.answer.deleted
      BY <1>6
    <2>2. PoolPending' <=> PoolPending
      BY <1>1, <1>6 DEF PoolPending
    <2> QED BY <1>1, <1>2, <1>3, <1>6, <2>1, <2>2 DEF PoolInv, LoopPcs
  <1> QED BY <1>4, <1>5, <1>6 DEF UnionAnswered, Goto

LEMMA QueryIntersectionKeepsPool ==
  ASSUME Failures = {}, SyncInv, QueryIntersection
  PROVE  PoolInv'
  <1>1. /\ pc = "queryIntersection" /\ pc' = "intersectionAnswered" /\ m_consumers' = m_consumers
        /\ m_poolTxs' = m_poolTxs /\ nodePool' = nodePool /\ events' = events /\ calls' = calls
        /\ m_futureState' = m_futureState
        /\ job' = [deleted |-> job.deleted, answer |-> Difference(job.known)]
    BY DEF QueryIntersection, syncFrame, userVars, dataVars, nodeVars, At, Goto, Fails
  <1>2. PoolUnion' = PoolUnion /\ PoolIntersection' = PoolIntersection
    BY <1>1, Zenon DEF PoolUnion, PoolIntersection
  <1>3. /\ job.known = PoolIntersection /\ (PoolPending \/ job.deleted = PoolUnion \ nodePool)
        /\ DOMAIN m_poolTxs' = Consumer
    BY <1>1 DEF SyncInv, PoolInv
  <1>4. job'.deleted = job.deleted /\ job'.answer = Difference(job.known)
    BY <1>1
  <1>5. job'.answer.new = nodePool \ PoolIntersection
    BY <1>3, <1>4 DEF Difference
  <1>6. PoolPending' <=> PoolPending
    BY <1>1 DEF PoolPending
  <1> QED BY <1>1, <1>2, <1>3, <1>4, <1>5, <1>6 DEF PoolInv, LoopPcs

LEMMA IntersectionAnsweredKeepsPool ==
  ASSUME SyncInv, IntersectionAnswered
  PROVE  PoolInv'
  <1>1. /\ pc = "intersectionAnswered" /\ m_consumers' = m_consumers
        /\ m_poolTxs' = m_poolTxs /\ nodePool' = nodePool /\ events' = events /\ calls' = calls
    BY DEF IntersectionAnswered, syncFrame, userVars, dataVars, nodeVars, At
  <1>2. /\ PoolPending \/ (/\ job.answer.new = nodePool \ PoolIntersection
                           /\ job.deleted = PoolUnion \ nodePool)
        /\ DOMAIN m_poolTxs' = Consumer
    BY <1>1 DEF SyncInv, PoolInv
  <1>3. CASE BlockchainOutdated
    <2>1. pc' = "loop" /\ m_futureState' # idle
      BY <1>3 DEF BlockchainOutdated, SetFutureState, Goto, idle, blockchainSync, SyncInv, LinkInv,
                  FitInv, RunInv, poolSync, stopped
    <2>2. PoolPending'
      BY <2>1 DEF PoolPending
    <2> QED BY <1>2, <2>1, <2>2 DEF PoolInv, LoopPcs
  <1>4. CASE ApplyTo(job.answer.new, job.deleted) /\ m_futureState' = m_futureState
    <2>1. /\ pc' = "processPoolTxs" /\ job'.left = m_consumers /\ job'.new = job.answer.new
          /\ job'.deleted = job.deleted
      BY <1>4 DEF ApplyTo, Goto
    <2>2. PoolPending' <=> PoolPending
      BY <1>1, <1>4 DEF PoolPending
    <2>3. ASSUME ~PoolPending, NEW c \in m_consumers
          PROVE  Applied(m_poolTxs[c], job'.new, job'.deleted) = nodePool
      <3>1. job'.new = nodePool \ PoolIntersection /\ job'.deleted = PoolUnion \ nodePool
        BY <1>2, <2>1, <2>3
      <3>2. PoolIntersection \subseteq m_poolTxs[c] /\ m_poolTxs[c] \subseteq PoolUnion
        BY PoolsBetween
      <3>3. Applied(m_poolTxs[c], nodePool \ PoolIntersection, PoolUnion \ nodePool) = nodePool
        BY <3>2, AppliedDifference
      <3> QED BY <3>1, <3>3
    <2> QED BY <1>1, <1>2, <2>1, <2>2, <2>3 DEF PoolInv, LoopPcs, Applied
  <1> QED BY <1>3, <1>4 DEF IntersectionAnswered

LEMMA OnPoolUpdatedKeepsPool ==
  ASSUME Failures = {}, SyncInv, OnPoolUpdated
  PROVE  PoolInv'
  <1> DEFINE k == Min(job.left)
  <1>1. /\ pc = "onPoolUpdated" /\ m_consumers' = m_consumers /\ job.left # {}
        /\ nodePool' = nodePool /\ events' = events /\ calls' = calls
        /\ m_futureState' = m_futureState
    BY DEF OnPoolUpdated, syncFrame, userVars, nodeVars, At
  <1>2. /\ job.left \subseteq m_consumers /\ DOMAIN m_poolTxs = Consumer
        /\ PoolPending \/ \A c \in m_consumers :
             IF c \in job.left THEN Applied(m_poolTxs[c], job.new, job.deleted) = nodePool
             ELSE m_poolTxs[c] = nodePool
    BY <1>1 DEF SyncInv, PoolInv
  <1>3. k \in job.left
    <2>1. m_consumers \subseteq Consumer
      BY DEF SyncInv, LinkInv, FitInv, RunInv
    <2>2. job.left \in SUBSET Nat
      BY <1>2, <2>1, ConsumerAssumption
    <2> QED BY <1>1, <2>2, MinIsLeast
  <1>4. k \in Consumer /\ k \in m_consumers
    BY <1>2, <1>3 DEF SyncInv, LinkInv, FitInv, RunInv
  <1>5. PoolPending' <=> PoolPending
    BY <1>1 DEF PoolPending
  <1>6. CASE m_futureState = stopped /\ FinishPool("interrupted") /\ m_poolTxs' = m_poolTxs
    <2>1. pc' = "loop" /\ PoolPending'
      BY <1>1, <1>6 DEF FinishPool, Goto, PoolPending, idle, stopped
    <2> QED BY <1>2, <1>6, <2>1 DEF PoolInv, LoopPcs
  <1>7. CASE /\ m_poolTxs' = [m_poolTxs EXCEPT ![k] = (@ \cup job.new) \ job.deleted]
             /\ job' = [job EXCEPT !.left = @ \ {k}]
             /\ pc' = pc
    <2> HIDE DEF k
    <2>1. DOMAIN m_poolTxs' = Consumer
      BY <1>2, <1>7
    <2>2. m_poolTxs'[k] = Applied(m_poolTxs[k], job.new, job.deleted)
      BY <1>2, <1>4, <1>7 DEF Applied
    <2>3. \A c \in m_consumers : c # k => m_poolTxs'[c] = m_poolTxs[c]
      BY <1>7
    <2>4. job'.left = job.left \ {k} /\ job'.new = job.new /\ job'.deleted = job.deleted
      BY <1>7
    <2>5. ASSUME ~PoolPending, NEW c \in m_consumers
          PROVE  IF c \in job'.left THEN Applied(m_poolTxs'[c], job'.new, job'.deleted) = nodePool
                 ELSE m_poolTxs'[c] = nodePool
      <3>1. CASE c = k
        BY <1>2, <1>3, <2>2, <2>4, <2>5, <3>1
      <3>2. CASE c # k
        <4>1. m_poolTxs'[c] = m_poolTxs[c] /\ (c \in job'.left <=> c \in job.left)
          BY <2>3, <2>4, <3>2
        <4> QED BY <1>2, <2>4, <2>5, <4>1
      <3> QED BY <3>1, <3>2
    <2> QED BY <1>1, <1>2, <1>5, <1>7, <2>1, <2>4, <2>5 DEF PoolInv, LoopPcs, Applied
  <1> QED BY <1>6, <1>7 DEF OnPoolUpdated, Fails

LEMMA PoolProcessedKeepsPool ==
  ASSUME SyncInv, PoolProcessed
  PROVE  PoolInv'
  <1>1. /\ pc = "onPoolUpdated" /\ pc' = "loop" /\ m_consumers' = m_consumers /\ job.left = {}
        /\ nodePool' = nodePool /\ events' = events /\ calls' = calls
        /\ m_futureState' = m_futureState /\ m_poolTxs' = m_poolTxs
    BY DEF PoolProcessed, FinishPool, syncFrame, userVars, nodeVars, dataVars, At, Goto
  <1>2. DOMAIN m_poolTxs' = Consumer /\ (PoolPending \/ \A c \in m_consumers : m_poolTxs[c] = nodePool)
    BY <1>1 DEF SyncInv, PoolInv
  <1>3. PoolPending' <=> PoolPending
    BY <1>1 DEF PoolPending
  <1> QED BY <1>1, <1>2, <1>3 DEF PoolInv, LoopPcs

LEMMA StepSyncs == Failures = {} => (SyncInv /\ [Next]_vars => SyncInv')
  <1> SUFFICES ASSUME Failures = {}, SyncInv, [Next]_vars PROVE SyncInv'
    OBVIOUS
  <1>1. LinkInv /\ RunInv /\ nodeTail \in Block /\ ControlInv /\ BlockInv /\ TailInv /\ PoolInv
    BY DEF SyncInv, LinkInv, FitInv, RunInv
  <1>2. LinkInv'
    BY <1>1, StepLinks DEF NoneBetween
  <1> SUFFICES ControlInv' /\ BlockInv' /\ TailInv' /\ PoolInv'
    BY <1>2 DEF SyncInv
  <1>3. CASE User \/ Node \/ Announcements
    <2>1. CASE ControlInv' /\ BlocksStay /\ TailStays /\ PoolStays
      BY <1>1, <2>1, BlockKept, TailKept, PoolKept
    <2>2. CASE \E c \in Consumer : AddConsumer(c) \/ RemoveConsumer(c)
      <3>1. PICK c \in Consumer : AddConsumer(c) \/ RemoveConsumer(c)
        BY <2>2
      <3>2. userPc = "ready" /\ m_futureState = stopped
        BY <3>1 DEF AddConsumer, RemoveConsumer, IsStopped
      <3>3. pc = "none"
        BY <1>1, <3>2 DEF RunInv
      <3> QED BY <3>1, <3>3, ConsumersKeepSync
    <2> QED BY <1>1, <1>3, <2>1, <2>2, OutsideStays
  <1>4. CASE Worker
    <2>1. /\ ControlInv'
          /\ BlocksStay \/ QueryBlocks \/ UpdateConsumers \/ HandleResult
          /\ TailStays \/ QueryUnion \/ QueryIntersection
          /\ \/ PoolStays
             \/ StartPoolSync \/ QueryUnion \/ UnionAnswered \/ QueryIntersection
             \/ IntersectionAnswered \/ OnPoolUpdated \/ PoolProcessed
      BY <1>1, <1>4, WorkerStays
    <2>2. BlockInv'
      BY <1>1, <2>1, BlockKept, QueryBlocksKeepsBlocks, UpdateConsumersKeepsBlocks,
         HandleResultKeepsBlocks
    <2>3. TailInv'
      BY <1>1, <2>1, TailKept, QueriesKeepTail
    <2>4. PoolInv'
      BY <1>1, <2>1, PoolKept, StartPoolSyncKeepsPool, QueryUnionKeepsPool, UnionAnsweredKeepsPool,
         QueryIntersectionKeepsPool, IntersectionAnsweredKeepsPool, OnPoolUpdatedKeepsPool,
         PoolProcessedKeepsPool
    <2> QED BY <2>1, <2>2, <2>3, <2>4
  <1>5. CASE UNCHANGED vars
    <2> USE <1>1, <1>5 DEF vars, userVars, dataVars, nodeVars
    <2>1. ControlInv'
      BY DEF ControlInv
    <2>2. BlocksStay
      <3>1. Work[nodeTail] <= Work[nodeTail]
        BY BlockAssumption
      <3> QED BY <3>1 DEF BlocksStay, LastIsKnown
    <2>3. TailStays
      BY DEF TailStays, Confirmed, BlockPending
    <2>4. PoolStays
      BY DEF PoolStays, PoolPending
    <2> QED BY <2>1, <2>2, <2>3, <2>4, BlockKept, TailKept, PoolKept
  <1> QED BY <1>3, <1>4, <1>5 DEF Next

LEMMA InitSyncs == Init => SyncInv
  <1> SUFFICES ASSUME Init PROVE SyncInv
    OBVIOUS
  <1>1. pc = "none" /\ m_consumers = {} /\ DOMAIN m_poolTxs = Consumer
    BY DEF Init
  <1>2. ControlInv /\ BlockInv
    BY <1>1 DEF ControlInv, BlockInv, LastIsKnown, BlockPcs, LoopPcs, PoolPcs, Ended
  <1>3. TailInv /\ PoolInv
    BY <1>1 DEF TailInv, PoolInv, Confirmed, LoopPcs
  <1> QED BY <1>2, <1>3, InitLinks DEF SyncInv

(* When no call fails, a worker that waits with no notification under way  *)
(* has left no consumer behind the node, for any number of consumers and   *)
(* any tree of blocks, limit and history: no notification is lost between  *)
(* the answer of the node and the switch of actualizeFutureState.          *)
THEOREM WaitingAlwaysSynced ==
  ASSUME Failures = {}
  PROVE  Spec => []WaitingMeansSynced
  <1>1. Init => SyncInv
    BY InitSyncs
  <1>2. SyncInv /\ [Next]_vars => SyncInv'
    BY StepSyncs
  <1>3. SyncInv => WaitingMeansSynced
    <2> SUFFICES ASSUME SyncInv, pc = "waiting", m_futureState = idle, events = {}, calls = {}
                 PROVE  Synced
      BY DEF WaitingMeansSynced, At
    <2>1. Confirmed /\ ~BlockPending /\ ~PoolPending
      BY DEF Confirmed, BlockPending, PoolPending, LoopPcs, idle, blockchainSync, stopped
    <2>2. OnLast /\ lastBlockId = nodeTail
      BY <2>1 DEF SyncInv, TailInv
    <2>3. \A c \in m_consumers : m_poolTxs[c] = nodePool
      BY <2>1 DEF SyncInv, PoolInv, LoopPcs
    <2> QED BY <2>2, <2>3 DEF Synced, SyncedBlockchain, OnLast, NodeChain
  <1> QED BY <1>1, <1>2, <1>3, PTL DEF Spec

(* When no call fails, a successful synchronizationCompleted comes with    *)
(* the chain of every consumer at lastBlockId, whatever the node has done  *)
(* since it confirmed it.                                                  *)
THEOREM CompletedAlwaysUpToDate ==
  ASSUME Failures = {}
  PROVE  Spec => CompletedMeansUpToDate
  <1>1. Init => SyncInv
    BY InitSyncs
  <1>2. SyncInv /\ [Next]_vars => SyncInv'
    BY StepSyncs
  <1>3. SyncInv => (At("onPoolUpdated") /\ pc' = "loop" /\ completed' = "ok" =>
                      \A c \in m_consumers : Last(m_blockchain[c]) = lastBlockId)
    <2> SUFFICES ASSUME SyncInv, pc = "onPoolUpdated", NEW c \in m_consumers
                 PROVE  Last(m_blockchain[c]) = lastBlockId
      BY DEF At
    <2>1. lastBlockId \in Block /\ m_blockchain[c] = PathTo[lastBlockId]
      BY DEF SyncInv, TailInv, Confirmed, OnLast
    <2> QED BY <2>1, PathHeights DEF Last
  <1> QED BY <1>1, <1>2, <1>3, PTL DEF Spec, CompletedMeansUpToDate

=============================================================================
