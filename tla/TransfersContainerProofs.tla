---------------------- MODULE TransfersContainerProofs ----------------------
EXTENDS TransfersContainer, FiniteSetTheorems, WellFoundedInduction, TLAPS

(***************************************************************************)
(* What the balance counts, for every set of transactions, outputs and     *)
(* inputs.                                                                 *)
(***************************************************************************)

-----------------------------------------------------------------------------
(* Sequences.                                                              *)
LEMMA SetOf ==
  ASSUME NEW T, NEW s \in Seq(T)
  PROVE  /\ DOMAIN s = 1 .. Len(s) /\ Len(s) \in Nat
         /\ ToSet(s) = {s[i] : i \in 1 .. Len(s)} /\ ToSet(s) \subseteq T
  BY DEF ToSet

(* Only keeps elements of a sequence.                                      *)
LEMMA OnlyIs ==
  ASSUME NEW T, NEW s \in Seq(T), NEW S
  PROVE  Only(s, S) \in Seq(T)
  <1> DEFINE arg == [s |-> s, S |-> S]
             kept(k) == Filter!Rounds(arg, <<>>, k)
             N == {k \in Nat : k <= Len(s) => kept(k) \in Seq(T)}
  <1>1. kept(0) = <<>> /\ \A k \in Nat : kept(k + 1) = KeepItem(arg, kept(k), k + 1)
    BY Filter!RoundsAre
  <1>2. arg.s = s /\ arg.S = S
    OBVIOUS
  <1>3. Only(s, S) = kept(Len(s))
    BY DEF Only
  <1> HIDE DEF arg, kept
  <1>4. 0 \in N
    <2>1. <<>> \in Seq(T)
      OBVIOUS
    <2> QED BY <1>1, <2>1
  <1>5. ASSUME NEW k \in Nat, k \in N PROVE k + 1 \in N
    <2>1. SUFFICES ASSUME k + 1 <= Len(s) PROVE kept(k + 1) \in Seq(T)
      OBVIOUS
    <2> DEFINE before == kept(k)
               x == s[k + 1]
    <2>2. before \in Seq(T) /\ x \in T
      BY <1>5, <2>1
    <2>3. kept(k + 1) = before \/ kept(k + 1) = Append(before, x)
      BY <1>1, <1>2 DEF KeepItem
    <2> HIDE DEF before, x
    <2>4. Append(before, x) \in Seq(T)
      BY <2>2
    <2> QED BY <2>2, <2>3, <2>4
  <1> HIDE DEF N
  <1>6. Nat \subseteq N
    BY <1>4, <1>5, Filter!SetInduction
  <1>7. Len(s) \in N
    BY <1>6
  <1> QED BY <1>3, <1>7 DEF N

-----------------------------------------------------------------------------
(* The members of the container have these forms.                          *)
Members == {"m_transactions", "m_unconfirmedTransfers", "m_availableTransfers", "m_spentTransfers",
            "m_currentHeight", "exception"}
Entry == [tx : Tx, height : Nat]
TransferFields == {"tx", "out", "copy", "desc", "amount", "height", "index", "visible"}
IsTransfer(x) == TransferFields \subseteq DOMAIN x
IsPooled(x) ==
  /\ IsTransfer(x)
  /\ x.desc[1] = "key" => LET o == Outputs[x.tx][x.out]
                          IN  o.type = "key" /\ x.desc = <<"key", o.image>>
InBlock(x) == IsTransfer(x) /\ x.height \in Nat /\ x.index \in Nat
IsSpent(x) == InBlock(x) /\ {"by", "spendingHeight"} \subseteq DOMAIN x
Typed(c) ==
  /\ DOMAIN c = Members /\ c.m_transactions \in Seq(Entry)
  /\ \A x \in c.m_unconfirmedTransfers : IsPooled(x)
  /\ \A x \in c.m_availableTransfers : InBlock(x)
  /\ \A x \in c.m_spentTransfers : IsSpent(x)
  /\ IsFiniteSet(c.m_unconfirmedTransfers)

(* Copies are numbered from 1, and an element of m_unconfirmedTransfers is *)
(* known by its output and copy: one that differs in its visibility alone  *)
(* would be counted as another output.                                     *)
Transfers(c) == c.m_unconfirmedTransfers \cup c.m_availableTransfers \cup c.m_spentTransfers
Numbered(c) == \E m \in Nat : \A x \in Transfers(c) : x.copy \in 1 .. m
Same(x, y) == x.tx = y.tx /\ x.out = y.out /\ x.copy = y.copy
Distinct(c) == Numbered(c) /\ \A x, y \in c.m_unconfirmedTransfers : Same(x, y) => x = y

(* The visibility of the outputs with descriptor d is right.               *)
IsKey(d) == d[1] = "key"
SpentOnce(c, d) == \A x, y \in With(c.m_spentTransfers, d) : x = y
EachSpentOnce(c) == \A d : IsKey(d) => SpentOnce(c, d)
Right(c, d) ==
  LET available == With(c.m_availableTransfers, d)
      unconfirmed == With(c.m_unconfirmedTransfers, d)
      spent == With(c.m_spentTransfers, d)
  IN /\ SpentOnce(c, d)
     /\ spent # {} => \A x \in available \cup unconfirmed : x.visible = FALSE
     /\ spent = {} /\ available # {} =>
          /\ \A x \in unconfirmed : x.visible = FALSE
          /\ \E x \in available : /\ x.visible = TRUE /\ \A y \in available : ~Before(y, x)
                                  /\ \A y \in available : y # x => y.visible = FALSE
     /\ spent = {} /\ available = {} =>
          \A x \in unconfirmed : x.visible = (unconfirmed = {x})

(* The container between two operations of the loops.                      *)
VisInv(c) == Typed(c) /\ Distinct(c) /\ \A d : IsKey(d) => Right(c, d)

-----------------------------------------------------------------------------
(* A mark changes the visibility and nothing else.                         *)
LEMMA MarkIs ==
  ASSUME NEW x, IsTransfer(x), NEW keys, NEW v
  PROVE  LET m == Mark(x, keys, v)
         IN  /\ DOMAIN m = DOMAIN x /\ m.desc = x.desc /\ m.tx = x.tx /\ m.out = x.out /\ m.copy = x.copy
             /\ m.height = x.height /\ m.index = x.index /\ m.amount = x.amount
             /\ IsTransfer(m) /\ (InBlock(x) => InBlock(m)) /\ (IsSpent(x) => IsSpent(m))
             /\ x.desc \in keys => m.visible = v
             /\ x.desc \notin keys => m = x
             /\ "by" \in DOMAIN x => m.by = x.by
  <1> DEFINE m == Mark(x, keys, v)
  <1>1. DOMAIN m = DOMAIN x
    BY DEF Mark
  <1>2. /\ m.desc = x.desc /\ m.tx = x.tx /\ m.out = x.out /\ m.copy = x.copy
        /\ m.height = x.height /\ m.index = x.index /\ m.amount = x.amount
        /\ x.desc \in keys => m.visible = v
        /\ x.desc \notin keys => m = x
        /\ "by" \in DOMAIN x => m.by = x.by
    BY DEF Mark, IsTransfer, TransferFields
  <1> HIDE DEF m
  <1>3. IsTransfer(m) /\ (InBlock(x) => InBlock(m)) /\ (IsSpent(x) => IsSpent(m))
    BY <1>1, <1>2 DEF IsTransfer, InBlock, IsSpent
  <1> QED BY <1>1, <1>2, <1>3 DEF m

(* A set that is not empty has an earliest output.                         *)
LEMMA LeastExists ==
  ASSUME NEW T \in SUBSET Nat, T # {}
  PROVE  \E x \in T : \A y \in T : x <= y
  <1> DEFINE R == OpToRel(<, Nat)
  <1>1. IsWellFoundedOn(R, Nat)
    BY NatLessThanWellFounded
  <1>2. \E x \in T : \A y \in T : ~ (<<y, x>> \in R)
    <2> HIDE DEF R
    <2> QED BY <1>1, WFMin
  <1>3. PICK x \in T : \A y \in T : ~ (<<y, x>> \in R)
    BY <1>2
  <1>4. \A y \in T : ~ (y < x)
    BY <1>3 DEF OpToRel
  <1>5. \A y \in T : x <= y
    BY <1>4
  <1> QED BY <1>5

LEMMA EarliestIs ==
  ASSUME NEW S, S # {}, \A x \in S : x.height \in Nat /\ x.index \in Nat
  PROVE  Earliest(S) \in S /\ \A y \in S : ~Before(y, Earliest(S))
  <1> DEFINE H == {x.height : x \in S}
  <1>1. H \in SUBSET Nat /\ H # {}
    OBVIOUS
  <1>2. PICK h \in H : \A g \in H : h <= g
    BY <1>1, LeastExists
  <1> DEFINE I == {x.index : x \in {y \in S : y.height = h}}
  <1>3. I \in SUBSET Nat /\ I # {}
    BY <1>2
  <1>4. PICK i \in I : \A j \in I : i <= j
    BY <1>3, LeastExists
  <1>5. PICK x \in S : x.height = h /\ x.index = i
    BY <1>4
  <1>6. ASSUME NEW y \in S PROVE ~Before(y, x)
    <2>1. y.height \in Nat /\ y.index \in Nat /\ h <= y.height /\ h \in Nat /\ i \in Nat
      BY <1>1, <1>2, <1>3, <1>4
    <2>2. y.height = h => i <= y.index
      BY <1>4
    <2> QED BY <1>5, <2>1, <2>2 DEF Before
  <1> QED BY <1>6 DEF Earliest

(* The marks of updateTransfersVisibility.                                 *)
Keys(D) == {d \in D : IsKey(d)}
PoolMark(c, D, x) == Mark(x, Keys(D), Alone(c, x))
ChainMark(c, D, x) == Mark(x, Keys(D), First(c, x))
SpentMark(D, x) == Mark(x, Keys(D), TRUE)

LEMMA PoolMarkIs ==
  ASSUME NEW c, NEW D, NEW x, IsTransfer(x)
  PROVE  /\ PoolMark(c, D, x).desc = x.desc /\ PoolMark(c, D, x).tx = x.tx
         /\ PoolMark(c, D, x).out = x.out /\ PoolMark(c, D, x).copy = x.copy
         /\ IsTransfer(PoolMark(c, D, x))
         /\ x.desc \in Keys(D) => PoolMark(c, D, x).visible = Alone(c, x)
         /\ x.desc \notin Keys(D) => PoolMark(c, D, x) = x
         /\ IsPooled(x) => IsPooled(PoolMark(c, D, x))
  <1> DEFINE v == Alone(c, x)
  <1> HIDE DEF v
  <1>1. /\ Mark(x, Keys(D), v).desc = x.desc /\ Mark(x, Keys(D), v).tx = x.tx
        /\ Mark(x, Keys(D), v).out = x.out /\ Mark(x, Keys(D), v).copy = x.copy
        /\ IsTransfer(Mark(x, Keys(D), v))
        /\ x.desc \in Keys(D) => Mark(x, Keys(D), v).visible = v
        /\ x.desc \notin Keys(D) => Mark(x, Keys(D), v) = x
    BY MarkIs
  <1>2. IsPooled(x) => IsPooled(Mark(x, Keys(D), v))
    BY <1>1 DEF IsPooled
  <1>3. PoolMark(c, D, x) = Mark(x, Keys(D), v)
    BY DEF PoolMark, v
  <1>4. v = Alone(c, x)
    BY DEF v
  <1> QED BY <1>1, <1>2, <1>3, <1>4

LEMMA ChainMarkIs ==
  ASSUME NEW c, NEW D, NEW x, InBlock(x)
  PROVE  /\ ChainMark(c, D, x).desc = x.desc /\ ChainMark(c, D, x).height = x.height
         /\ ChainMark(c, D, x).index = x.index /\ InBlock(ChainMark(c, D, x))
         /\ ChainMark(c, D, x).copy = x.copy
         /\ x.desc \in Keys(D) => ChainMark(c, D, x).visible = First(c, x)
         /\ x.desc \notin Keys(D) => ChainMark(c, D, x) = x
  <1> DEFINE v == First(c, x)
  <1> HIDE DEF v
  <1>1. IsTransfer(x)
    BY DEF InBlock
  <1>2. /\ Mark(x, Keys(D), v).desc = x.desc /\ Mark(x, Keys(D), v).height = x.height
        /\ Mark(x, Keys(D), v).index = x.index /\ InBlock(Mark(x, Keys(D), v))
        /\ Mark(x, Keys(D), v).copy = x.copy
        /\ x.desc \in Keys(D) => Mark(x, Keys(D), v).visible = v
        /\ x.desc \notin Keys(D) => Mark(x, Keys(D), v) = x
    BY <1>1, MarkIs
  <1>3. ChainMark(c, D, x) = Mark(x, Keys(D), v)
    BY DEF ChainMark, v
  <1>4. v = First(c, x)
    BY DEF v
  <1> QED BY <1>2, <1>3, <1>4

LEMMA SpentMarkIs ==
  ASSUME NEW D, NEW x, IsSpent(x)
  PROVE  /\ SpentMark(D, x).desc = x.desc /\ IsSpent(SpentMark(D, x))
         /\ SpentMark(D, x).copy = x.copy
         /\ x.desc \notin Keys(D) => SpentMark(D, x) = x
  <1>1. IsTransfer(x)
    BY DEF IsSpent, InBlock
  <1>2. ASSUME NEW v
        PROVE  /\ Mark(x, Keys(D), v).desc = x.desc /\ IsSpent(Mark(x, Keys(D), v))
               /\ Mark(x, Keys(D), v).copy = x.copy
               /\ x.desc \notin Keys(D) => Mark(x, Keys(D), v) = x
    BY <1>1, MarkIs
  <1> QED BY <1>2 DEF SpentMark

(* What updateTransfersVisibility makes of the members.                    *)
LEMMA UpdateIs ==
  ASSUME NEW c, DOMAIN c = Members, NEW D
  PROVE  LET u == updateTransfersVisibility(c, D)
         IN  /\ DOMAIN u = Members /\ u.m_transactions = c.m_transactions
             /\ u.exception = c.exception /\ u.m_currentHeight = c.m_currentHeight
             /\ \A y : y \in u.m_unconfirmedTransfers <=>
                         \E x \in c.m_unconfirmedTransfers : y = PoolMark(c, D, x)
             /\ \A y : y \in u.m_availableTransfers <=>
                         \E x \in c.m_availableTransfers : y = ChainMark(c, D, x)
             /\ \A y : y \in u.m_spentTransfers <=>
                         \E x \in c.m_spentTransfers : y = SpentMark(D, x)
  <1> DEFINE u == updateTransfersVisibility(c, D)
  <1>1. /\ DOMAIN u = Members /\ u.m_transactions = c.m_transactions
        /\ u.exception = c.exception /\ u.m_currentHeight = c.m_currentHeight
        /\ u.m_unconfirmedTransfers = {Mark(x, Keys(D), Alone(c, x)) : x \in c.m_unconfirmedTransfers}
        /\ u.m_availableTransfers = {Mark(x, Keys(D), First(c, x)) : x \in c.m_availableTransfers}
        /\ u.m_spentTransfers = {Mark(x, Keys(D), TRUE) : x \in c.m_spentTransfers}
    BY DEF updateTransfersVisibility, Members, IsKey, Keys
  <1> HIDE DEF u
  <1>2. /\ u.m_unconfirmedTransfers = {PoolMark(c, D, x) : x \in c.m_unconfirmedTransfers}
        /\ u.m_availableTransfers = {ChainMark(c, D, x) : x \in c.m_availableTransfers}
        /\ u.m_spentTransfers = {SpentMark(D, x) : x \in c.m_spentTransfers}
    BY <1>1 DEF PoolMark, ChainMark, SpentMark
  <1> QED BY <1>1, <1>2 DEF u

(* The forms, and what is known of the copies.                             *)
LEMMA UpdateTyped ==
  ASSUME NEW c, Typed(c), Distinct(c), NEW D
  PROVE  LET u == updateTransfersVisibility(c, D)
         IN  Typed(u) /\ Distinct(u)
  <1> DEFINE u == updateTransfersVisibility(c, D)
             un == c.m_unconfirmedTransfers
             av == c.m_availableTransfers
             sp == c.m_spentTransfers
  <1>1. /\ DOMAIN u = Members /\ u.m_transactions = c.m_transactions
        /\ \A y : y \in u.m_unconfirmedTransfers <=> \E x \in un : y = PoolMark(c, D, x)
        /\ \A y : y \in u.m_availableTransfers <=> \E x \in av : y = ChainMark(c, D, x)
        /\ \A y : y \in u.m_spentTransfers <=> \E x \in sp : y = SpentMark(D, x)
    BY UpdateIs DEF Typed
  <1> HIDE DEF u
  <1>2. /\ \A x \in un : IsPooled(x) /\ IsTransfer(x)
        /\ \A x \in av : InBlock(x)
        /\ \A x \in sp : IsSpent(x)
    BY DEF Typed, IsPooled
  <1>3. \A x \in un : IsPooled(PoolMark(c, D, x)) /\ Same(PoolMark(c, D, x), x)
    BY <1>2, PoolMarkIs DEF Same
  <1>4. \A x \in av : InBlock(ChainMark(c, D, x)) /\ ChainMark(c, D, x).copy = x.copy
    BY <1>2, ChainMarkIs
  <1>5. \A x \in sp : IsSpent(SpentMark(D, x)) /\ SpentMark(D, x).copy = x.copy
    BY <1>2, SpentMarkIs
  <1>6. Typed(u)
    <2> DEFINE f == [x \in un |-> PoolMark(c, D, x)]
    <2>1. f \in Surjection(un, u.m_unconfirmedTransfers)
      <3>1. f \in [un -> u.m_unconfirmedTransfers]
        BY <1>1
      <3>2. \A y \in u.m_unconfirmedTransfers : \E x \in un : f[x] = y
        BY <1>1
      <3> QED BY <3>1, <3>2 DEF Surjection
    <2>2. IsFiniteSet(un)
      BY DEF Typed
    <2> HIDE DEF f, un
    <2>3. IsFiniteSet(u.m_unconfirmedTransfers)
      BY <2>1, <2>2, FS_Surjection
    <2> QED BY <1>1, <1>3, <1>4, <1>5, <2>3 DEF Typed, un
  <1>7. Numbered(u)
    <2>1. PICK m \in Nat : \A x \in Transfers(c) : x.copy \in 1 .. m
      BY DEF Distinct, Numbered
    <2>2. \A x \in un \cup av \cup sp : x.copy \in 1 .. m
      BY <2>1 DEF Transfers
    <2>3. ASSUME NEW y \in Transfers(u) PROVE y.copy \in 1 .. m
      <3> HIDE DEF un, av, sp
      <3>1. CASE y \in u.m_unconfirmedTransfers
        BY <1>1, <1>3, <2>2, <3>1 DEF Same
      <3>2. CASE y \in u.m_availableTransfers
        BY <1>1, <1>4, <2>2, <3>2
      <3>3. CASE y \in u.m_spentTransfers
        BY <1>1, <1>5, <2>2, <3>3
      <3> QED BY <3>1, <3>2, <3>3 DEF Transfers
    <2> QED BY <2>3 DEF Numbered
  <1>8. Distinct(u)
    <2>1. SUFFICES ASSUME NEW x \in un, NEW y \in un,
                          Same(PoolMark(c, D, x), PoolMark(c, D, y))
                   PROVE  PoolMark(c, D, x) = PoolMark(c, D, y)
      BY <1>1, <1>7 DEF Distinct
    <2>2. Same(x, y)
      BY <1>3, <2>1 DEF Same
    <2>3. x = y
      BY <2>2 DEF Distinct
    <2> QED BY <2>3
  <1> QED BY <1>6, <1>8 DEF u

(* The outputs with one descriptor, marked.                                *)
MarkedWith(u, c, D, d) ==
  /\ \A y : y \in With(u.m_unconfirmedTransfers, d) <=>
              \E x \in With(c.m_unconfirmedTransfers, d) : y = PoolMark(c, D, x)
  /\ \A y : y \in With(u.m_availableTransfers, d) <=>
              \E x \in With(c.m_availableTransfers, d) : y = ChainMark(c, D, x)
  /\ \A y : y \in With(u.m_spentTransfers, d) <=>
              \E x \in With(c.m_spentTransfers, d) : y = SpentMark(D, x)

LEMMA UpdateWith ==
  ASSUME NEW c, Typed(c), NEW D, NEW d
  PROVE  MarkedWith(updateTransfersVisibility(c, D), c, D, d)
  <1> DEFINE u == updateTransfersVisibility(c, D)
             un == c.m_unconfirmedTransfers
             av == c.m_availableTransfers
             sp == c.m_spentTransfers
  <1>1. /\ \A y : y \in u.m_unconfirmedTransfers <=> \E x \in un : y = PoolMark(c, D, x)
        /\ \A y : y \in u.m_availableTransfers <=> \E x \in av : y = ChainMark(c, D, x)
        /\ \A y : y \in u.m_spentTransfers <=> \E x \in sp : y = SpentMark(D, x)
    BY UpdateIs DEF Typed
  <1> HIDE DEF u
  <1>2. /\ \A x \in un : IsPooled(x) /\ IsTransfer(x)
        /\ \A x \in av : InBlock(x)
        /\ \A x \in sp : IsSpent(x)
    BY DEF Typed, IsPooled
  <1>3. /\ \A x \in un : PoolMark(c, D, x).desc = x.desc
        /\ \A x \in av : ChainMark(c, D, x).desc = x.desc
        /\ \A x \in sp : SpentMark(D, x).desc = x.desc
    BY <1>2, PoolMarkIs, ChainMarkIs, SpentMarkIs
  <1>4. \A y : y \in With(u.m_unconfirmedTransfers, d) <=>
                 \E x \in With(un, d) : y = PoolMark(c, D, x)
    BY <1>1, <1>3 DEF With
  <1>5. \A y : y \in With(u.m_availableTransfers, d) <=>
                 \E x \in With(av, d) : y = ChainMark(c, D, x)
    BY <1>1, <1>3 DEF With
  <1>6. \A y : y \in With(u.m_spentTransfers, d) <=> \E x \in With(sp, d) : y = SpentMark(D, x)
    BY <1>1, <1>3 DEF With
  <1> QED BY <1>4, <1>5, <1>6 DEF MarkedWith, u

(* What is marked is right.                                                *)
LEMMA UpdatedRight ==
  ASSUME NEW c, Typed(c), Distinct(c), NEW D, NEW d \in D, IsKey(d), SpentOnce(c, d)
  PROVE  Right(updateTransfersVisibility(c, D), d)
  <1> DEFINE u == updateTransfersVisibility(c, D)
             U == With(c.m_unconfirmedTransfers, d)
             A == With(c.m_availableTransfers, d)
             P == With(c.m_spentTransfers, d)
             UU == With(u.m_unconfirmedTransfers, d)
             AA == With(u.m_availableTransfers, d)
             PP == With(u.m_spentTransfers, d)
  <1>1. /\ \A y : y \in UU <=> \E x \in U : y = PoolMark(c, D, x)
        /\ \A y : y \in AA <=> \E x \in A : y = ChainMark(c, D, x)
        /\ \A y : y \in PP <=> \E x \in P : y = SpentMark(D, x)
    <2>1. MarkedWith(u, c, D, d)
      BY UpdateWith
    <2> HIDE DEF u
    <2> QED BY <2>1 DEF MarkedWith
  <1>2. /\ \A x \in U : IsTransfer(x) /\ x.desc = d
        /\ \A x \in A : InBlock(x) /\ x.desc = d /\ x.height \in Nat /\ x.index \in Nat
        /\ \A x, y \in P : x = y
        /\ \A x, y \in U : Same(x, y) => x = y
    BY DEF Typed, IsPooled, InBlock, IsSpent, With, SpentOnce, Distinct
  <1>3. d \in Keys(D)
    BY DEF Keys
  <1>4. \A x \in U : PoolMark(c, D, x).visible = Alone(c, x) /\ Same(PoolMark(c, D, x), x)
    BY <1>2, <1>3, PoolMarkIs DEF Same
  <1>5. \A x \in A : /\ ChainMark(c, D, x).visible = First(c, x)
                     /\ ChainMark(c, D, x).height = x.height
                     /\ ChainMark(c, D, x).index = x.index
    BY <1>2, <1>3, ChainMarkIs
  <1>6. /\ \A x \in A : First(c, x) = (P = {} /\ x = Earliest(A))
        /\ \A x \in U : Alone(c, x) = (P = {} /\ A = {} /\ U = {x})
    BY <1>2 DEF First, Alone
  <1> HIDE DEF u, U, A, P, UU, AA, PP
  <1>7. \A x, y \in PP : x = y
    BY <1>1, <1>2
  <1>8. (PP = {} <=> P = {}) /\ (AA = {} <=> A = {})
    BY <1>1
  <1>9. ASSUME P # {} PROVE \A x \in AA \cup UU : x.visible = FALSE
    <2>1. ASSUME NEW x \in A PROVE ChainMark(c, D, x).visible = FALSE
      BY <1>5, <1>6, <1>9
    <2>2. ASSUME NEW x \in U PROVE PoolMark(c, D, x).visible = FALSE
      BY <1>4, <1>6, <1>9
    <2> QED BY <1>1, <2>1, <2>2
  <1>10. ASSUME P = {}, A # {}
         PROVE  /\ \A x \in UU : x.visible = FALSE
                /\ \E x \in AA : /\ x.visible = TRUE /\ \A y \in AA : ~Before(y, x)
                                 /\ \A y \in AA : y # x => y.visible = FALSE
    <2>1. ASSUME NEW x \in U PROVE PoolMark(c, D, x).visible = FALSE
      BY <1>4, <1>6, <1>10
    <2> DEFINE e == Earliest(A)
               m == ChainMark(c, D, e)
    <2>2. e \in A /\ \A y \in A : ~Before(y, e)
      BY <1>2, <1>10, EarliestIs
    <2>3. First(c, e) = TRUE /\ \A y \in A : y # e => First(c, y) = FALSE
      BY <1>6, <1>10, <2>2
    <2> HIDE DEF e
    <2>4. m \in AA /\ m.visible = TRUE /\ m.height = e.height /\ m.index = e.index
      BY <1>1, <1>5, <2>2, <2>3
    <2>5. ASSUME NEW y \in A
          PROVE  /\ ~Before(ChainMark(c, D, y), m)
                 /\ ChainMark(c, D, y) # m => ChainMark(c, D, y).visible = FALSE
      <3>1. ~Before(ChainMark(c, D, y), m)
        BY <1>5, <2>2, <2>4 DEF Before
      <3>2. ASSUME y # e PROVE ChainMark(c, D, y).visible = FALSE
        BY <1>5, <2>3, <3>2
      <3> QED BY <3>1, <3>2
    <2> HIDE DEF m
    <2>6. ASSUME NEW y \in AA PROVE ~Before(y, m) /\ (y # m => y.visible = FALSE)
      <3>1. PICK x \in A : y = ChainMark(c, D, x)
        BY <1>1
      <3> QED BY <2>5, <3>1
    <2> QED BY <1>1, <2>1, <2>4, <2>6
  <1>11. ASSUME P = {}, A = {} PROVE \A x \in UU : x.visible = (UU = {x})
    <2>1. SUFFICES ASSUME NEW x \in U
                   PROVE  PoolMark(c, D, x).visible = (UU = {PoolMark(c, D, x)})
      BY <1>1
    <2> DEFINE m == PoolMark(c, D, x)
    <2>2. CASE U = {x}
      <3>1. m.visible = TRUE
        BY <1>4, <1>6, <1>11, <2>2
      <3>2. UU = {m}
        BY <1>1, <2>2
      <3> QED BY <3>1, <3>2
    <2>3. CASE U # {x}
      <3>1. m.visible = FALSE
        BY <1>4, <1>6, <2>3
      <3>2. PICK y \in U : y # x
        BY <2>3
      <3>3. PoolMark(c, D, y) # m
        BY <1>2, <1>4, <3>2 DEF Same
      <3>4. UU # {m}
        BY <1>1, <3>3
      <3> QED BY <3>1, <3>4
    <2> QED BY <2>2, <2>3
  <1>12. Right(u, d)
    BY <1>7, <1>8, <1>9, <1>10, <1>11 DEF Right, SpentOnce, UU, AA, PP
  <1> QED BY <1>12 DEF u

(* The change from c to n has touched only outputs with a descriptor of D. *)
SameBut(n, c, D) ==
  \A d : IsKey(d) /\ d \notin D =>
    /\ With(n.m_unconfirmedTransfers, d) = With(c.m_unconfirmedTransfers, d)
    /\ With(n.m_availableTransfers, d) = With(c.m_availableTransfers, d)
    /\ With(n.m_spentTransfers, d) = With(c.m_spentTransfers, d)

(* Marking the descriptors of all outputs that a change has touched makes  *)
(* everything right.                                                       *)
LEMMA UpdateRight ==
  ASSUME NEW c, VisInv(c), NEW n, Typed(n), Distinct(n), NEW D,
         EachSpentOnce(n), SameBut(n, c, D)
  PROVE  LET u == updateTransfersVisibility(n, D)
         IN  VisInv(u)
  <1> DEFINE u == updateTransfersVisibility(n, D)
  <1>1. Typed(u) /\ Distinct(u)
    BY UpdateTyped
  <1>2. ASSUME NEW d, IsKey(d) PROVE Right(u, d)
    <2>1. CASE d \in D
      <3>1. SpentOnce(n, d)
        BY <1>2 DEF EachSpentOnce
      <3> QED BY <1>2, <2>1, <3>1, UpdatedRight
    <2>2. CASE d \notin D
      <3> DEFINE UU == With(u.m_unconfirmedTransfers, d)
                 AA == With(u.m_availableTransfers, d)
                 PP == With(u.m_spentTransfers, d)
                 U == With(n.m_unconfirmedTransfers, d)
                 A == With(n.m_availableTransfers, d)
                 P == With(n.m_spentTransfers, d)
      <3>1. /\ \A y : y \in UU <=> \E x \in U : y = PoolMark(n, D, x)
            /\ \A y : y \in AA <=> \E x \in A : y = ChainMark(n, D, x)
            /\ \A y : y \in PP <=> \E x \in P : y = SpentMark(D, x)
        <4>1. MarkedWith(u, n, D, d)
          BY UpdateWith
        <4> HIDE DEF u
        <4> QED BY <4>1 DEF MarkedWith
      <3>2. d \notin Keys(D)
        BY <2>2 DEF Keys
      <3>3. /\ \A x \in U : IsTransfer(x) /\ x.desc = d
            /\ \A x \in A : InBlock(x) /\ x.desc = d
            /\ \A x \in P : IsSpent(x) /\ x.desc = d
        BY DEF Typed, IsPooled, With
      <3>4. /\ \A x \in U : PoolMark(n, D, x) = x
            /\ \A x \in A : ChainMark(n, D, x) = x
            /\ \A x \in P : SpentMark(D, x) = x
        BY <3>2, <3>3, PoolMarkIs, ChainMarkIs, SpentMarkIs
      <3> HIDE DEF UU, AA, PP, U, A, P
      <3>5. UU = U /\ AA = A /\ PP = P
        BY <3>1, <3>4
      <3>6. /\ With(u.m_unconfirmedTransfers, d) = With(c.m_unconfirmedTransfers, d)
            /\ With(u.m_availableTransfers, d) = With(c.m_availableTransfers, d)
            /\ With(u.m_spentTransfers, d) = With(c.m_spentTransfers, d)
        BY <1>2, <2>2, <3>5 DEF SameBut, UU, AA, PP, U, A, P
      <3>7. Right(c, d)
        BY <1>2 DEF VisInv
      <3> HIDE DEF u
      <3> QED BY <3>6, <3>7 DEF Right, SpentOnce
    <2> QED BY <2>1, <2>2
  <1> HIDE DEF u
  <1>3. VisInv(u)
    BY <1>1, <1>2 DEF VisInv
  <1> QED BY <1>3 DEF u

-----------------------------------------------------------------------------
(* The operations of the container.  Each keeps VisInv whether it throws   *)
(* or not.                                                                 *)
LEMMA SameTransfers ==
  ASSUME NEW c, VisInv(c), NEW r, DOMAIN r = Members, r.m_transactions \in Seq(Entry),
         r.m_unconfirmedTransfers = c.m_unconfirmedTransfers,
         r.m_availableTransfers = c.m_availableTransfers,
         r.m_spentTransfers = c.m_spentTransfers
  PROVE  VisInv(r)
  <1>1. Typed(r) /\ Distinct(r)
    BY DEF VisInv, Typed, Distinct, Numbered, Transfers
  <1>2. ASSUME NEW d, IsKey(d) PROVE Right(r, d)
    <2>1. Right(c, d)
      BY <1>2 DEF VisInv
    <2> QED BY <2>1 DEF Right, SpentOnce
  <1> QED BY <1>1, <1>2 DEF VisInv

LEMMA VisFacts ==
  ASSUME NEW c, VisInv(c)
  PROVE  /\ Typed(c) /\ Distinct(c) /\ Numbered(c) /\ DOMAIN c = Members
         /\ c.m_transactions \in Seq(Entry) /\ EachSpentOnce(c)
  BY DEF VisInv, Right, Typed, Distinct, EachSpentOnce

LEMMA ThrowHolds ==
  ASSUME NEW c, VisInv(c), NEW what
  PROVE  VisInv(Throw(c, what))
  <1> DEFINE r == Throw(c, what)
  <1>1. /\ DOMAIN r = Members /\ r.m_transactions = c.m_transactions
        /\ r.m_unconfirmedTransfers = c.m_unconfirmedTransfers
        /\ r.m_availableTransfers = c.m_availableTransfers
        /\ r.m_spentTransfers = c.m_spentTransfers
    BY VisFacts DEF Throw, Members
  <1> HIDE DEF r
  <1>2. VisInv(r)
    BY <1>1, VisFacts, SameTransfers
  <1> QED BY <1>2 DEF r

(* The current height takes no part.                                       *)
LEMMA HeightHolds ==
  ASSUME NEW c, VisInv(c), NEW height
  PROVE  VisInv([c EXCEPT !.m_currentHeight = height])
  <1> DEFINE r == [c EXCEPT !.m_currentHeight = height]
  <1>1. /\ DOMAIN r = Members /\ r.m_transactions = c.m_transactions
        /\ r.m_unconfirmedTransfers = c.m_unconfirmedTransfers
        /\ r.m_availableTransfers = c.m_availableTransfers
        /\ r.m_spentTransfers = c.m_spentTransfers
    BY VisFacts DEF Members
  <1> HIDE DEF r
  <1>2. VisInv(r)
    BY <1>1, VisFacts, SameTransfers
  <1> QED BY <1>2 DEF r

(* A block, or the pool, as the container is given it.                     *)
IsBlock(block) == block.height \in Nat /\ block.index \in Nat

LEMMA TransferIs ==
  ASSUME NEW block, IsBlock(block), NEW t, NEW n, NEW copy
  PROVE  LET x == Transfer(block, t, n, copy)
         IN  /\ InBlock(x) /\ IsPooled(x) /\ x.tx = t /\ x.out = n /\ x.copy = copy
             /\ Outputs[t][n].type = "key" => x.desc = <<"key", Outputs[t][n].image>>
  <1> DEFINE x == Transfer(block, t, n, copy)
  <1>1. /\ InBlock(x) /\ IsTransfer(x) /\ x.tx = t /\ x.out = n /\ x.copy = copy
        /\ x.desc = Descriptor(Outputs[t][n], block.globals[n])
    BY DEF Transfer, IsBlock, InBlock, IsTransfer, TransferFields
  <1> HIDE DEF x
  <1>2. CASE Outputs[t][n].type = "key"
    BY <1>1, <1>2 DEF Descriptor, IsPooled, x
  <1>3. CASE Outputs[t][n].type # "key"
    <2>1. x.desc[1] = "multisignature"
      BY <1>1, <1>3 DEF Descriptor
    <2> QED BY <1>1, <1>3, <2>1 DEF IsPooled, x
  <1> QED BY <1>2, <1>3

(* The number of a new copy is one that no copy of the output has.         *)
LEMMA NewCopyIs ==
  ASSUME NEW c, Numbered(c), NEW t, NEW n
  PROVE  /\ NewCopy(c, t, n) \in Nat /\ NewCopy(c, t, n) >= 1
         /\ NewCopy(c, t, n) \notin Copies(c, t, n)
  <1> DEFINE C == Copies(c, t, n)
  <1>1. PICK m \in Nat : \A x \in Transfers(c) : x.copy \in 1 .. m
    BY DEF Numbered
  <1>2. C \in SUBSET (1 .. m)
    BY <1>1 DEF Copies, Transfers
  <1>3. NewCopy(c, t, n) = Min((1 .. Cardinality(C) + 1) \ C)
    BY DEF NewCopy
  <1> HIDE DEF C
  <1>4. IsFiniteSet(C) /\ Cardinality(C) \in Nat
    <2> DEFINE numbers == 1 .. m
    <2>1. IsFiniteSet(numbers) /\ C \in SUBSET numbers
      BY <1>2, FS_Interval
    <2> HIDE DEF numbers
    <2>2. IsFiniteSet(C)
      BY <2>1, FS_Subset
    <2> QED BY <2>2, FS_CardinalityType
  <1> DEFINE all == 1 .. Cardinality(C) + 1
             free == all \ C
  <1>5. Cardinality(all) = Cardinality(C) + 1
    BY <1>4, FS_Interval
  <1>6. free # {}
    <2> SUFFICES ASSUME free = {} PROVE FALSE
      OBVIOUS
    <2>1. all \in SUBSET C
      OBVIOUS
    <2> HIDE DEF all
    <2>2. Cardinality(all) <= Cardinality(C)
      BY <1>4, <2>1, FS_Subset
    <2> QED BY <1>4, <1>5, <2>2
  <1>7. free \in SUBSET Nat /\ \A k \in free : k >= 1 /\ k \notin C
    BY <1>4
  <1> HIDE DEF free
  <1>8. \E x \in free : \A y \in free : x <= y
    BY <1>6, <1>7, LeastExists
  <1>9. Min(free) \in free
    BY <1>8 DEF Min
  <1> QED BY <1>3, <1>7, <1>9 DEF free, C

LEMMA PoolOutput ==
  ASSUME NEW c, VisInv(c), NEW x, IsPooled(x), x.copy \in Nat, x.copy >= 1,
         x.copy \notin Copies(c, x.tx, x.out)
  PROVE  VisInv(updateTransfersVisibility([c EXCEPT !.m_unconfirmedTransfers = @ \cup {x}], {x.desc}))
  <1> DEFINE n == [c EXCEPT !.m_unconfirmedTransfers = @ \cup {x}]
             D == {x.desc}
             u == updateTransfersVisibility(n, D)
  <1>1. Typed(c) /\ Distinct(c) /\ DOMAIN c = Members /\ EachSpentOnce(c)
    BY VisFacts
  <1>2. /\ DOMAIN n = Members /\ n.m_transactions = c.m_transactions
        /\ n.m_unconfirmedTransfers = c.m_unconfirmedTransfers \cup {x}
        /\ n.m_availableTransfers = c.m_availableTransfers
        /\ n.m_spentTransfers = c.m_spentTransfers
    BY <1>1 DEF Members
  <1> HIDE DEF n, D
  <1>3. Typed(n)
    <2>1. IsFiniteSet(c.m_unconfirmedTransfers \cup {x})
      BY <1>1, FS_AddElement DEF Typed
    <2> QED BY <1>1, <1>2, <2>1 DEF Typed
  <1>4. Distinct(n)
    <2>1. \A y \in c.m_unconfirmedTransfers : ~Same(y, x)
      BY DEF Copies, Same
    <2>2. Numbered(n)
      <3>1. PICK m \in Nat : \A y \in Transfers(c) : y.copy \in 1 .. m
        BY <1>1 DEF Distinct, Numbered
      <3>2. \A y \in Transfers(n) : y.copy \in 1 .. m + x.copy
        <4>1. \A y \in Transfers(n) : y \in Transfers(c) \/ y = x
          BY <1>2 DEF Transfers
        <4> QED BY <3>1, <4>1
      <3> QED BY <3>1, <3>2 DEF Numbered
    <2> QED BY <1>1, <1>2, <2>1, <2>2 DEF Distinct, Same
  <1>5. EachSpentOnce(n)
    BY <1>1, <1>2 DEF EachSpentOnce, SpentOnce
  <1>6. SameBut(n, c, D)
    BY <1>2 DEF SameBut, With, D
  <1>7. VisInv(u)
    BY <1>3, <1>4, <1>5, <1>6, UpdateRight
  <1> QED BY <1>7 DEF u, D, n

LEMMA ChainOutput ==
  ASSUME NEW c, VisInv(c), NEW x, InBlock(x), x.copy \in Nat, x.copy >= 1,
         NEW gone, \A y \in gone : IsKey(y.desc) => y.desc = x.desc,
         NEW n, DOMAIN n = Members, n.m_transactions = c.m_transactions,
         n.m_unconfirmedTransfers = c.m_unconfirmedTransfers \ gone,
         n.m_availableTransfers = c.m_availableTransfers \cup {x},
         n.m_spentTransfers = c.m_spentTransfers
  PROVE  VisInv(updateTransfersVisibility(n, {x.desc}))
  <1> DEFINE D == {x.desc}
             u == updateTransfersVisibility(n, D)
  <1>1. Typed(c) /\ Distinct(c) /\ DOMAIN c = Members /\ EachSpentOnce(c)
    BY VisFacts
  <1> HIDE DEF D
  <1>2. Typed(n)
    <2> DEFINE left == c.m_unconfirmedTransfers \ gone
    <2>1. left \in SUBSET c.m_unconfirmedTransfers /\ IsFiniteSet(c.m_unconfirmedTransfers)
      BY <1>1 DEF Typed
    <2> HIDE DEF left
    <2>2. IsFiniteSet(left)
      BY <2>1, FS_Subset
    <2> QED BY <1>1, <2>2 DEF Typed, left
  <1>3. Distinct(n)
    <2>1. PICK m \in Nat : \A y \in Transfers(c) : y.copy \in 1 .. m
      BY <1>1 DEF Distinct, Numbered
    <2>2. \A y \in Transfers(n) : y \in Transfers(c) \/ y = x
      BY DEF Transfers
    <2>3. \A y \in Transfers(n) : y.copy \in 1 .. m + x.copy
      BY <2>1, <2>2
    <2>4. Numbered(n)
      BY <2>1, <2>3 DEF Numbered
    <2> QED BY <1>1, <2>4 DEF Distinct
  <1>4. EachSpentOnce(n)
    BY <1>1 DEF EachSpentOnce, SpentOnce
  <1>5. SameBut(n, c, D)
    BY DEF SameBut, With, D
  <1>6. VisInv(u)
    BY <1>2, <1>3, <1>4, <1>5, UpdateRight
  <1> QED BY <1>6 DEF u, D

LEMMA AddOutputHolds ==
  ASSUME NEW c, VisInv(c), NEW arg, IsBlock(arg.block), NEW n
  PROVE  VisInv(AddOutput(arg, c, n))
  <1> DEFINE new == NewCopy(c, arg.tx, n)
             x == Transfer(arg.block, arg.tx, n, new)
  <1>1. InBlock(x) /\ IsPooled(x) /\ x.tx = arg.tx /\ x.out = n /\ x.copy = new
    BY TransferIs
  <1>2. \/ AddOutput(arg, c, n) = c
        \/ AddOutput(arg, c, n) = Throw(c, "Transfer already exists")
        \/ AddOutput(arg, c, n) =
             updateTransfersVisibility([c EXCEPT !.m_unconfirmedTransfers = @ \cup {x}], {x.desc})
        \/ AddOutput(arg, c, n) =
             updateTransfersVisibility([c EXCEPT !.m_availableTransfers = @ \cup {x}], {x.desc})
    BY DEF AddOutput
  <1>3. new \in Nat /\ new >= 1 /\ new \notin Copies(c, arg.tx, n)
    BY VisFacts, NewCopyIs
  <1> HIDE DEF x, new
  <1>4. VisInv(Throw(c, "Transfer already exists"))
    BY ThrowHolds
  <1>5. VisInv(updateTransfersVisibility([c EXCEPT !.m_unconfirmedTransfers = @ \cup {x}], {x.desc}))
    BY <1>1, <1>3, PoolOutput
  <1>6. VisInv(updateTransfersVisibility([c EXCEPT !.m_availableTransfers = @ \cup {x}], {x.desc}))
    <2> DEFINE r == [c EXCEPT !.m_availableTransfers = @ \cup {x}]
               gone == {}
    <2>1. DOMAIN c = Members
      BY VisFacts
    <2>2. /\ DOMAIN r = Members /\ r.m_transactions = c.m_transactions
          /\ r.m_unconfirmedTransfers = c.m_unconfirmedTransfers \ gone
          /\ r.m_availableTransfers = c.m_availableTransfers \cup {x}
          /\ r.m_spentTransfers = c.m_spentTransfers
      BY <2>1 DEF Members
    <2>3. \A y \in gone : IsKey(y.desc) => y.desc = x.desc
      OBVIOUS
    <2> HIDE DEF r, gone
    <2>4. VisInv(updateTransfersVisibility(r, {x.desc}))
      BY <1>1, <1>3, <2>2, <2>3, ChainOutput
    <2> QED BY <2>4 DEF r
  <1> QED BY <1>2, <1>4, <1>5, <1>6

LEMMA ConfirmOutputHolds ==
  ASSUME NEW c, VisInv(c), NEW arg, IsBlock(arg.block), NEW k,
         arg.transfers[k].copy \in Nat, arg.transfers[k].copy >= 1
  PROVE  VisInv(ConfirmOutput(arg, c, k))
  <1> DEFINE y == arg.transfers[k]
             x == Transfer(arg.block, y.tx, y.out, y.copy)
             gone == {z \in c.m_unconfirmedTransfers : z.tx = y.tx /\ z.out = y.out /\ z.copy = y.copy}
             r == [c EXCEPT !.m_availableTransfers = @ \cup {x}, !.m_unconfirmedTransfers = @ \ gone]
  <1>1. /\ InBlock(x) /\ x.copy = y.copy
        /\ Outputs[y.tx][y.out].type = "key" => x.desc = <<"key", Outputs[y.tx][y.out].image>>
    BY TransferIs
  <1>2. \/ ConfirmOutput(arg, c, k) = c
        \/ ConfirmOutput(arg, c, k) = Throw(c, "Transfer already exists")
        \/ ConfirmOutput(arg, c, k) = updateTransfersVisibility(r, {x.desc})
    BY DEF ConfirmOutput
  <1> HIDE DEF x
  <1>3. Typed(c) /\ DOMAIN c = Members
    BY VisFacts
  <1>4. \A z \in gone : IsKey(z.desc) => z.desc = x.desc
    BY <1>1, <1>3 DEF Typed, IsPooled, IsKey
  <1> HIDE DEF gone
  <1>5. /\ DOMAIN r = Members /\ r.m_transactions = c.m_transactions
        /\ r.m_unconfirmedTransfers = c.m_unconfirmedTransfers \ gone
        /\ r.m_availableTransfers = c.m_availableTransfers \cup {x}
        /\ r.m_spentTransfers = c.m_spentTransfers
    BY <1>3 DEF Members
  <1> HIDE DEF r
  <1>6. VisInv(updateTransfersVisibility(r, {x.desc}))
    BY <1>1, <1>4, <1>5, ChainOutput
  <1>7. VisInv(Throw(c, "Transfer already exists"))
    BY ThrowHolds
  <1> QED BY <1>2, <1>6, <1>7

LEMMA SpendOutputHolds ==
  ASSUME NEW c, VisInv(c), NEW block, NEW t, NEW x \in c.m_availableTransfers,
         IsKey(x.desc) => With(c.m_spentTransfers, x.desc) = {}
  PROVE  VisInv(SpendOutput(c, block, t, x))
  <1> DEFINE y == [tx |-> x.tx, out |-> x.out, copy |-> x.copy, desc |-> x.desc, amount |-> x.amount,
                   height |-> x.height, index |-> x.index, visible |-> x.visible,
                   by |-> t, spendingHeight |-> block.height]
             n == [copyToSpent(c, block, t, x) EXCEPT !.m_availableTransfers = @ \ {x}]
             D == {x.desc}
             u == updateTransfersVisibility(n, D)
  <1>1. Typed(c) /\ Distinct(c) /\ DOMAIN c = Members /\ EachSpentOnce(c)
    BY VisFacts
  <1>2. IsSpent(y) /\ y.desc = x.desc /\ y.copy = x.copy
    <2>1. InBlock(x)
      BY <1>1 DEF Typed
    <2> QED BY <2>1 DEF IsSpent, InBlock, IsTransfer, TransferFields
  <1>3. /\ DOMAIN n = Members /\ n.m_transactions = c.m_transactions
        /\ n.m_unconfirmedTransfers = c.m_unconfirmedTransfers
        /\ n.m_availableTransfers = c.m_availableTransfers \ {x}
        /\ n.m_spentTransfers = c.m_spentTransfers \cup {y}
    BY <1>1 DEF Members, copyToSpent
  <1> HIDE DEF n, D, y
  <1>4. Typed(n)
    BY <1>1, <1>2, <1>3 DEF Typed
  <1>5. Distinct(n)
    <2>1. \A z \in Transfers(n) : z \in Transfers(c) \/ z = y
      BY <1>3 DEF Transfers
    <2>2. x \in Transfers(c)
      BY DEF Transfers
    <2>3. Numbered(n)
      BY <1>1, <1>2, <2>1, <2>2 DEF Distinct, Numbered
    <2> QED BY <1>1, <1>3, <2>3 DEF Distinct
  <1>6. EachSpentOnce(n)
    BY <1>1, <1>2, <1>3 DEF EachSpentOnce, SpentOnce, With
  <1>7. SameBut(n, c, D)
    BY <1>2, <1>3 DEF SameBut, With, D
  <1>8. VisInv(u)
    BY <1>4, <1>5, <1>6, <1>7, UpdateRight
  <1> QED BY <1>8 DEF SpendOutput, u, D, n

LEMMA AddInputHolds ==
  ASSUME NEW c, VisInv(c), NEW arg, NEW k
  PROVE  VisInv(AddInput(arg, c, k))
  <1> DEFINE in == Inputs[arg.tx][k]
             d == SpentDescriptor(in)
             available == With(c.m_availableTransfers, d)
             matching == findFirstByAmount(available, in.amount)
             r == AddInput(arg, c, k)
  <1>1. \A what : VisInv(Throw(c, what))
    BY ThrowHolds
  <1>2. /\ \A x \in available : /\ x.height \in Nat /\ x.index \in Nat
                                /\ x.desc = d /\ x \in c.m_availableTransfers
        /\ matching \subseteq available
    BY VisFacts DEF Typed, InBlock, With, findFirstByAmount
  <1>3. CASE in.type = "multisignature" /\ r = SpendOutput(c, arg.block, arg.tx, Earliest(available))
             /\ available # {}
    <2> DEFINE x == Earliest(available)
    <2>1. ~IsKey(d)
      BY <1>3 DEF SpentDescriptor, IsKey
    <2> HIDE DEF d, r
    <2>2. x \in available
      <3> HIDE DEF available
      <3> QED BY <1>2, <1>3, EarliestIs
    <2> HIDE DEF x
    <2>3. x \in c.m_availableTransfers /\ ~IsKey(x.desc)
      BY <1>2, <2>1, <2>2
    <2>4. VisInv(SpendOutput(c, arg.block, arg.tx, x))
      BY <2>3, SpendOutputHolds
    <2> QED BY <1>3, <2>4 DEF r, x
  <1>4. CASE r = SpendOutput(c, arg.block, arg.tx, Earliest(matching)) /\ matching # {}
             /\ With(c.m_spentTransfers, d) = {}
    <2> DEFINE x == Earliest(matching)
    <2> HIDE DEF d, r
    <2>1. x \in available
      <3> HIDE DEF available, matching
      <3> QED BY <1>2, <1>4, EarliestIs
    <2> HIDE DEF x
    <2>2. x \in c.m_availableTransfers /\ x.desc = d
      BY <1>2, <2>1
    <2>3. VisInv(SpendOutput(c, arg.block, arg.tx, x))
      BY <1>4, <2>2, SpendOutputHolds
    <2> QED BY <1>4, <2>3 DEF r, x
  <1>5. \/ r = c \/ \E what : r = Throw(c, what)
        \/ in.type = "multisignature" /\ r = SpendOutput(c, arg.block, arg.tx, Earliest(available))
           /\ available # {}
        \/ r = SpendOutput(c, arg.block, arg.tx, Earliest(matching)) /\ matching # {}
           /\ With(c.m_spentTransfers, d) = {}
    BY DEF AddInput
  <1>6. CASE r = c \/ \E what : r = Throw(c, what)
    BY <1>1, <1>6
  <1> HIDE DEF d, available, matching, in
  <1> QED BY <1>3, <1>4, <1>5, <1>6

(* What a transaction spent and created.                                   *)
LEMMA DeleteHolds ==
  ASSUME NEW c, VisInv(c), NEW t
  PROVE  VisInv(deleteTransactionTransfers(c, t))
  <1> DEFINE Free(x) == [tx |-> x.tx, out |-> x.out, copy |-> x.copy, desc |-> x.desc,
                         amount |-> x.amount, height |-> x.height, index |-> x.index,
                         visible |-> x.visible]
             spent == {x \in c.m_spentTransfers : x.by = t}
             available == c.m_availableTransfers \cup {Free(x) : x \in spent}
             created == {x \in c.m_unconfirmedTransfers \cup available : x.tx = t}
             n == [c EXCEPT !.m_spentTransfers = @ \ spent,
                            !.m_availableTransfers = available \ created,
                            !.m_unconfirmedTransfers = @ \ created]
             D == {x.desc : x \in spent \cup created}
             u == updateTransfersVisibility(n, D)
  <1>1. Typed(c) /\ Distinct(c) /\ DOMAIN c = Members /\ EachSpentOnce(c)
    BY VisFacts
  <1>2. \A x \in spent : InBlock(Free(x)) /\ Free(x).desc = x.desc /\ Free(x).copy = x.copy
    <2>1. ASSUME NEW x \in spent
          PROVE  InBlock(Free(x)) /\ Free(x).desc = x.desc /\ Free(x).copy = x.copy
      <3>1. InBlock(x)
        BY <1>1 DEF Typed, IsSpent
      <3> QED BY <3>1 DEF InBlock, IsTransfer, TransferFields
    <2> QED BY <2>1
  <1>3. u = deleteTransactionTransfers(c, t)
    BY DEF deleteTransactionTransfers
  <1>4. /\ DOMAIN n = Members /\ n.m_transactions = c.m_transactions
        /\ n.m_unconfirmedTransfers = c.m_unconfirmedTransfers \ created
        /\ n.m_availableTransfers = available \ created
        /\ n.m_spentTransfers = c.m_spentTransfers \ spent
    BY <1>1 DEF Members
  <1> HIDE DEF n, Free
  <1>5. /\ \A x \in available : InBlock(x)
        /\ \A x \in available : \/ x \in c.m_availableTransfers
                                \/ x.desc \in D /\ \E y \in c.m_spentTransfers : x.copy = y.copy
        /\ c.m_availableTransfers \subseteq available
        /\ \A x \in created : x.desc \in D
        /\ \A x \in spent : x.desc \in D
        /\ spent \subseteq c.m_spentTransfers
    BY <1>1, <1>2 DEF Typed
  <1> HIDE DEF D, created, available, spent
  <1>6. Typed(n)
    <2> DEFINE left == c.m_unconfirmedTransfers \ created
    <2>1. left \in SUBSET c.m_unconfirmedTransfers /\ IsFiniteSet(c.m_unconfirmedTransfers)
      BY <1>1 DEF Typed
    <2> HIDE DEF left
    <2>2. IsFiniteSet(left)
      BY <2>1, FS_Subset
    <2> QED BY <1>1, <1>4, <1>5, <2>2 DEF Typed, left
  <1>7. Distinct(n)
    <2>1. PICK m \in Nat : \A x \in Transfers(c) : x.copy \in 1 .. m
      BY <1>1 DEF Distinct, Numbered
    <2>2. \A x \in Transfers(n) : \E y \in Transfers(c) : x.copy = y.copy
      BY <1>4, <1>5 DEF Transfers
    <2>3. \A x \in Transfers(n) : x.copy \in 1 .. m
      BY <2>1, <2>2
    <2>4. Numbered(n)
      BY <2>1, <2>3 DEF Numbered
    <2> QED BY <1>1, <1>4, <2>4 DEF Distinct
  <1>8. EachSpentOnce(n)
    BY <1>1, <1>4 DEF EachSpentOnce, SpentOnce, With
  <1>9. SameBut(n, c, D)
    <2>1. SUFFICES ASSUME NEW d, d \notin D
                   PROVE  /\ With(n.m_unconfirmedTransfers, d) = With(c.m_unconfirmedTransfers, d)
                          /\ With(n.m_availableTransfers, d) = With(c.m_availableTransfers, d)
                          /\ With(n.m_spentTransfers, d) = With(c.m_spentTransfers, d)
      BY DEF SameBut
    <2>2. With(n.m_unconfirmedTransfers, d) = With(c.m_unconfirmedTransfers, d)
      BY <1>4, <1>5, <2>1 DEF With
    <2>3. With(n.m_availableTransfers, d) = With(c.m_availableTransfers, d)
      BY <1>4, <1>5, <2>1 DEF With
    <2>4. With(n.m_spentTransfers, d) = With(c.m_spentTransfers, d)
      BY <1>4, <1>5, <2>1 DEF With
    <2> QED BY <2>2, <2>3, <2>4
  <1>10. VisInv(u)
    BY <1>6, <1>7, <1>8, <1>9, UpdateRight
  <1> QED BY <1>3, <1>10

-----------------------------------------------------------------------------
(* The list of transactions.                                               *)
LEMMA InsertHolds ==
  ASSUME NEW c, VisInv(c), NEW t \in Tx, NEW height \in Nat
  PROVE  VisInv(InsertTransaction(c, t, height))
  <1> DEFINE r == InsertTransaction(c, t, height)
             txs == c.m_transactions
             lower == {i \in ToSet(txs) : i.height <= height}
             front == Only(txs, lower)
             back == Only(txs, ToSet(txs) \ lower)
             new == <<[tx |-> t, height |-> height]>>
  <1>1. txs \in Seq(Entry) /\ DOMAIN c = Members
    BY VisFacts
  <1>2. /\ DOMAIN r = Members /\ r.m_transactions = front \o new \o back
        /\ r.m_unconfirmedTransfers = c.m_unconfirmedTransfers
        /\ r.m_availableTransfers = c.m_availableTransfers
        /\ r.m_spentTransfers = c.m_spentTransfers
    BY <1>1 DEF InsertTransaction, Members
  <1>3. new \in Seq(Entry)
    BY DEF Entry
  <1> HIDE DEF r, txs, lower, new
  <1>4. front \in Seq(Entry) /\ back \in Seq(Entry)
    BY <1>1, OnlyIs
  <1> HIDE DEF front, back
  <1>5. front \o new \in Seq(Entry)
    BY <1>3, <1>4
  <1>6. front \o new \o back \in Seq(Entry)
    BY <1>4, <1>5
  <1>7. VisInv(r)
    BY <1>2, <1>6, SameTransfers
  <1> QED BY <1>7 DEF r

LEMMA EraseHolds ==
  ASSUME NEW c, VisInv(c), NEW t
  PROVE  VisInv(EraseTransaction(c, t))
  <1> DEFINE r == EraseTransaction(c, t)
             txs == c.m_transactions
             others == {i \in ToSet(txs) : i.tx # t}
  <1>1. txs \in Seq(Entry) /\ DOMAIN c = Members
    BY VisFacts
  <1>2. /\ DOMAIN r = Members /\ r.m_transactions = Only(txs, others)
        /\ r.m_unconfirmedTransfers = c.m_unconfirmedTransfers
        /\ r.m_availableTransfers = c.m_availableTransfers
        /\ r.m_spentTransfers = c.m_spentTransfers
    BY <1>1 DEF EraseTransaction, Members
  <1> HIDE DEF r, txs, others
  <1>3. Only(txs, others) \in Seq(Entry)
    BY <1>1, OnlyIs
  <1>4. VisInv(r)
    BY <1>2, <1>3, SameTransfers
  <1> QED BY <1>4 DEF r

LEMMA RemoveHolds ==
  ASSUME NEW c, VisInv(c), NEW t
  PROVE  VisInv(EraseTransaction(deleteTransactionTransfers(c, t), t))
  BY DeleteHolds, EraseHolds

-----------------------------------------------------------------------------
(* The loops of the container.                                             *)
LEMMA OutputsAreSeq ==
  ASSUME NEW t \in Tx
  PROVE  Len(Outputs[t]) \in Nat /\ Len(Inputs[t]) \in Nat
  BY TransfersAssumption

LEMMA OutputsHold ==
  ASSUME NEW c, VisInv(c), NEW block, IsBlock(block), NEW t \in Tx
  PROVE  VisInv(addTransactionOutputs(c, block, t))
  <1> DEFINE arg == [block |-> block, tx |-> t]
             after(k) == AddOutputs!Rounds(arg, c, k)
             N == {k \in Nat : VisInv(after(k))}
  <1>1. after(0) = c /\ \A k \in Nat : after(k + 1) = AddOutput(arg, after(k), k + 1)
    BY AddOutputs!RoundsAre
  <1>2. arg.block = block
    OBVIOUS
  <1>3. addTransactionOutputs(c, block, t) = after(Len(Outputs[t]))
    BY DEF addTransactionOutputs
  <1> HIDE DEF arg, after
  <1>4. 0 \in N
    BY <1>1
  <1>5. ASSUME NEW k \in Nat, k \in N PROVE k + 1 \in N
    <2>1. VisInv(AddOutput(arg, after(k), k + 1))
      BY <1>2, <1>5, AddOutputHolds
    <2> QED BY <1>1, <2>1
  <1> HIDE DEF N
  <1>6. Nat \subseteq N
    BY <1>4, <1>5, AddOutputs!SetInduction
  <1>7. Len(Outputs[t]) \in N
    BY <1>6, OutputsAreSeq
  <1> QED BY <1>3, <1>7 DEF N

LEMMA InputsHold ==
  ASSUME NEW c, VisInv(c), NEW block, NEW t \in Tx
  PROVE  VisInv(addTransactionInputs(c, block, t))
  <1> DEFINE arg == [block |-> block, tx |-> t]
             after(k) == AddInputs!Rounds(arg, c, k)
             N == {k \in Nat : VisInv(after(k))}
  <1>1. after(0) = c /\ \A k \in Nat : after(k + 1) = AddInput(arg, after(k), k + 1)
    BY AddInputs!RoundsAre
  <1>2. addTransactionInputs(c, block, t) = after(Len(Inputs[t]))
    BY DEF addTransactionInputs
  <1> HIDE DEF arg, after
  <1>3. 0 \in N
    BY <1>1
  <1>4. ASSUME NEW k \in Nat, k \in N PROVE k + 1 \in N
    <2>1. VisInv(AddInput(arg, after(k), k + 1))
      BY <1>4, AddInputHolds
    <2> QED BY <1>1, <2>1
  <1> HIDE DEF N
  <1>5. Nat \subseteq N
    BY <1>3, <1>4, AddInputs!SetInduction
  <1>6. Len(Inputs[t]) \in N
    BY <1>5, OutputsAreSeq
  <1> QED BY <1>2, <1>6 DEF N

(* A finite set can be listed.                                             *)
LEMMA SetToSeqIs ==
  ASSUME NEW S, IsFiniteSet(S)
  PROVE  SetToSeq(S) \in Seq(S)
  <1>1. Cardinality(S) \in Nat /\ ExistsBijection(1 .. Cardinality(S), S)
    BY FS_CardinalityType
  <1>2. \E f \in [1 .. Cardinality(S) -> S] : IsInjective(f)
    BY <1>1 DEF ExistsBijection, Bijection, Injection
  <1>3. SetToSeq(S) \in [1 .. Cardinality(S) -> S]
    BY <1>2 DEF SetToSeq
  <1> QED BY <1>1, <1>3

LEMMA ConfirmHolds ==
  ASSUME NEW c, VisInv(c), NEW block, IsBlock(block),
         NEW S, NEW list \in Seq(S), \A x \in S : x.copy \in Nat /\ x.copy >= 1
  PROVE  VisInv(ConfirmOutputs!Rounds([block |-> block, transfers |-> list], c, Len(list)))
  <1> DEFINE arg == [block |-> block, transfers |-> list]
             after(k) == ConfirmOutputs!Rounds(arg, c, k)
             N == {k \in Nat : k <= Len(list) => VisInv(after(k))}
  <1>1. after(0) = c /\ \A k \in Nat : after(k + 1) = ConfirmOutput(arg, after(k), k + 1)
    BY ConfirmOutputs!RoundsAre
  <1>2. arg.block = block /\ arg.transfers = list
    OBVIOUS
  <1> HIDE DEF arg, after
  <1>3. 0 \in N
    BY <1>1
  <1>4. ASSUME NEW k \in Nat, k \in N PROVE k + 1 \in N
    <2>1. SUFFICES ASSUME k + 1 <= Len(list) PROVE VisInv(after(k + 1))
      OBVIOUS
    <2>2. VisInv(after(k)) /\ list[k + 1] \in S
      BY <1>4, <2>1
    <2>3. arg.transfers[k + 1].copy \in Nat /\ arg.transfers[k + 1].copy >= 1
      BY <1>2, <2>2
    <2>4. VisInv(ConfirmOutput(arg, after(k), k + 1))
      BY <1>2, <2>2, <2>3, ConfirmOutputHolds
    <2> QED BY <1>1, <2>4
  <1> HIDE DEF N
  <1>5. Nat \subseteq N
    BY <1>3, <1>4, ConfirmOutputs!SetInduction
  <1>6. Len(list) \in N
    BY <1>5
  <1> QED BY <1>6 DEF N, after, arg

-----------------------------------------------------------------------------
(* The operations on a transaction.                                        *)
LEMMA AddHolds ==
  ASSUME NEW c, VisInv(c), NEW block, IsBlock(block), NEW t \in Tx
  PROVE  VisInv(addTransaction(c, block, t))
  <1> DEFINE withOutputs == addTransactionOutputs(c, block, t)
             added == addTransactionInputs(withOutputs, block, t)
             inserted == InsertTransaction(added, t, block.height)
             recorded == IF Outputs[t] = <<>> /\ added.m_spentTransfers = c.m_spentTransfers THEN added
                         ELSE inserted
             r == addTransaction(c, block, t)
  <1>1. \/ \E what : r = Throw(c, what)
        \/ r = added \/ r = recorded \/ r = [recorded EXCEPT !.m_currentHeight = block.height]
    BY DEF addTransaction
  <1> HIDE DEF r
  <1>2. VisInv(withOutputs)
    BY OutputsHold
  <1> HIDE DEF withOutputs
  <1>3. VisInv(added)
    BY <1>2, InputsHold
  <1> HIDE DEF added
  <1>4. VisInv(inserted)
    BY <1>3, InsertHolds DEF IsBlock
  <1> HIDE DEF inserted
  <1>5. VisInv(recorded)
    BY <1>3, <1>4
  <1> HIDE DEF recorded
  <1>6. VisInv([recorded EXCEPT !.m_currentHeight = block.height])
    BY <1>5, HeightHolds
  <1>7. \A what : VisInv(Throw(c, what))
    BY ThrowHolds
  <1>8. VisInv(r)
    BY <1>1, <1>3, <1>5, <1>6, <1>7
  <1> QED BY <1>8 DEF r

LEMMA DeleteUnconfirmedHolds ==
  ASSUME NEW c, VisInv(c), NEW t
  PROVE  VisInv(deleteUnconfirmedTransaction(c, t))
  <1>1. VisInv(EraseTransaction(deleteTransactionTransfers(c, t), t))
    BY RemoveHolds
  <1> QED BY <1>1 DEF deleteUnconfirmedTransaction

(* The height of a spending changes nothing that is seen.                  *)
SpendAt(c, t, height) ==
  [c EXCEPT !.m_spentTransfers =
     {IF x.by = t THEN [x EXCEPT !.spendingHeight = height] ELSE x : x \in @}]

LEMMA SpendingHolds ==
  ASSUME NEW c, VisInv(c), NEW t, NEW height
  PROVE  VisInv(SpendAt(c, t, height))
  <1> DEFINE f(x) == IF x.by = t THEN [x EXCEPT !.spendingHeight = height] ELSE x
             r == [c EXCEPT !.m_spentTransfers = {f(x) : x \in @}]
  <1>1. Typed(c) /\ Distinct(c) /\ DOMAIN c = Members
    BY VisFacts
  <1>2. /\ DOMAIN r = Members /\ r.m_transactions = c.m_transactions
        /\ r.m_unconfirmedTransfers = c.m_unconfirmedTransfers
        /\ r.m_availableTransfers = c.m_availableTransfers
        /\ r.m_spentTransfers = {f(x) : x \in c.m_spentTransfers}
    BY <1>1 DEF Members
  <1>3. \A x \in c.m_spentTransfers : IsSpent(f(x)) /\ f(x).desc = x.desc /\ f(x).copy = x.copy
    <2>1. ASSUME NEW x \in c.m_spentTransfers
          PROVE  IsSpent(f(x)) /\ f(x).desc = x.desc /\ f(x).copy = x.copy
      <3>1. IsSpent(x)
        BY <1>1 DEF Typed
      <3> QED BY <3>1 DEF IsSpent, InBlock, IsTransfer, TransferFields
    <2> QED BY <2>1
  <1> HIDE DEF r, f
  <1>4. Typed(r)
    BY <1>1, <1>2, <1>3 DEF Typed
  <1>5. Distinct(r)
    <2>1. PICK m \in Nat : \A x \in Transfers(c) : x.copy \in 1 .. m
      BY <1>1 DEF Distinct, Numbered
    <2>2. \A x \in Transfers(r) : \E y \in Transfers(c) : x.copy = y.copy
      BY <1>2, <1>3 DEF Transfers
    <2>3. \A x \in Transfers(r) : x.copy \in 1 .. m
      BY <2>1, <2>2
    <2>4. Numbered(r)
      BY <2>1, <2>3 DEF Numbered
    <2> QED BY <1>1, <1>2, <2>4 DEF Distinct
  <1>6. ASSUME NEW d, IsKey(d) PROVE Right(r, d)
    <2>1. Right(c, d)
      BY <1>6 DEF VisInv
    <2>2. \A y : y \in With(r.m_spentTransfers, d) <=> \E x \in With(c.m_spentTransfers, d) : y = f(x)
      BY <1>2, <1>3 DEF With
    <2>3. /\ With(r.m_spentTransfers, d) = {} <=> With(c.m_spentTransfers, d) = {}
          /\ SpentOnce(r, d)
      BY <2>1, <2>2 DEF Right, SpentOnce
    <2> QED BY <1>2, <2>1, <2>3 DEF Right
  <1>7. VisInv(r)
    BY <1>4, <1>5, <1>6 DEF VisInv
  <1> QED BY <1>7 DEF r, f, SpendAt

LEMMA MarkConfirmedHolds ==
  ASSUME NEW c, VisInv(c), NEW block, IsBlock(block), NEW t \in Tx
  PROVE  VisInv(markTransactionConfirmed(c, block, t))
  <1> DEFINE erased == EraseTransaction(c, t)
             moved == InsertTransaction(erased, t, block.height)
             S == {x \in c.m_unconfirmedTransfers : x.tx = t}
             list == SetToSeq(S)
             confirmed == ConfirmOutputs!Rounds([block |-> block, transfers |-> list], moved, Len(list))
             r == markTransactionConfirmed(c, block, t)
  <1>1. Typed(c) /\ Distinct(c)
    BY VisFacts
  <1>2. r = c \/ r = confirmed \/ r = SpendAt(confirmed, t, block.height)
    BY DEF markTransactionConfirmed, SpendAt
  <1> HIDE DEF r
  <1>3. S \in SUBSET c.m_unconfirmedTransfers /\ IsFiniteSet(c.m_unconfirmedTransfers)
    BY <1>1 DEF Typed
  <1>4. \A x \in S : x.copy \in Nat /\ x.copy >= 1
    BY <1>1 DEF Distinct, Numbered, Transfers
  <1> HIDE DEF S
  <1>5. list \in Seq(S)
    <2>1. IsFiniteSet(S)
      BY <1>3, FS_Subset
    <2> QED BY <2>1, SetToSeqIs
  <1>6. VisInv(erased)
    BY EraseHolds
  <1> HIDE DEF erased, list
  <1>7. VisInv(moved)
    BY <1>6, InsertHolds DEF IsBlock
  <1> HIDE DEF moved
  <1>8. VisInv(confirmed)
    BY <1>4, <1>5, <1>7, ConfirmHolds
  <1> HIDE DEF confirmed
  <1>9. VisInv(SpendAt(confirmed, t, block.height))
    BY <1>8, SpendingHolds
  <1>10. VisInv(r)
    BY <1>2, <1>8, <1>9
  <1> QED BY <1>10 DEF r

LEMMA ProcessHolds ==
  ASSUME NEW c, VisInv(c), NEW block, IsBlock(block), NEW t \in Tx
  PROVE  VisInv(processOutputs(c, block, t))
  <1>1. VisInv(addTransaction(c, block, t))
    BY AddHolds
  <1>2. VisInv(markTransactionConfirmed(c, block, t))
    BY MarkConfirmedHolds
  <1> QED BY <1>1, <1>2 DEF processOutputs

-----------------------------------------------------------------------------
(* The loops of the consumer: over the transactions of a block, and over   *)
(* the blocks of a batch.                                                  *)
LEMMA TransactionsHold ==
  ASSUME NEW c, VisInv(c), NEW before \in Seq(Seq(Tx)), NEW b \in Seq(Tx)
  PROVE  VisInv(ProcessTransactions!Rounds([before |-> before, block |-> b], c, Len(b)))
  <1> DEFINE arg == [before |-> before, block |-> b]
             after(k) == ProcessTransactions!Rounds(arg, c, k)
             N == {k \in Nat : k <= Len(b) => VisInv(after(k))}
  <1>1. after(0) = c /\ \A k \in Nat : after(k + 1) = ProcessTransaction(arg, after(k), k + 1)
    BY ProcessTransactions!RoundsAre
  <1>2. arg.before = before /\ arg.block = b
    OBVIOUS
  <1> HIDE DEF arg, after
  <1>3. 0 \in N
    BY <1>1
  <1>4. ASSUME NEW k \in Nat, k \in N PROVE k + 1 \in N
    <2>1. SUFFICES ASSUME k + 1 <= Len(b) PROVE VisInv(after(k + 1))
      OBVIOUS
    <2> DEFINE block == BlockOf(before, b, k + 1)
    <2>2. VisInv(after(k)) /\ b[k + 1] \in Tx
      BY <1>4, <2>1
    <2>3. IsBlock(block)
      BY DEF BlockOf, IsBlock
    <2>4. after(k + 1) = after(k) \/ after(k + 1) = processOutputs(after(k), block, b[k + 1])
      BY <1>1, <1>2 DEF ProcessTransaction
    <2> HIDE DEF block
    <2>5. VisInv(processOutputs(after(k), block, b[k + 1]))
      BY <2>2, <2>3, ProcessHolds
    <2> QED BY <2>2, <2>4, <2>5
  <1> HIDE DEF N
  <1>5. Nat \subseteq N
    BY <1>3, <1>4, ProcessTransactions!SetInduction
  <1>6. Len(b) \in N
    BY <1>5
  <1> QED BY <1>6 DEF N, after, arg

LEMMA BaseHolds ==
  ASSUME NEW c, VisInv(c), NEW height
  PROVE  VisInv(BaseTransaction(c, height))
  <1>1. VisInv(Throw(c, LowerBlock)) /\ VisInv([c EXCEPT !.m_currentHeight = height])
    BY ThrowHolds, HeightHolds
  <1> QED BY <1>1 DEF BaseTransaction

(* Sequences of blocks, whose elements are not looked at.                  *)
LEMMA BlocksJoin ==
  ASSUME NEW T, NEW s \in Seq(T), NEW r \in Seq(T), NEW m \in Int, m <= Len(r)
  PROVE  s \o r \in Seq(T) /\ s \o SubSeq(r, 1, m) \in Seq(T) /\ SubSeq(r, 1, m) \in Seq(T)
  <1>1. SubSeq(r, 1, m) \in Seq(T)
    OBVIOUS
  <1> QED BY <1>1

LEMMA BlocksHold ==
  ASSUME NEW c, VisInv(c), NEW before \in Seq(Seq(Tx)), NEW batch \in Seq(Seq(Tx))
  PROVE  VisInv(ProcessBlocks!Rounds([before |-> before, batch |-> batch], c, Len(batch)))
  <1> DEFINE arg == [before |-> before, batch |-> batch]
             after(k) == ProcessBlocks!Rounds(arg, c, k)
             N == {k \in Nat : k <= Len(batch) => VisInv(after(k))}
  <1>1. after(0) = c /\ \A k \in Nat : after(k + 1) = ProcessBlock(arg, after(k), k + 1)
    BY ProcessBlocks!RoundsAre
  <1>2. arg.before = before /\ arg.batch = batch
    OBVIOUS
  <1> HIDE DEF arg, after
  <1>3. 0 \in N
    BY <1>1
  <1>4. ASSUME NEW k \in Nat, k \in N PROVE k + 1 \in N
    <2>1. SUFFICES ASSUME k + 1 <= Len(batch) PROVE VisInv(after(k + 1))
      OBVIOUS
    <2> DEFINE front == before \o SubSeq(batch, 1, k)
               b == batch[k + 1]
               base == BaseTransaction(after(k), Len(front) + 1)
    <2>2. VisInv(after(k))
      BY <1>4, <2>1
    <2>3. front \in Seq(Seq(Tx)) /\ b \in Seq(Tx)
      <3> DEFINE T == Seq(Tx)
      <3>1. before \in Seq(T) /\ batch \in Seq(T) /\ k <= Len(batch) /\ k \in Int
        BY <2>1
      <3> HIDE DEF T
      <3>2. front \in Seq(T)
        BY <3>1, BlocksJoin
      <3>3. b \in T
        BY <2>1, <3>1
      <3> QED BY <3>2, <3>3 DEF T
    <2>4. after(k + 1) = ProcessTransactions!Rounds([before |-> front, block |-> b], base, Len(b))
      <3>1. (k + 1) - 1 = k
        OBVIOUS
      <3> QED BY <1>1, <1>2, <3>1 DEF ProcessBlock
    <2> HIDE DEF front, b
    <2>5. VisInv(base)
      BY <2>2, BaseHolds
    <2> HIDE DEF base
    <2>6. VisInv(ProcessTransactions!Rounds([before |-> front, block |-> b], base, Len(b)))
      BY <2>3, <2>5, TransactionsHold
    <2> QED BY <2>4, <2>6
  <1> HIDE DEF N
  <1>5. Nat \subseteq N
    BY <1>3, <1>4, ProcessBlocks!SetInduction
  <1>6. Len(batch) \in N
    BY <1>5
  <1> QED BY <1>6 DEF N, after, arg

LEMMA PoolBlockIs ==
  ASSUME NEW t
  PROVE  IsBlock(PoolBlock(t))
  BY DEF PoolBlock, IsBlock, Unconfirmed

LEMMA AdditionsHold ==
  ASSUME NEW c, VisInv(c), NEW txs \in Seq(Tx)
  PROVE  VisInv(Additions!Rounds(txs, c, Len(txs)))
  <1> DEFINE after(k) == Additions!Rounds(txs, c, k)
             N == {k \in Nat : k <= Len(txs) => VisInv(after(k))}
  <1>1. after(0) = c /\ \A k \in Nat : after(k + 1) = AddFromPool(txs, after(k), k + 1)
    BY Additions!RoundsAre
  <1> HIDE DEF after
  <1>2. 0 \in N
    BY <1>1
  <1>3. ASSUME NEW k \in Nat, k \in N PROVE k + 1 \in N
    <2>1. SUFFICES ASSUME k + 1 <= Len(txs) PROVE VisInv(after(k + 1))
      OBVIOUS
    <2> DEFINE t == txs[k + 1]
    <2>2. VisInv(after(k)) /\ t \in Tx
      BY <1>3, <2>1
    <2>3. after(k + 1) = after(k) \/ after(k + 1) = processOutputs(after(k), PoolBlock(t), t)
      BY <1>1 DEF AddFromPool
    <2> HIDE DEF t
    <2>4. VisInv(processOutputs(after(k), PoolBlock(t), t))
      BY <2>2, PoolBlockIs, ProcessHolds
    <2> QED BY <2>2, <2>3, <2>4
  <1> HIDE DEF N
  <1>4. Nat \subseteq N
    BY <1>2, <1>3, Additions!SetInduction
  <1>5. Len(txs) \in N
    BY <1>4
  <1> QED BY <1>5 DEF N, after

LEMMA DeletionsHold ==
  ASSUME NEW c, VisInv(c), NEW txs \in Seq(Tx)
  PROVE  VisInv(Deletions!Rounds(txs, c, Len(txs)))
  <1> DEFINE after(k) == Deletions!Rounds(txs, c, k)
             N == {k \in Nat : VisInv(after(k))}
  <1>1. after(0) = c /\ \A k \in Nat : after(k + 1) = DeleteFromPool(txs, after(k), k + 1)
    BY Deletions!RoundsAre
  <1> HIDE DEF after
  <1>2. 0 \in N
    BY <1>1
  <1>3. ASSUME NEW k \in Nat, k \in N PROVE k + 1 \in N
    <2>1. VisInv(deleteUnconfirmedTransaction(after(k), txs[k + 1]))
      BY <1>3, DeleteUnconfirmedHolds
    <2> QED BY <1>1, <2>1 DEF DeleteFromPool
  <1> HIDE DEF N
  <1>4. Nat \subseteq N
    BY <1>2, <1>3, Deletions!SetInduction
  <1>5. Len(txs) \in N
    BY <1>4
  <1> QED BY <1>5 DEF N, after

LEMMA DetachHolds ==
  ASSUME NEW c, VisInv(c), NEW height
  PROVE  VisInv(detach(c, height))
  <1> DEFINE txs == c.m_transactions
             arg == [txs |-> txs, height |-> height]
             start == [c |-> c, done |-> FALSE]
             after(k) == DetachTransactions!Rounds(arg, start, k)
             N == {k \in Nat : DOMAIN after(k) = {"c", "done"} /\ VisInv(after(k).c)}
             end == after(Len(txs)).c
  <1>1. after(0) = start /\ \A k \in Nat : after(k + 1) = DetachTransaction(arg, after(k), k + 1)
    BY DetachTransactions!RoundsAre
  <1>2. detach(c, height) = [end EXCEPT !.m_currentHeight = IF height = 0 THEN 0 ELSE height - 1]
    BY DEF detach
  <1>3. Len(txs) \in Nat
    BY DEF VisInv, Typed
  <1>4. DOMAIN start = {"c", "done"} /\ start.c = c
    OBVIOUS
  <1> HIDE DEF after, start, arg, txs
  <1>5. 0 \in N
    BY <1>1, <1>4
  <1>6. ASSUME NEW k \in Nat, k \in N PROVE k + 1 \in N
    <2> DEFINE s == after(k)
               i == arg.txs[Len(arg.txs) + 1 - (k + 1)]
               e == EraseTransaction(deleteTransactionTransfers(s.c, i.tx), i.tx)
    <2>1. DOMAIN s = {"c", "done"} /\ VisInv(s.c)
      BY <1>6
    <2>2. \/ after(k + 1) = s \/ after(k + 1) = [s EXCEPT !.c = e]
          \/ after(k + 1) = [s EXCEPT !.done = i.height # Unconfirmed]
      BY <1>1 DEF DetachTransaction
    <2> HIDE DEF s, i
    <2>3. VisInv(e)
      BY <2>1, RemoveHolds
    <2> HIDE DEF e
    <2>4. DOMAIN after(k + 1) = {"c", "done"} /\ (after(k + 1).c = s.c \/ after(k + 1).c = e)
      BY <2>1, <2>2
    <2> QED BY <2>1, <2>3, <2>4
  <1> HIDE DEF N
  <1>7. Nat \subseteq N
    BY <1>5, <1>6, DetachTransactions!SetInduction
  <1>8. VisInv(end)
    BY <1>3, <1>7 DEF N
  <1> HIDE DEF end
  <1> QED BY <1>2, <1>8, HeightHolds

LEMMA LoadHolds ==
  ASSUME NEW c, VisInv(c),
         NEW written \in [DOMAIN c.m_transactions -> ToSet(c.m_transactions)]
  PROVE  VisInv(LoadTransactions!Rounds(written, [c EXCEPT !.m_transactions = <<>>],
                                        Len(c.m_transactions)))
  <1> DEFINE txs == c.m_transactions
             start == [c EXCEPT !.m_transactions = <<>>]
             after(k) == LoadTransactions!Rounds(written, start, k)
             N == {k \in Nat : k <= Len(txs) => VisInv(after(k))}
  <1>1. after(0) = start /\ \A k \in Nat : after(k + 1) = LoadTransaction(written, after(k), k + 1)
    BY LoadTransactions!RoundsAre
  <1>2. txs \in Seq(Entry) /\ DOMAIN c = Members
    BY VisFacts
  <1>3. DOMAIN txs = 1 .. Len(txs) /\ Len(txs) \in Nat /\ ToSet(txs) \subseteq Entry
    BY <1>2, SetOf
  <1>4. VisInv(start)
    <2>1. /\ DOMAIN start = Members /\ start.m_transactions = <<>>
          /\ start.m_unconfirmedTransfers = c.m_unconfirmedTransfers
          /\ start.m_availableTransfers = c.m_availableTransfers
          /\ start.m_spentTransfers = c.m_spentTransfers
      BY <1>2 DEF Members
    <2>2. <<>> \in Seq(Entry)
      OBVIOUS
    <2> HIDE DEF start
    <2> QED BY <2>1, <2>2, SameTransfers
  <1> HIDE DEF after, start
  <1>5. 0 \in N
    BY <1>1, <1>4
  <1>6. ASSUME NEW k \in Nat, k \in N PROVE k + 1 \in N
    <2>1. SUFFICES ASSUME k + 1 <= Len(txs) PROVE VisInv(after(k + 1))
      OBVIOUS
    <2> DEFINE i == written[k + 1]
    <2>2. i \in Entry
      BY <1>3, <2>1
    <2>3. i.tx \in Tx /\ i.height \in Nat
      BY <2>2 DEF Entry
    <2>4. VisInv(after(k))
      BY <1>3, <1>6, <2>1
    <2>5. after(k + 1) = InsertTransaction(after(k), i.tx, i.height)
      BY <1>1 DEF LoadTransaction
    <2> HIDE DEF i
    <2>6. VisInv(InsertTransaction(after(k), i.tx, i.height))
      BY <2>3, <2>4, InsertHolds
    <2> QED BY <2>5, <2>6
  <1> HIDE DEF N
  <1>7. Nat \subseteq N
    BY <1>5, <1>6, LoadTransactions!SetInduction
  <1>8. VisInv(after(Len(txs)))
    BY <1>3, <1>7 DEF N
  <1> QED BY <1>8 DEF after, start

-----------------------------------------------------------------------------
(* The states.                                                             *)
TransfersInv ==
  /\ chain \in Seq(Seq(Tx)) /\ m_poolTxs \subseteq Tx /\ sent \subseteq Own
  /\ outgoing \in [stage : {"none"}] \cup [stage : {"prepared", "added"}, tx : Own]
  /\ VisInv(container)

LEMMA FinishStep ==
  ASSUME NEW c, VisInv(c), NEW caught, Finish(c, caught)
  PROVE  VisInv(container)'
  <1> DEFINE r == [c EXCEPT !.exception = Quiet]
  <1>1. /\ DOMAIN r = Members /\ r.m_transactions = c.m_transactions
        /\ r.m_unconfirmedTransfers = c.m_unconfirmedTransfers
        /\ r.m_availableTransfers = c.m_availableTransfers
        /\ r.m_spentTransfers = c.m_spentTransfers
    BY VisFacts DEF Members
  <1>2. container' = r
    BY DEF Finish
  <1> HIDE DEF r
  <1>3. VisInv(r)
    BY <1>1, VisFacts, SameTransfers
  <1>4. VisInv(container')
    BY <1>2, <1>3
  <1> QED BY <1>4 DEF VisInv, Typed, Distinct, Numbered, Transfers, Same, Right, SpentOnce, With,
                      IsPooled, IsSpent, InBlock, IsTransfer

(* Blocks have transactions, and the differences of pools can be listed.   *)
LEMMA PublicIsTx ==
  ASSUME TransfersInv
  PROVE  Public \subseteq Tx /\ Own \subseteq Tx
  BY TransfersAssumption DEF TransfersInv, Public

LEMMA BlockIsSeq ==
  ASSUME TransfersInv, NEW ch, NEW b \in BlocksAfter(ch)
  PROVE  b \in Seq(Tx)
  <1> DEFINE new == Public \ ToSet(TxsOf(ch))
  <1>1. b \in BoundedSeq(new, MaxBlockTxs)
    BY DEF BlocksAfter
  <1>2. PICK m \in 0 .. MaxBlockTxs : b \in [1 .. m -> new]
    BY <1>1 DEF BoundedSeq, SeqOf
  <1>3. m \in Nat /\ Public \subseteq Tx
    BY <1>2, TransfersAssumption, PublicIsTx
  <1>4. b \in [1 .. m -> Tx]
    BY <1>2, <1>3
  <1> QED BY <1>3, <1>4

LEMMA BatchIsSeq ==
  ASSUME TransfersInv, NEW batch \in Batches
  PROVE  batch \in Seq(Seq(Tx))
  <1>1. PICK b \in BlocksAfter(chain) :
          batch = <<b>> \/ \E d \in BlocksAfter(Append(chain, b)) : batch = <<b, d>>
    BY DEF Batches
  <1> DEFINE T == Seq(Tx)
  <1>2. b \in T
    BY BlockIsSeq
  <1>3. CASE batch = <<b>>
    <2> HIDE DEF T
    <2>1. batch \in Seq(T)
      BY <1>2, <1>3
    <2> QED BY <2>1 DEF T
  <1>4. CASE \E d \in BlocksAfter(Append(chain, b)) : batch = <<b, d>>
    <2>1. PICK d \in BlocksAfter(Append(chain, b)) : batch = <<b, d>>
      BY <1>4
    <2>2. d \in T
      BY BlockIsSeq
    <2> HIDE DEF T
    <2>3. batch \in Seq(T)
      BY <1>2, <2>1, <2>2
    <2> QED BY <2>3 DEF T
  <1> QED BY <1>1, <1>3, <1>4

LEMMA ListIsSeq ==
  ASSUME NEW S \in SUBSET Tx, NEW s \in SetToSeqs(S)
  PROVE  s \in Seq(Tx)
  <1>1. IsFiniteSet(S)
    BY TransfersAssumption, FS_Subset
  <1>2. Cardinality(S) \in Nat
    BY <1>1, FS_CardinalityType
  <1>3. s \in [1 .. Cardinality(S) -> S]
    BY DEF SetToSeqs
  <1>4. s \in [1 .. Cardinality(S) -> Tx]
    BY <1>3
  <1> QED BY <1>2, <1>4

-----------------------------------------------------------------------------
(* One step.                                                               *)
LEMMA InitTransfers == Init => TransfersInv
  <1> SUFFICES ASSUME Init PROVE TransfersInv
    OBVIOUS
  <1> DEFINE c == EmptyContainer
  <1>1. /\ DOMAIN c = Members /\ c.m_transactions = <<>> /\ c.m_unconfirmedTransfers = {}
        /\ c.m_availableTransfers = {} /\ c.m_spentTransfers = {}
    BY DEF EmptyContainer, Members
  <1>2. container = c /\ chain = <<>> /\ m_poolTxs = {} /\ outgoing = [stage |-> "none"] /\ sent = {}
    BY DEF Init
  <1> HIDE DEF c
  <1>3. Typed(c)
    <2>1. IsFiniteSet({})
      BY FS_EmptySet
    <2> QED BY <1>1, <2>1 DEF Typed
  <1>4. Distinct(c)
    BY <1>1 DEF Distinct, Numbered, Transfers
  <1>5. \A d : Right(c, d)
    BY <1>1 DEF Right, SpentOnce, With
  <1>6. VisInv(container)
    BY <1>2, <1>3, <1>4, <1>5 DEF VisInv
  <1> QED BY <1>2, <1>6 DEF TransfersInv

LEMMA StepTransfers == TransfersInv /\ [Next]_vars => TransfersInv'
  <1> SUFFICES ASSUME TransfersInv, [Next]_vars PROVE TransfersInv'
    OBVIOUS
  <1> DEFINE Outgoing == [stage : {"none"}] \cup [stage : {"prepared", "added"}, tx : Own]
  <1>0. /\ chain \in Seq(Seq(Tx)) /\ m_poolTxs \subseteq Tx /\ sent \subseteq Own
        /\ outgoing \in Outgoing /\ VisInv(container)
    BY DEF TransfersInv
  <1>1. ASSUME UNCHANGED container PROVE VisInv(container)'
    BY <1>0, <1>1 DEF VisInv, Typed, Distinct, Numbered, Transfers, Same, Right, SpentOnce, With,
                      IsPooled, IsSpent, InBlock, IsTransfer
  <1>2. ASSUME NEW batch \in Batches, onNewBlocks(batch) PROVE TransfersInv'
    <2> DEFINE c == ProcessBlocks!Rounds([before |-> chain, batch |-> batch], container, Len(batch))
               height == Len(chain) + Len(batch)
               f == IF Failed(c) THEN c ELSE advanceHeight(c, height)
    <2>1. batch \in Seq(Seq(Tx))
      BY BatchIsSeq
    <2>2. /\ Finish(f, TRUE) /\ (chain' = chain \/ chain' = chain \o batch)
          /\ UNCHANGED <<m_poolTxs, outgoing, sent>>
      BY <1>2 DEF onNewBlocks, wallet
    <2>3. VisInv(c)
      BY <1>0, <2>1, BlocksHold
    <2> HIDE DEF c, height
    <2>4. VisInv(f)
      <3>1. VisInv([c EXCEPT !.m_currentHeight = height])
        BY <2>3, HeightHolds
      <3> QED BY <2>3, <3>1 DEF advanceHeight
    <2> HIDE DEF f
    <2>5. VisInv(container)'
      BY <2>2, <2>4, FinishStep
    <2>6. chain' \in Seq(Seq(Tx))
      <3> DEFINE T == Seq(Tx)
      <3>1. chain \in Seq(T) /\ batch \in Seq(T)
        BY <1>0, <2>1
      <3> HIDE DEF T
      <3>2. chain \o batch \in Seq(T)
        BY <3>1
      <3>3. chain' \in Seq(T)
        BY <2>2, <3>1, <3>2
      <3> QED BY <3>3 DEF T
    <2> QED BY <1>0, <2>2, <2>5, <2>6 DEF TransfersInv
  <1>3. ASSUME NEW batch \in Batches, onNewBlocksFails(batch) PROVE TransfersInv'
    <2>1. /\ container' = detach(container, Len(chain) + 1)
          /\ UNCHANGED <<chain, m_poolTxs, outgoing, sent>>
      BY <1>3 DEF onNewBlocksFails, wallet
    <2>2. VisInv(detach(container, Len(chain) + 1))
      BY <1>0, DetachHolds
    <2>3. VisInv(container')
      BY <2>1, <2>2
    <2>4. VisInv(container)'
      BY <2>3 DEF VisInv, Typed, Distinct, Numbered, Transfers, Same, Right, SpentOnce, With,
                  IsPooled, IsSpent, InBlock, IsTransfer
    <2> QED BY <1>0, <2>1, <2>4 DEF TransfersInv
  <1>4. ASSUME NEW height \in 1 .. Len(chain), onBlockchainDetach(height) PROVE TransfersInv'
    <2>1. /\ Finish(detach(container, height), TRUE)
          /\ chain' = SubSeq(chain, 1, height - 1)
          /\ UNCHANGED <<m_poolTxs, outgoing, sent>>
      BY <1>4 DEF onBlockchainDetach, wallet
    <2>2. VisInv(detach(container, height))
      BY <1>0, DetachHolds
    <2>3. VisInv(container)'
      BY <2>1, <2>2, FinishStep
    <2>4. chain' \in Seq(Seq(Tx))
      BY <1>0, <1>4, <2>1
    <2> QED BY <1>0, <2>1, <2>3, <2>4 DEF TransfersInv
  <1>5. ASSUME NEW pool \in ReadyPool(chain \o refused), PoolSync(pool) PROVE TransfersInv'
    <2>1. PICK added \in SetToSeqs(pool \ m_poolTxs), deleted \in SetToSeqs(m_poolTxs \ pool) :
            onPoolUpdated(added, deleted)
      BY <1>5 DEF PoolSync
    <2>2. pool \subseteq Tx
      BY PublicIsTx DEF ReadyPool, Followers
    <2>3. added \in Seq(Tx) /\ deleted \in Seq(Tx)
      <3> DEFINE A == pool \ m_poolTxs
                 B == m_poolTxs \ pool
      <3>1. A \in SUBSET Tx /\ B \in SUBSET Tx
        BY <1>0, <2>2
      <3> HIDE DEF A, B
      <3> QED BY <3>1, ListIsSeq DEF A, B
    <2> DEFINE c == Additions!Rounds(added, container, Len(added))
               f == IF Failed(c) THEN c ELSE Deletions!Rounds(deleted, c, Len(deleted))
    <2>4. /\ Finish(f, FALSE)
          /\ m_poolTxs' = IF Failed(c) THEN m_poolTxs ELSE (m_poolTxs \cup ToSet(added)) \ ToSet(deleted)
          /\ UNCHANGED <<chain, outgoing, sent>>
      BY <2>1 DEF onPoolUpdated, wallet, node
    <2>5. VisInv(c)
      BY <1>0, <2>3, AdditionsHold
    <2> HIDE DEF c
    <2>6. VisInv(f)
      BY <2>3, <2>5, DeletionsHold
    <2> HIDE DEF f
    <2>7. VisInv(container)'
      BY <2>4, <2>6, FinishStep
    <2>8. m_poolTxs' \subseteq Tx
      <3>1. ToSet(added) \subseteq Tx
        BY <2>3, SetOf
      <3> QED BY <1>0, <2>4, <3>1
    <2> QED BY <1>0, <2>4, <2>7, <2>8 DEF TransfersInv
  <1>6. ASSUME NEW t \in Own, Prepare(t) PROVE TransfersInv'
    <2>1. /\ outgoing' = [stage |-> "prepared", tx |-> t]
          /\ UNCHANGED <<chain, container, m_poolTxs, sent>>
      BY <1>6 DEF Prepare, node
    <2>2. VisInv(container)'
      BY <1>1, <2>1
    <2> QED BY <1>0, <2>1, <2>2 DEF TransfersInv
  <1>7. ASSUME addUnconfirmedTransaction PROVE TransfersInv'
    <2> DEFINE t == outgoing.tx
               c == processOutputs(container, PoolBlock(t), t)
    <2>1. /\ outgoing.stage = "prepared" /\ Finish(c, TRUE)
          /\ \/ outgoing' = [stage |-> "none"] /\ sent' = sent
             \/ outgoing' = [outgoing EXCEPT !.stage = "added"] /\ sent' = sent \cup {t}
          /\ UNCHANGED <<chain, m_poolTxs>>
      BY <1>7 DEF addUnconfirmedTransaction, node
    <2>2. t \in Own /\ t \in Tx /\ outgoing' \in Outgoing
      BY <1>0, <2>1, PublicIsTx
    <2> HIDE DEF t
    <2>3. VisInv(c)
      BY <1>0, <2>2, PoolBlockIs, ProcessHolds
    <2>4. VisInv(container)'
      BY <2>1, <2>3, FinishStep
    <2> QED BY <1>0, <2>1, <2>2, <2>4 DEF TransfersInv
  <1>8. ASSUME Relayed PROVE TransfersInv'
    <2>1. outgoing' = [stage |-> "none"] /\ UNCHANGED <<chain, container, m_poolTxs, sent>>
      BY <1>8 DEF Relayed, node
    <2>2. VisInv(container)'
      BY <1>1, <2>1
    <2> QED BY <1>0, <2>1, <2>2 DEF TransfersInv
  <1>9. ASSUME removeUnconfirmedTransaction PROVE TransfersInv'
    <2>1. /\ Finish(deleteUnconfirmedTransaction(container, outgoing.tx), TRUE)
          /\ outgoing' = [stage |-> "none"] /\ UNCHANGED <<chain, m_poolTxs, sent>>
      BY <1>9 DEF removeUnconfirmedTransaction, node
    <2>2. VisInv(deleteUnconfirmedTransaction(container, outgoing.tx))
      BY <1>0, DeleteUnconfirmedHolds
    <2>3. VisInv(container)'
      BY <2>1, <2>2, FinishStep
    <2> QED BY <1>0, <2>1, <2>3 DEF TransfersInv
  <1>10. ASSUME SaveAndLoad PROVE TransfersInv'
    <2> DEFINE txs == container.m_transactions
    <2>1. /\ UNCHANGED <<chain, outgoing, sent>>
          /\ m_poolTxs' = {i.tx : i \in {j \in ToSet(txs) : j.height = Unconfirmed}}
      BY <1>10 DEF SaveAndLoad, wallet
    <2>2. PICK written \in [DOMAIN txs -> ToSet(txs)] :
            container' = LoadTransactions!Rounds(written, [container EXCEPT !.m_transactions = <<>>],
                                                 Len(txs))
      BY <1>10 DEF SaveAndLoad
    <2>3. VisInv(container')
      BY <1>0, <2>2, LoadHolds
    <2>4. VisInv(container)'
      BY <2>3 DEF VisInv, Typed, Distinct, Numbered, Transfers, Same, Right, SpentOnce, With,
                  IsPooled, IsSpent, InBlock, IsTransfer
    <2>5. m_poolTxs' \subseteq Tx
      <3>1. txs \in Seq(Entry)
        BY <1>0, VisFacts
      <3>2. ToSet(txs) \subseteq Entry
        BY <3>1, SetOf
      <3> QED BY <2>1, <3>2 DEF Entry
    <2> QED BY <1>0, <2>1, <2>4, <2>5 DEF TransfersInv
  <1>11. CASE UNCHANGED vars
    <2>1. UNCHANGED <<chain, container, m_poolTxs, outgoing, sent>>
      BY <1>11 DEF vars
    <2>2. VisInv(container)'
      BY <1>1, <2>1
    <2> QED BY <1>0, <2>1, <2>2 DEF TransfersInv
  <1> QED BY <1>2, <1>3, <1>4, <1>5, <1>6, <1>7, <1>8, <1>9, <1>10, <1>11 DEF Next

LEMMA InvVisible == TransfersInv => OneVisiblePerKeyImage
  <1> SUFFICES ASSUME TransfersInv,
                      NEW d \in {x.desc : x \in {y \in Unspent \cup container.m_unconfirmedTransfers :
                                                   y.desc[1] = "key"}}
               PROVE  LET available == With(Unspent, d)
                          unconfirmed == With(container.m_unconfirmedTransfers, d)
                          spent == With(container.m_spentTransfers, d)
                          counted == {x \in available \cup unconfirmed : x.visible}
                      IN /\ \A x, y \in spent : x = y
                         /\ IF spent # {} THEN counted = {}
                            ELSE IF available # {}
                            THEN \E x \in available : counted = {x} /\ \A y \in available : ~Before(y, x)
                            ELSE counted = {x \in unconfirmed : unconfirmed = {x}}
    BY DEF OneVisiblePerKeyImage
  <1> DEFINE available == With(container.m_availableTransfers, d)
             unconfirmed == With(container.m_unconfirmedTransfers, d)
             spent == With(container.m_spentTransfers, d)
             counted == {x \in available \cup unconfirmed : x.visible}
  <1>1. IsKey(d)
    BY DEF IsKey
  <1>2. Right(container, d)
    BY <1>1 DEF TransfersInv, VisInv
  <1>3. With(Unspent, d) = available
    BY DEF Unspent
  <1>4. /\ \A x, y \in spent : x = y
        /\ spent # {} => \A x \in available \cup unconfirmed : x.visible = FALSE
        /\ spent = {} /\ available # {} =>
             /\ \A x \in unconfirmed : x.visible = FALSE
             /\ \E x \in available : /\ x.visible = TRUE /\ \A y \in available : ~Before(y, x)
                                     /\ \A y \in available : y # x => y.visible = FALSE
        /\ spent = {} /\ available = {} =>
             \A x \in unconfirmed : x.visible = (unconfirmed = {x})
    BY <1>2 DEF Right, SpentOnce
  <1> HIDE DEF available, unconfirmed, spent
  <1>5. CASE spent # {}
    BY <1>3, <1>4, <1>5 DEF unconfirmed, spent
  <1>6. CASE spent = {} /\ available # {}
    <2>1. PICK x \in available : /\ x.visible = TRUE /\ \A y \in available : ~Before(y, x)
                                 /\ \A y \in available : y # x => y.visible = FALSE
      BY <1>4, <1>6
    <2>2. counted = {x}
      BY <1>4, <1>6, <2>1
    <2> QED BY <1>3, <1>4, <1>6, <2>1, <2>2 DEF unconfirmed, spent
  <1>7. CASE spent = {} /\ available = {}
    <2>1. counted = {x \in unconfirmed : unconfirmed = {x}}
      BY <1>4, <1>7
    <2> QED BY <1>3, <1>4, <1>7, <2>1 DEF unconfirmed, spent
  <1> QED BY <1>5, <1>6, <1>7

(* What the container counts in the balance follows the outputs of each    *)
(* key image through every sequence of blocks, detached blocks, pool       *)
(* changes, sent transactions, exceptions and restarts: at most one of     *)
(* them is spent, none of the others is visible then, and otherwise just   *)
(* the one that updateTransfersVisibility is meant to pick.                *)
THEOREM VisibilityIsRight == Spec => []OneVisiblePerKeyImage
  <1>1. Spec => []TransfersInv
    BY InitTransfers, StepTransfers, PTL DEF Spec
  <1> QED BY <1>1, InvVisible, PTL

=============================================================================
