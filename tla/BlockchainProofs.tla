-------------------------- MODULE BlockchainProofs --------------------------
EXTENDS Blockchain, WellFoundedInduction, TLAPS

(***************************************************************************)
(* For every catalogue of blocks and transactions: the types of the chain, *)
(* that its blocks are linked at every step, the key images of the pool,   *)
(* that no key image is spent twice; what addNewBlock does to the main     *)
(* chain as a whole; and that the indexes, the chain and the pool agree.   *)
(***************************************************************************)

(***************************************************************************)
(* The control state.  CallerInv says which loop may have called, SwitchInv*)
(* that a switch has a chain to switch to, that it starts above the genesis*)
(* block and that the main chain is never shorter than their split,        *)
(* PushedInv how far the indexes can be.                                   *)
(***************************************************************************)
Switching ==
  \/ pc \in {"disconnect", "connect", "realt", "unconnect", "restore"}
  \/ pc \in {"load", "check", "tx", "undo", "walk"} /\ caller # "add"

CallerInv ==
  /\ pc \in {"load", "check", "tx"} => caller \in {"add", "connect", "restore"}
  /\ pc = "undo" => caller \in {"add", "connect", "restore", "disconnect", "unconnect"}
  /\ pc = "walk" => caller \in {"add", "realt"}

SwitchInv ==
  /\ Switching => alt_chain # <<>> /\ alt_chain[1] # Genesis /\ SplitHeight <= Len(m_blocks)
  /\ Popping => SplitHeight < Len(m_blocks) /\ block = Last(m_blocks)
  /\ pc = "walk" => path # <<>> /\ path[1] # Genesis /\ block # Genesis
  /\ Genesis \notin m_alternative_chains

PushedInv ==
  /\ pc \in {"tx", "undo"} => pushed <= TxCount(block)
  /\ pc \notin {"tx", "undo", "rebuild"} => pushed = 0
  /\ pc = "rebuild" =>
       /\ Len(m_blockIndex) <= Len(m_blocks)
       /\ Len(m_blockIndex) < Len(m_blocks) => pushed < TxCount(m_blocks[Len(m_blockIndex) + 1])
       /\ Len(m_blockIndex) = Len(m_blocks) => pushed = 0

LinkInv ==
  /\ ChainLinked
  /\ pc = "tx" => Prev(block) = Last(m_blocks)

Control == CallerInv /\ SwitchInv /\ PushedInv /\ LinkInv

(***************************************************************************)
(* Sequences of blocks.                                                    *)
(***************************************************************************)
LEMMA FrontProperties ==
  ASSUME NEW s \in Seq(Block), s # <<>>
  PROVE  /\ Last(s) \in Block
         /\ Front(s) \in Seq(Block)
         /\ Len(Front(s)) = Len(s) - 1
         /\ \A i \in 1 .. Len(s) - 1 : Front(s)[i] = s[i]
  <1>1. Len(s) \in Nat \ {0}
    OBVIOUS
  <1>2. Last(s) \in Block
    BY <1>1 DEF Last
  <1>3. Front(s) \in Seq(Block)
    BY <1>1 DEF Front
  <1>4. Len(Front(s)) = Len(s) - 1
    <2>1. CASE Len(s) = 1
      <3>1. SubSeq(s, 1, 0) = <<>>
        OBVIOUS
      <3> QED BY <2>1, <3>1 DEF Front
    <2>2. CASE Len(s) > 1
      BY <2>2 DEF Front
    <2>3. Len(s) = 1 \/ Len(s) > 1
      BY <1>1
    <2> QED BY <2>1, <2>2, <2>3
  <1>5. \A i \in 1 .. Len(s) - 1 : Front(s)[i] = s[i]
    BY <1>1 DEF Front
  <1> QED BY <1>2, <1>3, <1>4, <1>5

(* Appending a block gives a longer chain of blocks.                       *)
LEMMA AppendType ==
  ASSUME NEW s \in Seq(Block), NEW b \in Block
  PROVE  Append(s, b) \in Seq(Block) /\ Len(Append(s, b)) = Len(s) + 1
  OBVIOUS

(* The appended block is the last one.                                     *)
LEMMA AppendLast ==
  ASSUME NEW s \in Seq(Block), NEW b \in Block
  PROVE  Last(Append(s, b)) = b /\ Append(s, b)[Len(s) + 1] = b
  BY DEF Last

(* Appending leaves the earlier blocks where they were.                    *)
LEMMA AppendKeeps ==
  ASSUME NEW s \in Seq(Block), NEW b \in Block, NEW i \in 1 .. Len(s)
  PROVE  Append(s, b)[i] = s[i]
  OBVIOUS

(* A prefix, element by element.                                           *)
LEMMA PrefixElements ==
  ASSUME NEW s \in Seq(Block), NEW t \in Seq(Block)
  PROVE  IsPrefix(s, t) <=> Len(s) <= Len(t) /\ \A i \in 1 .. Len(s) : s[i] = t[i]
  BY DEF IsPrefix

(* What is kept of a chain of blocks is a chain of blocks.                 *)
LEMMA SubSeqType ==
  ASSUME NEW s \in Seq(Block), NEW n \in 0 .. Len(s)
  PROVE  SubSeq(s, 1, n) \in Seq(Block)
  OBVIOUS

(* A follower that goes back to a block still has a chain of blocks.       *)
LEMMA UpToType ==
  ASSUME NEW s \in Seq(Block), NEW b
  PROVE  UpTo(s, b) \in Seq(Block)
  <1> DEFINE P(n) == IF \E i \in 1 .. Len(s) : s[i] = b THEN n > 0 /\ s[n] = b ELSE n = 0
  <1>1. \E n \in 0 .. Len(s) : P(n)
    <2>1. CASE \E i \in 1 .. Len(s) : s[i] = b
      <3>1. PICK i \in 1 .. Len(s) : s[i] = b
        BY <2>1
      <3>2. i \in 0 .. Len(s) /\ i > 0
        OBVIOUS
      <3> QED BY <2>1, <3>1, <3>2
    <2>2. CASE ~\E i \in 1 .. Len(s) : s[i] = b
      <3>1. 0 \in 0 .. Len(s)
        OBVIOUS
      <3> QED BY <2>2, <3>1
    <2> QED BY <2>1, <2>2
  <1>2. PositionOf(s, b) = CHOOSE n \in 0 .. Len(s) : P(n)
    BY DEF PositionOf
  <1> HIDE DEF P
  <1>3. (CHOOSE n \in 0 .. Len(s) : P(n)) \in 0 .. Len(s)
    BY <1>1, Zenon
  <1>4. PositionOf(s, b) \in 0 .. Len(s)
    BY <1>2, <1>3, Zenon
  <1> QED BY <1>4, SubSeqType, Zenon DEF UpTo

(***************************************************************************)
(* Types of what the actions compute.                                      *)
(***************************************************************************)
LEMMA NoOperationType == NoOperation \in [chain : Seq(Block), pool : SUBSET Tx]
  <1>1. <<>> \in Seq(Block) /\ {} \in SUBSET Tx
    OBVIOUS
  <1> QED BY <1>1 DEF NoOperation

(* The chain to switch to starts at a height.                              *)
LEMMA SplitHeightType == LocalTypeOK /\ alt_chain # <<>> => SplitHeight \in Nat
  BY HeightAssumption DEF LocalTypeOK, SplitHeight

(* add_tx keeps the types of the pool.                                     *)
LEMMA PoolWithType ==
  ASSUME PoolTypeOK, NEW S \in SUBSET Tx, PoolWith(S)
  PROVE  m_transactions' \in SUBSET Tx /\ m_spent_key_images' \in [KeyImage -> SUBSET Tx]
  BY DEF PoolTypeOK, PoolWith

(* take_tx and removeTransaction keep the types of the pool.               *)
LEMMA PoolWithoutType ==
  ASSUME PoolTypeOK, NEW S, PoolWithout(S)
  PROVE  m_transactions' \in SUBSET Tx /\ m_spent_key_images' \in [KeyImage -> SUBSET Tx]
  BY DEF PoolTypeOK, PoolWithout

(* The hashes that a block lists are transactions.                         *)
LEMMA TxsOfType == \A b \in Block : TxsOf(b) \in Seq(Tx)
  BY BlockAssumption DEF TxsOf, BlockData

(* A block has at least its miner transaction.                             *)
LEMMA TxCountType == \A b \in Block : TxCount(b) \in Nat \ {0}
  BY TxsOfType DEF TxCount

(* saveTransactions returns transactions to the pool.                      *)
LEMMA SavedType == \A b \in Block : Saved(TxsOf(b)) \in SUBSET Tx
  BY TxsOfType DEF Saved

(* Every position of a block holds a transaction or the miner transaction. *)
LEMMA TxAtType ==
  \A b \in Block, p \in Nat : p < TxCount(b) => TxAt(b, p) \in TxId
  <1> SUFFICES ASSUME NEW b \in Block, NEW p \in Nat, p < TxCount(b)
               PROVE  TxAt(b, p) \in TxId
    OBVIOUS
  <1>1. CASE p = 0
    BY <1>1, BlockAssumption DEF TxAt, TxId, BlockData
  <1>2. CASE p # 0
    BY <1>2, TxsOfType DEF TxAt, TxId, TxCount
  <1> QED BY <1>1, <1>2

(* The key images of a transaction are key images.                         *)
LEMMA KeyImagesType == \A t \in TxId : KeyImagesOf(t) \subseteq KeyImage
  <1> SUFFICES ASSUME NEW t \in TxId PROVE KeyImagesOf(t) \subseteq KeyImage
    OBVIOUS
  <1>1. TxInfo[t].inputs \in Seq(KeyInput)
    BY TxAssumption DEF TransactionData
  <1>2. \A i \in DOMAIN TxInfo[t].inputs : TxInfo[t].inputs[i] \in KeyInput
    BY <1>1
  <1>3. \A x \in KeyInput : x.keyImage \in KeyImage
    BY DEF KeyInput
  <1> QED BY <1>2, <1>3 DEF KeyImagesOf

(* The outputs that pushTransaction appends are places of the chain.       *)
LEMMA OutputsOfType ==
  ASSUME NEW t \in TxId, NEW h \in Nat, NEW p \in Nat, NEW a \in Amount
  PROVE  OutputsOf(t, h, p)[a] \in Seq(OutputPlace)
  <1> DEFINE n == TxInfo[t].outputs[a]
  <1>1. n \in Nat
    BY TxAssumption DEF TransactionData
  <1>2. OutputsOf(t, h, p)[a] = [i \in 1 .. n |-> [block |-> h, transaction |-> p, out |-> i - 1]]
    BY DEF OutputsOf
  <1>3. \A i \in 1 .. n : [block |-> h, transaction |-> p, out |-> i - 1] \in OutputPlace
    BY <1>1 DEF OutputPlace
  <1> HIDE DEF n
  <1> QED BY <1>1, <1>2, <1>3

(* saveTransactions keeps the types of the pool.                           *)
LEMMA SaveTransactionsType ==
  ASSUME PoolTypeOK, NEW b \in Block, SaveTransactions(TxsOf(b)), UNCHANGED poolFile
  PROVE  PoolTypeOK'
  BY PoolWithType, SavedType DEF SaveTransactions, PoolTypeOK

(* What pushTransaction and rebuildCache insert keeps the types of the indexes. *)
LEMMA InsertTransactionType ==
  ASSUME IndexTypeOK, NEW t \in TxId, NEW h \in Nat, NEW p \in Nat, InsertTransaction(t, h, p)
  PROVE  IndexTypeOK'
  <1>1. m_transactionMap' \in [TxId -> TransactionIndex \cup {NoIndex}]
    BY DEF InsertTransaction, IndexTypeOK, TransactionIndex
  <1>2. m_spent_keys' \in SUBSET KeyImage
    BY KeyImagesType DEF InsertTransaction, IndexTypeOK
  <1>3. m_outputs' \in [Amount -> Seq(OutputPlace)]
    BY OutputsOfType DEF InsertTransaction, IndexTypeOK
  <1> QED BY <1>1, <1>2, <1>3 DEF IndexTypeOK

(* pushTransaction keeps the types of the indexes, also when it refuses.   *)
LEMMA PushTransactionType ==
  ASSUME IndexTypeOK, NEW t \in TxId, NEW h \in Nat, NEW p \in Nat, PushTransaction(t, h, p)
  PROVE  IndexTypeOK'
  BY InsertTransactionType DEF PushTransaction, IndexTypeOK, indexVars

(* popTransaction removes a natural number of outputs.                     *)
LEMMA RunAtEndType ==
  ASSUME NEW outs \in Seq(OutputPlace), NEW ix, NEW n
  PROVE  RunAtEnd(outs, ix, n) \in Nat
  <1>1. CASE outs = <<>>
    BY <1>1 DEF RunAtEnd
  <1>2. CASE outs # <<>>
    <2>1. Len(outs) \in Nat \ {0}
      BY <1>2
    <2>2. Last(outs) \in OutputPlace
      BY <2>1 DEF Last
    <2>3. Last(outs).out \in Nat
      BY <2>2 DEF OutputPlace
    <2> QED BY <2>3 DEF RunAtEnd
  <1> QED BY <1>1, <1>2

(* popTransaction keeps the types of the indexes.                          *)
LEMMA PopTransactionType ==
  ASSUME IndexTypeOK, NEW t \in TxId, PopTransaction(t)
  PROVE  IndexTypeOK'
  <1>1. m_transactionMap' \in [TxId -> TransactionIndex \cup {NoIndex}]
    BY DEF PopTransaction, IndexTypeOK
  <1>2. m_spent_keys' \in SUBSET KeyImage
    BY DEF PopTransaction, IndexTypeOK
  <1>3. ASSUME NEW a \in Amount
        PROVE  SubSeq(m_outputs[a], 1, Len(m_outputs[a])
                 - RunAtEnd(m_outputs[a], m_transactionMap[t], TxInfo[t].outputs[a]))
               \in Seq(OutputPlace)
    <2>1. m_outputs[a] \in Seq(OutputPlace)
      BY DEF IndexTypeOK
    <2>2. RunAtEnd(m_outputs[a], m_transactionMap[t], TxInfo[t].outputs[a]) \in Nat
      BY <2>1, RunAtEndType
    <2> QED BY <2>1, <2>2
  <1>4. m_outputs' \in [Amount -> Seq(OutputPlace)]
    BY <1>3 DEF PopTransaction
  <1> QED BY <1>1, <1>2, <1>4 DEF IndexTypeOK

(* Return keeps the types and the control state.                           *)
LEMMA ReturnStep ==
  ASSUME TypeOK, Control, Return
  PROVE  TypeOK' /\ Control'
  <1> USE DEF Return, chainVars, indexVars, poolVars, switchVars, historyVars
  <1>1. ChainTypeOK' BY DEF TypeOK, ChainTypeOK
  <1>2. IndexTypeOK' BY DEF TypeOK, IndexTypeOK
  <1>3. PoolTypeOK' BY DEF TypeOK, PoolTypeOK
  <1>4. LocalTypeOK'
    <2>1. pc' \in PC /\ caller' \in Callers
      BY DEF PC, Callers
    <2>2. path' \in Seq(Block) /\ alt_chain' \in Seq(Block) /\ disconnected_chain' \in Seq(Block)
      OBVIOUS
    <2> QED BY <2>1, <2>2, NamesAssumption DEF LocalTypeOK
  <1>5. HistoryTypeOK' BY NoOperationType DEF TypeOK, HistoryTypeOK
  <1>6. CallerInv' BY DEF Control, CallerInv
  <1>7. SwitchInv' BY DEF Control, SwitchInv, Switching, Popping, SplitHeight
  <1>8. PushedInv' BY DEF Control, PushedInv
  <1>9. LinkInv' BY DEF Control, LinkInv, ChainLinked
  <1> QED BY <1>1, <1>2, <1>3, <1>4, <1>5, <1>6, <1>7, <1>8, <1>9 DEF TypeOK, Control

(* FinishSwitch keeps the types and the control state.                     *)
LEMMA FinishSwitchStep ==
  ASSUME TypeOK, Control, FinishSwitch
  PROVE  TypeOK' /\ Control'
  <1> USE DEF FinishSwitch, chainVars, indexVars, poolVars, switchVars, historyVars
  <1>1. ChainTypeOK'
    <2>1. UpTo(follower, Prev(alt_chain[1])) \in Seq(Block)
      BY UpToType DEF TypeOK, ChainTypeOK
    <2> QED BY <2>1 DEF FollowerAfterSwitch, TypeOK, ChainTypeOK, LocalTypeOK
  <1>2. IndexTypeOK' BY DEF TypeOK, IndexTypeOK
  <1>3. PoolTypeOK' BY DEF TypeOK, PoolTypeOK
  <1>4. LocalTypeOK' BY DEF TypeOK, LocalTypeOK, Callers, PC
  <1>5. HistoryTypeOK' BY DEF TypeOK, HistoryTypeOK
  <1>6. CallerInv' BY DEF Control, CallerInv
  <1>7. SwitchInv' BY DEF Control, SwitchInv, Switching, Popping, SplitHeight
  <1>8. PushedInv' BY DEF Control, PushedInv
  <1>9. LinkInv' BY DEF Control, LinkInv, ChainLinked
  <1> QED BY <1>1, <1>2, <1>3, <1>4, <1>5, <1>6, <1>7, <1>8, <1>9 DEF TypeOK, Control

(* WalkToMainChain keeps the types and the control state.                  *)
LEMMA WalkToMainChainStep ==
  ASSUME TypeOK, Control, WalkToMainChain
  PROVE  TypeOK' /\ Control'
  <1> USE DEF WalkToMainChain, chainVars, indexVars, poolVars, switchVars, historyVars
  <1>1. ChainTypeOK' BY DEF TypeOK, ChainTypeOK
  <1>2. IndexTypeOK' BY DEF TypeOK, IndexTypeOK
  <1>3. PoolTypeOK' BY DEF TypeOK, PoolTypeOK
  <1>4. LocalTypeOK' BY DEF TypeOK, ChainTypeOK, LocalTypeOK, Callers, PC
  <1>5. HistoryTypeOK' BY DEF TypeOK, HistoryTypeOK
  <1>6. CallerInv' BY DEF Control, CallerInv
  <1>7. SwitchInv' BY DEF Control, SwitchInv, Switching, Popping, SplitHeight
  <1>8. PushedInv' BY DEF Control, PushedInv
  <1>9. LinkInv' BY DEF Control, LinkInv, ChainLinked
  <1> QED BY <1>1, <1>2, <1>3, <1>4, <1>5, <1>6, <1>7, <1>8, <1>9 DEF TypeOK, Control

(* AddNewBlock keeps the types and the control state.                      *)
LEMMA AddNewBlockStep ==
  ASSUME TypeOK, Control, NEW b \in Block, AddNewBlock(b)
  PROVE  TypeOK' /\ Control'
  <1> USE DEF AddNewBlock, chainVars, indexVars, poolVars, switchVars, historyVars
  <1>1. ChainTypeOK' BY DEF TypeOK, ChainTypeOK
  <1>2. IndexTypeOK' BY DEF TypeOK, IndexTypeOK
  <1>3. PoolTypeOK' BY DEF TypeOK, PoolTypeOK
  <1>4. LocalTypeOK' BY DEF TypeOK, LocalTypeOK, Callers, PC
  <1>5. HistoryTypeOK' BY DEF TypeOK, HistoryTypeOK, ChainTypeOK, PoolTypeOK
  <1>6. CallerInv' BY DEF Control, CallerInv
  <1>7. SwitchInv'
    BY BlockAssumption, NamesAssumption
    DEF Control, SwitchInv, Switching, Popping, HaveBlock, TypeOK, ChainTypeOK, MainBlocks, ToSet
  <1>8. PushedInv' BY DEF Control, PushedInv
  <1>9. LinkInv' BY DEF Control, LinkInv, ChainLinked
  <1> QED BY <1>1, <1>2, <1>3, <1>4, <1>5, <1>6, <1>7, <1>8, <1>9 DEF TypeOK, Control

(* StartConnect keeps the types and the control state.                     *)
LEMMA StartConnectStep ==
  ASSUME TypeOK, Control, StartConnect
  PROVE  TypeOK' /\ Control'
  <1> USE DEF StartConnect, chainVars, indexVars, poolVars, switchVars, historyVars
  <1>1. ChainTypeOK' BY DEF TypeOK, ChainTypeOK
  <1>2. IndexTypeOK' BY DEF TypeOK, IndexTypeOK
  <1>3. PoolTypeOK' BY DEF TypeOK, PoolTypeOK
  <1>4. LocalTypeOK' BY DEF TypeOK, LocalTypeOK, Callers, PC
  <1>5. HistoryTypeOK' BY DEF TypeOK, HistoryTypeOK
  <1>6. CallerInv' BY DEF Control, CallerInv
  <1>7. SwitchInv' BY DEF Control, SwitchInv, Switching, Popping, SplitHeight
  <1>8. PushedInv' BY DEF Control, PushedInv
  <1>9. LinkInv' BY DEF Control, LinkInv, ChainLinked
  <1> QED BY <1>1, <1>2, <1>3, <1>4, <1>5, <1>6, <1>7, <1>8, <1>9 DEF TypeOK, Control

(* ConnectNext keeps the types and the control state.                      *)
LEMMA ConnectNextStep ==
  ASSUME TypeOK, Control, ConnectNext
  PROVE  TypeOK' /\ Control'
  <1> USE DEF ConnectNext, StartPush, chainVars, indexVars, poolVars, switchVars, historyVars
  <1>1. ChainTypeOK' BY DEF TypeOK, ChainTypeOK
  <1>2. IndexTypeOK' BY DEF TypeOK, IndexTypeOK
  <1>3. PoolTypeOK' BY DEF TypeOK, PoolTypeOK
  <1>4. LocalTypeOK' BY DEF TypeOK, LocalTypeOK, Callers, PC
  <1>5. HistoryTypeOK' BY DEF TypeOK, HistoryTypeOK
  <1>6. CallerInv' BY DEF Control, CallerInv
  <1>7. SwitchInv' BY DEF Control, SwitchInv, Switching, Popping, SplitHeight
  <1>8. PushedInv' BY DEF Control, PushedInv
  <1>9. LinkInv' BY DEF Control, LinkInv, ChainLinked
  <1> QED BY <1>1, <1>2, <1>3, <1>4, <1>5, <1>6, <1>7, <1>8, <1>9 DEF TypeOK, Control

(* FinishConnect keeps the types and the control state.                    *)
LEMMA FinishConnectStep ==
  ASSUME TypeOK, Control, FinishConnect
  PROVE  TypeOK' /\ Control'
  <1> USE DEF FinishConnect, chainVars, indexVars, poolVars, switchVars, historyVars
  <1>1. ChainTypeOK' BY DEF TypeOK, ChainTypeOK
  <1>2. IndexTypeOK' BY DEF TypeOK, IndexTypeOK
  <1>3. PoolTypeOK' BY DEF TypeOK, PoolTypeOK
  <1>4. LocalTypeOK' BY DEF TypeOK, LocalTypeOK, Callers, PC
  <1>5. HistoryTypeOK' BY DEF TypeOK, HistoryTypeOK
  <1>6. CallerInv' BY DEF Control, CallerInv
  <1>7. SwitchInv' BY DEF Control, SwitchInv, Switching, Popping, SplitHeight
  <1>8. PushedInv' BY DEF Control, PushedInv
  <1>9. LinkInv' BY DEF Control, LinkInv, ChainLinked
  <1> QED BY <1>1, <1>2, <1>3, <1>4, <1>5, <1>6, <1>7, <1>8, <1>9 DEF TypeOK, Control

(* StartRestore keeps the types and the control state.                     *)
LEMMA StartRestoreStep ==
  ASSUME TypeOK, Control, StartRestore
  PROVE  TypeOK' /\ Control'
  <1> USE DEF StartRestore, chainVars, indexVars, poolVars, switchVars, historyVars
  <1>1. ChainTypeOK' BY DEF TypeOK, ChainTypeOK
  <1>2. IndexTypeOK' BY DEF TypeOK, IndexTypeOK
  <1>3. PoolTypeOK' BY DEF TypeOK, PoolTypeOK
  <1>4. LocalTypeOK' BY DEF TypeOK, LocalTypeOK, Callers, PC
  <1>5. HistoryTypeOK' BY DEF TypeOK, HistoryTypeOK
  <1>6. CallerInv' BY DEF Control, CallerInv
  <1>7. SwitchInv' BY DEF Control, SwitchInv, Switching, Popping, SplitHeight
  <1>8. PushedInv' BY DEF Control, PushedInv
  <1>9. LinkInv' BY DEF Control, LinkInv, ChainLinked
  <1> QED BY <1>1, <1>2, <1>3, <1>4, <1>5, <1>6, <1>7, <1>8, <1>9 DEF TypeOK, Control

(* RestoreNext keeps the types and the control state.                      *)
LEMMA RestoreNextStep ==
  ASSUME TypeOK, Control, RestoreNext
  PROVE  TypeOK' /\ Control'
  <1> USE DEF RestoreNext, StartPush, chainVars, indexVars, poolVars, switchVars, historyVars
  <1>1. ChainTypeOK' BY DEF TypeOK, ChainTypeOK
  <1>2. IndexTypeOK' BY DEF TypeOK, IndexTypeOK
  <1>3. PoolTypeOK' BY DEF TypeOK, PoolTypeOK
  <1>4. LocalTypeOK' BY DEF TypeOK, LocalTypeOK, Callers, PC
  <1>5. HistoryTypeOK' BY DEF TypeOK, HistoryTypeOK
  <1>6. CallerInv' BY DEF Control, CallerInv
  <1>7. SwitchInv' BY DEF Control, SwitchInv, Switching, Popping, SplitHeight
  <1>8. PushedInv' BY DEF Control, PushedInv
  <1>9. LinkInv' BY DEF Control, LinkInv, ChainLinked
  <1> QED BY <1>1, <1>2, <1>3, <1>4, <1>5, <1>6, <1>7, <1>8, <1>9 DEF TypeOK, Control

(* FinishRestore keeps the types and the control state.                    *)
LEMMA FinishRestoreStep ==
  ASSUME TypeOK, Control, FinishRestore
  PROVE  TypeOK' /\ Control'
  <1> USE DEF FinishRestore, chainVars, indexVars, poolVars, switchVars, historyVars
  <1>1. ChainTypeOK' BY DEF TypeOK, ChainTypeOK
  <1>2. IndexTypeOK' BY DEF TypeOK, IndexTypeOK
  <1>3. PoolTypeOK' BY DEF TypeOK, PoolTypeOK
  <1>4. LocalTypeOK' BY DEF TypeOK, LocalTypeOK, Callers, PC
  <1>5. HistoryTypeOK' BY DEF TypeOK, HistoryTypeOK
  <1>6. CallerInv' BY DEF Control, CallerInv
  <1>7. SwitchInv' BY DEF Control, SwitchInv, Switching, Popping, SplitHeight
  <1>8. PushedInv' BY DEF Control, PushedInv
  <1>9. LinkInv' BY DEF Control, LinkInv, ChainLinked
  <1> QED BY <1>1, <1>2, <1>3, <1>4, <1>5, <1>6, <1>7, <1>8, <1>9 DEF TypeOK, Control

(* RefuseAlternative keeps the types and the control state.                *)
LEMMA RefuseAlternativeStep ==
  ASSUME TypeOK, Control, RefuseAlternative
  PROVE  TypeOK' /\ Control'
  <1> USE DEF RefuseAlternative, RefuseReadded, chainVars, indexVars, poolVars, switchVars, historyVars
  <1>1. ChainTypeOK' BY DEF TypeOK, ChainTypeOK
  <1>2. IndexTypeOK' BY DEF TypeOK, IndexTypeOK
  <1>3. PoolTypeOK' BY DEF TypeOK, PoolTypeOK
  <1>4. LocalTypeOK' BY DEF TypeOK, LocalTypeOK, Callers, PC
  <1>5. HistoryTypeOK' BY DEF TypeOK, HistoryTypeOK
  <1>6. CallerInv' BY DEF Control, CallerInv
  <1>7. SwitchInv' BY DEF Control, SwitchInv, Switching, Popping, SplitHeight
  <1>8. PushedInv' BY DEF Control, PushedInv
  <1>9. LinkInv' BY DEF Control, LinkInv, ChainLinked
  <1> QED BY <1>1, <1>2, <1>3, <1>4, <1>5, <1>6, <1>7, <1>8, <1>9 DEF TypeOK, Control

(* FinishRebuild keeps the types and the control state.                    *)
LEMMA FinishRebuildStep ==
  ASSUME TypeOK, Control, FinishRebuild
  PROVE  TypeOK' /\ Control'
  <1> USE DEF FinishRebuild, chainVars, indexVars, poolVars, switchVars, historyVars
  <1>1. ChainTypeOK' BY DEF TypeOK, ChainTypeOK
  <1>2. IndexTypeOK' BY DEF TypeOK, IndexTypeOK
  <1>3. PoolTypeOK' BY DEF TypeOK, PoolTypeOK
  <1>4. LocalTypeOK' BY DEF TypeOK, LocalTypeOK, Callers, PC
  <1>5. HistoryTypeOK' BY DEF TypeOK, HistoryTypeOK
  <1>6. CallerInv' BY DEF Control, CallerInv
  <1>7. SwitchInv' BY DEF Control, SwitchInv, Switching, Popping, SplitHeight
  <1>8. PushedInv' BY DEF Control, PushedInv
  <1>9. LinkInv'
    BY DEF Control, LinkInv, ChainLinked, IsPrefix, TypeOK, ChainTypeOK
  <1> QED BY <1>1, <1>2, <1>3, <1>4, <1>5, <1>6, <1>7, <1>8, <1>9 DEF TypeOK, Control

(* ReaddNext keeps the types and the control state.                        *)
LEMMA ReaddNextStep ==
  ASSUME TypeOK, Control, ReaddNext
  PROVE  TypeOK' /\ Control'
  <1> USE DEF ReaddNext, RefuseReadded, chainVars, indexVars, poolVars, switchVars, historyVars
  <1>1. ChainTypeOK' BY DEF TypeOK, ChainTypeOK
  <1>2. IndexTypeOK' BY DEF TypeOK, IndexTypeOK
  <1>3. PoolTypeOK' BY DEF TypeOK, PoolTypeOK
  <1>4. LocalTypeOK'
    <2>1. disconnected_chain[readded + 1] \in Block
      BY DEF TypeOK, LocalTypeOK
    <2>2. block' \in Block /\ toErase' \in SUBSET Block
      BY <2>1 DEF TypeOK, LocalTypeOK
    <2>4. path' \in Seq(Block)
      <3>1. \A b \in Block : <<b>> \in Seq(Block)
        OBVIOUS
      <3> QED BY <2>1, <3>1 DEF TypeOK, LocalTypeOK
    <2>3. pc' \in PC /\ caller' \in Callers
      BY DEF TypeOK, LocalTypeOK, PC, Callers
    <2> QED BY <2>2, <2>3, <2>4 DEF TypeOK, LocalTypeOK
  <1>5. HistoryTypeOK' BY DEF TypeOK, HistoryTypeOK
  <1>6. CallerInv' BY DEF Control, CallerInv
  <1>7. SwitchInv'
    <2>1. disconnected_chain[readded + 1] \in Block
      BY DEF TypeOK, LocalTypeOK
    <2>2. HaveBlock(Prev(disconnected_chain[readded + 1]))
            => disconnected_chain[readded + 1] # Genesis
      BY <2>1, BlockAssumption, NamesAssumption
      DEF HaveBlock, MainBlocks, ToSet, TypeOK, ChainTypeOK
    <2> QED BY <2>2 DEF Control, SwitchInv, Switching, Popping, SplitHeight
  <1>8. PushedInv' BY DEF Control, PushedInv
  <1>9. LinkInv' BY DEF Control, LinkInv, ChainLinked
  <1> QED BY <1>1, <1>2, <1>3, <1>4, <1>5, <1>6, <1>7, <1>8, <1>9 DEF TypeOK, Control

(* AcceptAlternative keeps the types and the control state.                *)
LEMMA AcceptAlternativeStep ==
  ASSUME TypeOK, Control, AcceptAlternative
  PROVE  TypeOK' /\ Control'
  <1> USE DEF AcceptAlternative, chainVars, indexVars, poolVars, switchVars, historyVars
  <1>1. ChainTypeOK' BY DEF TypeOK, ChainTypeOK, LocalTypeOK
  <1>2. IndexTypeOK' BY DEF TypeOK, IndexTypeOK
  <1>3. PoolTypeOK' BY DEF TypeOK, PoolTypeOK
  <1>4. LocalTypeOK'
    <2>1. pc' \in PC
      BY DEF PC
    <2>2. alt_chain' \in Seq(Block)
      BY DEF TypeOK, LocalTypeOK
    <2>3. discard' \in BOOLEAN
      <3>1. discard \in BOOLEAN
        BY DEF TypeOK, LocalTypeOK
      <3>2. discard' = discard \/ discard' = (Height[block] \in DOMAIN Checkpoints)
        BY Zenon
      <3>3. (Height[block] \in DOMAIN Checkpoints) \in BOOLEAN
        OBVIOUS
      <3> QED BY <3>1, <3>2, <3>3
    <2>4. readded' \in Nat
      BY DEF TypeOK, LocalTypeOK
    <2> QED BY <2>1, <2>2, <2>3, <2>4 DEF TypeOK, LocalTypeOK
  <1>5. HistoryTypeOK' BY DEF TypeOK, HistoryTypeOK
  <1>6. CallerInv' BY DEF Control, CallerInv
  <1>7. SwitchInv'
    <2>1. SplitHeight' = Height[alt_chain'[1]]
      BY DEF SplitHeight
    <2>2. Height[path[1]] < Len(m_blocks)
      BY HeightAssumption DEF AlternativeValid, TypeOK, ChainTypeOK, LocalTypeOK, Control, SwitchInv
    <2>3. Genesis \notin m_alternative_chains' /\ ~Popping' /\ pc' # "walk"
      BY DEF Control, SwitchInv, Popping
    <2>4. Switching' => /\ alt_chain' # <<>> /\ alt_chain'[1] # Genesis
                        /\ SplitHeight' <= Len(m_blocks')
      <3>1. CASE caller = "add" /\ pc' = "disconnect"
        BY <2>1, <2>2, <3>1, HeightAssumption
        DEF Control, SwitchInv, TypeOK, ChainTypeOK, LocalTypeOK
      <3>2. CASE caller = "add" /\ pc' = "return"
        BY <3>2 DEF Switching
      <3>3. CASE caller = "realt" /\ pc' = "realt"
        BY <3>3 DEF Control, SwitchInv, Switching, SplitHeight
      <3> QED BY <3>1, <3>2, <3>3
    <2> QED BY <2>3, <2>4 DEF SwitchInv
  <1>8. PushedInv' BY DEF Control, PushedInv
  <1>9. LinkInv' BY DEF Control, LinkInv, ChainLinked
  <1> QED BY <1>1, <1>2, <1>3, <1>4, <1>5, <1>6, <1>7, <1>8, <1>9 DEF TypeOK, Control

(* AddNewTx keeps the types and the control state.                         *)
LEMMA AddNewTxStep ==
  ASSUME TypeOK, Control, NEW t \in Tx, NEW kept \in BOOLEAN, AddNewTx(t, kept)
  PROVE  TypeOK' /\ Control'
  <1> USE DEF AddNewTx, chainVars, indexVars, poolVars, switchVars, historyVars
  <1>1. ChainTypeOK' BY DEF TypeOK, ChainTypeOK
  <1>2. IndexTypeOK' BY DEF TypeOK, IndexTypeOK
  <1>3. PoolTypeOK' BY PoolWithType DEF TypeOK, PoolTypeOK
  <1>4. LocalTypeOK' BY DEF TypeOK, LocalTypeOK, Callers, PC
  <1>5. HistoryTypeOK' BY DEF TypeOK, HistoryTypeOK
  <1>6. CallerInv' BY DEF Control, CallerInv
  <1>7. SwitchInv' BY DEF Control, SwitchInv, Switching, Popping, SplitHeight
  <1>8. PushedInv' BY DEF Control, PushedInv
  <1>9. LinkInv' BY DEF Control, LinkInv, ChainLinked
  <1> QED BY <1>1, <1>2, <1>3, <1>4, <1>5, <1>6, <1>7, <1>8, <1>9 DEF TypeOK, Control

(* RemoveExpiredTransactions keeps the types and the control state.        *)
LEMMA RemoveExpiredTransactionsStep ==
  ASSUME TypeOK, Control, NEW S \in SUBSET m_transactions, NEW F, RemoveExpiredTransactions(S, F)
  PROVE  TypeOK' /\ Control'
  <1> USE DEF RemoveExpiredTransactions, chainVars, indexVars, poolVars, switchVars, historyVars
  <1>1. ChainTypeOK' BY DEF TypeOK, ChainTypeOK
  <1>2. IndexTypeOK' BY DEF TypeOK, IndexTypeOK
  <1>3. PoolTypeOK' BY PoolWithoutType DEF TypeOK, PoolTypeOK
  <1>4. LocalTypeOK' BY DEF TypeOK, LocalTypeOK, Callers, PC
  <1>5. HistoryTypeOK' BY DEF TypeOK, HistoryTypeOK
  <1>6. CallerInv' BY DEF Control, CallerInv
  <1>7. SwitchInv' BY DEF Control, SwitchInv, Switching, Popping, SplitHeight
  <1>8. PushedInv' BY DEF Control, PushedInv
  <1>9. LinkInv' BY DEF Control, LinkInv, ChainLinked
  <1> QED BY <1>1, <1>2, <1>3, <1>4, <1>5, <1>6, <1>7, <1>8, <1>9 DEF TypeOK, Control

(* The alternative blocks that a failed switch erases are blocks.          *)
LEMMA ToEraseType ==
  ASSUME TypeOK, Control, pc \in {"load", "check", "tx", "undo"}, caller = "connect"
  PROVE  {alt_chain[i] : i \in Connected + 1 .. Len(alt_chain)} \in SUBSET Block
  <1>1. Connected \in Nat
    BY SplitHeightType DEF Connected, TypeOK, ChainTypeOK, LocalTypeOK, Control, SwitchInv, Switching
  <1> QED BY <1>1 DEF TypeOK, LocalTypeOK

(* The exit of pushBlock that returns its transactions to the pool.        *)
LEMMA SaveAndFailStep ==
  ASSUME TypeOK, Control, SaveAndFail, UNCHANGED chainVars,
         pc \in {"check", "tx", "undo"}, caller \in {"add", "connect", "restore"},
         residue' \in BOOLEAN
  PROVE  /\ ChainTypeOK' /\ PoolTypeOK' /\ LocalTypeOK' /\ HistoryTypeOK'
         /\ Control'
  <1> USE DEF SaveAndFail, PushReturns, Unwind, chainVars, switchVars
  <1>1. ChainTypeOK'
    BY DEF TypeOK, ChainTypeOK
  <1>2. PoolTypeOK'
    BY SaveTransactionsType DEF TypeOK, LocalTypeOK
  <1>3. LocalTypeOK'
    <2>1. pc' \in PC
      BY DEF TypeOK, LocalTypeOK, PC
    <2>2. toErase' \in SUBSET Block
      BY ToEraseType DEF TypeOK, LocalTypeOK
    <2> QED BY <2>1, <2>2 DEF TypeOK, LocalTypeOK
  <1>4. HistoryTypeOK'
    BY DEF TypeOK, HistoryTypeOK
  <1>5. CallerInv'
    BY DEF Control, CallerInv
  <1>6. SwitchInv'
    BY DEF Control, SwitchInv, Switching, Popping, SplitHeight
  <1>7. PushedInv'
    BY DEF Control, PushedInv
  <1>8. LinkInv'
    BY DEF Control, LinkInv, ChainLinked
  <1> QED BY <1>1, <1>2, <1>3, <1>4, <1>5, <1>6, <1>7, <1>8 DEF Control

(* LoadTransactions keeps the types and the control state.                 *)
LEMMA LoadTransactionsStep ==
  ASSUME TypeOK, Control, LoadTransactions
  PROVE  TypeOK' /\ Control'
  <1> USE DEF LoadTransactions, PushReturns, chainVars, indexVars, poolVars, switchVars, historyVars
  <1>1. ChainTypeOK' BY DEF TypeOK, ChainTypeOK
  <1>2. IndexTypeOK' BY DEF TypeOK, IndexTypeOK
  <1>3. PoolTypeOK'
    <2>1. \E S : PoolWithout(S)
      OBVIOUS
    <2> QED BY <2>1, PoolWithoutType DEF TypeOK, PoolTypeOK
  <1>4. LocalTypeOK'
    <2>1. pc' \in PC
      BY DEF TypeOK, LocalTypeOK, PC
    <2>2. toErase' \in SUBSET Block
      BY ToEraseType DEF TypeOK, LocalTypeOK
    <2> QED BY <2>1, <2>2 DEF TypeOK, LocalTypeOK
  <1>5. HistoryTypeOK' BY DEF TypeOK, HistoryTypeOK
  <1>6. CallerInv' BY DEF Control, CallerInv
  <1>7. SwitchInv' BY DEF Control, SwitchInv, Switching, Popping, SplitHeight
  <1>8. PushedInv' BY DEF Control, PushedInv
  <1>9. LinkInv' BY DEF Control, LinkInv, ChainLinked
  <1> QED BY <1>1, <1>2, <1>3, <1>4, <1>5, <1>6, <1>7, <1>8, <1>9 DEF TypeOK, Control

(* CheckBlock keeps the types and the control state.                       *)
LEMMA CheckBlockStep ==
  ASSUME TypeOK, Control, CheckBlock
  PROVE  TypeOK' /\ Control'
  <1> USE DEF CheckBlock, chainVars, indexVars, poolVars, switchVars
  <1>1. CASE BlockValid(block) /\ pc' = "tx"
    <2>1. ChainTypeOK' /\ PoolTypeOK' /\ LocalTypeOK' /\ HistoryTypeOK'
      <3>1. ChainTypeOK' BY <1>1 DEF TypeOK, ChainTypeOK
      <3>2. PoolTypeOK' BY <1>1 DEF TypeOK, PoolTypeOK
      <3>3. LocalTypeOK' BY <1>1 DEF TypeOK, LocalTypeOK, PC
      <3>4. HistoryTypeOK' BY <1>1 DEF TypeOK, HistoryTypeOK
      <3> QED BY <3>1, <3>2, <3>3, <3>4
    <2>2. IndexTypeOK'
      <3>1. block \in Block /\ 0 < TxCount(block) /\ Len(m_blocks) \in Nat
        BY TxCountType DEF TypeOK, LocalTypeOK, ChainTypeOK
      <3>2. TxAt(block, 0) \in TxId
        BY <3>1, TxAtType
      <3> QED BY <1>1, <3>1, <3>2, PushTransactionType DEF TypeOK
    <2>3. CallerInv' /\ SwitchInv'
      BY <1>1 DEF Control, CallerInv, SwitchInv, Switching, Popping, SplitHeight
    <2>4. PushedInv'
      BY <1>1, TxCountType DEF PushedInv, TypeOK, LocalTypeOK
    <2>5. LinkInv'
      BY <1>1 DEF Control, LinkInv, ChainLinked, BlockValid, TailId, Last
    <2> QED BY <2>1, <2>2, <2>3, <2>4, <2>5 DEF TypeOK, Control
  <1>2. CASE SaveAndFail /\ UNCHANGED indexVars
    <2>1. ChainTypeOK' /\ PoolTypeOK' /\ LocalTypeOK' /\ HistoryTypeOK' /\ Control'
      BY <1>2, SaveAndFailStep DEF TypeOK, HistoryTypeOK, Control, CallerInv
    <2>2. IndexTypeOK'
      BY <1>2 DEF TypeOK, IndexTypeOK
    <2> QED BY <2>1, <2>2 DEF TypeOK
  <1> QED BY <1>1, <1>2

(* FinishPush keeps the types and the control state.                       *)
LEMMA FinishPushStep ==
  ASSUME TypeOK, Control, FinishPush
  PROVE  TypeOK' /\ Control'
  <1> USE DEF FinishPush, chainVars, indexVars, poolVars, switchVars
  <1>0. IndexTypeOK'
    BY DEF TypeOK, IndexTypeOK
  <1>1. CASE SaveAndFail /\ residue' = TRUE /\ UNCHANGED chainVars
    <2>1. ChainTypeOK' /\ PoolTypeOK' /\ LocalTypeOK' /\ HistoryTypeOK' /\ Control'
      BY <1>1, SaveAndFailStep DEF Control, CallerInv
    <2> QED BY <1>0, <2>1 DEF TypeOK
  <1>2. CASE pc' = "undo" /\ UNCHANGED <<chainVars, poolVars, pushed, residue, aborted, before, panicked, crashed,
                       restarts, follower, m_alternative_chains, switchVars, path, caller,
                       block, poolFile>>
    <2>1. ChainTypeOK' /\ PoolTypeOK'
      BY <1>2 DEF TypeOK, ChainTypeOK, PoolTypeOK
    <2>2. LocalTypeOK'
      BY <1>2 DEF TypeOK, LocalTypeOK, PC
    <2>3. HistoryTypeOK'
      BY <1>2 DEF TypeOK, HistoryTypeOK
    <2>4. CallerInv' /\ SwitchInv'
      BY <1>2 DEF Control, CallerInv, SwitchInv, Switching, Popping, SplitHeight
    <2>5. PushedInv'
      BY <1>2 DEF Control, PushedInv
    <2>6. LinkInv'
      BY <1>2 DEF Control, LinkInv, ChainLinked
    <2> QED BY <1>0, <2>1, <2>2, <2>3, <2>4, <2>5, <2>6 DEF TypeOK, Control
  <1>3. CASE /\ PushEntry(block) /\ PushReturns(TRUE) /\ pushed' = 0
             /\ UNCHANGED <<poolVars, residue, aborted, before, crashed, restarts, alt_chain,
                       disconnected_chain, discard, readded, path, caller, block, poolFile>>
    <2> USE <1>3 DEF PushReturns, PushEntry
    <2>0. block \in Block /\ m_blocks \in Seq(Block) /\ m_blockIndex \in Seq(Block)
      BY DEF TypeOK, ChainTypeOK, LocalTypeOK
    <2>1. ChainTypeOK'
      <3>1. m_blocks' \in Seq(Block) /\ m_blockIndex' \in Seq(Block)
        BY <2>0, AppendType
      <3>2. follower' \in Seq(Block)
        BY <2>0, AppendType DEF TypeOK, ChainTypeOK
      <3> QED BY <3>1, <3>2 DEF TypeOK, ChainTypeOK
    <2>2. PoolTypeOK' /\ HistoryTypeOK'
      BY DEF TypeOK, PoolTypeOK, HistoryTypeOK
    <2>3. LocalTypeOK'
      BY DEF TypeOK, LocalTypeOK, PC
    <2>4. CallerInv' /\ PushedInv'
      BY DEF CallerInv, PushedInv
    <2>5. SwitchInv'
      <3>1. Len(m_blocks') = Len(m_blocks) + 1
        BY <2>0, AppendType
      <3> QED BY <2>0, <3>1, SplitHeightType
          DEF Control, CallerInv, SwitchInv, Switching, Popping, SplitHeight, TypeOK
    <2>6. LinkInv'
      <3>1. m_blocks = m_blockIndex /\ m_blocks # <<>> /\ Prev(block) = m_blocks[Len(m_blocks)]
        BY DEF Control, LinkInv, ChainLinked, Last
      <3>2. m_blocks' # <<>> /\ m_blocks'[1] = Genesis
        BY <2>0, <3>1, AppendType, AppendKeeps DEF Control, LinkInv, ChainLinked
      <3>3. ASSUME NEW i \in 2 .. Len(m_blocks') PROVE Prev(m_blocks'[i]) = m_blocks'[i - 1]
        <4>1. CASE i = Len(m_blocks) + 1
          BY <2>0, <3>1, <4>1, AppendType, AppendKeeps, AppendLast
        <4>2. CASE i # Len(m_blocks) + 1
          <5>1. i \in 2 .. Len(m_blocks)
            BY <2>0, <4>2, AppendType
          <5> QED BY <2>0, <5>1, AppendKeeps DEF Control, LinkInv, ChainLinked
        <4> QED BY <4>1, <4>2
      <3> QED BY <3>1, <3>2, <3>3 DEF LinkInv, ChainLinked, Control, CallerInv
    <2> QED BY <1>0, <2>1, <2>2, <2>3, <2>4, <2>5, <2>6 DEF TypeOK, Control
  <1> QED BY <1>1, <1>2, <1>3

(* PushNextTransaction keeps the types and the control state.              *)
LEMMA PushNextTransactionStep ==
  ASSUME TypeOK, Control, PushNextTransaction
  PROVE  TypeOK' /\ Control'
  <1> USE DEF PushNextTransaction, Unwind, chainVars, indexVars, poolVars, switchVars, historyVars
  <1>1. ChainTypeOK' BY DEF TypeOK, ChainTypeOK
  <1>2. IndexTypeOK'
    <2>1. CASE UNCHANGED indexVars
      BY <2>1 DEF TypeOK, IndexTypeOK
    <2>2. CASE PushTransaction(TxAt(block, pushed), Len(m_blocks), pushed)
      <3>1. TxAt(block, pushed) \in TxId
        BY TxAtType DEF TypeOK, LocalTypeOK
      <3>2. pushed \in Nat /\ Len(m_blocks) \in Nat
        BY DEF TypeOK, LocalTypeOK, ChainTypeOK
      <3> QED BY <2>2, <3>1, <3>2, PushTransactionType DEF TypeOK
    <2> QED BY <2>1, <2>2
  <1>3. PoolTypeOK' BY DEF TypeOK, PoolTypeOK
  <1>4. LocalTypeOK' BY DEF TypeOK, LocalTypeOK, Callers, PC
  <1>5. HistoryTypeOK' BY DEF TypeOK, HistoryTypeOK
  <1>6. CallerInv' BY DEF Control, CallerInv
  <1>7. SwitchInv'
    BY DEF Control, SwitchInv, CallerInv, Switching, Popping, SplitHeight
  <1>8. PushedInv'
    BY TxCountType DEF Control, PushedInv, TypeOK, LocalTypeOK
  <1>9. LinkInv' BY DEF Control, LinkInv, ChainLinked
  <1> QED BY <1>1, <1>2, <1>3, <1>4, <1>5, <1>6, <1>7, <1>8, <1>9 DEF TypeOK, Control

(* UndoTransaction keeps the types and the control state.                  *)
LEMMA UndoTransactionStep ==
  ASSUME TypeOK, Control, UndoTransaction
  PROVE  TypeOK' /\ Control'
  <1> USE DEF UndoTransaction, chainVars, indexVars, poolVars, switchVars, historyVars
  <1>1. ChainTypeOK' BY DEF TypeOK, ChainTypeOK
  <1>2. IndexTypeOK'
    <2>1. TxAt(block, pushed - 1) \in TxId
      BY TxAtType, TxCountType DEF TypeOK, LocalTypeOK, Control, PushedInv
    <2> QED BY <2>1, PopTransactionType DEF TypeOK
  <1>3. PoolTypeOK' BY DEF TypeOK, PoolTypeOK
  <1>4. LocalTypeOK' BY DEF TypeOK, LocalTypeOK, Callers, PC
  <1>5. HistoryTypeOK' BY DEF TypeOK, HistoryTypeOK
  <1>6. CallerInv' BY DEF Control, CallerInv
  <1>7. SwitchInv' BY DEF Control, SwitchInv, Switching, Popping, SplitHeight
  <1>8. PushedInv'
    BY TxCountType DEF Control, PushedInv, TypeOK, LocalTypeOK
  <1>9. LinkInv' BY DEF Control, LinkInv, ChainLinked
  <1> QED BY <1>1, <1>2, <1>3, <1>4, <1>5, <1>6, <1>7, <1>8, <1>9 DEF TypeOK, Control

(* FinishUndo keeps the types and the control state.                       *)
LEMMA FinishUndoStep ==
  ASSUME TypeOK, Control, FinishUndo
  PROVE  TypeOK' /\ Control'
  <1> USE DEF FinishUndo, chainVars, indexVars, poolVars, switchVars
  <1>0. IndexTypeOK'
    BY DEF TypeOK, IndexTypeOK
  <1>1. CASE caller \in {"add", "connect", "restore"}
    <2>1. ChainTypeOK' /\ PoolTypeOK' /\ LocalTypeOK' /\ HistoryTypeOK' /\ Control'
      BY <1>1, SaveAndFailStep DEF TypeOK, HistoryTypeOK
    <2> QED BY <1>0, <2>1 DEF TypeOK
  <1>2. CASE caller \in {"disconnect", "unconnect"}
    <2> USE <1>2 DEF PopEntry
    <2>0. /\ m_blocks \in Seq(Block) /\ m_blocks # <<>> /\ m_blockIndex = m_blocks
          /\ SplitHeight < Len(m_blocks) /\ SplitHeight \in Nat \ {0}
      BY SplitHeightType, HeightAssumption
      DEF TypeOK, ChainTypeOK, LocalTypeOK, Control, LinkInv, ChainLinked, SwitchInv, Switching,
          Popping, SplitHeight
    <2>1. /\ m_blocks' \in Seq(Block) /\ Len(m_blocks') = Len(m_blocks) - 1
          /\ \A i \in 1 .. Len(m_blocks) - 1 : m_blocks'[i] = m_blocks[i]
      BY <2>0, FrontProperties
    <2>2. ChainTypeOK'
      BY <2>0, <2>1 DEF TypeOK, ChainTypeOK
    <2>3. PoolTypeOK' /\ HistoryTypeOK'
      BY DEF TypeOK, PoolTypeOK, HistoryTypeOK
    <2>4. LocalTypeOK'
      <3>0. <<block>> \o disconnected_chain \in Seq(Block)
        <4>1. <<block>> \in Seq(Block) /\ disconnected_chain \in Seq(Block)
          BY DEF TypeOK, LocalTypeOK
        <4> QED BY <4>1
      <3>1. disconnected_chain' \in Seq(Block)
        BY <3>0 DEF TypeOK, LocalTypeOK
      <3> QED BY <3>1 DEF TypeOK, LocalTypeOK, PC
    <2>5. CallerInv' /\ PushedInv'
      BY DEF CallerInv, PushedInv
    <2>6. SwitchInv'
      BY <2>0, <2>1 DEF Control, SwitchInv, Switching, Popping, SplitHeight
    <2>7. LinkInv'
      <3>1. Len(m_blocks) \in Nat /\ 1 < Len(m_blocks)
        <4>1. SplitHeight \in Nat /\ SplitHeight > 0 /\ Len(m_blocks) \in Nat
          BY <2>0
        <4> QED BY <2>0, <4>1
      <3>2. m_blocks' # <<>> /\ m_blocks'[1] = Genesis
        BY <2>1, <3>1 DEF Control, LinkInv, ChainLinked
      <3>3. \A i \in 2 .. Len(m_blocks') : Prev(m_blocks'[i]) = m_blocks'[i - 1]
        BY <2>0, <2>1 DEF Control, LinkInv, ChainLinked
      <3> QED BY <2>0, <3>2, <3>3 DEF LinkInv, ChainLinked
    <2> QED BY <1>0, <2>2, <2>3, <2>4, <2>5, <2>6, <2>7 DEF TypeOK, Control
  <1> QED BY <1>1, <1>2

(* StartPop keeps the types and the control state.                         *)
LEMMA StartPopStep ==
  ASSUME TypeOK, Control, StartPop
  PROVE  TypeOK' /\ Control'
  <1> USE DEF StartPop, Unwind, chainVars, indexVars, poolVars, switchVars, historyVars
  <1>0. m_blocks # <<>> /\ Last(m_blocks) \in Block
    BY FrontProperties DEF TypeOK, ChainTypeOK, Control, LinkInv, ChainLinked
  <1>1. ChainTypeOK' BY DEF TypeOK, ChainTypeOK
  <1>2. IndexTypeOK' BY DEF TypeOK, IndexTypeOK
  <1>3. PoolTypeOK'
    BY <1>0, SaveTransactionsType DEF TypeOK
  <1>4. LocalTypeOK'
    BY <1>0, TxCountType DEF TypeOK, LocalTypeOK, Callers, PC
  <1>5. HistoryTypeOK' BY DEF TypeOK, HistoryTypeOK
  <1>6. CallerInv' BY DEF Control, CallerInv
  <1>7. SwitchInv'
    <2>1. SplitHeight < Len(m_blocks)
      BY SplitHeightType DEF Connected, TypeOK, ChainTypeOK, Control, SwitchInv, Switching
    <2> QED BY <2>1 DEF Control, SwitchInv, Switching, Popping, SplitHeight
  <1>8. PushedInv'
    BY <1>0, TxCountType DEF Control, PushedInv
  <1>9. LinkInv' BY DEF Control, LinkInv, ChainLinked
  <1> QED BY <1>1, <1>2, <1>3, <1>4, <1>5, <1>6, <1>7, <1>8, <1>9 DEF TypeOK, Control

(* A start of the process, with any saved pool.                            *)
LEMMA StartStep ==
  ASSUME TypeOK, Control, NEW pool \in PoolState,
         NEW expired \in SUBSET pool.transactions, NEW forgotten, Start(pool, expired, forgotten),
         poolFile' \in PoolState, crashed' \in BOOLEAN
  PROVE  TypeOK' /\ Control'
  <1> USE DEF Start
  <1>1. ChainTypeOK'
    <2>1. <<>> \in Seq(Block)
      OBVIOUS
    <2> QED BY <2>1 DEF TypeOK, ChainTypeOK
  <1>2. IndexTypeOK'
    BY DEF ClearIndexes, IndexTypeOK
  <1>3. PoolTypeOK'
    <2>1. /\ pool.transactions \in SUBSET Tx /\ pool.recentlyDeleted \in SUBSET Tx
          /\ pool.spent_key_images \in [KeyImage -> SUBSET Tx]
      BY DEF PoolState
    <2> QED BY <2>1 DEF PoolTypeOK
  <1>4. LocalTypeOK'
    <2>1. pc' \in PC /\ caller' \in Callers
      BY DEF PC, Callers
    <2>2. path' \in Seq(Block) /\ alt_chain' \in Seq(Block) /\ disconnected_chain' \in Seq(Block)
      OBVIOUS
    <2> QED BY <2>1, <2>2, NamesAssumption DEF LocalTypeOK
  <1>5. HistoryTypeOK'
    <2>1. restarts' \in Nat
      BY DEF TypeOK, HistoryTypeOK
    <2>2. before' \in [chain : Seq(Block), pool : SUBSET Tx]
      BY NoOperationType
    <2>3. residue' \in BOOLEAN /\ aborted' \in BOOLEAN /\ panicked' \in BOOLEAN
      OBVIOUS
    <2> QED BY <2>1, <2>2, <2>3 DEF HistoryTypeOK
  <1>6. CallerInv' /\ SwitchInv'
    BY DEF CallerInv, SwitchInv, Switching, Popping
  <1>7. PushedInv'
    <2>1. Len(m_blockIndex') = 0 /\ Len(m_blocks') \in Nat /\ Len(m_blocks') > 0
      BY DEF TypeOK, ChainTypeOK, Control, LinkInv, ChainLinked
    <2>2. m_blocks'[1] \in Block
      BY NamesAssumption DEF Control, LinkInv, ChainLinked
    <2> QED BY <2>1, <2>2, TxCountType DEF PushedInv
  <1>8. LinkInv'
    <2>1. IsPrefix(m_blockIndex', m_blocks')
      BY DEF IsPrefix, TypeOK, ChainTypeOK
    <2> QED BY <2>1 DEF Control, LinkInv, ChainLinked
  <1> QED BY <1>1, <1>2, <1>3, <1>4, <1>5, <1>6, <1>7, <1>8 DEF TypeOK, Control

(* Crash keeps the types and the control state.                            *)
LEMMA CrashStep ==
  ASSUME TypeOK, Control, Crash
  PROVE  TypeOK' /\ Control'
  BY StartStep DEF Crash, TypeOK, PoolTypeOK

(* Shutdown keeps the types and the control state.                         *)
LEMMA ShutdownStep ==
  ASSUME TypeOK, Control, Shutdown
  PROVE  TypeOK' /\ Control'
  <1>1. poolFile' \in PoolState
    BY DEF Shutdown, TypeOK, PoolTypeOK, PoolState
  <1>2. poolFile'.transactions = m_transactions
    BY DEF Shutdown
  <1> QED BY <1>1, <1>2, StartStep DEF Shutdown, TypeOK, HistoryTypeOK

(* RebuildNext keeps the types and the control state.                      *)
LEMMA RebuildNextStep ==
  ASSUME TypeOK, Control, RebuildNext
  PROVE  TypeOK' /\ Control'
  <1> USE DEF RebuildNext, poolVars, switchVars, historyVars
  <1> DEFINE b == m_blocks[Len(m_blockIndex) + 1]
  <1>1. /\ b \in Block /\ Len(m_blockIndex) \in Nat /\ Len(m_blocks) \in Nat
        /\ Len(m_blockIndex) < Len(m_blocks) /\ pushed \in Nat /\ pushed < TxCount(b)
    BY DEF TypeOK, ChainTypeOK, LocalTypeOK, Control, PushedInv
  <1>2. IndexTypeOK'
    <2>1. TxAt(b, pushed) \in TxId
      BY <1>1, TxAtType
    <2> QED BY <1>1, <2>1, InsertTransactionType DEF TypeOK
  <1>3. PoolTypeOK' /\ HistoryTypeOK'
    BY DEF TypeOK, PoolTypeOK, HistoryTypeOK
  <1>4. LocalTypeOK'
    <2>1. pushed' \in Nat
      BY <1>1
    <2> QED BY <2>1 DEF TypeOK, LocalTypeOK
  <1>5. CallerInv' /\ SwitchInv'
    BY DEF Control, CallerInv, SwitchInv, Switching, Popping
  <1>6. CASE pushed + 1 < TxCount(b)
    <2>1. ChainTypeOK' /\ PushedInv' /\ LinkInv'
      BY <1>1, <1>6 DEF TypeOK, ChainTypeOK, Control, PushedInv, LinkInv, ChainLinked
    <2> QED BY <1>2, <1>3, <1>4, <1>5, <2>1 DEF TypeOK, Control
  <1>7. CASE ~(pushed + 1 < TxCount(b))
    <2>1. pushed' = 0 /\ m_blockIndex' = Append(m_blockIndex, b)
      BY <1>7
    <2>2. m_blockIndex' \in Seq(Block) /\ Len(m_blockIndex') = Len(m_blockIndex) + 1
      BY <1>1, <2>1, AppendType DEF TypeOK, ChainTypeOK
    <2>3. ChainTypeOK'
      BY <2>2 DEF TypeOK, ChainTypeOK
    <2>4. PushedInv'
      BY <1>1, <2>1, <2>2, TxCountType DEF PushedInv, TypeOK, ChainTypeOK
    <2>5. LinkInv'
      <3>1. ASSUME NEW i \in 1 .. Len(m_blockIndex') PROVE m_blockIndex'[i] = m_blocks'[i]
        <4>1. CASE i = Len(m_blockIndex) + 1
          BY <1>1, <2>1, <4>1, AppendLast DEF TypeOK, ChainTypeOK
        <4>2. CASE i \in 1 .. Len(m_blockIndex)
          BY <1>1, <2>1, <4>2, AppendKeeps, PrefixElements
          DEF TypeOK, ChainTypeOK, Control, LinkInv, ChainLinked
        <4> QED BY <1>1, <2>2, <4>1, <4>2
      <3>2. IsPrefix(m_blockIndex', m_blocks')
        BY <1>1, <2>2, <3>1, PrefixElements DEF TypeOK, ChainTypeOK
      <3> QED BY <3>2 DEF Control, LinkInv, ChainLinked
    <2> QED BY <1>2, <1>3, <1>4, <1>5, <2>3, <2>4, <2>5 DEF TypeOK, Control
  <1> QED BY <1>6, <1>7

(* A new node has the types and the control state.                         *)
LEMMA InitStep == Init => TypeOK /\ Control
  <1> SUFFICES ASSUME Init PROVE TypeOK /\ Control
    OBVIOUS
  <1> USE DEF Init
  <1>1. ChainTypeOK
    BY NamesAssumption DEF ChainTypeOK
  <1>2. IndexTypeOK
    <2>1. TxAt(Genesis, 0) \in TxId
      BY NamesAssumption, TxAtType, TxCountType
    <2>2. m_outputs \in [Amount -> Seq(OutputPlace)]
      <3>1. \A a \in Amount : m_outputs[a] \in Seq(OutputPlace)
        BY <2>1, OutputsOfType
      <3> QED BY <3>1 DEF OutputsOf
    <2> QED BY <2>2 DEF IndexTypeOK, TransactionIndex
  <1>3. PoolTypeOK
    BY DEF PoolTypeOK, PoolState
  <1>4. LocalTypeOK
    <2>1. path \in Seq(Block) /\ alt_chain \in Seq(Block) /\ disconnected_chain \in Seq(Block)
      OBVIOUS
    <2> QED BY <2>1, NamesAssumption DEF LocalTypeOK, PC, Callers
  <1>5. HistoryTypeOK
    BY NoOperationType DEF HistoryTypeOK
  <1>6. CallerInv /\ SwitchInv /\ PushedInv
    BY DEF CallerInv, SwitchInv, Switching, Popping, PushedInv
  <1>7. LinkInv
    BY DEF LinkInv, ChainLinked
  <1> QED BY <1>1, <1>2, <1>3, <1>4, <1>5, <1>6, <1>7 DEF TypeOK, Control

(* Every step keeps the types and the control state.                        *)
LEMMA NextStep == TypeOK /\ Control /\ [Next]_vars => TypeOK' /\ Control'
  <1> SUFFICES ASSUME TypeOK, Control, [Next]_vars PROVE TypeOK' /\ Control'
    OBVIOUS
  <1>1. CASE LoadTransactions
    BY <1>1, LoadTransactionsStep
  <1>2. CASE CheckBlock
    BY <1>2, CheckBlockStep
  <1>3. CASE PushNextTransaction
    BY <1>3, PushNextTransactionStep
  <1>4. CASE FinishPush
    BY <1>4, FinishPushStep
  <1>5. CASE UndoTransaction
    BY <1>5, UndoTransactionStep
  <1>6. CASE FinishUndo
    BY <1>6, FinishUndoStep
  <1>7. CASE StartPop
    BY <1>7, StartPopStep
  <1>8. CASE StartConnect
    BY <1>8, StartConnectStep
  <1>9. CASE ConnectNext
    BY <1>9, ConnectNextStep
  <1>10. CASE FinishConnect
    BY <1>10, FinishConnectStep
  <1>11. CASE ReaddNext
    BY <1>11, ReaddNextStep
  <1>12. CASE FinishSwitch
    BY <1>12, FinishSwitchStep
  <1>13. CASE StartRestore
    BY <1>13, StartRestoreStep
  <1>14. CASE RestoreNext
    BY <1>14, RestoreNextStep
  <1>15. CASE FinishRestore
    BY <1>15, FinishRestoreStep
  <1>16. CASE WalkToMainChain
    BY <1>16, WalkToMainChainStep
  <1>17. CASE AcceptAlternative
    BY <1>17, AcceptAlternativeStep
  <1>18. CASE RefuseAlternative
    BY <1>18, RefuseAlternativeStep
  <1>19. CASE RebuildNext
    BY <1>19, RebuildNextStep
  <1>20. CASE FinishRebuild
    BY <1>20, FinishRebuildStep
  <1>21. CASE Return
    BY <1>21, ReturnStep
  <1>22. CASE Crash
    BY <1>22, CrashStep
  <1>23. CASE Shutdown
    BY <1>23, ShutdownStep
  <1>24. ASSUME NEW b \in Block, AddNewBlock(b) PROVE TypeOK' /\ Control'
    BY <1>24, AddNewBlockStep
  <1>25. ASSUME NEW t \in Tx, NEW kept \in BOOLEAN, AddNewTx(t, kept) PROVE TypeOK' /\ Control'
    BY <1>25, AddNewTxStep
  <1>26. ASSUME NEW S \in SUBSET m_transactions, NEW F \in SUBSET m_recentlyDeletedTransactions,
               RemoveExpiredTransactions(S, F)
        PROVE  TypeOK' /\ Control'
    BY <1>26, RemoveExpiredTransactionsStep
  <1>27. CASE UNCHANGED vars
    <2> USE <1>27 DEF vars, chainVars, indexVars, poolVars, switchVars, historyVars
    <2>1. ChainTypeOK' /\ IndexTypeOK'
      BY DEF TypeOK, ChainTypeOK, IndexTypeOK
    <2>2. PoolTypeOK' /\ LocalTypeOK' /\ HistoryTypeOK'
      BY DEF TypeOK, PoolTypeOK, LocalTypeOK, HistoryTypeOK
    <2>3. CallerInv' /\ SwitchInv' /\ PushedInv'
      BY DEF Control, CallerInv, SwitchInv, Switching, Popping, SplitHeight, PushedInv
    <2>4. LinkInv'
      BY DEF Control, LinkInv, ChainLinked
    <2> QED BY <2>1, <2>2, <2>3, <2>4 DEF TypeOK, Control
  <1> QED
    BY <1>1, <1>2, <1>3, <1>4, <1>5, <1>6, <1>7, <1>8, <1>9, <1>10, <1>11, <1>12,
       <1>13, <1>14, <1>15, <1>16, <1>17, <1>18, <1>19, <1>20, <1>21, <1>22, <1>23, <1>24, <1>25, <1>26, <1>27
    DEF Next, Step

(***************************************************************************)
(* The types of all variables, for every catalogue of blocks and           *)
(* transactions, every set of checkpoints and any number of restarts.      *)
(***************************************************************************)
THEOREM TypeCorrect == Spec => []TypeOK
  <1>1. Spec => [](TypeOK /\ Control)
    BY InitStep, NextStep, PTL DEF Spec
  <1> QED BY <1>1, PTL

(***************************************************************************)
(* pushBlock, popBlock, the switch to an alternative chain, its rollback   *)
(* and a crash between any two of their steps leave on the disk a chain    *)
(* that starts with the genesis block and whose blocks are linked.         *)
(***************************************************************************)
THEOREM ChainAlwaysLinked == Spec => []ChainLinked
  <1>1. Spec => [](TypeOK /\ Control)
    BY InitStep, NextStep, PTL DEF Spec
  <1>2. Control => ChainLinked
    BY DEF Control, LinkInv
  <1> QED BY <1>1, <1>2, PTL

-----------------------------------------------------------------------------
(***************************************************************************)
(* The pool lists each transaction under exactly its key images, and so    *)
(* does the pool that the last clean shutdown saved.                       *)
(***************************************************************************)

(* The pool of transactions and the images listed agree.                   *)
PoolMatches(transactions, images) ==
  \A k \in KeyImage : images[k] = {t \in transactions : k \in KeyImagesOf(t)}

PoolInv ==
  /\ PoolMatches(m_transactions, m_spent_key_images)
  /\ PoolMatches(poolFile.transactions, poolFile.spent_key_images)

(* add_tx enters a transaction under each of its key images.               *)
LEMMA PoolWithMatches ==
  ASSUME TypeOK, PoolInv, NEW S, PoolWith(S), UNCHANGED poolFile
  PROVE  PoolInv'
  BY DEF PoolInv, PoolMatches, PoolWith

(* take_tx and removeTransaction remove it from each of them.              *)
LEMMA PoolWithoutMatches ==
  ASSUME TypeOK, PoolInv, NEW S, PoolWithout(S), UNCHANGED poolFile
  PROVE  PoolInv'
  BY DEF PoolInv, PoolMatches, PoolWithout

(* Steps that leave the pool alone.                                        *)
LEMMA PoolUnchanged ==
  ASSUME PoolInv, UNCHANGED <<m_transactions, m_spent_key_images, poolFile>>
  PROVE  PoolInv'
  BY DEF PoolInv, PoolMatches

(* saveTransactions on an exit of pushBlock, complete or cut short by a throw. *)
LEMMA SaveAndFailMatches ==
  ASSUME TypeOK, PoolInv, SaveAndFail
  PROVE  PoolInv'
  <1>1. PoolWith(Saved(TxsOf(block))) /\ UNCHANGED poolFile
    BY DEF SaveAndFail, SaveTransactions, Unwind
  <1> QED BY <1>1, PoolWithMatches

(* A start reads a pool file that matches.                                 *)
LEMMA StartMatches ==
  ASSUME NEW pool, NEW expired, NEW forgotten, Start(pool, expired, forgotten),
         PoolMatches(pool.transactions, pool.spent_key_images),
         PoolMatches(poolFile'.transactions, poolFile'.spent_key_images)
  PROVE  PoolInv'
  BY DEF PoolInv, PoolMatches, Start

(* An empty pool matches.                                                  *)
LEMMA InitMatches == Init => PoolInv
  BY DEF Init, PoolInv, PoolMatches

(* Every step keeps the pool and its file matched with their key images.   *)
LEMMA NextMatches == TypeOK /\ PoolInv /\ [Next]_vars => PoolInv'
  <1> SUFFICES ASSUME TypeOK, PoolInv, [Next]_vars PROVE PoolInv'
    OBVIOUS
  <1> USE DEF chainVars, indexVars, poolVars, switchVars, historyVars
  <1>1. CASE LoadTransactions
    BY <1>1, PoolWithoutMatches DEF LoadTransactions
  <1>2. CASE CheckBlock
    BY <1>2, PoolUnchanged, SaveAndFailMatches DEF CheckBlock
  <1>3. CASE PushNextTransaction
    BY <1>3, PoolUnchanged DEF PushNextTransaction, Unwind
  <1>4. CASE FinishPush
    BY <1>4, PoolUnchanged, SaveAndFailMatches DEF FinishPush
  <1>5. CASE UndoTransaction
    BY <1>5, PoolUnchanged DEF UndoTransaction
  <1>6. CASE FinishUndo
    BY <1>6, PoolUnchanged, SaveAndFailMatches DEF FinishUndo
  <1>7. CASE StartPop
    BY <1>7, PoolWithMatches DEF StartPop, SaveTransactions, Unwind
  <1>8. CASE StartConnect
    BY <1>8, PoolUnchanged DEF StartConnect
  <1>9. CASE ConnectNext
    BY <1>9, PoolUnchanged DEF ConnectNext, StartPush
  <1>10. CASE FinishConnect
    BY <1>10, PoolUnchanged DEF FinishConnect
  <1>11. CASE ReaddNext
    BY <1>11, PoolUnchanged DEF ReaddNext
  <1>12. CASE FinishSwitch
    BY <1>12, PoolUnchanged DEF FinishSwitch
  <1>13. CASE StartRestore
    BY <1>13, PoolUnchanged DEF StartRestore
  <1>14. CASE RestoreNext
    BY <1>14, PoolUnchanged DEF RestoreNext, StartPush
  <1>15. CASE FinishRestore
    BY <1>15, PoolUnchanged DEF FinishRestore
  <1>16. CASE WalkToMainChain
    BY <1>16, PoolUnchanged DEF WalkToMainChain
  <1>17. CASE AcceptAlternative
    BY <1>17, PoolUnchanged DEF AcceptAlternative
  <1>18. CASE RefuseAlternative
    BY <1>18, PoolUnchanged DEF RefuseAlternative
  <1>19. CASE RebuildNext
    BY <1>19, PoolUnchanged DEF RebuildNext
  <1>20. CASE FinishRebuild
    BY <1>20, PoolUnchanged DEF FinishRebuild
  <1>21. CASE Return
    BY <1>21, PoolUnchanged DEF Return
  <1>22. CASE Crash
    BY <1>22, StartMatches DEF Crash, PoolInv
  <1>23. CASE Shutdown
    <2>1. /\ poolFile'.transactions = m_transactions
          /\ poolFile'.spent_key_images = m_spent_key_images
          /\ \E expired, forgotten : Start(poolFile', expired, forgotten)
      BY <1>23 DEF Shutdown
    <2>2. PoolMatches(poolFile'.transactions, poolFile'.spent_key_images)
      BY <2>1 DEF PoolInv
    <2> QED BY <2>1, <2>2, StartMatches
  <1>24. ASSUME NEW b \in Block, AddNewBlock(b) PROVE PoolInv'
    BY <1>24, PoolUnchanged DEF AddNewBlock
  <1>25. ASSUME NEW t \in Tx, NEW kept \in BOOLEAN, AddNewTx(t, kept) PROVE PoolInv'
    BY <1>25, PoolWithMatches DEF AddNewTx
  <1>26. ASSUME NEW S \in SUBSET m_transactions, NEW F \in SUBSET m_recentlyDeletedTransactions,
                RemoveExpiredTransactions(S, F)
         PROVE  PoolInv'
    BY <1>26, PoolWithoutMatches DEF RemoveExpiredTransactions
  <1>27. CASE UNCHANGED vars
    BY <1>27, PoolUnchanged DEF vars
  <1> QED
    BY <1>1, <1>2, <1>3, <1>4, <1>5, <1>6, <1>7, <1>8, <1>9, <1>10, <1>11, <1>12, <1>13, <1>14,
       <1>15, <1>16, <1>17, <1>18, <1>19, <1>20, <1>21, <1>22, <1>23, <1>24, <1>25, <1>26, <1>27
    DEF Next, Step

(* The key image index of the pool, which haveSpentInputs asks before it   *)
(* admits a transaction, is exact at every step of every operation.        *)
THEOREM PoolAlwaysIndexed == Spec => []PoolIndexMatches
  <1>1. Init => TypeOK /\ Control /\ PoolInv
    BY InitStep, InitMatches
  <1>2. TypeOK /\ Control /\ PoolInv /\ [Next]_vars => TypeOK' /\ Control' /\ PoolInv'
    BY NextStep, NextMatches
  <1>3. PoolInv => PoolIndexMatches
    BY DEF PoolInv, PoolMatches, PoolIndexMatches
  <1> QED BY <1>1, <1>2, <1>3, PTL DEF Spec
-----------------------------------------------------------------------------
(***************************************************************************)
(* No two transactions of the main chain spend the same key image.  The    *)
(* indexes may hold more than the chain (pushBlock leaves a block that is  *)
(* too big in them), so the argument never says that they equal the chain: *)
(* indexed transactions are compatible with each other and their key images*)
(* are marked as spent (IndexedInv), everything on disk is indexed         *)
(* (CompleteInv, PendingInv), and what pushBlock has accepted so far is    *)
(* compatible with the disk (PushingInv).  A restart empties the indexes;  *)
(* RebuildInv says that what they hold again comes from the disk.          *)
(***************************************************************************)

(* The transaction map holds the transaction.                              *)
Indexed(t) == m_transactionMap[t] # NoIndex
(* The p-th transaction that the h-th block on disk lists.                 *)
DiskTx(h, p) == TxsOf(m_blocks[h])[p]
Positions(h) == DOMAIN TxsOf(m_blocks[h])
(* The two spend no key image in common.                                   *)
Compatible(t, u) == KeyImagesOf(t) \cap KeyImagesOf(u) = {}
(* pushBlock is between its first pushTransaction and its last popTransaction. *)
Pushing == pc \in {"tx", "undo"} /\ ~Popping

IndexedInv ==
  /\ \A t, u \in TxId : Indexed(t) /\ Indexed(u) /\ t # u => Compatible(t, u)
  /\ \A t \in TxId : Indexed(t) => KeyImagesOf(t) \subseteq m_spent_keys

CompleteInv ==
  \A h \in 1 .. CompleteBlocks : \A p \in Positions(h) : Indexed(DiskTx(h, p))

PendingInv ==
  /\ pc = "tx" => pushed > 0
  /\ pushed > 0 => \A p \in 1 .. pushed - 1 : Indexed(TxsOf(PendingBlock)[p])

PushingInv ==
  Pushing =>
    /\ \A p \in 1 .. pushed - 1 : \A h \in DOMAIN m_blocks : \A q \in Positions(h) :
         Compatible(TxsOf(block)[p], DiskTx(h, q))
    /\ \A p, q \in 1 .. pushed - 1 : p # q => Compatible(TxsOf(block)[p], TxsOf(block)[q])

RebuildInv ==
  pc = "rebuild" =>
    \A t \in Tx : Indexed(t) =>
      \E h \in DOMAIN m_blocks : \E p \in Positions(h) :
        /\ DiskTx(h, p) = t
        /\ h <= Len(m_blockIndex) \/ (h = Len(m_blockIndex) + 1 /\ p < pushed)

SpendInv == IndexedInv /\ CompleteInv /\ PendingInv /\ PushingInv /\ RebuildInv /\ NoDoubleSpend

(* Every transaction but a miner transaction spends a key image.           *)
LEMMA KeysOfTx == \A t \in Tx : t \in TxId /\ KeyImagesOf(t) # {}
  <1> SUFFICES ASSUME NEW t \in Tx PROVE t \in TxId /\ KeyImagesOf(t) # {}
    OBVIOUS
  <1>1. t \in TxId
    BY DEF TxId
  <1>2. TxInfo[t].inputs \in Seq(KeyInput) /\ TxInfo[t].inputs # <<>>
    BY <1>1, TxAssumption DEF TransactionData
  <1>3. 1 \in DOMAIN TxInfo[t].inputs
    BY <1>2
  <1> QED BY <1>1, <1>3 DEF KeyImagesOf

(* A miner transaction spends no key image.                                *)
LEMMA KeysOfCoinbase ==
  ASSUME NEW b \in Block
  PROVE  TxAt(b, 0) \in TxId /\ TxAt(b, 0) \notin Tx /\ KeyImagesOf(TxAt(b, 0)) = {}
  <1>1. TxAt(b, 0) \in Coinbase
    BY BlockAssumption DEF TxAt, BlockData
  <1>2. TxInfo[TxAt(b, 0)].inputs = <<>>
    BY <1>1, TxAssumption
  <1> QED BY <1>1, <1>2, NamesAssumption DEF TxId, KeyImagesOf

(* The blocks on disk list transactions.                                   *)
LEMMA DiskTxType ==
  ASSUME TypeOK, NEW h \in DOMAIN m_blocks, NEW p \in Positions(h)
  PROVE  DiskTx(h, p) \in Tx
  <1>1. m_blocks[h] \in Block
    BY DEF TypeOK, ChainTypeOK
  <1> QED BY <1>1, TxsOfType DEF DiskTx, Positions

(* A position after the miner transaction is one of the listed transactions. *)
LEMMA TxAtPosition ==
  ASSUME NEW b \in Block, NEW p \in Nat, p > 0, p < TxCount(b)
  PROVE  TxAt(b, p) = TxsOf(b)[p] /\ TxsOf(b)[p] \in Tx /\ p \in DOMAIN TxsOf(b)
  <1>1. TxsOf(b) \in Seq(Tx)
    BY TxsOfType
  <1> QED BY <1>1 DEF TxAt, TxCount

(* What check_tx_input accepts spends nothing the indexes hold as spent.   *)
LEMMA CheckedInputsUnspent ==
  ASSUME NEW t \in TxId, CheckTransactionInputs(t) = "ok"
  PROVE  KeyImagesOf(t) \cap m_spent_keys = {}
  <1>1. ASSUME NEW i \in DOMAIN TxInfo[t].inputs PROVE TxInfo[t].inputs[i].keyImage \notin m_spent_keys
    <2>1. CheckTxInput(TxInfo[t].inputs[i]) = "ok"
      BY DEF CheckTransactionInputs, FirstNotOk
    <2> QED BY <2>1 DEF CheckTxInput
  <1> QED BY <1>1 DEF KeyImagesOf

(* The indexes stay consistent when a transaction enters them whose key    *)
(* images no other indexed transaction spends.                             *)
LEMMA InsertKeeps ==
  ASSUME TypeOK, IndexedInv, NEW t \in TxId, NEW h \in Nat, NEW p \in Nat,
         InsertTransaction(t, h, p),
         \A u \in TxId : Indexed(u) /\ u # t => Compatible(t, u)
  PROVE  /\ IndexedInv'
         /\ Indexed(t)'
         /\ \A u \in TxId : Indexed(u) => Indexed(u)'
         /\ \A u \in TxId : Indexed(u)' => Indexed(u) \/ u = t
  <1>1. m_transactionMap \in [TxId -> TransactionIndex \cup {NoIndex}]
    BY DEF TypeOK, IndexTypeOK
  <1>2. Indexed(t)'
    BY <1>1 DEF InsertTransaction, Indexed, NoIndex
  <1>3. \A u \in TxId : u # t => m_transactionMap'[u] = m_transactionMap[u]
    BY <1>1 DEF InsertTransaction
  <1>4. \A u \in TxId : Indexed(u)' => Indexed(u) \/ u = t
    BY <1>3 DEF Indexed
  <1>5. \A u \in TxId : Indexed(u) => Indexed(u)'
    BY <1>2, <1>3 DEF Indexed
  <1>6. \A u, v \in TxId : Indexed(u)' /\ Indexed(v)' /\ u # v => Compatible(u, v)
    BY <1>4 DEF IndexedInv, Compatible
  <1>7. \A u \in TxId : Indexed(u)' => KeyImagesOf(u) \subseteq m_spent_keys'
    BY <1>4 DEF IndexedInv, InsertTransaction
  <1> QED BY <1>2, <1>4, <1>5, <1>6, <1>7 DEF IndexedInv, Compatible

(* The indexes stay consistent when popTransaction removes a transaction,  *)
(* and the others stay in them.                                            *)
LEMMA PopKeeps ==
  ASSUME TypeOK, IndexedInv, NEW t \in TxId, Indexed(t), PopTransaction(t)
  PROVE  /\ IndexedInv'
         /\ \A u \in TxId : u # t /\ Indexed(u) => Indexed(u)'
  <1>1. m_transactionMap \in [TxId -> TransactionIndex \cup {NoIndex}]
    BY DEF TypeOK, IndexTypeOK
  <1>2. \A u \in TxId : u # t => m_transactionMap'[u] = m_transactionMap[u]
    BY <1>1 DEF PopTransaction
  <1>3. m_transactionMap'[t] = NoIndex
    BY <1>1 DEF PopTransaction
  <1>4. \A u \in TxId : Indexed(u)' => Indexed(u) /\ u # t
    BY <1>2, <1>3 DEF Indexed
  <1>5. \A u \in TxId : u # t /\ Indexed(u) => Indexed(u)'
    BY <1>2 DEF Indexed
  <1>6. \A u, v \in TxId : Indexed(u)' /\ Indexed(v)' /\ u # v => Compatible(u, v)
    BY <1>4 DEF IndexedInv
  <1>7. \A u \in TxId : Indexed(u)' => KeyImagesOf(u) \subseteq m_spent_keys'
    BY <1>4 DEF IndexedInv, PopTransaction, Compatible
  <1> QED BY <1>5, <1>6, <1>7 DEF IndexedInv, Compatible

(* A step that changes neither the blocks nor the indexes, outside the     *)
(* loops over the transactions of a block.                                 *)
LEMMA QuietKeeps ==
  ASSUME TypeOK, SpendInv, UNCHANGED <<m_blocks, m_transactionMap, m_spent_keys>>,
         pc # "rebuild", pc' # "rebuild", ~Popping, ~Popping', pushed' = 0, pc' # "tx"
  PROVE  SpendInv'
  <1>1. IndexedInv'
    BY DEF SpendInv, IndexedInv, Indexed, Compatible
  <1>2. CompleteInv'
    BY DEF SpendInv, CompleteInv, CompleteBlocks, Indexed, DiskTx, Positions
  <1>3. PendingInv' /\ PushingInv' /\ RebuildInv'
    BY DEF PendingInv, PushingInv, RebuildInv
  <1>4. NoDoubleSpend'
    BY DEF SpendInv, NoDoubleSpend
  <1> QED BY <1>1, <1>2, <1>3, <1>4 DEF SpendInv

(* LoadTransactions keeps the invariant.                                   *)
LEMMA LoadTransactionsSpends ==
  ASSUME TypeOK, Control, SpendInv, LoadTransactions
  PROVE  SpendInv'
  <1> USE DEF LoadTransactions, PushReturns, chainVars, indexVars, poolVars, switchVars, historyVars
  <1>1. UNCHANGED <<m_blocks, m_transactionMap, m_spent_keys>>
    OBVIOUS
  <1>2. pc # "rebuild" /\ ~Popping /\ pushed' = 0
    BY DEF Popping, Control, PushedInv, CallerInv
  <1>3. pc' \notin {"rebuild", "tx", "undo"}
    BY DEF Control, CallerInv
  <1> QED BY <1>1, <1>2, <1>3, QuietKeeps DEF Popping

(* StartConnect keeps the invariant.                                       *)
LEMMA StartConnectSpends ==
  ASSUME TypeOK, Control, SpendInv, StartConnect
  PROVE  SpendInv'
  <1> USE DEF StartConnect, chainVars, indexVars, poolVars, switchVars, historyVars
  <1>1. UNCHANGED <<m_blocks, m_transactionMap, m_spent_keys>>
    OBVIOUS
  <1>2. pc # "rebuild" /\ ~Popping /\ pushed' = 0
    BY DEF Popping, Control, PushedInv, CallerInv
  <1>3. pc' \notin {"rebuild", "tx", "undo"}
    BY DEF Control, CallerInv
  <1> QED BY <1>1, <1>2, <1>3, QuietKeeps DEF Popping

(* ConnectNext keeps the invariant.                                        *)
LEMMA ConnectNextSpends ==
  ASSUME TypeOK, Control, SpendInv, ConnectNext
  PROVE  SpendInv'
  <1> USE DEF ConnectNext, StartPush, chainVars, indexVars, poolVars, switchVars, historyVars
  <1>1. UNCHANGED <<m_blocks, m_transactionMap, m_spent_keys>>
    OBVIOUS
  <1>2. pc # "rebuild" /\ ~Popping /\ pushed' = 0
    BY DEF Popping, Control, PushedInv, CallerInv
  <1>3. pc' \notin {"rebuild", "tx", "undo"}
    BY DEF Control, CallerInv
  <1> QED BY <1>1, <1>2, <1>3, QuietKeeps DEF Popping

(* FinishConnect keeps the invariant.                                      *)
LEMMA FinishConnectSpends ==
  ASSUME TypeOK, Control, SpendInv, FinishConnect
  PROVE  SpendInv'
  <1> USE DEF FinishConnect, chainVars, indexVars, poolVars, switchVars, historyVars
  <1>1. UNCHANGED <<m_blocks, m_transactionMap, m_spent_keys>>
    OBVIOUS
  <1>2. pc # "rebuild" /\ ~Popping /\ pushed' = 0
    BY DEF Popping, Control, PushedInv, CallerInv
  <1>3. pc' \notin {"rebuild", "tx", "undo"}
    BY DEF Control, CallerInv
  <1> QED BY <1>1, <1>2, <1>3, QuietKeeps DEF Popping

(* ReaddNext keeps the invariant.                                          *)
LEMMA ReaddNextSpends ==
  ASSUME TypeOK, Control, SpendInv, ReaddNext
  PROVE  SpendInv'
  <1> USE DEF ReaddNext, RefuseReadded, chainVars, indexVars, poolVars, switchVars, historyVars
  <1>1. UNCHANGED <<m_blocks, m_transactionMap, m_spent_keys>>
    OBVIOUS
  <1>2. pc # "rebuild" /\ ~Popping /\ pushed' = 0
    BY DEF Popping, Control, PushedInv, CallerInv
  <1>3. pc' \notin {"rebuild", "tx", "undo"}
    BY DEF Control, CallerInv
  <1> QED BY <1>1, <1>2, <1>3, QuietKeeps DEF Popping

(* FinishSwitch keeps the invariant.                                       *)
LEMMA FinishSwitchSpends ==
  ASSUME TypeOK, Control, SpendInv, FinishSwitch
  PROVE  SpendInv'
  <1> USE DEF FinishSwitch, chainVars, indexVars, poolVars, switchVars, historyVars
  <1>1. UNCHANGED <<m_blocks, m_transactionMap, m_spent_keys>>
    OBVIOUS
  <1>2. pc # "rebuild" /\ ~Popping /\ pushed' = 0
    BY DEF Popping, Control, PushedInv, CallerInv
  <1>3. pc' \notin {"rebuild", "tx", "undo"}
    BY DEF Control, CallerInv
  <1> QED BY <1>1, <1>2, <1>3, QuietKeeps DEF Popping

(* StartRestore keeps the invariant.                                       *)
LEMMA StartRestoreSpends ==
  ASSUME TypeOK, Control, SpendInv, StartRestore
  PROVE  SpendInv'
  <1> USE DEF StartRestore, chainVars, indexVars, poolVars, switchVars, historyVars
  <1>1. UNCHANGED <<m_blocks, m_transactionMap, m_spent_keys>>
    OBVIOUS
  <1>2. pc # "rebuild" /\ ~Popping /\ pushed' = 0
    BY DEF Popping, Control, PushedInv, CallerInv
  <1>3. pc' \notin {"rebuild", "tx", "undo"}
    BY DEF Control, CallerInv
  <1> QED BY <1>1, <1>2, <1>3, QuietKeeps DEF Popping

(* RestoreNext keeps the invariant.                                        *)
LEMMA RestoreNextSpends ==
  ASSUME TypeOK, Control, SpendInv, RestoreNext
  PROVE  SpendInv'
  <1> USE DEF RestoreNext, StartPush, chainVars, indexVars, poolVars, switchVars, historyVars
  <1>1. UNCHANGED <<m_blocks, m_transactionMap, m_spent_keys>>
    OBVIOUS
  <1>2. pc # "rebuild" /\ ~Popping /\ pushed' = 0
    BY DEF Popping, Control, PushedInv, CallerInv
  <1>3. pc' \notin {"rebuild", "tx", "undo"}
    BY DEF Control, CallerInv
  <1> QED BY <1>1, <1>2, <1>3, QuietKeeps DEF Popping

(* FinishRestore keeps the invariant.                                      *)
LEMMA FinishRestoreSpends ==
  ASSUME TypeOK, Control, SpendInv, FinishRestore
  PROVE  SpendInv'
  <1> USE DEF FinishRestore, chainVars, indexVars, poolVars, switchVars, historyVars
  <1>1. UNCHANGED <<m_blocks, m_transactionMap, m_spent_keys>>
    OBVIOUS
  <1>2. pc # "rebuild" /\ ~Popping /\ pushed' = 0
    BY DEF Popping, Control, PushedInv, CallerInv
  <1>3. pc' \notin {"rebuild", "tx", "undo"}
    BY DEF Control, CallerInv
  <1> QED BY <1>1, <1>2, <1>3, QuietKeeps DEF Popping

(* WalkToMainChain keeps the invariant.                                    *)
LEMMA WalkToMainChainSpends ==
  ASSUME TypeOK, Control, SpendInv, WalkToMainChain
  PROVE  SpendInv'
  <1> USE DEF WalkToMainChain, chainVars, indexVars, poolVars, switchVars, historyVars
  <1>1. UNCHANGED <<m_blocks, m_transactionMap, m_spent_keys>>
    OBVIOUS
  <1>2. pc # "rebuild" /\ ~Popping /\ pushed' = 0
    BY DEF Popping, Control, PushedInv, CallerInv
  <1>3. pc' \notin {"rebuild", "tx", "undo"}
    BY DEF Control, CallerInv
  <1> QED BY <1>1, <1>2, <1>3, QuietKeeps DEF Popping

(* AcceptAlternative keeps the invariant.                                  *)
LEMMA AcceptAlternativeSpends ==
  ASSUME TypeOK, Control, SpendInv, AcceptAlternative
  PROVE  SpendInv'
  <1> USE DEF AcceptAlternative, chainVars, indexVars, poolVars, switchVars, historyVars
  <1>1. UNCHANGED <<m_blocks, m_transactionMap, m_spent_keys>>
    OBVIOUS
  <1>2. pc # "rebuild" /\ ~Popping /\ pushed' = 0
    BY DEF Popping, Control, PushedInv, CallerInv
  <1>3. pc' \notin {"rebuild", "tx", "undo"}
    BY DEF Control, CallerInv
  <1> QED BY <1>1, <1>2, <1>3, QuietKeeps DEF Popping

(* RefuseAlternative keeps the invariant.                                  *)
LEMMA RefuseAlternativeSpends ==
  ASSUME TypeOK, Control, SpendInv, RefuseAlternative
  PROVE  SpendInv'
  <1> USE DEF RefuseAlternative, RefuseReadded, chainVars, indexVars, poolVars, switchVars, historyVars
  <1>1. UNCHANGED <<m_blocks, m_transactionMap, m_spent_keys>>
    OBVIOUS
  <1>2. pc # "rebuild" /\ ~Popping /\ pushed' = 0
    BY DEF Popping, Control, PushedInv, CallerInv
  <1>3. pc' \notin {"rebuild", "tx", "undo"}
    BY DEF Control, CallerInv
  <1> QED BY <1>1, <1>2, <1>3, QuietKeeps DEF Popping

(* Return keeps the invariant.                                             *)
LEMMA ReturnSpends ==
  ASSUME TypeOK, Control, SpendInv, Return
  PROVE  SpendInv'
  <1> USE DEF Return, chainVars, indexVars, poolVars, switchVars, historyVars
  <1>1. UNCHANGED <<m_blocks, m_transactionMap, m_spent_keys>>
    OBVIOUS
  <1>2. pc # "rebuild" /\ ~Popping /\ pushed' = 0
    BY DEF Popping, Control, PushedInv, CallerInv
  <1>3. pc' \notin {"rebuild", "tx", "undo"}
    BY DEF Control, CallerInv
  <1> QED BY <1>1, <1>2, <1>3, QuietKeeps DEF Popping

(* AddNewBlock keeps the invariant.                                        *)
LEMMA AddNewBlockSpends ==
  ASSUME TypeOK, Control, SpendInv, NEW b \in Block, AddNewBlock(b)
  PROVE  SpendInv'
  <1> USE DEF AddNewBlock, chainVars, indexVars, poolVars, switchVars, historyVars
  <1>1. UNCHANGED <<m_blocks, m_transactionMap, m_spent_keys>>
    OBVIOUS
  <1>2. pc # "rebuild" /\ ~Popping /\ pushed' = 0
    BY DEF Popping, Control, PushedInv, CallerInv
  <1>3. pc' \notin {"rebuild", "tx", "undo"}
    BY DEF Control, CallerInv
  <1> QED BY <1>1, <1>2, <1>3, QuietKeeps DEF Popping

(* AddNewTx keeps the invariant.                                           *)
LEMMA AddNewTxSpends ==
  ASSUME TypeOK, Control, SpendInv, NEW t \in Tx, NEW keptByBlock \in BOOLEAN,
         AddNewTx(t, keptByBlock)
  PROVE  SpendInv'
  <1> USE DEF AddNewTx, chainVars, indexVars, switchVars, historyVars
  <1>1. UNCHANGED <<m_blocks, m_transactionMap, m_spent_keys>> /\ pc = "idle" /\ pc' = "idle"
    OBVIOUS
  <1>2. pushed' = 0
    BY DEF Control, PushedInv
  <1> QED BY <1>1, <1>2, QuietKeeps DEF Popping

(* RemoveExpiredTransactions keeps the invariant.                          *)
LEMMA RemoveExpiredTransactionsSpends ==
  ASSUME TypeOK, Control, SpendInv, NEW expired, NEW forgotten,
         RemoveExpiredTransactions(expired, forgotten)
  PROVE  SpendInv'
  <1> USE DEF RemoveExpiredTransactions, chainVars, indexVars, switchVars, historyVars
  <1>1. UNCHANGED <<m_blocks, m_transactionMap, m_spent_keys>> /\ pc = "idle" /\ pc' = "idle"
    OBVIOUS
  <1>2. pushed' = 0
    BY DEF Control, PushedInv
  <1> QED BY <1>1, <1>2, QuietKeeps DEF Popping

(* pushBlock fails and returns its transactions to the pool; what it left in *)
(* the indexes does no harm.                                               *)
LEMMA SaveAndFailSpends ==
  ASSUME TypeOK, Control, SpendInv, SaveAndFail,
         UNCHANGED <<m_blocks, m_transactionMap, m_spent_keys>>,
         pc \in {"check", "tx", "undo"}, ~Popping
  PROVE  SpendInv'
  <1>1. pushed' = 0
    BY DEF SaveAndFail, Unwind
  <1>2. pc' \notin {"rebuild", "tx", "undo"}
    BY DEF Control, CallerInv, SaveAndFail, Unwind, PushReturns, Popping
  <1> QED BY <1>1, <1>2, QuietKeeps DEF Popping

(* CheckBlock keeps the invariant.                                         *)
LEMMA CheckBlockSpends ==
  ASSUME TypeOK, Control, SpendInv, CheckBlock
  PROVE  SpendInv'
  <1>1. CASE BlockValid(block)
    <2> DEFINE c == TxAt(block, 0)
    <2>1. /\ PushTransaction(c, Len(m_blocks), 0)
          /\ pc = "check" /\ pc' = "tx" /\ pushed' = 1 /\ UNCHANGED <<m_blocks, block, caller>>
      BY <1>1 DEF CheckBlock, chainVars
    <2>2. block \in Block /\ Len(m_blocks) \in Nat
      BY DEF TypeOK, LocalTypeOK, ChainTypeOK
    <2>3. c \in TxId /\ c \notin Tx /\ KeyImagesOf(c) = {}
      BY <2>2, KeysOfCoinbase
    <2>4. IndexedInv' /\ \A u \in TxId : Indexed(u) => Indexed(u)'
      <3>1. CASE InsertTransaction(c, Len(m_blocks), 0)
        <4>1. \A u \in TxId : Indexed(u) /\ u # c => Compatible(c, u)
          BY <2>3 DEF Compatible
        <4> HIDE DEF c
        <4> QED BY <2>2, <2>3, <3>1, <4>1, InsertKeeps DEF SpendInv
      <3>2. CASE UNCHANGED indexVars
        BY <3>2 DEF SpendInv, IndexedInv, Indexed, Compatible, indexVars
      <3> QED BY <2>1, <3>1, <3>2 DEF PushTransaction
    <2>5. CompleteInv'
      <3>1. CompleteBlocks = Len(m_blocks) /\ CompleteBlocks' = Len(m_blocks)
        BY <2>1 DEF CompleteBlocks, Popping
      <3>2. \A h \in 1 .. Len(m_blocks) : \A p \in Positions(h) : DiskTx(h, p) \in TxId
        BY DiskTxType, KeysOfTx DEF TypeOK, ChainTypeOK
      <3> QED BY <2>1, <2>4, <3>1, <3>2 DEF SpendInv, CompleteInv, DiskTx, Positions
    <2>6. PendingInv' /\ PushingInv' /\ RebuildInv'
      BY <2>1 DEF PendingInv, PushingInv, RebuildInv
    <2>7. NoDoubleSpend'
      BY <2>1 DEF SpendInv, NoDoubleSpend
    <2> QED BY <2>4, <2>5, <2>6, <2>7 DEF SpendInv
  <1>2. CASE ~BlockValid(block)
    BY <1>2, SaveAndFailSpends DEF CheckBlock, chainVars, indexVars, Popping
  <1> QED BY <1>1, <1>2

(* pushBlock begins to undo a block.                                       *)
LEMMA ToUndoKeeps ==
  ASSUME TypeOK, Control, SpendInv, pc = "tx", pc' = "undo",
         UNCHANGED <<m_blocks, m_transactionMap, m_spent_keys, pushed, block, caller>>
  PROVE  SpendInv'
  <1>1. ~Popping /\ ~Popping'
    BY DEF Popping, Control, CallerInv
  <1>2. IndexedInv'
    BY DEF SpendInv, IndexedInv, Indexed, Compatible
  <1>3. CompleteInv'
    BY <1>1 DEF SpendInv, CompleteInv, CompleteBlocks, Indexed, DiskTx, Positions
  <1>4. PendingInv'
    BY DEF SpendInv, PendingInv, PendingBlock, Indexed
  <1>5. PushingInv'
    BY <1>1 DEF SpendInv, PushingInv, Pushing, Compatible, DiskTx, Positions
  <1>6. RebuildInv' /\ NoDoubleSpend'
    BY DEF SpendInv, RebuildInv, NoDoubleSpend
  <1> QED BY <1>2, <1>3, <1>4, <1>5, <1>6 DEF SpendInv

(* PushNextTransaction keeps the invariant.                                *)
LEMMA PushNextTransactionSpends ==
  ASSUME TypeOK, Control, SpendInv, PushNextTransaction
  PROVE  SpendInv'
  <1>t. PICK t : t = TxAt(block, pushed)
    OBVIOUS
  <1>0. pc = "tx" /\ pushed < TxCount(block) /\ UNCHANGED m_blocks
    BY DEF PushNextTransaction, chainVars
  <1>1. block \in Block /\ pushed \in Nat /\ pushed > 0 /\ Len(m_blocks) \in Nat
    BY <1>0 DEF TypeOK, LocalTypeOK, ChainTypeOK, SpendInv, PendingInv
  <1>2. t = TxsOf(block)[pushed] /\ t \in Tx /\ t \in TxId
    BY <1>t, <1>0, <1>1, TxAtPosition, KeysOfTx
  <1>3. ~Popping /\ CompleteBlocks = Len(m_blocks) /\ PendingBlock = block
    BY <1>0 DEF Popping, CompleteBlocks, PendingBlock
  <1>4. CASE CheckTransactionInputs(t) = "ok"
    <2>1. /\ PushTransaction(t, Len(m_blocks), pushed)
          /\ pc' = "tx" /\ pushed' = pushed + 1 /\ UNCHANGED <<block, caller>>
      BY <1>t, <1>0, <1>4 DEF PushNextTransaction
    <2>2. KeyImagesOf(t) \cap m_spent_keys = {}
      BY <1>2, <1>4, CheckedInputsUnspent
    <2>3. ~Indexed(t)
      BY <1>2, <2>2, KeysOfTx DEF SpendInv, IndexedInv
    <2>4. \A u \in TxId : Indexed(u) => Compatible(t, u)
      BY <2>2 DEF SpendInv, IndexedInv, Compatible
    <2>5. InsertTransaction(t, Len(m_blocks), pushed)
      BY <2>1, <2>2, <2>3 DEF PushTransaction, Indexed
    <2>6. IndexedInv' /\ Indexed(t)' /\ \A u \in TxId : Indexed(u) => Indexed(u)'
      BY <1>1, <1>2, <2>4, <2>5, InsertKeeps DEF SpendInv
    <2>7. \A h \in 1 .. Len(m_blocks) : \A p \in Positions(h) :
            DiskTx(h, p) \in TxId /\ Indexed(DiskTx(h, p))
      BY <1>3, DiskTxType, KeysOfTx DEF TypeOK, ChainTypeOK, SpendInv, CompleteInv
    <2>8. \A p \in 1 .. pushed - 1 : TxsOf(block)[p] \in TxId /\ Indexed(TxsOf(block)[p])
      <3>1. ASSUME NEW p \in 1 .. pushed - 1
            PROVE  TxsOf(block)[p] \in TxId
        BY <1>0, <1>1, TxAtPosition, KeysOfTx, TxCountType
      <3>2. \A p \in 1 .. pushed - 1 : Indexed(TxsOf(block)[p])
        BY <1>1, <1>3 DEF SpendInv, PendingInv
      <3> QED BY <3>1, <3>2
    <2>9. ~Popping' /\ CompleteBlocks' = Len(m_blocks) /\ PendingBlock' = block
      BY <1>0, <2>1 DEF Popping, CompleteBlocks, PendingBlock
    <2>10. CompleteInv'
      BY <1>0, <2>6, <2>7, <2>9 DEF CompleteInv, DiskTx, Positions
    <2>11. PendingInv'
      <3>1. pushed' > 0 /\ pushed' - 1 = pushed
        BY <1>1, <2>1
      <3>2. \A p \in 1 .. pushed : p = pushed \/ p \in 1 .. pushed - 1
        BY <1>1
      <3>3. \A p \in 1 .. pushed : m_transactionMap'[TxsOf(block)[p]] # NoIndex
        BY <1>2, <2>6, <2>8, <3>2 DEF Indexed
      <3> QED BY <2>9, <3>1, <3>3 DEF PendingInv, Indexed
    <2>12. PushingInv'
      <3>1. \A p \in 1 .. pushed - 1 : \A h \in DOMAIN m_blocks : \A q \in Positions(h) :
              Compatible(TxsOf(block)[p], DiskTx(h, q))
        BY <1>0, <1>3 DEF SpendInv, PushingInv, Pushing
      <3>2. \A p, q \in 1 .. pushed - 1 : p # q => Compatible(TxsOf(block)[p], TxsOf(block)[q])
        BY <1>0, <1>3 DEF SpendInv, PushingInv, Pushing
      <3>3. \A h \in DOMAIN m_blocks : \A q \in Positions(h) : Compatible(t, DiskTx(h, q))
        BY <2>4, <2>7 DEF TypeOK, ChainTypeOK
      <3>4. \A p \in 1 .. pushed - 1 : /\ Compatible(t, TxsOf(block)[p])
                                       /\ Compatible(TxsOf(block)[p], t)
        BY <2>4, <2>8 DEF Compatible
      <3>5. \A p \in 1 .. pushed : p = pushed \/ p \in 1 .. pushed - 1
        BY <1>1
      <3>6. \A p \in 1 .. pushed : \A h \in DOMAIN m_blocks : \A q \in Positions(h) :
              Compatible(TxsOf(block)[p], DiskTx(h, q))
        BY <1>2, <3>1, <3>3, <3>5
      <3>7. \A p, q \in 1 .. pushed : p # q => Compatible(TxsOf(block)[p], TxsOf(block)[q])
        BY <1>2, <3>2, <3>4, <3>5
      <3>8. pushed' - 1 = pushed
        BY <1>1, <2>1
      <3> QED BY <1>0, <2>1, <3>6, <3>7, <3>8 DEF PushingInv, Compatible, DiskTx, Positions
    <2>13. RebuildInv'
      BY <2>1 DEF RebuildInv
    <2>14. NoDoubleSpend'
      BY <1>0 DEF SpendInv, NoDoubleSpend
    <2> QED BY <2>6, <2>10, <2>11, <2>12, <2>13, <2>14 DEF SpendInv
  <1>5. CASE CheckTransactionInputs(t) = "fail"
    <2>1. pc' = "undo" /\ UNCHANGED <<indexVars, pushed, block, caller>>
      BY <1>t, <1>0, <1>5 DEF PushNextTransaction
    <2> QED BY <1>0, <2>1, ToUndoKeeps DEF indexVars
  <1>6. CASE CheckTransactionInputs(t) = "throw"
    <2>1. pc' = "return" /\ pushed' = 0 /\ UNCHANGED indexVars
      BY <1>t, <1>0, <1>6 DEF PushNextTransaction, Unwind
    <2> QED BY <1>0, <1>3, <2>1, QuietKeeps DEF indexVars, Popping
  <1> QED BY <1>t, <1>0, <1>4, <1>5, <1>6 DEF PushNextTransaction

(* FinishPush keeps the invariant.                                         *)
LEMMA FinishPushSpends ==
  ASSUME TypeOK, Control, SpendInv, FinishPush
  PROVE  SpendInv'
  <1>0. pc = "tx" /\ pushed = TxCount(block) /\ UNCHANGED <<m_transactionMap, m_spent_keys>>
    BY DEF FinishPush, indexVars
  <1>1. ~Popping /\ CompleteBlocks = Len(m_blocks) /\ PendingBlock = block
    BY <1>0 DEF Popping, CompleteBlocks, PendingBlock
  <1>2. CASE ~BlockSizeOk(block)
    BY <1>0, <1>1, <1>2, SaveAndFailSpends DEF FinishPush, chainVars
  <1>3. CASE BlockSizeOk(block) /\ ~BlockInfo[block].reward
    <2>1. pc' = "undo" /\ UNCHANGED <<m_blocks, pushed, block, caller>>
      BY <1>3 DEF FinishPush, chainVars
    <2> QED BY <1>0, <2>1, ToUndoKeeps
  <1>4. CASE BlockSizeOk(block) /\ BlockInfo[block].reward
    <2>1. pushed' = 0 /\ PushEntry(block) /\ PushReturns(TRUE) /\ UNCHANGED <<block, caller>>
      BY <1>4 DEF FinishPush
    <2>2. pc' \notin {"rebuild", "tx", "undo"}
      BY <1>0, <2>1 DEF PushReturns, Control, CallerInv
    <2>3. ~Popping' /\ CompleteBlocks' = Len(m_blocks')
      BY <2>2 DEF Popping, CompleteBlocks
    <2> DEFINE n == Len(m_blocks)
    <2>4. /\ n \in Nat /\ Len(m_blocks') = n + 1 /\ m_blocks'[n + 1] = block
          /\ \A h \in 1 .. n : m_blocks'[h] = m_blocks[h]
          /\ DOMAIN m_blocks = 1 .. n /\ DOMAIN m_blocks' = 1 .. n + 1
      <3>1. m_blocks \in Seq(Block) /\ block \in Block
        BY DEF TypeOK, ChainTypeOK, LocalTypeOK
      <3> QED BY <2>1, <3>1 DEF PushEntry
    <2>5. \A h \in 1 .. n + 1 : h = n + 1 \/ h \in 1 .. n
      BY <2>4
    <2>6. DOMAIN TxsOf(block) = 1 .. pushed - 1 /\ pushed > 0
      <3>1. TxsOf(block) \in Seq(Tx)
        BY TxsOfType DEF TypeOK, LocalTypeOK
      <3> QED BY <1>0, <3>1 DEF TxCount
    <2>7. \A t : Indexed(t)' <=> Indexed(t)
      BY <1>0 DEF Indexed
    <2>8. IndexedInv'
      BY <1>0 DEF SpendInv, IndexedInv, Indexed, Compatible
    <2> HIDE DEF n
    <2>9. CompleteInv'
      <3>1. ASSUME NEW h \in 1 .. n + 1, NEW p \in DOMAIN TxsOf(m_blocks'[h])
            PROVE  Indexed(TxsOf(m_blocks'[h])[p])
        <4>1. CASE h = n + 1
          BY <1>1, <2>4, <2>6, <3>1, <4>1 DEF SpendInv, PendingInv
        <4>2. CASE h \in 1 .. n
          BY <1>1, <2>4, <3>1, <4>2 DEF SpendInv, CompleteInv, DiskTx, Positions, n
        <4> QED BY <2>5, <4>1, <4>2
      <3> QED BY <2>3, <2>4, <2>7, <3>1 DEF CompleteInv, DiskTx, Positions
    <2>10. PendingInv' /\ PushingInv' /\ RebuildInv'
      BY <2>1, <2>2, <2>3 DEF PendingInv, PushingInv, RebuildInv, Pushing
    <2>11. NoDoubleSpend'
      <3>1. \A p \in DOMAIN TxsOf(block) : \A h \in 1 .. n : \A q \in DOMAIN TxsOf(m_blocks[h]) :
              Compatible(TxsOf(block)[p], TxsOf(m_blocks[h])[q])
        BY <1>0, <1>1, <2>4, <2>6 DEF SpendInv, PushingInv, Pushing, DiskTx, Positions
      <3>2. \A p, q \in DOMAIN TxsOf(block) :
              p # q => Compatible(TxsOf(block)[p], TxsOf(block)[q])
        BY <1>0, <1>1, <2>6 DEF SpendInv, PushingInv, Pushing
      <3>3. ASSUME NEW h \in 1 .. n + 1, NEW g \in 1 .. n + 1,
                   NEW p \in DOMAIN TxsOf(m_blocks'[h]), NEW q \in DOMAIN TxsOf(m_blocks'[g]),
                   ~Compatible(TxsOf(m_blocks'[h])[p], TxsOf(m_blocks'[g])[q])
            PROVE  h = g /\ p = q
        <4>1. CASE h = n + 1 /\ g = n + 1
          BY <2>4, <3>2, <3>3, <4>1
        <4>2. CASE h = n + 1 /\ g \in 1 .. n
          BY <2>4, <3>1, <3>3, <4>2
        <4>3. CASE h \in 1 .. n /\ g = n + 1
          BY <2>4, <3>1, <3>3, <4>3 DEF Compatible
        <4>4. CASE h \in 1 .. n /\ g \in 1 .. n
          BY <2>4, <3>3, <4>4 DEF SpendInv, NoDoubleSpend, Compatible
        <4> QED BY <2>5, <4>1, <4>2, <4>3, <4>4
      <3> QED BY <2>4, <3>3 DEF NoDoubleSpend, Compatible
    <2> QED BY <2>8, <2>9, <2>10, <2>11 DEF SpendInv
  <1> QED BY <1>2, <1>3, <1>4

(* UndoTransaction keeps the invariant.                                    *)
LEMMA UndoTransactionSpends ==
  ASSUME TypeOK, Control, SpendInv, UndoTransaction
  PROVE  SpendInv'
  <1>t. PICK t : t = TxAt(block, pushed - 1)
    OBVIOUS
  <1>0. /\ pc = "undo" /\ pc' = "undo" /\ pushed > 0 /\ pushed' = pushed - 1
        /\ Indexed(t) /\ PopTransaction(t) /\ UNCHANGED <<m_blocks, block, caller>>
    BY <1>t DEF UndoTransaction, chainVars, Indexed
  <1>1. /\ block \in Block /\ pushed \in Nat /\ pushed <= TxCount(block) /\ TxCount(block) \in Nat
        /\ m_blocks \in Seq(Block) /\ Len(m_blocks) \in Nat
    BY <1>0, TxCountType DEF TypeOK, LocalTypeOK, ChainTypeOK, Control, PushedInv
  <1>2. t \in TxId
    BY <1>t, <1>0, <1>1, TxAtType
  <1>3. /\ Popping' <=> Popping
        /\ CompleteBlocks' = CompleteBlocks /\ PendingBlock = block /\ PendingBlock' = block
        /\ CompleteBlocks = IF Popping THEN Len(m_blocks) - 1 ELSE Len(m_blocks)
    BY <1>0 DEF Popping, CompleteBlocks, PendingBlock
  <1>4. IndexedInv' /\ \A u \in TxId : u # t /\ Indexed(u) => Indexed(u)'
    BY <1>0, <1>2, PopKeeps DEF SpendInv
  <1>5. \A p \in 1 .. pushed - 2 : TxsOf(block)[p] \in Tx
    BY <1>1, TxAtPosition
  <1>6. CASE pushed = 1
    <2>1. t \notin Tx
      BY <1>t, <1>1, <1>6, KeysOfCoinbase
    <2>2. CompleteInv'
      <3>1. \A h \in 1 .. CompleteBlocks : h \in DOMAIN m_blocks
        BY <1>1, <1>3
      <3>2. \A h \in 1 .. CompleteBlocks : \A p \in Positions(h) :
              Indexed(DiskTx(h, p)) /\ DiskTx(h, p) \in Tx /\ DiskTx(h, p) \in TxId
        BY <3>1, DiskTxType, KeysOfTx DEF SpendInv, CompleteInv
      <3>3. \A h \in 1 .. CompleteBlocks : \A p \in Positions(h) :
              m_transactionMap'[DiskTx(h, p)] # NoIndex
        BY <1>4, <2>1, <3>2 DEF Indexed
      <3> QED BY <1>0, <1>3, <3>3 DEF CompleteInv, Indexed, DiskTx, Positions
    <2>3. PendingInv' /\ PushingInv' /\ RebuildInv'
      BY <1>0, <1>6 DEF PendingInv, PushingInv, RebuildInv
    <2>4. NoDoubleSpend'
      BY <1>0 DEF SpendInv, NoDoubleSpend
    <2> QED BY <1>4, <2>2, <2>3, <2>4 DEF SpendInv
  <1>7. CASE pushed > 1
    <2>1. /\ pushed - 1 \in Nat /\ pushed - 1 > 0 /\ pushed - 1 < TxCount(block)
          /\ pushed - 1 \in 1 .. pushed - 1
      BY <1>1, <1>7
    <2>2. t = TxsOf(block)[pushed - 1] /\ t \in Tx /\ pushed - 1 \in DOMAIN TxsOf(block)
      BY <1>t, <1>1, <2>1, TxAtPosition
    <2>3. \A h \in 1 .. CompleteBlocks : \A p \in Positions(h) : Compatible(t, DiskTx(h, p))
      <3>1. CASE Popping
        <4>1. block = m_blocks[Len(m_blocks)] /\ Len(m_blocks) > 0
          BY <1>1, <3>1 DEF Control, SwitchInv, Last, LinkInv, ChainLinked
        <4>2. Len(m_blocks) \in DOMAIN m_blocks
          BY <1>1, <4>1
        <4>3. \A h \in 1 .. CompleteBlocks : h \in DOMAIN m_blocks /\ h # Len(m_blocks)
          BY <1>1, <1>3, <3>1
        <4> QED BY <2>2, <4>1, <4>2, <4>3
                DEF SpendInv, NoDoubleSpend, Compatible, DiskTx, Positions
      <3>2. CASE ~Popping
        BY <1>0, <1>1, <1>3, <2>1, <2>2, <3>2 DEF SpendInv, PushingInv, Pushing
      <3> QED BY <3>1, <3>2
    <2>4. \A p \in 1 .. pushed - 2 : Compatible(t, TxsOf(block)[p])
      <3>1. \A p \in 1 .. pushed - 2 : p \in 1 .. pushed - 1 /\ p # pushed - 1
        BY <1>1
      <3>2. CASE Popping
        <4>1. block = m_blocks[Len(m_blocks)] /\ Len(m_blocks) > 0
          BY <1>1, <3>2 DEF Control, SwitchInv, Last, LinkInv, ChainLinked
        <4>2. Len(m_blocks) \in DOMAIN m_blocks
          BY <1>1, <4>1
        <4>3. \A p \in 1 .. pushed - 2 : p \in DOMAIN TxsOf(block)
          BY <1>1, TxAtPosition
        <4> QED BY <2>2, <3>1, <4>1, <4>2, <4>3 DEF SpendInv, NoDoubleSpend, Compatible
      <3>3. CASE ~Popping
        BY <1>0, <2>1, <2>2, <3>1, <3>3 DEF SpendInv, PushingInv, Pushing
      <3> QED BY <3>2, <3>3
    <2>5. \A u \in Tx : Compatible(t, u) => u # t
      BY <2>2, KeysOfTx DEF Compatible
    <2>6. CompleteInv'
      <3>1. \A h \in 1 .. CompleteBlocks : h \in DOMAIN m_blocks
        BY <1>1, <1>3
      <3>2. \A h \in 1 .. CompleteBlocks : \A p \in Positions(h) :
              Indexed(DiskTx(h, p)) /\ DiskTx(h, p) \in Tx /\ DiskTx(h, p) \in TxId
        BY <3>1, DiskTxType, KeysOfTx DEF SpendInv, CompleteInv
      <3>3. \A h \in 1 .. CompleteBlocks : \A p \in Positions(h) :
              m_transactionMap'[DiskTx(h, p)] # NoIndex
        BY <1>4, <2>3, <2>5, <3>2 DEF Indexed
      <3> QED BY <1>0, <1>3, <3>3 DEF CompleteInv, Indexed, DiskTx, Positions
    <2>7. PendingInv'
      <3>1. pushed' - 1 = pushed - 2
        BY <1>0, <1>1
      <3>2. \A p \in 1 .. pushed - 2 : Indexed(TxsOf(block)[p])
        BY <1>1, <1>3, <1>7 DEF SpendInv, PendingInv
      <3>3. \A p \in 1 .. pushed - 2 : m_transactionMap'[TxsOf(block)[p]] # NoIndex
        BY <1>4, <1>5, <2>4, <2>5, <3>2, KeysOfTx DEF Indexed
      <3> QED BY <1>0, <1>3, <3>1, <3>3 DEF PendingInv, Indexed
    <2>8. PushingInv'
      <3>1. \A p \in 1 .. pushed' - 1 : p \in 1 .. pushed - 1
        BY <1>0, <1>1
      <3> QED BY <1>0, <1>3, <3>1 DEF SpendInv, PushingInv, Pushing, Compatible, DiskTx, Positions
    <2>9. RebuildInv' /\ NoDoubleSpend'
      BY <1>0 DEF SpendInv, RebuildInv, NoDoubleSpend
    <2> QED BY <1>4, <2>6, <2>7, <2>8, <2>9 DEF SpendInv
  <1> QED BY <1>0, <1>1, <1>6, <1>7

(* FinishUndo keeps the invariant.                                         *)
LEMMA FinishUndoSpends ==
  ASSUME TypeOK, Control, SpendInv, FinishUndo
  PROVE  SpendInv'
  <1>0. pc = "undo" /\ pushed = 0 /\ UNCHANGED <<m_transactionMap, m_spent_keys>>
    BY DEF FinishUndo, indexVars
  <1>1. CASE caller \in {"add", "connect", "restore"}
    BY <1>0, <1>1, SaveAndFailSpends DEF FinishUndo, chainVars, Popping
  <1>2. CASE caller \in {"disconnect", "unconnect"}
    <2>1. PopEntry /\ pc' = caller /\ pushed' = 0
      BY <1>0, <1>2 DEF FinishUndo
    <2>2. Popping /\ ~Popping'
      BY <1>0, <1>2, <2>1 DEF Popping
    <2> DEFINE n == Len(m_blocks) - 1
    <2>3. /\ Len(m_blocks) \in Nat /\ DOMAIN m_blocks = 1 .. Len(m_blocks)
          /\ Len(m_blocks') = n /\ DOMAIN m_blocks' = 1 .. n
          /\ \A h \in 1 .. n : m_blocks'[h] = m_blocks[h]
      <3>1. m_blocks \in Seq(Block) /\ m_blocks # <<>>
        BY DEF TypeOK, ChainTypeOK, Control, LinkInv, ChainLinked
      <3> QED BY <2>1, <3>1, FrontProperties DEF PopEntry
    <2>4. CompleteBlocks = n /\ CompleteBlocks' = n
      BY <1>0, <1>2, <2>1, <2>2, <2>3 DEF CompleteBlocks
    <2>5. IndexedInv'
      BY <1>0 DEF SpendInv, IndexedInv, Indexed, Compatible
    <2> HIDE DEF n
    <2>6. CompleteInv'
      <3>1. \A h \in 1 .. n : \A p \in DOMAIN TxsOf(m_blocks[h]) :
              m_transactionMap'[TxsOf(m_blocks[h])[p]] # NoIndex
        BY <1>0, <2>4 DEF SpendInv, CompleteInv, Indexed, DiskTx, Positions
      <3> QED BY <2>3, <2>4, <3>1 DEF CompleteInv, Indexed, DiskTx, Positions
    <2>7. PendingInv' /\ PushingInv' /\ RebuildInv'
      BY <1>2, <2>1 DEF PendingInv, PushingInv, RebuildInv, Pushing
    <2>8. \A h \in 1 .. n : h \in DOMAIN m_blocks
      BY <2>3 DEF n
    <2>9. NoDoubleSpend'
      BY <2>3, <2>8 DEF SpendInv, NoDoubleSpend
    <2> QED BY <2>5, <2>6, <2>7, <2>9 DEF SpendInv
  <1> QED BY <1>1, <1>2 DEF FinishUndo

(* StartPop keeps the invariant.                                           *)
LEMMA StartPopSpends ==
  ASSUME TypeOK, Control, SpendInv, StartPop
  PROVE  SpendInv'
  <1>0. /\ pc \in {"disconnect", "unconnect"} /\ Connected > 0
        /\ UNCHANGED <<m_blocks, m_blockIndex, m_transactionMap, m_spent_keys>>
    BY DEF StartPop, chainVars, indexVars
  <1>1. ~Popping /\ CompleteBlocks = Len(m_blocks) /\ pushed = 0
    BY <1>0 DEF Popping, CompleteBlocks, Control, PushedInv
  <1>2. CASE ~SaveThrows(TxsOf(Last(m_blocks)))
    <2>1. pc' = "undo" /\ caller' = pc /\ block' = Last(m_blocks) /\ pushed' = TxCount(Last(m_blocks))
      BY <1>2 DEF StartPop
    <2>2. m_blocks \in Seq(Block) /\ m_blocks # <<>> /\ Len(m_blocks) \in Nat /\ Len(m_blocks) > 0
      BY DEF TypeOK, ChainTypeOK, Control, LinkInv, ChainLinked
    <2>3. Last(m_blocks) = m_blocks[Len(m_blocks)] /\ Last(m_blocks) \in Block
      BY <2>2 DEF Last
    <2>4. Popping' /\ PendingBlock' = Last(m_blocks) /\ CompleteBlocks' = Len(m_blocks) - 1
      BY <1>0, <2>1 DEF Popping, PendingBlock, CompleteBlocks
    <2>5. IndexedInv'
      BY <1>0 DEF SpendInv, IndexedInv, Indexed, Compatible
    <2>6. CompleteInv'
      BY <1>0, <1>1, <2>2, <2>4 DEF SpendInv, CompleteInv, Indexed, DiskTx, Positions
    <2>7. PendingInv'
      <3>1. Len(m_blocks) \in 1 .. CompleteBlocks
        BY <1>1, <2>2
      <3>2. TxsOf(Last(m_blocks)) \in Seq(Tx)
        BY <2>3, TxsOfType
      <3>3. \A p \in 1 .. pushed' - 1 : p \in DOMAIN TxsOf(Last(m_blocks))
        BY <2>1, <3>2 DEF TxCount
      <3>4. \A p \in 1 .. pushed' - 1 : Indexed(TxsOf(Last(m_blocks))[p])
        BY <2>3, <3>1, <3>3 DEF SpendInv, CompleteInv, DiskTx, Positions
      <3> QED BY <1>0, <2>1, <2>4, <3>4 DEF PendingInv, Indexed
    <2>8. PushingInv' /\ RebuildInv'
      BY <2>1, <2>4 DEF PushingInv, RebuildInv, Pushing
    <2>9. NoDoubleSpend'
      BY <1>0 DEF SpendInv, NoDoubleSpend
    <2> QED BY <2>5, <2>6, <2>7, <2>8, <2>9 DEF SpendInv
  <1>3. CASE SaveThrows(TxsOf(Last(m_blocks)))
    <2>1. pc' = "return" /\ pushed' = 0
      BY <1>3 DEF StartPop, Unwind
    <2> QED BY <1>0, <1>1, <2>1, QuietKeeps DEF Popping
  <1> QED BY <1>2, <1>3

(* A start of the process: the indexes are empty, the blocks are as they were. *)
LEMMA StartSpends ==
  ASSUME TypeOK, Control, SpendInv, NEW pool, NEW expired, NEW forgotten,
         Start(pool, expired, forgotten)
  PROVE  SpendInv'
  <1>1. /\ m_transactionMap' = [t \in TxId |-> NoIndex] /\ m_blockIndex' = <<>>
        /\ pc' = "rebuild" /\ pushed' = 0 /\ UNCHANGED m_blocks
    BY DEF Start, ClearIndexes
  <1>2. \A t \in TxId : ~Indexed(t)'
    BY <1>1 DEF Indexed
  <1>3. IndexedInv'
    BY <1>2 DEF IndexedInv
  <1>4. CompleteInv'
    <2>1. Len(m_blockIndex') = 0
      BY <1>1
    <2>2. CompleteBlocks' = Len(m_blockIndex')
      BY <1>1 DEF CompleteBlocks, Popping
    <2> QED BY <2>1, <2>2 DEF CompleteInv
  <1>5. PendingInv' /\ PushingInv'
    BY <1>1 DEF PendingInv, PushingInv, Pushing
  <1>6. RebuildInv'
    BY <1>2, KeysOfTx DEF RebuildInv
  <1>7. NoDoubleSpend'
    BY <1>1 DEF SpendInv, NoDoubleSpend
  <1> QED BY <1>3, <1>4, <1>5, <1>6, <1>7 DEF SpendInv

(* FinishRebuild keeps the invariant.                                      *)
LEMMA FinishRebuildSpends ==
  ASSUME TypeOK, Control, SpendInv, FinishRebuild
  PROVE  SpendInv'
  <1>0. /\ pc = "rebuild" /\ pc' = "idle" /\ Len(m_blockIndex) = Len(m_blocks)
        /\ UNCHANGED <<m_blocks, m_transactionMap, m_spent_keys, pushed>>
    BY DEF FinishRebuild, chainVars, indexVars
  <1>1. pushed' = 0
    BY <1>0 DEF Control, PushedInv
  <1>2. CompleteBlocks = Len(m_blocks) /\ CompleteBlocks' = Len(m_blocks)
    BY <1>0 DEF CompleteBlocks, Popping
  <1>3. IndexedInv'
    BY <1>0 DEF SpendInv, IndexedInv, Indexed, Compatible
  <1>4. CompleteInv'
    BY <1>0, <1>2 DEF SpendInv, CompleteInv, Indexed, DiskTx, Positions
  <1>5. PendingInv' /\ PushingInv' /\ RebuildInv'
    BY <1>0, <1>1 DEF PendingInv, PushingInv, RebuildInv, Pushing
  <1>6. NoDoubleSpend'
    BY <1>0 DEF SpendInv, NoDoubleSpend
  <1> QED BY <1>3, <1>4, <1>5, <1>6 DEF SpendInv

(* RebuildNext keeps the invariant.                                        *)
LEMMA RebuildNextSpends ==
  ASSUME TypeOK, Control, SpendInv, RebuildNext
  PROVE  SpendInv'
  <1> DEFINE n == Len(m_blockIndex)
             b == m_blocks[n + 1]
  <1>t. PICK t : t = TxAt(b, pushed)
    OBVIOUS
  <1>0. /\ pc = "rebuild" /\ pc' = "rebuild" /\ n < Len(m_blocks) /\ UNCHANGED m_blocks
        /\ InsertTransaction(t, n, pushed)
        /\ \/ pushed + 1 < TxCount(b) /\ pushed' = pushed + 1 /\ UNCHANGED m_blockIndex
           \/ pushed + 1 >= TxCount(b) /\ pushed' = 0 /\ m_blockIndex' = Append(m_blockIndex, b)
    <2>1. TxCount(b) \in Nat /\ pushed \in Nat
      <3>1. m_blocks \in Seq(Block) /\ n \in Nat /\ n + 1 \in 1 .. Len(m_blocks) /\ pushed \in Nat
        BY DEF RebuildNext, TypeOK, ChainTypeOK, LocalTypeOK
      <3> QED BY <3>1, TxCountType
    <2> QED BY <1>t, <2>1 DEF RebuildNext
  <1>1. /\ m_blocks \in Seq(Block) /\ m_blockIndex \in Seq(Block) /\ n \in Nat /\ pushed \in Nat
        /\ n + 1 \in DOMAIN m_blocks /\ b \in Block /\ TxCount(b) \in Nat /\ pushed < TxCount(b)
    <2>1. m_blocks \in Seq(Block) /\ m_blockIndex \in Seq(Block) /\ n \in Nat /\ pushed \in Nat
      BY DEF TypeOK, ChainTypeOK, LocalTypeOK
    <2>2. n + 1 \in DOMAIN m_blocks /\ b \in Block
      BY <1>0, <2>1
    <2> QED BY <1>0, <2>1, <2>2, TxCountType DEF Control, PushedInv
  <1>2. t \in TxId /\ DOMAIN TxsOf(b) = 1 .. TxCount(b) - 1
    <2>1. TxsOf(b) \in Seq(Tx)
      BY <1>1, TxsOfType
    <2> QED BY <1>t, <1>1, <2>1, TxAtType DEF TxCount
  <1>3. pushed > 0 => t = TxsOf(b)[pushed] /\ t \in Tx /\ pushed \in DOMAIN TxsOf(b)
    BY <1>t, <1>1, TxAtPosition
  <1>4. pushed = 0 => t \notin Tx /\ KeyImagesOf(t) = {}
    BY <1>t, <1>1, KeysOfCoinbase
  <1>5. CompleteBlocks = n /\ PendingBlock = b
    BY <1>0 DEF CompleteBlocks, PendingBlock, Popping
  <1>6. \A u \in TxId : Indexed(u) /\ u # t => Compatible(t, u)
    <2>1. CASE pushed = 0
      BY <1>4, <2>1 DEF Compatible
    <2>2. CASE pushed > 0
      <3> SUFFICES ASSUME NEW u \in TxId, Indexed(u), u # t PROVE Compatible(t, u)
        OBVIOUS
      <3>1. CASE u \in Tx
        <4>0. PICK h \in DOMAIN m_blocks : \E p \in Positions(h) :
                /\ DiskTx(h, p) = u
                /\ h <= n \/ (h = n + 1 /\ p < pushed)
          BY <1>0, <3>1 DEF SpendInv, RebuildInv
        <4>1. PICK p \in Positions(h) : /\ DiskTx(h, p) = u
                                        /\ h <= n \/ (h = n + 1 /\ p < pushed)
          BY <4>0
        <4>2. h # n + 1 \/ p # pushed
          BY <1>1, <1>3, <2>2, <4>1
        <4> QED BY <1>1, <1>3, <2>2, <4>1, <4>2
                DEF SpendInv, NoDoubleSpend, Compatible, DiskTx, Positions
      <3>2. CASE u \notin Tx
        <4>1. TxInfo[u].inputs = <<>>
          BY <3>2, TxAssumption DEF TxId
        <4> QED BY <4>1 DEF Compatible, KeyImagesOf
      <3> QED BY <3>1, <3>2
    <2> QED BY <1>1, <2>1, <2>2
  <1>7. /\ IndexedInv' /\ Indexed(t)'
        /\ \A u \in TxId : Indexed(u) => Indexed(u)'
        /\ \A u \in TxId : Indexed(u)' => Indexed(u) \/ u = t
    BY <1>0, <1>1, <1>2, <1>6, InsertKeeps DEF SpendInv
  <1>8. \A h \in 1 .. n : \A p \in Positions(h) : m_transactionMap'[DiskTx(h, p)] # NoIndex
    <2>1. \A h \in 1 .. n : h \in DOMAIN m_blocks
      BY <1>0, <1>1
    <2> QED BY <1>5, <1>7, <2>1, DiskTxType, KeysOfTx DEF SpendInv, CompleteInv, Indexed
  <1>9. \A p \in 1 .. pushed : m_transactionMap'[TxsOf(b)[p]] # NoIndex
    <2>1. ASSUME NEW p \in 1 .. pushed - 1 PROVE m_transactionMap'[TxsOf(b)[p]] # NoIndex
      <3>1. TxsOf(b)[p] \in TxId
        BY <1>1, TxAtPosition, KeysOfTx
      <3>2. Indexed(TxsOf(b)[p])
        BY <1>1, <1>5 DEF SpendInv, PendingInv
      <3> QED BY <1>7, <3>1, <3>2 DEF Indexed
    <2>2. \A p \in 1 .. pushed : p = pushed \/ p \in 1 .. pushed - 1
      BY <1>1
    <2> QED BY <1>1, <1>3, <1>7, <2>1, <2>2 DEF Indexed
  <1>10. NoDoubleSpend' /\ PushingInv'
    BY <1>0 DEF SpendInv, NoDoubleSpend, PushingInv, Pushing
  <1>11. \A u \in Tx : Indexed(u)' =>
           \E h \in DOMAIN m_blocks : \E p \in Positions(h) :
             DiskTx(h, p) = u /\ (h <= n \/ (h = n + 1 /\ p <= pushed))
    <2> SUFFICES ASSUME NEW u \in Tx, Indexed(u)'
                 PROVE  \E h \in DOMAIN m_blocks : \E p \in Positions(h) :
                          DiskTx(h, p) = u /\ (h <= n \/ (h = n + 1 /\ p <= pushed))
      OBVIOUS
    <2>1. CASE u = t
      <3>1. pushed > 0 /\ pushed \in Positions(n + 1) /\ DiskTx(n + 1, pushed) = u
        BY <1>1, <1>3, <1>4, <2>1 DEF Positions, DiskTx
      <3> QED BY <1>1, <3>1
    <2>2. CASE u # t
      <3>1. Indexed(u)
        BY <1>7, <2>2, KeysOfTx
      <3>0. PICK h \in DOMAIN m_blocks : \E p \in Positions(h) :
              /\ DiskTx(h, p) = u
              /\ h <= n \/ (h = n + 1 /\ p < pushed)
        BY <1>0, <3>1 DEF SpendInv, RebuildInv
      <3>2. PICK p \in Positions(h) : /\ DiskTx(h, p) = u
                                      /\ h <= n \/ (h = n + 1 /\ p < pushed)
        BY <3>0
      <3>3. p \in Nat
        <4>1. TxsOf(m_blocks[h]) \in Seq(Tx)
          BY <1>1, TxsOfType
        <4> QED BY <4>1 DEF Positions
      <3> QED BY <1>1, <3>2, <3>3
    <2> QED BY <2>1, <2>2
  <1>12. CASE pushed + 1 < TxCount(b) /\ pushed' = pushed + 1 /\ UNCHANGED m_blockIndex
    <2>1. CompleteBlocks' = n /\ PendingBlock' = b
      BY <1>0, <1>12 DEF CompleteBlocks, PendingBlock, Popping
    <2>2. CompleteInv'
      BY <1>0, <1>8, <2>1 DEF CompleteInv, Indexed, DiskTx, Positions
    <2>3. PendingInv'
      <3>1. pushed' - 1 = pushed /\ pushed' > 0
        BY <1>1, <1>12
      <3> QED BY <1>9, <2>1, <3>1 DEF PendingInv, Indexed
    <2>4. RebuildInv'
      <3>1. \A h \in DOMAIN m_blocks : \A p \in Positions(h) : p <= pushed => p < pushed'
        <4>1. ASSUME NEW h \in DOMAIN m_blocks, NEW p \in Positions(h) PROVE p \in Nat
          <5>1. TxsOf(m_blocks[h]) \in Seq(Tx)
            BY <1>1, TxsOfType
          <5> QED BY <5>1 DEF Positions
        <4> QED BY <1>1, <1>12, <4>1
      <3> QED BY <1>0, <1>11, <1>12, <3>1 DEF RebuildInv, Indexed, DiskTx, Positions
    <2> QED BY <1>7, <1>10, <2>2, <2>3, <2>4 DEF SpendInv
  <1>13. CASE pushed + 1 >= TxCount(b) /\ pushed' = 0 /\ m_blockIndex' = Append(m_blockIndex, b)
    <2>1. Len(m_blockIndex') = n + 1
      BY <1>1, <1>13
    <2>2. CompleteBlocks' = n + 1
      BY <1>0, <2>1 DEF CompleteBlocks, Popping
    <2>3. CompleteInv'
      <3>1. \A h \in 1 .. n + 1 : h = n + 1 \/ h \in 1 .. n
        BY <1>1
      <3>2. \A p \in Positions(n + 1) : m_transactionMap'[DiskTx(n + 1, p)] # NoIndex
        BY <1>1, <1>2, <1>9, <1>13 DEF DiskTx, Positions
      <3>3. \A h \in 1 .. n + 1 : \A p \in Positions(h) : m_transactionMap'[DiskTx(h, p)] # NoIndex
        BY <1>8, <3>1, <3>2
      <3> QED BY <1>0, <2>2, <3>3 DEF CompleteInv, Indexed, DiskTx, Positions
    <2>4. PendingInv'
      BY <1>0, <1>13 DEF PendingInv
    <2>5. RebuildInv'
      BY <1>0, <1>1, <1>11, <2>1 DEF RebuildInv, Indexed, DiskTx, Positions
    <2> QED BY <1>7, <1>10, <2>3, <2>4, <2>5 DEF SpendInv
  <1> QED BY <1>0, <1>12, <1>13

(* A new node spends nothing.                                              *)
LEMMA InitSpends == Init => SpendInv
  <1> SUFFICES ASSUME Init PROVE SpendInv
    OBVIOUS
  <1>1. m_blocks = <<Genesis>> /\ pc = "idle" /\ pushed = 0 /\ TxsOf(Genesis) = <<>>
    BY BlockAssumption DEF Init
  <1>2. \A h \in DOMAIN m_blocks : m_blocks[h] = Genesis
    BY <1>1
  <1>3. \A h \in DOMAIN m_blocks : DOMAIN TxsOf(m_blocks[h]) = {}
    BY <1>1, <1>2
  <1>4. NoDoubleSpend
    BY <1>3 DEF NoDoubleSpend
  <1>5. CompleteInv
    <2>1. CompleteBlocks = 1
      BY <1>1 DEF CompleteBlocks, Popping
    <2>2. \A h \in 1 .. 1 : h \in DOMAIN m_blocks
      BY <1>1
    <2> QED BY <1>3, <2>1, <2>2 DEF CompleteInv, Positions
  <1>6. PendingInv /\ PushingInv /\ RebuildInv
    BY <1>1 DEF PendingInv, PushingInv, RebuildInv, Pushing
  <1>7. IndexedInv
    <2>1. \A t \in TxId : Indexed(t) => t = TxAt(Genesis, 0)
      BY DEF Init, Indexed
    <2>2. KeyImagesOf(TxAt(Genesis, 0)) = {}
      BY NamesAssumption, KeysOfCoinbase
    <2> QED BY <2>1, <2>2 DEF IndexedInv
  <1> QED BY <1>4, <1>5, <1>6, <1>7 DEF SpendInv

(* Every step keeps the invariant.                                         *)
LEMMA NextSpends == TypeOK /\ Control /\ SpendInv /\ [Next]_vars => SpendInv'
  <1> SUFFICES ASSUME TypeOK, Control, SpendInv, [Next]_vars PROVE SpendInv'
    OBVIOUS
  <1>1. CASE LoadTransactions
    BY <1>1, LoadTransactionsSpends
  <1>2. CASE CheckBlock
    BY <1>2, CheckBlockSpends
  <1>3. CASE PushNextTransaction
    BY <1>3, PushNextTransactionSpends
  <1>4. CASE FinishPush
    BY <1>4, FinishPushSpends
  <1>5. CASE UndoTransaction
    BY <1>5, UndoTransactionSpends
  <1>6. CASE FinishUndo
    BY <1>6, FinishUndoSpends
  <1>7. CASE StartPop
    BY <1>7, StartPopSpends
  <1>8. CASE StartConnect
    BY <1>8, StartConnectSpends
  <1>9. CASE ConnectNext
    BY <1>9, ConnectNextSpends
  <1>10. CASE FinishConnect
    BY <1>10, FinishConnectSpends
  <1>11. CASE ReaddNext
    BY <1>11, ReaddNextSpends
  <1>12. CASE FinishSwitch
    BY <1>12, FinishSwitchSpends
  <1>13. CASE StartRestore
    BY <1>13, StartRestoreSpends
  <1>14. CASE RestoreNext
    BY <1>14, RestoreNextSpends
  <1>15. CASE FinishRestore
    BY <1>15, FinishRestoreSpends
  <1>16. CASE WalkToMainChain
    BY <1>16, WalkToMainChainSpends
  <1>17. CASE AcceptAlternative
    BY <1>17, AcceptAlternativeSpends
  <1>18. CASE RefuseAlternative
    BY <1>18, RefuseAlternativeSpends
  <1>19. CASE RebuildNext
    BY <1>19, RebuildNextSpends
  <1>20. CASE FinishRebuild
    BY <1>20, FinishRebuildSpends
  <1>21. CASE Return
    BY <1>21, ReturnSpends
  <1>22. CASE Crash
    BY <1>22, StartSpends DEF Crash
  <1>23. CASE Shutdown
    BY <1>23, StartSpends DEF Shutdown
  <1>24. ASSUME NEW b \in Block, AddNewBlock(b) PROVE SpendInv'
    BY <1>24, AddNewBlockSpends
  <1>25. ASSUME NEW t \in Tx, NEW kept \in BOOLEAN, AddNewTx(t, kept) PROVE SpendInv'
    BY <1>25, AddNewTxSpends
  <1>26. ASSUME NEW S \in SUBSET m_transactions, NEW F \in SUBSET m_recentlyDeletedTransactions,
                RemoveExpiredTransactions(S, F)
         PROVE  SpendInv'
    BY <1>26, RemoveExpiredTransactionsSpends
  <1>27. CASE UNCHANGED vars
    <2> USE <1>27 DEF vars, chainVars, indexVars
    <2>1. IndexedInv'
      BY DEF SpendInv, IndexedInv, Indexed, Compatible
    <2>2. CompleteInv' /\ PendingInv'
      BY DEF SpendInv, CompleteInv, PendingInv, PendingBlock, CompleteBlocks, Popping, Indexed,
             DiskTx, Positions
    <2>3. PushingInv'
      BY DEF SpendInv, PushingInv, Pushing, Popping, Compatible, DiskTx, Positions
    <2>4. RebuildInv'
      BY DEF SpendInv, RebuildInv, Indexed, DiskTx, Positions
    <2>5. NoDoubleSpend'
      BY DEF SpendInv, NoDoubleSpend
    <2> QED BY <2>1, <2>2, <2>3, <2>4, <2>5 DEF SpendInv
  <1> QED
    BY <1>1, <1>2, <1>3, <1>4, <1>5, <1>6, <1>7, <1>8, <1>9, <1>10, <1>11, <1>12, <1>13, <1>14,
       <1>15, <1>16, <1>17, <1>18, <1>19, <1>20, <1>21, <1>22, <1>23, <1>24, <1>25, <1>26, <1>27
    DEF Next, Step

(* No two transactions of the main chain spend the same key image: not     *)
(* after a switch, a rollback, a block that pushBlock left in the indexes, or a *)
(* crash between two writes followed by rebuildCache.                      *)
THEOREM NoKeyImageSpentTwice == Spec => []NoDoubleSpend
  <1>1. Init => TypeOK /\ Control /\ SpendInv
    BY InitStep, InitSpends
  <1>2. TypeOK /\ Control /\ SpendInv /\ [Next]_vars => TypeOK' /\ Control' /\ SpendInv'
    BY NextStep, NextSpends
  <1>3. SpendInv => NoDoubleSpend
    BY DEF SpendInv
  <1> QED BY <1>1, <1>2, <1>3, PTL DEF Spec

-----------------------------------------------------------------------------
(***************************************************************************)
(* What addNewBlock does to the main chain as a whole, for every catalogue *)
(* of blocks: it keeps the chain, appends to it or replaces its end, the   *)
(* result has no less work, and who follows the message queue has it.      *)
(*                                                                         *)
(* The argument tells the main chain at every step of a switch and of its  *)
(* rollback from the chain that the operation began with: a common part up *)
(* to the split, above it the blocks of the alternative chain that are     *)
(* already connected, and in disconnected_chain what was there before.     *)
(***************************************************************************)

(* Chains with the same first n blocks.                                    *)
SameUpTo(s, t, n) ==
  /\ n <= Len(s) /\ n <= Len(t)
  /\ \A i \in 1 .. n : s[i] = t[i]
(* What chain s has above its first n blocks.                              *)
RestAbove(d, s, n) ==
  /\ Len(d) = Len(s) - n
  /\ \A i \in 1 .. Len(d) : d[i] = s[n + i]
(* Above its first n blocks, chain s has the first ones of a.              *)
GrowsAlong(s, n, a) ==
  /\ Len(s) - n <= Len(a)
  /\ \A i \in 1 .. Len(s) - n : s[n + i] = a[i]
(* The place of a block is its height, so no block is in a chain twice.    *)
Numbered(s) == \A i \in 1 .. Len(s) : Height[s[i]] = i - 1

PushPcs == {"load", "check", "tx", "undo"}
Resting == pc \in {"idle", "return", "rebuild"}
Adding == pc \in PushPcs \cup {"walk"} /\ caller = "add"
Disconnecting == pc = "disconnect" \/ (pc = "undo" /\ caller = "disconnect")
Readding == pc = "realt" \/ (pc = "walk" /\ caller = "realt")
PushingFor(c) == pc \in PushPcs /\ caller = c
Connecting ==
  \/ pc \in {"connect", "unconnect"}
  \/ Readding
  \/ PushingFor("connect")
  \/ pc = "undo" /\ caller = "unconnect"
Restoring == pc = "restore" \/ PushingFor("restore")

HeightShape ==
  /\ Numbered(m_blocks)
  /\ pc \notin {"idle", "rebuild"} => before.chain # <<>> /\ Numbered(before.chain)

AddShape ==
  /\ pc \in {"idle", "rebuild"} \/ Adding =>
       alt_chain = <<>> /\ disconnected_chain = <<>> /\ ~discard
  /\ Adding => m_blocks = before.chain
  /\ pc = "walk" => path # <<>> /\ Last(path) = block

Heavier(b) == CumulativeDifficulty[Last(before.chain)] < CumulativeDifficulty[b]

SplitShape ==
  Switching =>
    /\ SplitHeight < Len(before.chain) /\ before.chain[SplitHeight] = Prev(alt_chain[1])
    /\ discard \/ Heavier(Last(alt_chain))

DisconnectShape ==
  Disconnecting =>
    /\ SameUpTo(m_blocks, before.chain, Len(m_blocks))
    /\ RestAbove(disconnected_chain, before.chain, Len(m_blocks))

ConnectShape ==
  /\ Connecting => /\ SameUpTo(m_blocks, before.chain, SplitHeight)
                   /\ RestAbove(disconnected_chain, before.chain, SplitHeight)
                   /\ GrowsAlong(m_blocks, SplitHeight, alt_chain)
  /\ Readding => Connected = Len(alt_chain)
  /\ PushingFor("connect") =>
       Connected + 1 \in DOMAIN alt_chain /\ block = alt_chain[Connected + 1]

RestoreShape ==
  /\ Restoring => /\ SameUpTo(m_blocks, before.chain, Len(m_blocks))
                  /\ RestAbove(disconnected_chain, before.chain, SplitHeight)
  /\ PushingFor("restore") =>
       Connected + 1 \in DOMAIN disconnected_chain /\ block = disconnected_chain[Connected + 1]

(* What an operation that no exception or failed rollback ended has done.  *)
ReturnShape ==
  pc = "return" =>
    \/ aborted \/ panicked
    \/ m_blocks = before.chain
    \/ m_blocks = Append(before.chain, block) /\ Heavier(block)
    \/ /\ alt_chain # <<>> /\ m_blocks = SubSeq(before.chain, 1, SplitHeight) \o alt_chain
       /\ SplitHeight <= Len(before.chain) /\ (discard \/ Heavier(Last(alt_chain)))

FollowerShape ==
  \/ aborted \/ panicked \/ pc = "rebuild"
  \/ follower = IF Resting THEN m_blocks ELSE before.chain

ShapeInv ==
  /\ HeightShape /\ AddShape /\ SplitShape /\ DisconnectShape /\ ConnectShape /\ RestoreShape
  /\ ReturnShape /\ FollowerShape

-----------------------------------------------------------------------------
(* Chains of blocks.                                                       *)

(* A chain agrees with itself and has nothing above its end.               *)
LEMMA SameAsItself ==
  ASSUME NEW s \in Seq(Block)
  PROVE  SameUpTo(s, s, Len(s)) /\ RestAbove(<<>>, s, Len(s))
  <1>1. SameUpTo(s, s, Len(s))
    BY DEF SameUpTo
  <1>2. Len(<<>>) = 0
    OBVIOUS
  <1>3. RestAbove(<<>>, s, Len(s))
    BY <1>2 DEF RestAbove
  <1> QED BY <1>1, <1>3

(* Chains of one length that agree are equal.                              *)
LEMMA SameWhole ==
  ASSUME NEW s \in Seq(Block), NEW t \in Seq(Block), SameUpTo(s, t, Len(s)), Len(s) = Len(t)
  PROVE  s = t
  BY DEF SameUpTo

(* Chains that agree up to a place agree up to every earlier one.          *)
LEMMA SameLower ==
  ASSUME NEW s \in Seq(Block), NEW t \in Seq(Block), NEW n \in Nat, NEW k \in Nat,
         SameUpTo(s, t, n), k <= n
  PROVE  SameUpTo(s, t, k)
  BY DEF SameUpTo

(* popBlock keeps the common part below the block that it removes.         *)
LEMMA SameFront ==
  ASSUME NEW s \in Seq(Block), NEW t \in Seq(Block), NEW n \in Nat, s # <<>>,
         SameUpTo(s, t, n), n < Len(s)
  PROVE  SameUpTo(Front(s), t, n)
  <1>1. Len(Front(s)) = Len(s) - 1 /\ \A i \in 1 .. Len(s) - 1 : Front(s)[i] = s[i]
    BY FrontProperties
  <1>2. n <= Len(Front(s)) /\ n <= Len(t)
    BY <1>1 DEF SameUpTo
  <1>3. ASSUME NEW i \in 1 .. n PROVE Front(s)[i] = t[i]
    <2>1. i \in 1 .. Len(s) - 1
      OBVIOUS
    <2> QED BY <2>1, <1>1 DEF SameUpTo
  <1> QED BY <1>2, <1>3 DEF SameUpTo

(* pushBlock keeps the common part.                                        *)
LEMMA SameAppend ==
  ASSUME NEW s \in Seq(Block), NEW t \in Seq(Block), NEW n \in Nat, NEW b \in Block,
         SameUpTo(s, t, n)
  PROVE  SameUpTo(Append(s, b), t, n)
  <1>1. n <= Len(Append(s, b)) /\ n <= Len(t)
    BY AppendType DEF SameUpTo
  <1>2. ASSUME NEW i \in 1 .. n PROVE Append(s, b)[i] = t[i]
    <2>1. i \in 1 .. Len(s)
      BY DEF SameUpTo
    <2> QED BY <2>1, AppendKeeps DEF SameUpTo
  <1> QED BY <1>1, <1>2 DEF SameUpTo

(* A restored block extends the common part.                               *)
LEMMA SameGrows ==
  ASSUME NEW s \in Seq(Block), NEW t \in Seq(Block), SameUpTo(s, t, Len(s)), Len(s) < Len(t)
  PROVE  SameUpTo(Append(s, t[Len(s) + 1]), t, Len(Append(s, t[Len(s) + 1])))
  <1> DEFINE b == t[Len(s) + 1]
  <1>1. b \in Block
    OBVIOUS
  <1> HIDE DEF b
  <1>2. Len(Append(s, b)) = Len(s) + 1 /\ Append(s, b)[Len(s) + 1] = b
    BY <1>1, AppendType, AppendLast
  <1>3. ASSUME NEW i \in 1 .. Len(s) + 1 PROVE Append(s, b)[i] = t[i]
    <2>1. CASE i \in 1 .. Len(s)
      BY <2>1, <1>1, AppendKeeps DEF SameUpTo
    <2>2. CASE i = Len(s) + 1
      BY <2>2, <1>2 DEF b
    <2> QED BY <2>1, <2>2
  <1>4. SameUpTo(Append(s, b), t, Len(s) + 1)
    BY <1>2, <1>3 DEF SameUpTo
  <1> QED BY <1>2, <1>4 DEF b

(* The block that popBlock removes joins the removed ones.                 *)
LEMMA RestGrows ==
  ASSUME NEW d \in Seq(Block), NEW s \in Seq(Block), NEW t \in Seq(Block), s # <<>>,
         SameUpTo(s, t, Len(s)), RestAbove(d, t, Len(s))
  PROVE  RestAbove(<<Last(s)>> \o d, t, Len(Front(s)))
  <1>1. Last(s) \in Block /\ Len(Front(s)) = Len(s) - 1 /\ Len(s) \in Nat /\ Len(s) > 0
    BY FrontProperties
  <1>2. Last(s) = t[Len(s)]
    BY <1>1 DEF Last, SameUpTo
  <1> DEFINE b == Last(s)
             e == <<b>> \o d
  <1> HIDE DEF b
  <1>3. b \in Block
    BY <1>1 DEF b
  <1>4. Len(e) = Len(d) + 1
    BY <1>3
  <1>5. e[1] = b /\ \A i \in 2 .. Len(d) + 1 : e[i] = d[i - 1]
    BY <1>3
  <1> HIDE DEF e
  <1>6. Len(d) = Len(t) - Len(s) /\ Len(d) \in Nat /\ Len(t) \in Nat
    BY DEF RestAbove
  <1>7. Len(e) = Len(t) - (Len(s) - 1)
    BY <1>4, <1>6, <1>1
  <1>8. ASSUME NEW i \in 1 .. Len(e) PROVE e[i] = t[(Len(s) - 1) + i]
    <2>1. CASE i = 1
      <3>1. (Len(s) - 1) + 1 = Len(s)
        BY <1>1
      <3> QED BY <2>1, <3>1, <1>5, <1>2 DEF b
    <2>2. CASE i # 1
      <3>1. i \in 2 .. Len(d) + 1 /\ i - 1 \in 1 .. Len(d)
        BY <2>2, <1>4, <1>6
      <3>2. e[i] = d[i - 1]
        BY <3>1, <1>5
      <3>3. d[i - 1] = t[Len(s) + (i - 1)]
        BY <3>1 DEF RestAbove
      <3>4. Len(s) + (i - 1) = (Len(s) - 1) + i
        BY <1>1
      <3> QED BY <3>2, <3>3, <3>4
    <2> QED BY <2>1, <2>2
  <1> QED BY <1>1, <1>7, <1>8 DEF RestAbove, e, b

(* A connected block continues along the alternative chain.                *)
LEMMA AlongAppend ==
  ASSUME NEW s \in Seq(Block), NEW a \in Seq(Block), NEW n \in Nat, n <= Len(s),
         GrowsAlong(s, n, a), (Len(s) - n) + 1 \in DOMAIN a
  PROVE  GrowsAlong(Append(s, a[(Len(s) - n) + 1]), n, a)
  <1> DEFINE k == (Len(s) - n) + 1
             b == a[k]
  <1>1. k \in 1 .. Len(a) /\ b \in Block
    OBVIOUS
  <1>2. n + k = Len(s) + 1
    OBVIOUS
  <1> HIDE DEF b
  <1>3. Len(Append(s, b)) = Len(s) + 1 /\ Append(s, b)[Len(s) + 1] = b
    BY <1>1, AppendType, AppendLast
  <1>4. Len(Append(s, b)) - n = k
    BY <1>3
  <1>5. ASSUME NEW i \in 1 .. k PROVE Append(s, b)[n + i] = a[i]
    <2>1. CASE i = k
      <3>1. Append(s, b)[n + k] = b
        BY <1>2, <1>3
      <3> QED BY <2>1, <3>1 DEF b
    <2>2. CASE i # k
      <3>1. i \in 1 .. Len(s) - n /\ n + i \in 1 .. Len(s)
        BY <2>2
      <3>2. Append(s, b)[n + i] = s[n + i]
        BY <3>1, <1>1, AppendKeeps
      <3> QED BY <3>1, <3>2 DEF GrowsAlong
    <2> QED BY <2>1, <2>2
  <1>6. k <= Len(a)
    BY <1>1
  <1> HIDE DEF k
  <1>7. GrowsAlong(Append(s, b), n, a)
    BY <1>4, <1>5, <1>6 DEF GrowsAlong
  <1> QED BY <1>7 DEF b, k

(* popBlock takes a connected block away again.                            *)
LEMMA AlongFront ==
  ASSUME NEW s \in Seq(Block), NEW a \in Seq(Block), NEW n \in Nat, n < Len(s),
         GrowsAlong(s, n, a)
  PROVE  GrowsAlong(Front(s), n, a)
  <1>1. s # <<>>
    OBVIOUS
  <1>2. Len(Front(s)) = Len(s) - 1 /\ \A i \in 1 .. Len(s) - 1 : Front(s)[i] = s[i]
    BY <1>1, FrontProperties
  <1>3. Len(Front(s)) - n <= Len(a)
    BY <1>2 DEF GrowsAlong
  <1>4. ASSUME NEW i \in 1 .. Len(Front(s)) - n PROVE Front(s)[n + i] = a[i]
    <2>1. i \in 1 .. Len(s) - n /\ n + i \in 1 .. Len(s) - 1
      BY <1>2
    <2> QED BY <2>1, <1>2 DEF GrowsAlong
  <1> QED BY <1>3, <1>4 DEF GrowsAlong

(* At the split nothing of the alternative chain is connected.             *)
LEMMA AlongNothing ==
  ASSUME NEW s \in Seq(Block), NEW a \in Seq(Block)
  PROVE  GrowsAlong(s, Len(s), a)
  BY DEF GrowsAlong

(* All of it connected: the chain is its beginning and the alternative chain. *)
LEMMA AlongWhole ==
  ASSUME NEW s \in Seq(Block), NEW t \in Seq(Block), NEW a \in Seq(Block), NEW n \in Nat,
         SameUpTo(s, t, n), GrowsAlong(s, n, a), Len(s) - n = Len(a)
  PROVE  s = SubSeq(t, 1, n) \o a
  <1> DEFINE u == SubSeq(t, 1, n)
             w == u \o a
  <1>1. n <= Len(s) /\ n <= Len(t) /\ n \in 0 .. Len(t)
    BY DEF SameUpTo
  <1>2. u \in Seq(Block)
    BY <1>1, SubSeqType
  <1>3. Len(u) = n
    BY <1>1
  <1>4. \A i \in 1 .. n : u[i] = t[i]
    BY <1>1
  <1> HIDE DEF u
  <1>5. w \in Seq(Block) /\ Len(w) = n + Len(a)
    BY <1>2, <1>3
  <1>6. Len(w) = Len(s)
    BY <1>5
  <1>7. ASSUME NEW i \in 1 .. Len(s) PROVE w[i] = s[i]
    <2>1. CASE i <= n
      <3>1. i \in 1 .. n /\ i \in 1 .. Len(u)
        BY <2>1, <1>3
      <3>2. w[i] = u[i]
        BY <3>1, <1>2
      <3>3. s[i] = t[i]
        BY <3>1 DEF SameUpTo
      <3> QED BY <3>1, <3>2, <3>3, <1>4
    <2>2. CASE n < i
      <3>1. i - n \in 1 .. Len(a) /\ i = n + (i - n) /\ i - n \in 1 .. Len(s) - n
        BY <2>2
      <3>2. w[i] = a[i - n]
        BY <3>1, <1>2, <1>3
      <3>3. s[n + (i - n)] = a[i - n]
        BY <3>1 DEF GrowsAlong
      <3> QED BY <3>1, <3>2, <3>3
    <2>3. i <= n \/ n < i
      OBVIOUS
    <2> HIDE DEF w
    <2> QED BY <2>1, <2>2, <2>3
  <1> HIDE DEF w
  <1>8. s = w
    BY <1>5, <1>6, <1>7
  <1> QED BY <1>8 DEF u, w

(* The chain after a switch ends with the end of the alternative chain.    *)
LEMMA SwitchLast ==
  ASSUME NEW u \in Seq(Block), NEW a \in Seq(Block), a # <<>>
  PROVE  Last(u \o a) = Last(a)
  <1>1. Len(u \o a) = Len(u) + Len(a) /\ Len(a) \in Nat /\ Len(a) > 0 /\ Len(u) \in Nat
    OBVIOUS
  <1>2. (u \o a)[Len(u) + Len(a)] = a[Len(a)]
    BY <1>1
  <1> QED BY <1>1, <1>2 DEF Last

(* A linked block keeps the heights.                                       *)
LEMMA NumberedAppend ==
  ASSUME NEW s \in Seq(Block), NEW b \in Block, s # <<>>, Numbered(s), Prev(b) = Last(s)
  PROVE  Numbered(Append(s, b))
  <1>1. Last(s) \in Block /\ Len(s) \in Nat /\ Len(s) > 0 /\ Last(s) = s[Len(s)]
    BY FrontProperties DEF Last
  <1>2. Height[b] = Height[Last(s)] + 1
    BY <1>1, HeightAssumption
  <1>3. Height[b] = Len(s)
    <2>1. Height[s[Len(s)]] = Len(s) - 1
      BY <1>1 DEF Numbered
    <2> QED BY <2>1, <1>1, <1>2
  <1>4. Len(Append(s, b)) = Len(s) + 1 /\ Append(s, b)[Len(s) + 1] = b
    BY AppendType, AppendLast
  <1>5. ASSUME NEW i \in 1 .. Len(s) + 1 PROVE Height[Append(s, b)[i]] = i - 1
    <2>1. CASE i \in 1 .. Len(s)
      BY <2>1, AppendKeeps DEF Numbered
    <2>2. CASE i = Len(s) + 1
      BY <2>2, <1>1, <1>3, <1>4
    <2> QED BY <2>1, <2>2
  <1> QED BY <1>4, <1>5 DEF Numbered

(* So does the removal of the last block.                                  *)
LEMMA NumberedFront ==
  ASSUME NEW s \in Seq(Block), s # <<>>, Numbered(s)
  PROVE  Numbered(Front(s))
  <1>1. Len(Front(s)) = Len(s) - 1 /\ \A i \in 1 .. Len(s) - 1 : Front(s)[i] = s[i]
    BY FrontProperties
  <1> QED BY <1>1 DEF Numbered

(* A follower that goes back to a block of its chain keeps what is below it.*)
LEMMA UpToNumbered ==
  ASSUME NEW s \in Seq(Block), Numbered(s), NEW n \in 1 .. Len(s)
  PROVE  UpTo(s, s[n]) = SubSeq(s, 1, n)
  <1> DEFINE P(m) == IF \E i \in 1 .. Len(s) : s[i] = s[n] THEN m > 0 /\ s[m] = s[n] ELSE m = 0
  <1>1. \E i \in 1 .. Len(s) : s[i] = s[n]
    OBVIOUS
  <1>2. n \in 0 .. Len(s) /\ P(n)
    BY <1>1
  <1>3. ASSUME NEW m \in 0 .. Len(s), P(m) PROVE m = n
    <2>1. m \in 1 .. Len(s) /\ s[m] = s[n]
      BY <1>1, <1>3
    <2>2. Height[s[m]] = m - 1 /\ Height[s[n]] = n - 1
      BY <2>1 DEF Numbered
    <2> QED BY <2>1, <2>2
  <1>4. PositionOf(s, s[n]) = CHOOSE m \in 0 .. Len(s) : P(m)
    BY DEF PositionOf
  <1> HIDE DEF P
  <1>5. (CHOOSE m \in 0 .. Len(s) : P(m)) = n
    BY <1>2, <1>3
  <1> QED BY <1>4, <1>5 DEF UpTo

-----------------------------------------------------------------------------
(* Steps that leave the main chain and the chains of the switch alone.     *)

(* A step that stays in its phase keeps the shape of the chain.            *)
LEMMA QuietShape ==
  ASSUME ShapeInv,
         UNCHANGED <<m_blocks, before, alt_chain, disconnected_chain, discard>>,
         pc' \notin {"idle", "rebuild"} => pc \notin {"idle", "rebuild"},
         pc' \in {"idle", "rebuild"} => pc \in {"idle", "rebuild"},
         Adding' => Adding, Switching' => Switching, Disconnecting' => Disconnecting,
         Connecting' => Connecting, Readding' => Connected = Len(alt_chain),
         Restoring' => Restoring,
         PushingFor("connect")' => PushingFor("connect") /\ block' = block,
         PushingFor("restore")' => PushingFor("restore") /\ block' = block,
         pc' = "walk" => path' # <<>> /\ Last(path') = block',
         ReturnShape', FollowerShape'
  PROVE  ShapeInv'
  <1>1. HeightShape'
    BY DEF ShapeInv, HeightShape
  <1>2. AddShape'
    BY DEF ShapeInv, AddShape
  <1>3. SplitShape'
    BY DEF ShapeInv, SplitShape, SplitHeight, Heavier
  <1>4. DisconnectShape'
    BY DEF ShapeInv, DisconnectShape
  <1>5. ConnectShape'
    BY DEF ShapeInv, ConnectShape, SplitHeight, Connected
  <1>6. RestoreShape'
    BY DEF ShapeInv, RestoreShape, SplitHeight, Connected
  <1> QED BY <1>1, <1>2, <1>3, <1>4, <1>5, <1>6 DEF ShapeInv

(* The reader of the queue has seen nothing while the operation runs.      *)
LEMMA QuietFollower ==
  ASSUME ShapeInv, UNCHANGED <<m_blocks, before, follower, aborted, panicked>>,
         Resting' <=> Resting, pc' = "rebuild" <=> pc = "rebuild"
  PROVE  FollowerShape'
  BY DEF ShapeInv, FollowerShape

(* An exception ends the operation where it stands.                        *)
LEMMA UnwindShape ==
  ASSUME ShapeInv, pc \notin {"idle", "rebuild"},
         UNCHANGED <<m_blocks, before, alt_chain, disconnected_chain, discard>>,
         pc' = "return", aborted' = TRUE
  PROVE  ShapeInv'
  <1>1. ReturnShape' /\ FollowerShape'
    BY DEF ReturnShape, FollowerShape
  <1> QED BY <1>1, QuietShape DEF Adding, Switching, Disconnecting, Connecting, Readding, Restoring,
               PushingFor, PushPcs

(* pushBlock has refused its block: the operation returns with the chain   *)
(* that it began with, or the switch rolls back, or the rollback fails.    *)
LEMMA RefuseShape ==
  ASSUME ShapeInv, pc \in PushPcs, caller \in {"add", "connect", "restore"},
         UNCHANGED <<m_blocks, before, alt_chain, disconnected_chain, discard, aborted, caller,
                     block>>,
         PushReturns(FALSE)
  PROVE  ShapeInv'
  <1>1. CASE caller = "add"
    <2>1. pc' = "return" /\ UNCHANGED <<follower, panicked>>
      BY <1>1 DEF PushReturns
    <2>2. Adding
      BY <1>1 DEF Adding
    <2>3. m_blocks = before.chain
      BY <2>2 DEF ShapeInv, AddShape
    <2>4. ReturnShape'
      BY <2>3 DEF ReturnShape
    <2>5. ~Resting /\ pc # "rebuild" /\ Resting'
      BY <2>1 DEF Resting, PushPcs
    <2>6. FollowerShape'
      BY <2>1, <2>3, <2>5 DEF ShapeInv, FollowerShape
    <2> QED BY <2>1, <2>4, <2>6, QuietShape DEF Adding, Switching, Disconnecting, Connecting,
                 Readding, Restoring, PushingFor, PushPcs
  <1>2. CASE caller = "connect"
    <2>1. pc' = "unconnect" /\ UNCHANGED <<follower, panicked>>
      BY <1>2 DEF PushReturns
    <2>2. ReturnShape' /\ ~Readding'
      BY <2>1 DEF ReturnShape, Readding
    <2>3. FollowerShape'
      BY <2>1, QuietFollower DEF Resting, PushPcs
    <2> QED BY <1>2, <2>1, <2>2, <2>3, QuietShape DEF Adding, Switching, Disconnecting, Connecting,
                 Restoring, PushingFor, PushPcs
  <1>3. CASE caller = "restore"
    <2>1. pc' = "return" /\ panicked' = TRUE
      BY <1>3 DEF PushReturns
    <2>2. ReturnShape' /\ FollowerShape'
      BY <2>1 DEF ReturnShape, FollowerShape
    <2> QED BY <2>1, <2>2, QuietShape DEF Adding, Switching, Disconnecting, Connecting,
                 Readding, Restoring, PushingFor, PushPcs
  <1> QED BY <1>1, <1>2, <1>3

(* The same with the transactions that go back to the pool first.          *)
LEMMA SaveAndFailShape ==
  ASSUME ShapeInv, pc \in PushPcs, caller \in {"add", "connect", "restore"},
         UNCHANGED m_blocks, SaveAndFail
  PROVE  ShapeInv'
  <1>1. CASE SaveThrows(TxsOf(block))
    <2>1. pc' = "return" /\ aborted' = TRUE /\ UNCHANGED <<before, alt_chain, disconnected_chain, discard>>
      BY <1>1 DEF SaveAndFail, Unwind, switchVars
    <2> QED BY <2>1, UnwindShape DEF PushPcs
  <1>2. CASE ~SaveThrows(TxsOf(block))
    <2>1. PushReturns(FALSE)
          /\ UNCHANGED <<before, alt_chain, disconnected_chain, discard, aborted, caller, block>>
      BY <1>2 DEF SaveAndFail
    <2> QED BY <2>1, RefuseShape
  <1> QED BY <1>1, <1>2

-----------------------------------------------------------------------------
(* pushBlock and popBlock.                                                 *)

(* loadTransactions goes on, fails or throws.                              *)
LEMMA LoadTransactionsShape ==
  ASSUME ShapeInv, CallerInv, LoadTransactions
  PROVE  ShapeInv'
  <1>1. pc = "load" /\ pc \in PushPcs /\ caller \in {"add", "connect", "restore"}
    BY DEF LoadTransactions, CallerInv, PushPcs
  <1>2. UNCHANGED <<m_blocks, before, alt_chain, disconnected_chain, discard, caller, block>>
    BY DEF LoadTransactions, chainVars
  <1>3. \/ pc' = "check" /\ UNCHANGED <<aborted, follower, panicked>>
        \/ PushReturns(FALSE) /\ UNCHANGED aborted
        \/ pc' = "return" /\ aborted' = TRUE
    BY DEF LoadTransactions
  <1>4. CASE pc' = "check" /\ UNCHANGED <<aborted, follower, panicked>>
    <2>1. ReturnShape' /\ ~Readding'
      BY <1>4 DEF ReturnShape, Readding
    <2>2. FollowerShape'
      BY <1>1, <1>2, <1>4, QuietFollower DEF Resting
    <2> QED BY <1>1, <1>2, <1>4, <2>1, <2>2, QuietShape DEF Adding, Switching, Disconnecting,
                 Connecting, Restoring, PushingFor, PushPcs
  <1>5. CASE PushReturns(FALSE) /\ UNCHANGED aborted
    BY <1>1, <1>2, <1>5, RefuseShape
  <1>6. CASE pc' = "return" /\ aborted' = TRUE
    BY <1>1, <1>2, <1>6, UnwindShape
  <1> QED BY <1>3, <1>4, <1>5, <1>6

(* The tests of the block go on or fail.                                   *)
LEMMA CheckBlockShape ==
  ASSUME ShapeInv, CallerInv, CheckBlock
  PROVE  ShapeInv'
  <1>1. pc = "check" /\ pc \in PushPcs /\ caller \in {"add", "connect", "restore"}
    BY DEF CheckBlock, CallerInv, PushPcs
  <1>2. UNCHANGED m_blocks
    BY DEF CheckBlock, chainVars
  <1>3. CASE BlockValid(block)
    <2>1. /\ pc' = "tx"
          /\ UNCHANGED <<before, alt_chain, disconnected_chain, discard, caller, block>>
          /\ UNCHANGED <<aborted, follower, panicked>>
      BY <1>3 DEF CheckBlock, switchVars
    <2>2. ReturnShape' /\ ~Readding'
      BY <2>1 DEF ReturnShape, Readding
    <2>3. FollowerShape'
      BY <1>1, <1>2, <2>1, QuietFollower DEF Resting
    <2> QED BY <1>1, <1>2, <2>1, <2>2, <2>3, QuietShape DEF Adding, Switching, Disconnecting,
                 Connecting, Restoring, PushingFor, PushPcs
  <1>4. CASE ~BlockValid(block)
    <2>1. SaveAndFail
      BY <1>4 DEF CheckBlock
    <2> QED BY <1>1, <1>2, <2>1, SaveAndFailShape
  <1> QED BY <1>3, <1>4

(* A transaction enters the indexes, or is refused.                        *)
LEMMA PushNextTransactionShape ==
  ASSUME ShapeInv, CallerInv, PushNextTransaction
  PROVE  ShapeInv'
  <1>1. pc = "tx" /\ caller \in {"add", "connect", "restore"}
    BY DEF PushNextTransaction, CallerInv
  <1>2. UNCHANGED <<m_blocks, before, alt_chain, disconnected_chain, discard, caller, block>>
    BY DEF PushNextTransaction, chainVars, switchVars, Unwind
  <1>3. \/ pc' \in {"tx", "undo"} /\ UNCHANGED <<aborted, follower, panicked>>
        \/ pc' = "return" /\ aborted' = TRUE
    BY <1>1 DEF PushNextTransaction, Unwind
  <1>4. CASE pc' \in {"tx", "undo"} /\ UNCHANGED <<aborted, follower, panicked>>
    <2>1. ReturnShape' /\ ~Readding'
      BY <1>4 DEF ReturnShape, Readding
    <2>2. FollowerShape'
      BY <1>1, <1>2, <1>4, QuietFollower DEF Resting
    <2> QED BY <1>1, <1>2, <1>4, <2>1, <2>2, QuietShape DEF Adding, Switching, Disconnecting,
                 Connecting, Restoring, PushingFor, PushPcs
  <1>5. CASE pc' = "return" /\ aborted' = TRUE
    BY <1>1, <1>2, <1>5, UnwindShape
  <1> QED BY <1>3, <1>4, <1>5

(* A transaction leaves the indexes.                                       *)
LEMMA UndoTransactionShape ==
  ASSUME ShapeInv, UndoTransaction
  PROVE  ShapeInv'
  <1>1. /\ pc = "undo" /\ pc' = pc
        /\ UNCHANGED <<m_blocks, before, alt_chain, disconnected_chain, discard, caller, block>>
        /\ UNCHANGED <<aborted, follower, panicked>>
    BY DEF UndoTransaction, chainVars, switchVars, historyVars
  <1>2. ReturnShape' /\ ~Readding'
    BY <1>1 DEF ReturnShape, Readding
  <1>3. FollowerShape'
    BY <1>1, QuietFollower DEF Resting
  <1> QED BY <1>1, <1>2, <1>3, QuietShape DEF Adding, Switching, Disconnecting,
               Connecting, Restoring, PushingFor, PushPcs

(* popBlock starts.                                                        *)
LEMMA StartPopShape ==
  ASSUME ShapeInv, StartPop
  PROVE  ShapeInv'
  <1>1. /\ pc \in {"disconnect", "unconnect"}
        /\ UNCHANGED <<m_blocks, before, alt_chain, disconnected_chain, discard>>
    BY DEF StartPop, chainVars, switchVars, Unwind
  <1>2. \/ pc' = "undo" /\ caller' = pc /\ UNCHANGED <<aborted, follower, panicked>>
        \/ pc' = "return" /\ aborted' = TRUE
    BY DEF StartPop, Unwind
  <1>3. CASE pc' = "undo" /\ caller' = pc /\ UNCHANGED <<aborted, follower, panicked>>
    <2>1. ReturnShape' /\ ~Readding'
      BY <1>3 DEF ReturnShape, Readding
    <2>2. FollowerShape'
      BY <1>1, <1>3, QuietFollower DEF Resting
    <2> QED BY <1>1, <1>3, <2>1, <2>2, QuietShape DEF Adding, Switching, Disconnecting,
                 Connecting, Restoring, PushingFor, PushPcs
  <1>4. CASE pc' = "return" /\ aborted' = TRUE
    BY <1>1, <1>4, UnwindShape
  <1> QED BY <1>2, <1>3, <1>4

(* pushBlock appends the block, to the chain that addNewBlock began with   *)
(* or as the next one of the switch or of its rollback.                    *)
LEMMA AppendShape ==
  ASSUME TypeOK, Control, ShapeInv, pc = "tx", PushEntry(block), PushReturns(TRUE),
         UNCHANGED <<before, alt_chain, disconnected_chain, discard, aborted, caller, block>>
  PROVE  ShapeInv'
  <1>1. /\ m_blocks \in Seq(Block) /\ m_blocks # <<>> /\ block \in Block
        /\ before.chain \in Seq(Block) /\ alt_chain \in Seq(Block)
        /\ disconnected_chain \in Seq(Block) /\ Prev(block) = Last(m_blocks)
    BY DEF TypeOK, ChainTypeOK, LocalTypeOK, HistoryTypeOK, Control, LinkInv, ChainLinked
  <1>2. m_blocks' = Append(m_blocks, block)
    BY DEF PushEntry
  <1>3. Len(m_blocks') = Len(m_blocks) + 1
    BY <1>1, <1>2, AppendType
  <1>4. HeightShape'
    <2>1. Numbered(m_blocks')
      BY <1>1, <1>2, NumberedAppend DEF ShapeInv, HeightShape
    <2> QED BY <2>1 DEF ShapeInv, HeightShape
  <1>5. CASE caller = "add"
    <2>1. pc' = "return" /\ follower' = Append(follower, block) /\ UNCHANGED panicked
      BY <1>5 DEF PushReturns
    <2>2. m_blocks = before.chain
      BY <1>5 DEF ShapeInv, AddShape, Adding, PushPcs
    <2>3. Heavier(block)
      <3>1. Prev(block) \in Block
        BY <1>1, FrontProperties
      <3> QED BY <3>1, <1>1, <2>2, HeightAssumption DEF Heavier
    <2>4. ReturnShape'
      BY <1>2, <2>2, <2>3 DEF ReturnShape, Heavier
    <2>5. ~Resting /\ pc # "rebuild" /\ Resting'
      BY <2>1 DEF Resting
    <2>6. FollowerShape'
      BY <1>2, <2>1, <2>2, <2>5 DEF ShapeInv, FollowerShape
    <2>7. ~Adding' /\ ~Switching' /\ ~Disconnecting' /\ ~Connecting' /\ ~Readding' /\ ~Restoring'
          /\ ~PushingFor("connect")' /\ ~PushingFor("restore")' /\ pc' # "idle" /\ pc' # "rebuild"
          /\ pc' # "walk"
      BY <2>1 DEF Adding, Switching, Disconnecting, Connecting, Readding, Restoring, PushingFor, PushPcs
    <2>8. AddShape' /\ SplitShape' /\ DisconnectShape' /\ ConnectShape' /\ RestoreShape'
      BY <2>7 DEF AddShape, SplitShape, DisconnectShape, ConnectShape, RestoreShape
    <2> QED BY <1>4, <2>4, <2>6, <2>8 DEF ShapeInv
  <1>6. CASE caller = "connect"
    <2>1. pc' = "connect" /\ UNCHANGED <<follower, panicked>>
      BY <1>6 DEF PushReturns
    <2>2. PushingFor("connect") /\ Connecting /\ Switching
      BY <1>6 DEF PushingFor, Connecting, PushPcs, Switching
    <2>3. SplitHeight' = SplitHeight /\ SplitHeight \in Nat /\ SplitHeight <= Len(m_blocks)
      BY <2>2, SplitHeightType DEF SplitHeight, Control, SwitchInv, TypeOK
    <2>4. SameUpTo(m_blocks', before'.chain, SplitHeight')
      BY <1>1, <1>2, <2>2, <2>3, SameAppend DEF ShapeInv, ConnectShape
    <2>5. GrowsAlong(m_blocks', SplitHeight', alt_chain')
      <3>1. (Len(m_blocks) - SplitHeight) + 1 \in DOMAIN alt_chain
            /\ block = alt_chain[(Len(m_blocks) - SplitHeight) + 1]
            /\ GrowsAlong(m_blocks, SplitHeight, alt_chain)
        BY <2>2 DEF ShapeInv, ConnectShape, Connected
      <3> QED BY <1>1, <1>2, <2>3, <3>1, AlongAppend
    <2>6. RestAbove(disconnected_chain', before'.chain, SplitHeight')
      BY <2>2, <2>3 DEF ShapeInv, ConnectShape
    <2>7. ConnectShape'
      BY <2>1, <2>4, <2>5, <2>6 DEF ConnectShape, Readding, PushingFor, PushPcs
    <2>8. SplitShape'
      BY <2>2, <2>3 DEF ShapeInv, SplitShape, Heavier
    <2>9. AddShape' /\ DisconnectShape' /\ RestoreShape' /\ ReturnShape'
      BY <2>1 DEF AddShape, Adding, DisconnectShape, Disconnecting, RestoreShape, Restoring,
                  PushingFor, PushPcs, ReturnShape
    <2>10. FollowerShape'
      BY <2>1 DEF ShapeInv, FollowerShape, Resting
    <2> QED BY <1>4, <2>7, <2>8, <2>9, <2>10 DEF ShapeInv
  <1>7. CASE caller = "restore"
    <2>1. pc' = "restore" /\ UNCHANGED <<follower, panicked>>
      BY <1>7 DEF PushReturns
    <2>2. PushingFor("restore") /\ Restoring /\ Switching
      BY <1>7 DEF PushingFor, Restoring, PushPcs, Switching
    <2>3. SplitHeight' = SplitHeight /\ SplitHeight \in Nat /\ SplitHeight <= Len(m_blocks)
      BY <2>2, SplitHeightType DEF SplitHeight, Control, SwitchInv, TypeOK
    <2>4. RestAbove(disconnected_chain', before'.chain, SplitHeight')
      BY <2>2, <2>3 DEF ShapeInv, RestoreShape
    <2>5. Len(m_blocks) < Len(before.chain) /\ block = before.chain[Len(m_blocks) + 1]
      <3> DEFINE k == (Len(m_blocks) - SplitHeight) + 1
      <3>1. k \in DOMAIN disconnected_chain /\ block = disconnected_chain[k]
            /\ RestAbove(disconnected_chain, before.chain, SplitHeight)
        BY <2>2 DEF ShapeInv, RestoreShape, Connected
      <3>2. k \in 1 .. Len(disconnected_chain) /\ SplitHeight + k = Len(m_blocks) + 1
        BY <1>1, <2>3, <3>1
      <3> HIDE DEF k
      <3>3. block = before.chain[SplitHeight + k]
            /\ Len(disconnected_chain) = Len(before.chain) - SplitHeight
        BY <3>1, <3>2 DEF RestAbove
      <3>4. Len(m_blocks) + 1 <= Len(before.chain)
        BY <1>1, <2>3, <3>2, <3>3 DEF k
      <3> QED BY <1>1, <3>2, <3>3, <3>4
    <2>6. SameUpTo(m_blocks', before'.chain, Len(m_blocks'))
      BY <1>1, <1>2, <2>2, <2>5, SameGrows DEF ShapeInv, RestoreShape
    <2>7. RestoreShape'
      BY <2>1, <2>4, <2>6 DEF RestoreShape, PushingFor, PushPcs
    <2>8. SplitShape'
      BY <2>2, <2>3 DEF ShapeInv, SplitShape, Heavier
    <2>9. AddShape' /\ DisconnectShape' /\ ConnectShape' /\ ReturnShape'
      BY <2>1 DEF AddShape, Adding, DisconnectShape, Disconnecting, ConnectShape, Connecting,
                  Readding, PushingFor, PushPcs, ReturnShape
    <2>10. FollowerShape'
      BY <2>1 DEF ShapeInv, FollowerShape, Resting
    <2> QED BY <1>4, <2>7, <2>8, <2>9, <2>10 DEF ShapeInv
  <1>8. caller \in {"add", "connect", "restore"}
    BY DEF Control, CallerInv
  <1> QED BY <1>5, <1>6, <1>7, <1>8

(* pushBlock ends: the block is refused, undone or appended.               *)
LEMMA FinishPushShape ==
  ASSUME TypeOK, Control, ShapeInv, FinishPush
  PROVE  ShapeInv'
  <1>1. pc = "tx" /\ pc \in PushPcs /\ caller \in {"add", "connect", "restore"}
    BY DEF FinishPush, PushPcs, Control, CallerInv
  <1>2. CASE ~BlockSizeOk(block)
    <2>1. SaveAndFail /\ UNCHANGED m_blocks
      BY <1>2 DEF FinishPush, chainVars
    <2> QED BY <1>1, <2>1, SaveAndFailShape
  <1>3. CASE BlockSizeOk(block) /\ ~BlockInfo[block].reward
    <2>1. /\ pc' = "undo"
          /\ UNCHANGED <<m_blocks, before, alt_chain, disconnected_chain, discard, caller, block>>
          /\ UNCHANGED <<aborted, follower, panicked>>
      BY <1>3 DEF FinishPush, chainVars, switchVars
    <2>2. ReturnShape' /\ ~Readding'
      BY <2>1 DEF ReturnShape, Readding
    <2>3. FollowerShape'
      BY <1>1, <2>1, QuietFollower DEF Resting
    <2> QED BY <1>1, <2>1, <2>2, <2>3, QuietShape DEF Adding, Switching, Disconnecting,
                 Connecting, Restoring, PushingFor, PushPcs
  <1>4. CASE BlockSizeOk(block) /\ BlockInfo[block].reward
    <2>1. /\ PushEntry(block) /\ PushReturns(TRUE)
          /\ UNCHANGED <<before, alt_chain, disconnected_chain, discard, aborted, caller, block>>
      BY <1>4 DEF FinishPush
    <2> QED BY <1>1, <2>1, AppendShape
  <1> QED BY <1>2, <1>3, <1>4

(* pushBlock fails after it undid its transactions, or popBlock removes a  *)
(* block of the old chain or of the alternative chain.                     *)
LEMMA FinishUndoShape ==
  ASSUME TypeOK, Control, ShapeInv, FinishUndo
  PROVE  ShapeInv'
  <1>1. CASE caller \in {"add", "connect", "restore"}
    <2>1. SaveAndFail /\ UNCHANGED m_blocks /\ pc \in PushPcs
      BY <1>1 DEF FinishUndo, chainVars, PushPcs
    <2> QED BY <1>1, <2>1, SaveAndFailShape
  <1>2. CASE caller \in {"disconnect", "unconnect"}
    <2>1. /\ pc = "undo" /\ pc' = caller /\ m_blocks' = Front(m_blocks)
          /\ disconnected_chain' = IF caller = "disconnect" THEN <<block>> \o disconnected_chain
                                   ELSE disconnected_chain
          /\ UNCHANGED <<before, alt_chain, discard, caller, block>>
          /\ UNCHANGED <<aborted, follower, panicked>>
      BY <1>2 DEF FinishUndo, PopEntry
    <2>2. /\ m_blocks \in Seq(Block) /\ m_blocks # <<>> /\ block \in Block
          /\ before.chain \in Seq(Block) /\ alt_chain \in Seq(Block)
          /\ disconnected_chain \in Seq(Block)
      BY DEF TypeOK, ChainTypeOK, LocalTypeOK, HistoryTypeOK, Control, LinkInv, ChainLinked
    <2>3. Popping /\ Switching
      BY <1>2, <2>1 DEF Popping, Switching
    <2>4. /\ SplitHeight' = SplitHeight /\ SplitHeight \in Nat /\ SplitHeight < Len(m_blocks)
          /\ block = Last(m_blocks)
      BY <2>1, <2>3, SplitHeightType DEF SplitHeight, Control, SwitchInv, TypeOK
    <2>5. HeightShape'
      <3>1. Numbered(m_blocks')
        BY <2>1, <2>2, NumberedFront DEF ShapeInv, HeightShape
      <3>2. pc \notin {"idle", "rebuild"}
        BY <2>1
      <3> QED BY <2>1, <3>1, <3>2 DEF ShapeInv, HeightShape
    <2>6. SplitShape'
      BY <2>1, <2>3, <2>4 DEF ShapeInv, SplitShape, Heavier
    <2>7. AddShape' /\ RestoreShape' /\ ReturnShape'
      BY <1>2, <2>1 DEF AddShape, Adding, RestoreShape, Restoring, PushingFor, PushPcs, ReturnShape
    <2>8. FollowerShape'
      BY <1>2, <2>1 DEF ShapeInv, FollowerShape, Resting
    <2>9. DisconnectShape' /\ ConnectShape'
      <3>1. CASE caller = "disconnect"
        <4>1. /\ SameUpTo(m_blocks, before.chain, Len(m_blocks))
              /\ RestAbove(disconnected_chain, before.chain, Len(m_blocks))
          BY <3>1, <2>1 DEF ShapeInv, DisconnectShape, Disconnecting
        <4>2. RestAbove(disconnected_chain', before'.chain, Len(m_blocks'))
          BY <3>1, <2>1, <2>2, <2>4, <4>1, RestGrows
        <4>3. Len(m_blocks') = Len(m_blocks) - 1 /\ Len(m_blocks) \in Nat /\ Len(m_blocks) > 0
          BY <2>1, <2>2, FrontProperties
        <4>4. SameUpTo(m_blocks, before.chain, Len(m_blocks) - 1)
          BY <2>2, <4>1, <4>3, SameLower
        <4>5. SameUpTo(m_blocks', before'.chain, Len(m_blocks'))
          BY <2>1, <2>2, <4>3, <4>4, SameFront
        <4>6. ConnectShape'
          BY <3>1, <2>1 DEF ConnectShape, Connecting, Readding, PushingFor, PushPcs
        <4> QED BY <4>2, <4>5, <4>6 DEF DisconnectShape
      <3>2. CASE caller = "unconnect"
        <4>1. /\ SameUpTo(m_blocks, before.chain, SplitHeight)
              /\ RestAbove(disconnected_chain, before.chain, SplitHeight)
              /\ GrowsAlong(m_blocks, SplitHeight, alt_chain)
          BY <3>2, <2>1 DEF ShapeInv, ConnectShape, Connecting
        <4>2. SameUpTo(m_blocks', before'.chain, SplitHeight')
          BY <2>1, <2>2, <2>4, <4>1, SameFront
        <4>3. GrowsAlong(m_blocks', SplitHeight', alt_chain')
          BY <2>1, <2>2, <2>4, <4>1, AlongFront
        <4>4. RestAbove(disconnected_chain', before'.chain, SplitHeight')
          BY <3>2, <2>1, <2>4, <4>1
        <4>5. ~Readding' /\ ~PushingFor("connect")' /\ ~Disconnecting'
          BY <3>2, <2>1 DEF Readding, PushingFor, Disconnecting, PushPcs
        <4> QED BY <4>2, <4>3, <4>4, <4>5 DEF ConnectShape, DisconnectShape
      <3> QED BY <1>2, <3>1, <3>2
    <2> QED BY <2>5, <2>6, <2>7, <2>8, <2>9 DEF ShapeInv
  <1>3. caller \in {"add", "connect", "restore"} \/ caller \in {"disconnect", "unconnect"}
    BY DEF FinishUndo
  <1> QED BY <1>1, <1>2, <1>3

-----------------------------------------------------------------------------
(* The switch and its rollback.                                            *)

(* The old blocks are off: the chain ends at the split.                    *)
LEMMA StartConnectShape ==
  ASSUME TypeOK, Control, ShapeInv, StartConnect
  PROVE  ShapeInv'
  <1>1. /\ pc = "disconnect" /\ pc' = "connect" /\ Connected = 0
        /\ UNCHANGED <<m_blocks, before, alt_chain, disconnected_chain, discard>>
        /\ UNCHANGED <<aborted, follower, panicked>>
    BY DEF StartConnect, chainVars, switchVars, historyVars
  <1>2. Switching /\ Disconnecting
    BY <1>1 DEF Switching, Disconnecting
  <1>3. m_blocks \in Seq(Block) /\ alt_chain \in Seq(Block)
    BY DEF TypeOK, ChainTypeOK, LocalTypeOK
  <1>4. SplitHeight' = SplitHeight /\ SplitHeight \in Nat /\ SplitHeight = Len(m_blocks)
    <2>1. SplitHeight \in Nat
      BY <1>2, SplitHeightType DEF Control, SwitchInv, TypeOK
    <2> QED BY <1>1, <1>3, <2>1 DEF SplitHeight, Connected
  <1>5. ConnectShape'
    <2>1. /\ SameUpTo(m_blocks', before'.chain, SplitHeight')
          /\ RestAbove(disconnected_chain', before'.chain, SplitHeight')
      BY <1>1, <1>2, <1>4 DEF ShapeInv, DisconnectShape
    <2>2. GrowsAlong(m_blocks', SplitHeight', alt_chain')
      BY <1>1, <1>3, <1>4, AlongNothing
    <2>3. ~Readding' /\ ~PushingFor("connect")'
      BY <1>1 DEF Readding, PushingFor, PushPcs
    <2> QED BY <2>1, <2>2, <2>3 DEF ConnectShape
  <1>6. HeightShape'
    BY <1>1 DEF ShapeInv, HeightShape
  <1>7. SplitShape'
    BY <1>1, <1>2, <1>4 DEF ShapeInv, SplitShape, Heavier
  <1>8. AddShape' /\ DisconnectShape' /\ RestoreShape' /\ ReturnShape'
    BY <1>1 DEF AddShape, Adding, DisconnectShape, Disconnecting, RestoreShape, Restoring,
                PushingFor, PushPcs, ReturnShape
  <1>9. FollowerShape'
    BY <1>1, QuietFollower DEF Resting
  <1> QED BY <1>5, <1>6, <1>7, <1>8, <1>9 DEF ShapeInv

(* The next block of the alternative chain.                                *)
LEMMA ConnectNextShape ==
  ASSUME ShapeInv, ConnectNext
  PROVE  ShapeInv'
  <1>1. /\ pc = "connect" /\ pc' = "load" /\ caller' = "connect"
        /\ Connected + 1 \in DOMAIN alt_chain /\ block' = alt_chain[Connected + 1]
        /\ UNCHANGED <<m_blocks, before, alt_chain, disconnected_chain, discard>>
        /\ UNCHANGED <<aborted, follower, panicked>>
    BY DEF ConnectNext, StartPush, chainVars, historyVars
  <1>2. Switching /\ Connecting
    BY <1>1 DEF Switching, Connecting
  <1>3. SplitHeight' = SplitHeight /\ Connected' = Connected
    BY <1>1 DEF SplitHeight, Connected
  <1>4. ConnectShape'
    <2>1. ~Readding'
      BY <1>1 DEF Readding
    <2> QED BY <1>1, <1>2, <1>3, <2>1 DEF ShapeInv, ConnectShape
  <1>5. HeightShape'
    BY <1>1 DEF ShapeInv, HeightShape
  <1>6. SplitShape'
    BY <1>1, <1>2, <1>3 DEF ShapeInv, SplitShape, Heavier
  <1>7. AddShape' /\ DisconnectShape' /\ RestoreShape' /\ ReturnShape'
    BY <1>1 DEF AddShape, Adding, DisconnectShape, Disconnecting, RestoreShape, Restoring,
                PushingFor, PushPcs, ReturnShape
  <1>8. FollowerShape'
    BY <1>1, QuietFollower DEF Resting
  <1> QED BY <1>4, <1>5, <1>6, <1>7, <1>8 DEF ShapeInv

(* The whole alternative chain is connected.                               *)
LEMMA FinishConnectShape ==
  ASSUME ShapeInv, FinishConnect
  PROVE  ShapeInv'
  <1>1. /\ pc = "connect" /\ pc' = "realt" /\ Connected = Len(alt_chain)
        /\ UNCHANGED <<m_blocks, before, alt_chain, disconnected_chain, discard, caller, block>>
        /\ UNCHANGED <<aborted, follower, panicked>>
    BY DEF FinishConnect, chainVars, historyVars
  <1>2. ReturnShape'
    BY <1>1 DEF ReturnShape
  <1>3. FollowerShape'
    BY <1>1, QuietFollower DEF Resting
  <1> QED BY <1>1, <1>2, <1>3, QuietShape DEF Adding, Switching, Disconnecting, Connecting,
               Readding, Restoring, PushingFor, PushPcs

(* An old block is offered as an alternative block, or refused.            *)
LEMMA ReaddNextShape ==
  ASSUME ShapeInv, ReaddNext
  PROVE  ShapeInv'
  <1>1. /\ pc = "realt"
        /\ UNCHANGED <<m_blocks, before, alt_chain, disconnected_chain, discard>>
        /\ UNCHANGED <<aborted, follower, panicked>>
    BY DEF ReaddNext, chainVars, switchVars, historyVars, RefuseReadded
  <1>2. \/ pc' = "walk" /\ caller' = "realt" /\ path' = <<block'>>
        \/ pc' = "unconnect"
    BY DEF ReaddNext, RefuseReadded
  <1>3. Connected = Len(alt_chain)
    BY <1>1 DEF ShapeInv, ConnectShape, Readding
  <1>4. ReturnShape'
    BY <1>2 DEF ReturnShape
  <1>5. FollowerShape'
    BY <1>1, <1>2, QuietFollower DEF Resting
  <1>6. pc' = "walk" => path' # <<>> /\ Last(path') = block'
    <2>1. <<block'>> # <<>> /\ Len(<<block'>>) = 1 /\ <<block'>>[1] = block'
      OBVIOUS
    <2>2. Last(<<block'>>) = block'
      BY <2>1 DEF Last
    <2> QED BY <1>2, <2>1, <2>2
  <1> QED BY <1>1, <1>2, <1>3, <1>4, <1>5, <1>6, QuietShape DEF Adding, Switching, Disconnecting,
               Connecting, Readding, Restoring, PushingFor, PushPcs

(* The switch is complete: the chain is the one that its message tells.    *)
LEMMA FinishSwitchShape ==
  ASSUME TypeOK, Control, ShapeInv, FinishSwitch
  PROVE  ShapeInv'
  <1>1. /\ pc = "realt" /\ pc' = "return" /\ follower' = FollowerAfterSwitch
        /\ UNCHANGED <<m_blocks, before, alt_chain, disconnected_chain, discard>>
        /\ UNCHANGED <<aborted, panicked>>
    BY DEF FinishSwitch, chainVars, switchVars, historyVars
  <1>2. Switching /\ Connecting /\ Readding
    BY <1>1 DEF Switching, Connecting, Readding
  <1>3. /\ m_blocks \in Seq(Block) /\ before.chain \in Seq(Block) /\ alt_chain \in Seq(Block)
        /\ alt_chain # <<>> /\ alt_chain[1] \in Block /\ alt_chain[1] # Genesis
    BY <1>2 DEF TypeOK, ChainTypeOK, LocalTypeOK, HistoryTypeOK, Control, SwitchInv
  <1>4. SplitHeight' = SplitHeight /\ SplitHeight \in 1 .. Len(before.chain)
        /\ before.chain[SplitHeight] = Prev(alt_chain[1])
    <2>1. SplitHeight \in Nat /\ SplitHeight > 0
      BY <1>3, HeightAssumption DEF SplitHeight
    <2>2. SplitHeight < Len(before.chain) /\ before.chain[SplitHeight] = Prev(alt_chain[1])
      BY <1>2 DEF ShapeInv, SplitShape
    <2> QED BY <1>1, <1>3, <2>1, <2>2 DEF SplitHeight
  <1>5. m_blocks = SubSeq(before.chain, 1, SplitHeight) \o alt_chain
    <2>1. /\ SameUpTo(m_blocks, before.chain, SplitHeight)
          /\ GrowsAlong(m_blocks, SplitHeight, alt_chain)
          /\ Len(m_blocks) - SplitHeight = Len(alt_chain)
      BY <1>2 DEF ShapeInv, ConnectShape, Connected
    <2>2. SplitHeight \in Nat
      BY <1>4
    <2> QED BY <1>3, <2>1, <2>2, AlongWhole
  <1>6. ReturnShape'
    <2>1. discard \/ Heavier(Last(alt_chain))
      BY <1>2 DEF ShapeInv, SplitShape
    <2> QED BY <1>1, <1>3, <1>4, <1>5, <2>1 DEF ReturnShape, Heavier
  <1>7. FollowerShape'
    <2>1. CASE aborted \/ panicked
      BY <1>1, <2>1 DEF FollowerShape
    <2>2. CASE ~aborted /\ ~panicked
      <3>1. follower = before.chain
        BY <1>1, <2>2 DEF ShapeInv, FollowerShape, Resting
      <3>2. Numbered(before.chain)
        BY <1>1 DEF ShapeInv, HeightShape
      <3>3. UpTo(before.chain, before.chain[SplitHeight]) = SubSeq(before.chain, 1, SplitHeight)
        BY <1>3, <1>4, <3>2, UpToNumbered
      <3>4. follower' = m_blocks'
        BY <1>1, <1>4, <1>5, <3>1, <3>3 DEF FollowerAfterSwitch
      <3> QED BY <1>1, <3>4 DEF FollowerShape, Resting
    <2> QED BY <2>1, <2>2
  <1> QED BY <1>1, <1>6, <1>7, QuietShape DEF Adding, Switching, Disconnecting, Connecting,
               Readding, Restoring, PushingFor, PushPcs

(* The new blocks are off again.                                           *)
LEMMA StartRestoreShape ==
  ASSUME TypeOK, Control, ShapeInv, StartRestore
  PROVE  ShapeInv'
  <1>1. /\ pc = "unconnect" /\ pc' = "restore" /\ Connected = 0
        /\ UNCHANGED <<m_blocks, before, alt_chain, disconnected_chain, discard>>
        /\ UNCHANGED <<aborted, follower, panicked>>
    BY DEF StartRestore, chainVars, switchVars, historyVars
  <1>2. Switching /\ Connecting
    BY <1>1 DEF Switching, Connecting
  <1>3. m_blocks \in Seq(Block) /\ alt_chain \in Seq(Block)
    BY DEF TypeOK, ChainTypeOK, LocalTypeOK
  <1>4. SplitHeight' = SplitHeight /\ SplitHeight \in Nat /\ SplitHeight = Len(m_blocks)
    <2>1. SplitHeight \in Nat
      BY <1>2, SplitHeightType DEF Control, SwitchInv, TypeOK
    <2> QED BY <1>1, <1>3, <2>1 DEF SplitHeight, Connected
  <1>5. RestoreShape'
    <2>1. /\ SameUpTo(m_blocks', before'.chain, Len(m_blocks'))
          /\ RestAbove(disconnected_chain', before'.chain, SplitHeight')
      BY <1>1, <1>2, <1>4 DEF ShapeInv, ConnectShape
    <2>2. ~PushingFor("restore")'
      BY <1>1 DEF PushingFor, PushPcs
    <2> QED BY <2>1, <2>2 DEF RestoreShape
  <1>6. HeightShape'
    BY <1>1 DEF ShapeInv, HeightShape
  <1>7. SplitShape'
    BY <1>1, <1>2, <1>4 DEF ShapeInv, SplitShape, Heavier
  <1>8. AddShape' /\ DisconnectShape' /\ ConnectShape' /\ ReturnShape'
    BY <1>1 DEF AddShape, Adding, DisconnectShape, Disconnecting, ConnectShape, Connecting,
                Readding, PushingFor, PushPcs, ReturnShape
  <1>9. FollowerShape'
    BY <1>1, QuietFollower DEF Resting
  <1> QED BY <1>5, <1>6, <1>7, <1>8, <1>9 DEF ShapeInv

(* The next block of the old chain.                                        *)
LEMMA RestoreNextShape ==
  ASSUME ShapeInv, RestoreNext
  PROVE  ShapeInv'
  <1>1. /\ pc = "restore" /\ pc' = "load" /\ caller' = "restore"
        /\ Connected + 1 \in DOMAIN disconnected_chain
        /\ block' = disconnected_chain[Connected + 1]
        /\ UNCHANGED <<m_blocks, before, alt_chain, disconnected_chain, discard>>
        /\ UNCHANGED <<aborted, follower, panicked>>
    BY DEF RestoreNext, StartPush, chainVars, historyVars
  <1>2. Switching /\ Restoring
    BY <1>1 DEF Switching, Restoring
  <1>3. SplitHeight' = SplitHeight /\ Connected' = Connected
    BY <1>1 DEF SplitHeight, Connected
  <1>4. RestoreShape'
    BY <1>1, <1>2, <1>3 DEF ShapeInv, RestoreShape
  <1>5. HeightShape'
    BY <1>1 DEF ShapeInv, HeightShape
  <1>6. SplitShape'
    BY <1>1, <1>2, <1>3 DEF ShapeInv, SplitShape, Heavier
  <1>7. AddShape' /\ DisconnectShape' /\ ConnectShape' /\ ReturnShape'
    BY <1>1 DEF AddShape, Adding, DisconnectShape, Disconnecting, ConnectShape, Connecting,
                Readding, PushingFor, PushPcs, ReturnShape
  <1>8. FollowerShape'
    BY <1>1, QuietFollower DEF Resting
  <1> QED BY <1>4, <1>5, <1>6, <1>7, <1>8 DEF ShapeInv

(* The rollback is complete: the chain is the one the operation began with.*)
LEMMA FinishRestoreShape ==
  ASSUME TypeOK, Control, ShapeInv, FinishRestore
  PROVE  ShapeInv'
  <1>1. /\ pc = "restore" /\ pc' = "return" /\ Connected = Len(disconnected_chain)
        /\ UNCHANGED <<m_blocks, before, alt_chain, disconnected_chain, discard>>
        /\ UNCHANGED <<aborted, follower, panicked>>
    BY DEF FinishRestore, chainVars, switchVars, historyVars
  <1>2. Switching /\ Restoring
    BY <1>1 DEF Switching, Restoring
  <1>3. m_blocks \in Seq(Block) /\ before.chain \in Seq(Block)
    BY DEF TypeOK, ChainTypeOK, HistoryTypeOK
  <1>4. m_blocks = before.chain
    <2>1. SplitHeight \in Nat
      BY <1>2, SplitHeightType DEF Control, SwitchInv, TypeOK
    <2>2. /\ SameUpTo(m_blocks, before.chain, Len(m_blocks))
          /\ RestAbove(disconnected_chain, before.chain, SplitHeight)
      BY <1>2 DEF ShapeInv, RestoreShape
    <2>3. Len(m_blocks) - SplitHeight = Len(before.chain) - SplitHeight
      BY <1>1, <2>2 DEF Connected, RestAbove
    <2>4. Len(m_blocks) = Len(before.chain)
      BY <1>3, <2>1, <2>3
    <2> QED BY <1>3, <2>2, <2>4, SameWhole
  <1>5. ReturnShape'
    BY <1>1, <1>4 DEF ReturnShape
  <1>6. FollowerShape'
    BY <1>1, <1>4 DEF ShapeInv, FollowerShape, Resting
  <1> QED BY <1>1, <1>5, <1>6, QuietShape DEF Adding, Switching, Disconnecting, Connecting,
               Readding, Restoring, PushingFor, PushPcs

-----------------------------------------------------------------------------
(* handle_alternative_block.                                               *)

(* One more ancestor: the walk still ends at the block.                    *)
LEMMA WalkToMainChainShape ==
  ASSUME TypeOK, Control, ShapeInv, WalkToMainChain
  PROVE  ShapeInv'
  <1>1. /\ pc = "walk" /\ pc' = "walk" /\ path' = <<Prev(path[1])>> \o path
        /\ Prev(path[1]) \in m_alternative_chains
        /\ UNCHANGED <<m_blocks, before, alt_chain, disconnected_chain, discard, caller, block>>
        /\ UNCHANGED <<aborted, follower, panicked>>
    BY DEF WalkToMainChain, chainVars, switchVars, historyVars
  <1>2. path \in Seq(Block) /\ path # <<>> /\ Last(path) = block /\ Prev(path[1]) \in Block
    BY <1>1 DEF TypeOK, LocalTypeOK, ChainTypeOK, ShapeInv, AddShape
  <1>3. <<Prev(path[1])>> \in Seq(Block)
    BY <1>2
  <1>4. path' # <<>> /\ Last(path') = block'
    <2>1. Last(path') = Last(path)
      BY <1>1, <1>2, <1>3, SwitchLast
    <2>2. Len(path') = Len(path) + 1 /\ Len(path) \in Nat
      BY <1>1, <1>2, <1>3
    <2>3. path' # <<>>
      BY <2>2
    <2> QED BY <1>1, <1>2, <2>1, <2>3
  <1>5. ReturnShape'
    BY <1>1 DEF ReturnShape
  <1>6. FollowerShape'
    BY <1>1, QuietFollower DEF Resting
  <1>7. Readding' => Connected = Len(alt_chain)
    BY <1>1 DEF ShapeInv, ConnectShape, Readding
  <1> QED BY <1>1, <1>4, <1>5, <1>6, <1>7, QuietShape DEF Adding, Switching, Disconnecting,
               Connecting, Readding, Restoring, PushingFor, PushPcs

(* The block becomes an alternative block; when it asks for a switch, the  *)
(* walk gives the split and the work of the chain to switch to.            *)
LEMMA AcceptAlternativeShape ==
  ASSUME TypeOK, Control, ShapeInv, AcceptAlternative
  PROVE  ShapeInv'
  <1>1. /\ pc = "walk" /\ caller \in {"add", "realt"}
        /\ UNCHANGED <<m_blocks, before, disconnected_chain, caller, block, path>>
        /\ UNCHANGED <<aborted, follower, panicked>>
    BY DEF AcceptAlternative, chainVars, historyVars
  <1>2. CASE caller = "realt"
    <2>1. pc' = "realt" /\ UNCHANGED <<alt_chain, discard>>
      BY <1>2 DEF AcceptAlternative
    <2>2. ReturnShape'
      BY <2>1 DEF ReturnShape
    <2>3. FollowerShape'
      BY <1>1, <2>1, QuietFollower DEF Resting
    <2>4. Connected = Len(alt_chain)
      BY <1>1, <1>2 DEF ShapeInv, ConnectShape, Readding
    <2> QED BY <1>1, <1>2, <2>1, <2>2, <2>3, <2>4, QuietShape DEF Adding, Switching,
                 Disconnecting, Connecting, Readding, Restoring, PushingFor, PushPcs
  <1>3. CASE caller = "add"
    <2>1. m_blocks = before.chain /\ disconnected_chain = <<>>
      BY <1>1, <1>3 DEF ShapeInv, AddShape, Adding
    <2>2. ~Resting /\ pc # "rebuild"
      BY <1>1 DEF Resting
    <2>3. CASE pc' = "return" /\ UNCHANGED <<alt_chain, discard>>
      <3>1. ReturnShape'
        BY <1>1, <2>1 DEF ReturnShape
      <3>2. FollowerShape'
        BY <1>1, <2>1, <2>2, <2>3 DEF ShapeInv, FollowerShape, Resting
      <3> QED BY <1>1, <2>3, <3>1, <3>2, QuietShape DEF Adding, Switching, Disconnecting,
                   Connecting, Readding, Restoring, PushingFor, PushPcs
    <2>4. CASE /\ pc' = "disconnect" /\ alt_chain' = path
               /\ discard' = (Height[block] \in DOMAIN Checkpoints)
               /\ Height[block] \in DOMAIN Checkpoints \/ OutweighsMain(block)
      <3>1. m_blocks \in Seq(Block)
        BY DEF TypeOK, ChainTypeOK
      <3>2. SplitHeight' = Height[path[1]]
        BY <2>4 DEF SplitHeight
      <3>3. Len(m_blocks) > Height[path[1]] /\ m_blocks[Height[path[1]]] = Prev(path[1])
        BY DEF AcceptAlternative, AlternativeValid
      <3>4. Height[path[1]] < Len(m_blocks)
        <4>1. path[1] \in Block /\ Len(m_blocks) \in Nat
          BY <1>1, <3>1 DEF TypeOK, LocalTypeOK, ShapeInv, AddShape
        <4>2. Height[path[1]] \in Nat
          BY <4>1, HeightAssumption
        <4> QED BY <3>3, <4>1, <4>2
      <3>5. Last(alt_chain') = block
        BY <1>1, <2>4 DEF ShapeInv, AddShape
      <3>6. discard' \/ CumulativeDifficulty[Last(before'.chain)] < CumulativeDifficulty[Last(alt_chain')]
        BY <1>1, <2>1, <2>4, <3>5 DEF OutweighsMain
      <3>7. SplitShape'
        BY <1>1, <2>1, <2>4, <3>2, <3>3, <3>4, <3>6 DEF SplitShape, Heavier
      <3>8. DisconnectShape'
        BY <1>1, <2>1, <3>1, SameAsItself DEF DisconnectShape
      <3>9. HeightShape'
        BY <1>1 DEF ShapeInv, HeightShape
      <3>10. AddShape' /\ ConnectShape' /\ RestoreShape' /\ ReturnShape'
        BY <2>4 DEF AddShape, Adding, ConnectShape, Connecting, Readding, RestoreShape, Restoring,
                    PushingFor, PushPcs, ReturnShape
      <3>11. FollowerShape'
        BY <1>1, <2>4, QuietFollower DEF Resting
      <3> QED BY <3>7, <3>8, <3>9, <3>10, <3>11 DEF ShapeInv
    <2> QED BY <1>3, <2>3, <2>4 DEF AcceptAlternative
  <1> QED BY <1>1, <1>2, <1>3

(* The block is refused: the operation ends, or the switch rolls back.     *)
LEMMA RefuseAlternativeShape ==
  ASSUME ShapeInv, RefuseAlternative
  PROVE  ShapeInv'
  <1>1. /\ pc = "walk"
        /\ UNCHANGED <<m_blocks, before, alt_chain, disconnected_chain, discard, caller, block>>
        /\ UNCHANGED <<aborted, follower, panicked>>
    BY DEF RefuseAlternative, RefuseReadded, chainVars, historyVars
  <1>2. \/ caller = "add" /\ pc' = "return"
        \/ caller = "realt" /\ pc' = "unconnect"
    BY DEF RefuseAlternative, RefuseReadded
  <1>3. CASE caller = "add" /\ pc' = "return"
    <2>1. m_blocks = before.chain
      BY <1>1, <1>3 DEF ShapeInv, AddShape, Adding
    <2>2. ReturnShape'
      BY <1>1, <2>1 DEF ReturnShape
    <2>3. FollowerShape'
      BY <1>1, <1>3, <2>1 DEF ShapeInv, FollowerShape, Resting
    <2> QED BY <1>1, <1>3, <2>2, <2>3, QuietShape DEF Adding, Switching, Disconnecting, Connecting,
                 Readding, Restoring, PushingFor, PushPcs
  <1>4. CASE caller = "realt" /\ pc' = "unconnect"
    <2>1. ReturnShape' /\ ~Readding'
      BY <1>4 DEF ReturnShape, Readding
    <2>2. FollowerShape'
      BY <1>1, <1>4, QuietFollower DEF Resting
    <2> QED BY <1>1, <1>4, <2>1, <2>2, QuietShape DEF Adding, Switching, Disconnecting, Connecting,
                 Readding, Restoring, PushingFor, PushPcs
  <1> QED BY <1>2, <1>3, <1>4

-----------------------------------------------------------------------------
(* addNewBlock, its return, the pool, and restarts.                        *)

(* An operation begins with the chain that it finds.                       *)
LEMMA AddNewBlockShape ==
  ASSUME TypeOK, Control, ShapeInv, NEW b \in Block, AddNewBlock(b)
  PROVE  ShapeInv'
  <1>1. /\ pc = "idle" /\ before'.chain = m_blocks /\ caller' = "add" /\ block' = b
        /\ UNCHANGED <<m_blocks, alt_chain, disconnected_chain, discard>>
        /\ UNCHANGED <<aborted, follower, panicked>>
    BY DEF AddNewBlock, chainVars, switchVars
  <1>2. pc' = "load" \/ (pc' = "walk" /\ path' = <<b>>)
    BY DEF AddNewBlock
  <1>3. m_blocks # <<>>
    BY DEF Control, LinkInv, ChainLinked
  <1>4. HeightShape'
    BY <1>1, <1>3 DEF ShapeInv, HeightShape
  <1>5. AddShape'
    <2>1. <<b>> # <<>> /\ Len(<<b>>) = 1 /\ <<b>>[1] = b
      OBVIOUS
    <2>2. Last(<<b>>) = b
      BY <2>1 DEF Last
    <2>3. pc' = "walk" => path' # <<>> /\ Last(path') = block'
      BY <1>1, <1>2, <2>1, <2>2
    <2>4. alt_chain' = <<>> /\ disconnected_chain' = <<>> /\ ~discard'
      BY <1>1 DEF ShapeInv, AddShape
    <2> QED BY <1>1, <2>3, <2>4 DEF AddShape
  <1>6. SplitShape' /\ DisconnectShape' /\ ConnectShape' /\ RestoreShape' /\ ReturnShape'
    BY <1>1, <1>2 DEF SplitShape, Switching, DisconnectShape, Disconnecting, ConnectShape,
                Connecting, Readding, RestoreShape, Restoring, PushingFor, PushPcs, ReturnShape
  <1>7. FollowerShape'
    BY <1>1, <1>2 DEF ShapeInv, FollowerShape, Resting
  <1> QED BY <1>4, <1>5, <1>6, <1>7 DEF ShapeInv

(* A state without an operation: only the heights and the follower count.  *)
LEMMA RestShape ==
  ASSUME ShapeInv, UNCHANGED m_blocks, pc' \in {"idle", "rebuild"},
         alt_chain' = <<>>, disconnected_chain' = <<>>, ~discard', FollowerShape'
  PROVE  ShapeInv'
  <1>1. HeightShape'
    BY DEF ShapeInv, HeightShape
  <1>2. /\ AddShape' /\ SplitShape' /\ DisconnectShape' /\ ConnectShape' /\ RestoreShape'
        /\ ReturnShape'
    BY DEF AddShape, Adding, SplitShape, Switching, DisconnectShape, Disconnecting, ConnectShape,
           Connecting, Readding, RestoreShape, Restoring, PushingFor, PushPcs, ReturnShape
  <1> QED BY <1>1, <1>2 DEF ShapeInv

(* The operation returns.                                                  *)
LEMMA ReturnActionShape ==
  ASSUME ShapeInv, Return
  PROVE  ShapeInv'
  <1>1. /\ pc = "return" /\ pc' = "idle" /\ UNCHANGED <<m_blocks, follower, aborted, panicked>>
        /\ alt_chain' = <<>> /\ disconnected_chain' = <<>> /\ ~discard'
    BY DEF Return, chainVars
  <1>2. FollowerShape'
    BY <1>1 DEF ShapeInv, FollowerShape, Resting
  <1> QED BY <1>1, <1>2, RestShape

(* The pool changes while no operation runs.                               *)
LEMMA PoolActionsShape ==
  ASSUME ShapeInv, pc = "idle",
         UNCHANGED <<chainVars, pc, switchVars, follower, historyVars>>
  PROVE  ShapeInv'
  <1>1. /\ pc' = "idle" /\ UNCHANGED <<m_blocks, before, follower, aborted, panicked>>
        /\ UNCHANGED <<alt_chain, disconnected_chain, discard>>
    BY DEF chainVars, switchVars, historyVars
  <1>2. alt_chain' = <<>> /\ disconnected_chain' = <<>> /\ ~discard'
    BY <1>1 DEF ShapeInv, AddShape
  <1>3. FollowerShape'
    BY <1>1, QuietFollower DEF Resting
  <1> QED BY <1>1, <1>2, <1>3, RestShape

(* The process starts again with the chain that is on disk.                *)
LEMMA StartShape ==
  ASSUME ShapeInv, NEW pool, NEW expired, NEW forgotten, Start(pool, expired, forgotten)
  PROVE  ShapeInv'
  <1>1. /\ pc' = "rebuild" /\ UNCHANGED m_blocks
        /\ alt_chain' = <<>> /\ disconnected_chain' = <<>> /\ ~discard'
    BY DEF Start
  <1>2. FollowerShape'
    BY <1>1 DEF FollowerShape
  <1> QED BY <1>1, <1>2, RestShape

(* rebuildCache reads a transaction.                                       *)
LEMMA RebuildNextShape ==
  ASSUME ShapeInv, RebuildNext
  PROVE  ShapeInv'
  <1>1. /\ pc = "rebuild" /\ pc' = "rebuild" /\ UNCHANGED m_blocks
        /\ UNCHANGED <<alt_chain, disconnected_chain, discard>>
    BY DEF RebuildNext, switchVars
  <1>2. alt_chain' = <<>> /\ disconnected_chain' = <<>> /\ ~discard'
    BY <1>1 DEF ShapeInv, AddShape
  <1>3. FollowerShape'
    BY <1>1 DEF FollowerShape
  <1> QED BY <1>1, <1>2, <1>3, RestShape

(* rebuildCache is done, and a reader of the queue starts from its chain.  *)
LEMMA FinishRebuildShape ==
  ASSUME ShapeInv, FinishRebuild
  PROVE  ShapeInv'
  <1>1. /\ pc = "rebuild" /\ pc' = "idle" /\ UNCHANGED m_blocks /\ follower' = m_blocks
        /\ UNCHANGED <<alt_chain, disconnected_chain, discard>>
    BY DEF FinishRebuild, chainVars, switchVars
  <1>2. alt_chain' = <<>> /\ disconnected_chain' = <<>> /\ ~discard'
    BY <1>1 DEF ShapeInv, AddShape
  <1>3. FollowerShape'
    BY <1>1 DEF FollowerShape, Resting
  <1> QED BY <1>1, <1>2, <1>3, RestShape

-----------------------------------------------------------------------------
(* The invariant, and what follows from it.                                *)

(* The node starts with the genesis block.                                 *)
LEMMA InitShape == Init => ShapeInv
  <1> SUFFICES ASSUME Init PROVE ShapeInv
    OBVIOUS
  <1>1. /\ m_blocks = <<Genesis>> /\ pc = "idle" /\ alt_chain = <<>> /\ disconnected_chain = <<>>
        /\ ~discard /\ follower = <<Genesis>>
    BY DEF Init
  <1>2. HeightShape
    <2>1. Len(<<Genesis>>) = 1 /\ <<Genesis>>[1] = Genesis
      OBVIOUS
    <2>2. Numbered(<<Genesis>>)
      BY <2>1, HeightAssumption DEF Numbered
    <2> QED BY <1>1, <2>2 DEF HeightShape
  <1>3. /\ AddShape /\ SplitShape /\ DisconnectShape /\ ConnectShape /\ RestoreShape
        /\ ReturnShape /\ FollowerShape
    BY <1>1 DEF AddShape, Adding, SplitShape, Switching, DisconnectShape, Disconnecting,
           ConnectShape, Connecting, Readding, RestoreShape, Restoring, PushingFor, PushPcs,
           ReturnShape, FollowerShape, Resting
  <1> QED BY <1>2, <1>3 DEF ShapeInv

(* Every step keeps the shape of the main chain.                           *)
LEMMA NextShape == TypeOK /\ Control /\ ShapeInv /\ [Next]_vars => ShapeInv'
  <1> SUFFICES ASSUME TypeOK, Control, ShapeInv, [Next]_vars PROVE ShapeInv'
    OBVIOUS
  <1>1. CallerInv
    BY DEF Control
  <1>2. CASE Step
    <2>1. CASE LoadTransactions BY <2>1, <1>1, LoadTransactionsShape
    <2>2. CASE CheckBlock BY <2>2, <1>1, CheckBlockShape
    <2>3. CASE PushNextTransaction BY <2>3, <1>1, PushNextTransactionShape
    <2>4. CASE FinishPush BY <2>4, FinishPushShape
    <2>5. CASE UndoTransaction BY <2>5, UndoTransactionShape
    <2>6. CASE FinishUndo BY <2>6, FinishUndoShape
    <2>7. CASE StartPop BY <2>7, StartPopShape
    <2>8. CASE StartConnect BY <2>8, StartConnectShape
    <2>9. CASE ConnectNext BY <2>9, ConnectNextShape
    <2>10. CASE FinishConnect BY <2>10, FinishConnectShape
    <2>11. CASE ReaddNext BY <2>11, ReaddNextShape
    <2>12. CASE FinishSwitch BY <2>12, FinishSwitchShape
    <2>13. CASE StartRestore BY <2>13, StartRestoreShape
    <2>14. CASE RestoreNext BY <2>14, RestoreNextShape
    <2>15. CASE FinishRestore BY <2>15, FinishRestoreShape
    <2>16. CASE WalkToMainChain BY <2>16, WalkToMainChainShape
    <2>17. CASE AcceptAlternative BY <2>17, AcceptAlternativeShape
    <2>18. CASE RefuseAlternative BY <2>18, RefuseAlternativeShape
    <2>19. CASE RebuildNext BY <2>19, RebuildNextShape
    <2>20. CASE FinishRebuild BY <2>20, FinishRebuildShape
    <2>21. CASE Return BY <2>21, ReturnActionShape
    <2> QED BY <1>2, <2>1, <2>2, <2>3, <2>4, <2>5, <2>6, <2>7, <2>8, <2>9, <2>10, <2>11, <2>12,
                 <2>13, <2>14, <2>15, <2>16, <2>17, <2>18, <2>19, <2>20, <2>21 DEF Step
  <1>3. ASSUME NEW b \in Block, AddNewBlock(b) PROVE ShapeInv'
    BY <1>3, AddNewBlockShape
  <1>4. ASSUME NEW t \in Tx, NEW keptByBlock \in BOOLEAN, AddNewTx(t, keptByBlock) PROVE ShapeInv'
    BY <1>4, PoolActionsShape DEF AddNewTx
  <1>5. ASSUME NEW expired, NEW forgotten, RemoveExpiredTransactions(expired, forgotten)
        PROVE  ShapeInv'
    BY <1>5, PoolActionsShape DEF RemoveExpiredTransactions
  <1>6. CASE Crash
    BY <1>6, StartShape DEF Crash
  <1>7. CASE Shutdown
    <2>1. PICK expired \in SUBSET m_transactions, forgotten \in SUBSET m_recentlyDeletedTransactions :
            Start(poolFile', expired, forgotten)
      BY <1>7 DEF Shutdown
    <2> QED BY <2>1, StartShape
  <1>8. CASE UNCHANGED vars
    <2>1. /\ UNCHANGED <<m_blocks, before, alt_chain, disconnected_chain, discard, pc, caller, block>>
          /\ UNCHANGED <<path, follower, aborted, panicked>>
      BY <1>8 DEF vars, chainVars, switchVars, historyVars
    <2>2. ReturnShape'
      BY <2>1 DEF ShapeInv, ReturnShape, SplitHeight, Heavier
    <2>3. FollowerShape'
      BY <2>1, QuietFollower DEF Resting
    <2>4. Readding' => Connected = Len(alt_chain)
      BY <2>1 DEF ShapeInv, ConnectShape, Readding
    <2>5. pc' = "walk" => path' # <<>> /\ Last(path') = block'
      BY <2>1 DEF ShapeInv, AddShape
    <2> QED BY <2>1, <2>2, <2>3, <2>4, <2>5, QuietShape DEF Adding, Switching, Disconnecting,
                 Connecting, Readding, Restoring, PushingFor
  <1> QED BY <1>2, <1>3, <1>4, <1>5, <1>6, <1>7, <1>8 DEF Next

(* The shape holds in every reachable state.                               *)
LEMMA ShapeAlways == Spec => [](TypeOK /\ Control /\ ShapeInv)
  <1>1. Init => TypeOK /\ Control /\ ShapeInv
    BY InitStep, InitShape
  <1>2. TypeOK /\ Control /\ ShapeInv /\ [Next]_vars => (TypeOK /\ Control /\ ShapeInv)'
    BY NextStep, NextShape
  <1> QED BY <1>1, <1>2, PTL DEF Spec

(* addNewBlock is all or nothing: when it returns, and no exception or     *)
(* failed rollback ended it, the main chain is the one that it found, that *)
(* one and the block, or its beginning and the whole alternative chain;    *)
(* also when rejected blocks have left their transactions in the indexes.  *)
THEOREM AlwaysAllOrNothing == Spec => []AllOrNothing
  <1>1. ShapeInv => AllOrNothing
    BY DEF ShapeInv, ReturnShape, AllOrNothing
  <1> QED BY <1>1, ShapeAlways, PTL

(* No operation leaves the main chain with less work than it had, unless a *)
(* checkpoint asked for the switch.                                        *)
THEOREM WorkAlwaysKept == Spec => []WorkNeverDecreases
  <1>1. ASSUME TypeOK, Control, ShapeInv PROVE WorkNeverDecreases
    <2> SUFFICES ASSUME pc = "return", ~aborted, ~panicked, ~discard
                 PROVE  CumulativeDifficulty[Last(m_blocks)] >= CumulativeDifficulty[Last(before.chain)]
      BY DEF WorkNeverDecreases
    <2>1. /\ before.chain \in Seq(Block) /\ before.chain # <<>> /\ block \in Block
          /\ alt_chain \in Seq(Block)
      BY <1>1 DEF TypeOK, LocalTypeOK, HistoryTypeOK, ShapeInv, HeightShape
    <2>2. CumulativeDifficulty[Last(before.chain)] \in Nat
      BY <2>1, FrontProperties, HeightAssumption
    <2>3. CASE m_blocks = before.chain
      BY <2>2, <2>3
    <2>4. CASE m_blocks = Append(before.chain, block) /\ Heavier(block)
      <3>1. Last(m_blocks) = block
        BY <2>1, <2>4, AppendLast
      <3>2. CumulativeDifficulty[block] \in Nat
        BY <2>1, HeightAssumption
      <3> QED BY <2>2, <2>4, <3>1, <3>2 DEF Heavier
    <2>5. CASE /\ alt_chain # <<>> /\ m_blocks = SubSeq(before.chain, 1, SplitHeight) \o alt_chain
               /\ SplitHeight <= Len(before.chain) /\ Heavier(Last(alt_chain))
      <3>1. SplitHeight \in 0 .. Len(before.chain)
        BY <1>1, <2>1, <2>5, SplitHeightType DEF TypeOK
      <3>2. SubSeq(before.chain, 1, SplitHeight) \in Seq(Block)
        BY <2>1, <3>1, SubSeqType
      <3>3. Last(m_blocks) = Last(alt_chain)
        BY <2>1, <2>5, <3>2, SwitchLast
      <3>4. CumulativeDifficulty[Last(alt_chain)] \in Nat
        BY <2>1, <2>5, FrontProperties, HeightAssumption
      <3> QED BY <2>2, <2>5, <3>3, <3>4 DEF Heavier
    <2> QED BY <1>1, <2>3, <2>4, <2>5 DEF ShapeInv, ReturnShape
  <1> QED BY <1>1, ShapeAlways, PTL

(* Whoever builds a chain from the NewBlock and ChainSwitch messages has   *)
(* the main chain whenever no operation runs, after any number of failed   *)
(* and successful switches, unless one of them was cut off.                *)
THEOREM FollowerAlwaysHasMainChain == Spec => []FollowerHasMainChain
  <1>1. ShapeInv => FollowerHasMainChain
    BY DEF ShapeInv, FollowerShape, Resting, FollowerHasMainChain
  <1> QED BY <1>1, ShapeAlways, PTL

-----------------------------------------------------------------------------
(***************************************************************************)
(* Checkpoints.  A block at the height of a checkpoint is never kept as an *)
(* alternative block: either it does not match, or it makes the node       *)
(* switch at once, and a switch that fails erases it.  So the chain that a *)
(* switch connects has such a block at its end at most, where a rollback   *)
(* does not find it, and isAllowed keeps a switch from splitting off below *)
(* a checkpoint that the main chain has reached.  An exception may leave   *)
(* the block among the alternative ones.                                   *)
(***************************************************************************)
RollingBack == pc = "unconnect" \/ (pc = "undo" /\ caller = "unconnect")

NoneKept ==
  \A a \in m_alternative_chains : Height[a] \in DOMAIN Checkpoints =>
    Switching /\ discard /\ a = Last(alt_chain)

WalkClear ==
  pc = "walk" =>
    /\ \A i \in 1 .. Len(path) : Height[path[i]] = Height[path[1]] + i - 1
    /\ \A i \in 1 .. Len(path) - 1 : path[i] \in m_alternative_chains
    /\ caller = "add" => IsAllowed(Len(m_blocks), BlockInfo[block].blockIndex)
    /\ caller = "realt" =>
         ~discard /\ \E i \in DOMAIN disconnected_chain : block = disconnected_chain[i]

SplitClear ==
  Switching =>
    /\ \A i \in 1 .. Len(alt_chain) :
         Height[alt_chain[i]] \in DOMAIN Checkpoints => i = Len(alt_chain) /\ discard
    /\ \A c \in DOMAIN Checkpoints : SplitHeight <= c => Len(before.chain) <= c

EraseClear ==
  discard =>
    /\ RollingBack \/ Restoring => Last(alt_chain) \in toErase
    /\ RollingBack => Connected < Len(alt_chain)
    /\ pc = "realt" => readded = Len(disconnected_chain)

CheckpointInv == aborted \/ (NoneKept /\ WalkClear /\ SplitClear /\ EraseClear)

-----------------------------------------------------------------------------
(* A step within pushBlock or popBlock.                                    *)
LEMMA QuietCheckpoint ==
  ASSUME CheckpointInv,
         UNCHANGED <<m_alternative_chains, alt_chain, discard, toErase, before, m_blocks, aborted>>,
         pc' # "walk", pc' = "realt" /\ discard => readded' = Len(disconnected_chain)',
         Switching' <=> Switching, RollingBack' => RollingBack, Restoring' => Restoring \/ RollingBack
  PROVE  CheckpointInv'
  <1> SUFFICES ASSUME ~aborted PROVE NoneKept' /\ WalkClear' /\ SplitClear' /\ EraseClear'
    BY DEF CheckpointInv
  <1>0. NoneKept /\ SplitClear /\ EraseClear
    BY DEF CheckpointInv
  <1>1. NoneKept'
    BY <1>0 DEF NoneKept
  <1>2. WalkClear'
    BY DEF WalkClear
  <1>3. SplitClear'
    BY <1>0 DEF SplitClear, SplitHeight
  <1>4. EraseClear'
    BY <1>0 DEF EraseClear, Connected, SplitHeight
  <1> QED BY <1>1, <1>2, <1>3, <1>4

(* pushBlock has refused a block: the chain to switch to is given up from  *)
(* that block to its end.                                                  *)
LEMMA RefusedCheckpoint ==
  ASSUME TypeOK, Control, ShapeInv, CheckpointInv, pc \in PushPcs, ~Popping, PushReturns(FALSE),
         UNCHANGED <<m_blocks, alt_chain, discard, before, aborted, caller>>
  PROVE  CheckpointInv'
  <1> SUFFICES ASSUME ~aborted PROVE NoneKept' /\ WalkClear' /\ SplitClear' /\ EraseClear'
    BY DEF CheckpointInv
  <1>0. NoneKept /\ SplitClear /\ EraseClear
    BY DEF CheckpointInv
  <1>1. caller \in {"add", "connect", "restore"} /\ pc' \in {"return", "unconnect"}
    BY DEF PushReturns, Control, CallerInv, PushPcs, Popping
  <1>2. WalkClear'
    BY <1>1 DEF WalkClear
  <1>3. CASE caller = "add"
    <2>1. pc' = "return" /\ UNCHANGED m_alternative_chains /\ ~Switching /\ ~Switching'
      BY <1>3 DEF PushReturns, Switching, PushPcs
    <2>2. NoneKept' /\ SplitClear'
      BY <1>0, <2>1 DEF NoneKept, SplitClear
    <2>3. EraseClear'
      BY <2>1 DEF EraseClear, RollingBack, Restoring, PushingFor, PushPcs
    <2> QED BY <1>2, <2>2, <2>3
  <1>4. CASE caller = "connect"
    <2>1. /\ pc' = "unconnect" /\ UNCHANGED m_alternative_chains
          /\ toErase' = {alt_chain[i] : i \in Connected + 1 .. Len(alt_chain)}
      BY <1>4 DEF PushReturns
    <2>2. Switching /\ Switching'
      BY <1>4, <2>1 DEF Switching, PushPcs
    <2>3. NoneKept' /\ SplitClear'
      BY <1>0, <2>1, <2>2 DEF NoneKept, SplitClear, SplitHeight
    <2>4. Connected + 1 \in DOMAIN alt_chain
      BY <1>4 DEF ShapeInv, ConnectShape, PushingFor
    <2>5. alt_chain \in Seq(Block) /\ Len(m_blocks) \in Nat /\ SplitHeight \in Nat
      BY <2>2, SplitHeightType DEF TypeOK, LocalTypeOK, ChainTypeOK, Control, SwitchInv
    <2>6. Connected + 1 <= Len(alt_chain) /\ Connected \in Int /\ Len(alt_chain) \in Nat
      BY <2>4, <2>5 DEF Connected
    <2>7. Last(alt_chain) \in toErase'
      BY <2>1, <2>6 DEF Last
    <2>8. Connected' = Connected
      BY DEF Connected, SplitHeight
    <2>9. EraseClear'
      BY <2>1, <2>6, <2>7, <2>8 DEF EraseClear
    <2> QED BY <1>2, <2>3, <2>9
  <1>5. CASE caller = "restore"
    <2>1. pc' = "return" /\ m_alternative_chains' = m_alternative_chains \ toErase
      BY <1>5 DEF PushReturns
    <2>2. Restoring /\ ~Switching'
      BY <1>5, <2>1 DEF Restoring, PushingFor, Switching
    <2>3. discard => Last(alt_chain) \in toErase
      BY <1>0, <2>2 DEF EraseClear
    <2>4. NoneKept' /\ SplitClear'
      BY <1>0, <2>1, <2>2, <2>3 DEF NoneKept, SplitClear
    <2>5. EraseClear'
      BY <2>1 DEF EraseClear, RollingBack, Restoring, PushingFor, PushPcs
    <2> QED BY <1>2, <2>4, <2>5
  <1> QED BY <1>1, <1>3, <1>4, <1>5

(* loadTransactions.                                                       *)
LEMMA LoadTransactionsCheckpoint ==
  ASSUME TypeOK, Control, ShapeInv, CheckpointInv, LoadTransactions
  PROVE  CheckpointInv'
  <1>1. /\ pc = "load" /\ ~Popping /\ pc \in PushPcs
        /\ UNCHANGED <<m_blocks, alt_chain, discard, before, caller, readded, disconnected_chain>>
    BY DEF LoadTransactions, chainVars, Popping, PushPcs
  <1>2. \/ pc' = "check" /\ UNCHANGED <<m_alternative_chains, toErase, aborted>>
        \/ PushReturns(FALSE) /\ UNCHANGED aborted
        \/ aborted'
    BY DEF LoadTransactions
  <1>3. CASE pc' = "check" /\ UNCHANGED <<m_alternative_chains, toErase, aborted>>
    BY <1>1, <1>3, QuietCheckpoint DEF Switching, RollingBack, Restoring, PushingFor, PushPcs
  <1>4. CASE PushReturns(FALSE) /\ UNCHANGED aborted
    BY <1>1, <1>4, RefusedCheckpoint
  <1>5. CASE aborted'
    BY <1>5 DEF CheckpointInv
  <1> QED BY <1>2, <1>3, <1>4, <1>5

(* saveTransactions after a refusal.                                       *)
LEMMA SaveAndFailCheckpoint ==
  ASSUME TypeOK, Control, ShapeInv, CheckpointInv, pc \in PushPcs, ~Popping, SaveAndFail,
         UNCHANGED m_blocks
  PROVE  CheckpointInv'
  <1>1. CASE SaveThrows(TxsOf(block))
    <2>1. aborted'
      BY <1>1 DEF SaveAndFail, Unwind
    <2> QED BY <2>1 DEF CheckpointInv
  <1>2. CASE ~SaveThrows(TxsOf(block))
    <2>1. PushReturns(FALSE) /\ UNCHANGED <<alt_chain, discard, before, aborted, caller>>
      BY <1>2 DEF SaveAndFail
    <2> QED BY <2>1, RefusedCheckpoint
  <1> QED BY <1>1, <1>2

(* CheckBlock.                                                             *)
LEMMA CheckBlockCheckpoint ==
  ASSUME TypeOK, Control, ShapeInv, CheckpointInv, CheckBlock
  PROVE  CheckpointInv'
  <1>1. pc = "check" /\ ~Popping /\ pc \in PushPcs /\ UNCHANGED m_blocks
    BY DEF CheckBlock, chainVars, Popping, PushPcs
  <1>2. CASE BlockValid(block)
    <2>1. /\ pc' = "tx"
          /\ UNCHANGED <<m_alternative_chains, alt_chain, discard, toErase, before, aborted, caller>>
      BY <1>2 DEF CheckBlock, switchVars
    <2> QED BY <1>1, <2>1, QuietCheckpoint DEF Switching, RollingBack, Restoring, PushingFor, PushPcs
  <1>3. CASE ~BlockValid(block)
    BY <1>1, <1>3, SaveAndFailCheckpoint DEF CheckBlock
  <1> QED BY <1>2, <1>3

(* PushNextTransaction.                                                    *)
LEMMA PushNextTransactionCheckpoint ==
  ASSUME TypeOK, Control, ShapeInv, CheckpointInv, PushNextTransaction
  PROVE  CheckpointInv'
  <1>1. \/ aborted'
        \/ /\ pc = "tx" /\ pc' \in {"tx", "undo"}
           /\ UNCHANGED <<m_alternative_chains, alt_chain, discard, toErase, before, m_blocks, aborted, caller>>
    BY DEF PushNextTransaction, chainVars, switchVars, Unwind
  <1>2. CASE aborted'
    BY <1>2 DEF CheckpointInv
  <1>3. CASE ~aborted'
    <2>1. pc = "tx" => caller # "unconnect"
      BY DEF Control, CallerInv
    <2> QED BY <1>1, <1>3, <2>1, QuietCheckpoint DEF Switching, RollingBack, Restoring, PushingFor, PushPcs
  <1> QED BY <1>2, <1>3

(* The block enters the main chain.                                        *)
LEMMA FinishPushCheckpoint ==
  ASSUME TypeOK, Control, ShapeInv, CheckpointInv, FinishPush
  PROVE  CheckpointInv'
  <1>0. pc = "tx" /\ ~Popping /\ pc \in PushPcs /\ caller \in {"add", "connect", "restore"}
    BY DEF FinishPush, Popping, PushPcs, Control, CallerInv
  <1>1. CASE ~BlockSizeOk(block)
    BY <1>0, <1>1, SaveAndFailCheckpoint DEF FinishPush, chainVars
  <1>2. CASE BlockSizeOk(block) /\ ~BlockInfo[block].reward
    <2>1. /\ pc' = "undo"
          /\ UNCHANGED <<m_alternative_chains, alt_chain, discard, toErase, before, m_blocks, aborted, caller>>
      BY <1>2 DEF FinishPush, chainVars, switchVars
    <2> QED BY <1>0, <2>1, QuietCheckpoint DEF Switching, RollingBack, Restoring, PushingFor, PushPcs
  <1>3. CASE BlockSizeOk(block) /\ BlockInfo[block].reward
    <2>1. /\ PushReturns(TRUE) /\ UNCHANGED <<alt_chain, discard, before, aborted, caller>>
      BY <1>3 DEF FinishPush
    <2>2. /\ UNCHANGED <<m_alternative_chains, toErase>>
          /\ \/ caller = "add" /\ pc' = "return"
             \/ caller \in {"connect", "restore"} /\ pc' = caller
      BY <2>1 DEF PushReturns
    <2> SUFFICES ASSUME ~aborted PROVE NoneKept' /\ WalkClear' /\ SplitClear' /\ EraseClear'
      BY <2>1 DEF CheckpointInv
    <2>3. NoneKept /\ SplitClear /\ EraseClear
      BY DEF CheckpointInv
    <2>4. Switching' <=> Switching
      BY <1>0, <2>1, <2>2 DEF Switching
    <2>5. Restoring' <=> Restoring
      BY <1>0, <2>1, <2>2 DEF Restoring, PushingFor, PushPcs
    <2>6. ~RollingBack' /\ pc' \notin {"walk", "realt"}
      BY <2>2 DEF RollingBack
    <2>7. NoneKept' /\ WalkClear'
      BY <2>1, <2>2, <2>3, <2>4, <2>6 DEF NoneKept, WalkClear
    <2>8. SplitClear'
      BY <2>1, <2>2, <2>3, <2>4 DEF SplitClear, SplitHeight
    <2>9. EraseClear'
      BY <2>1, <2>2, <2>3, <2>5, <2>6 DEF EraseClear
    <2> QED BY <2>7, <2>8, <2>9
  <1> QED BY <1>1, <1>2, <1>3

(* popTransactions and the start of popBlock.                              *)
LEMMA PopCheckpoint ==
  ASSUME CheckpointInv, UndoTransaction \/ StartPop
  PROVE  CheckpointInv'
  <1>1. CASE UndoTransaction
    <2>1. /\ pc = "undo" /\ UNCHANGED <<pc, caller>>
          /\ UNCHANGED <<m_alternative_chains, alt_chain, discard, toErase, before, m_blocks, aborted>>
      BY <1>1 DEF UndoTransaction, chainVars, switchVars, historyVars
    <2> QED BY <2>1, QuietCheckpoint DEF Switching, RollingBack, Restoring, PushingFor, PushPcs
  <1>2. CASE StartPop
    <2>1. \/ aborted'
          \/ /\ pc \in {"disconnect", "unconnect"} /\ pc' = "undo" /\ caller' = pc
             /\ UNCHANGED <<m_alternative_chains, alt_chain, discard, toErase, before, m_blocks, aborted>>
      BY <1>2 DEF StartPop, chainVars, switchVars, Unwind
    <2>2. CASE aborted'
      BY <2>2 DEF CheckpointInv
    <2>3. CASE ~aborted'
      BY <2>1, <2>3, QuietCheckpoint DEF Switching, RollingBack, Restoring, PushingFor, PushPcs
    <2> QED BY <2>2, <2>3
  <1> QED BY <1>1, <1>2

(* The block is refused, or leaves the main chain.                         *)
LEMMA FinishUndoCheckpoint ==
  ASSUME TypeOK, Control, ShapeInv, CheckpointInv, FinishUndo
  PROVE  CheckpointInv'
  <1>0. pc = "undo" /\ pc \in PushPcs
    BY DEF FinishUndo, PushPcs
  <1>1. CASE caller \in {"add", "connect", "restore"}
    BY <1>0, <1>1, SaveAndFailCheckpoint DEF FinishUndo, chainVars, Popping
  <1>2. CASE caller \in {"disconnect", "unconnect"}
    <2>1. /\ m_blocks' = Front(m_blocks) /\ pc' = caller
          /\ UNCHANGED <<m_alternative_chains, alt_chain, discard, toErase, before, aborted, caller>>
      BY <1>2 DEF FinishUndo, PopEntry
    <2> SUFFICES ASSUME ~aborted PROVE NoneKept' /\ WalkClear' /\ SplitClear' /\ EraseClear'
      BY <2>1 DEF CheckpointInv
    <2>2. NoneKept /\ SplitClear /\ EraseClear
      BY DEF CheckpointInv
    <2>3. Switching /\ Switching' /\ ~Restoring' /\ (RollingBack' <=> RollingBack)
      BY <1>0, <1>2, <2>1 DEF Switching, Restoring, RollingBack, PushingFor, PushPcs
    <2>4. m_blocks \in Seq(Block) /\ m_blocks # <<>> /\ Len(m_blocks) \in Nat
      BY DEF TypeOK, ChainTypeOK, Control, LinkInv, ChainLinked
    <2>5. Len(m_blocks') = Len(m_blocks) - 1
      BY <2>1, <2>4, FrontProperties
    <2>6. SplitHeight \in Nat /\ Len(alt_chain) \in Nat
      BY <2>3, SplitHeightType DEF TypeOK, LocalTypeOK, Control, SwitchInv
    <2>7. Connected' = Connected - 1 /\ Connected \in Int
      BY <2>1, <2>4, <2>5, <2>6 DEF Connected, SplitHeight
    <2>8. NoneKept' /\ WalkClear'
      BY <1>2, <2>1, <2>2, <2>3 DEF NoneKept, WalkClear
    <2>9. SplitClear'
      BY <2>1, <2>2, <2>3 DEF SplitClear, SplitHeight
    <2>10. EraseClear'
      BY <1>2, <2>1, <2>2, <2>3, <2>6, <2>7 DEF EraseClear
    <2> QED BY <2>8, <2>9, <2>10
  <1> QED BY <1>0, <1>1, <1>2 DEF Control, CallerInv

(* The loops of a switch and of its rollback.                              *)
LEMMA LoopsCheckpoint ==
  ASSUME CheckpointInv,
         StartConnect \/ ConnectNext \/ FinishConnect \/ StartRestore \/ RestoreNext
  PROVE  CheckpointInv'
  <1>1. /\ UNCHANGED <<m_alternative_chains, alt_chain, discard, toErase, before, m_blocks, aborted>>
        /\ UNCHANGED disconnected_chain
    BY DEF StartConnect, ConnectNext, FinishConnect, StartRestore, RestoreNext, StartPush,
           chainVars, switchVars, historyVars
  <1>2. \/ pc = "disconnect" /\ pc' = "connect"
        \/ pc = "connect" /\ pc' = "load" /\ caller' = "connect"
        \/ /\ pc = "connect" /\ pc' = "realt"
           /\ readded' = IF discard THEN Len(disconnected_chain) ELSE 0
        \/ pc = "unconnect" /\ pc' = "restore"
        \/ pc = "restore" /\ pc' = "load" /\ caller' = "restore"
    BY DEF StartConnect, ConnectNext, FinishConnect, StartRestore, RestoreNext, StartPush
  <1>3. Switching /\ Switching'
    BY <1>2 DEF Switching
  <1>4. RollingBack' => RollingBack
    BY <1>2 DEF RollingBack
  <1>5. Restoring' => Restoring \/ RollingBack
    BY <1>2 DEF RollingBack, Restoring, PushingFor, PushPcs
  <1>6. pc' # "walk" /\ (pc' = "realt" /\ discard => readded' = Len(disconnected_chain'))
    BY <1>1, <1>2
  <1> QED BY <1>1, <1>3, <1>4, <1>5, <1>6, QuietCheckpoint

(* The end of a switch or of a rollback erases the block that a checkpoint *)
(* asked for from the alternative ones.                                    *)
LEMMA ErasedCheckpoint ==
  ASSUME TypeOK, Control, CheckpointInv, FinishSwitch \/ FinishRestore
  PROVE  CheckpointInv'
  <1>1. pc' = "return" /\ UNCHANGED <<alt_chain, discard, aborted>>
    BY DEF FinishSwitch, FinishRestore, switchVars, historyVars
  <1> SUFFICES ASSUME ~aborted PROVE NoneKept' /\ WalkClear' /\ SplitClear' /\ EraseClear'
    BY <1>1 DEF CheckpointInv
  <1>2. WalkClear' /\ SplitClear' /\ EraseClear'
    BY <1>1 DEF WalkClear, SplitClear, EraseClear, Switching, RollingBack, Restoring, PushingFor, PushPcs
  <1>3. NoneKept /\ EraseClear
    BY DEF CheckpointInv
  <1>4. CASE FinishSwitch
    <2>1. m_alternative_chains' = m_alternative_chains \ ToSet(alt_chain) /\ pc = "realt"
      BY <1>4 DEF FinishSwitch
    <2>2. alt_chain # <<>> /\ alt_chain \in Seq(Block)
      BY <2>1 DEF Control, SwitchInv, Switching, TypeOK, LocalTypeOK
    <2>3. Len(alt_chain) \in DOMAIN alt_chain
      BY <2>2
    <2>4. Last(alt_chain) \in ToSet(alt_chain)
      BY <2>3 DEF Last, ToSet
    <2> QED BY <1>2, <1>3, <2>1, <2>4 DEF NoneKept
  <1>5. CASE FinishRestore
    <2>1. m_alternative_chains' = m_alternative_chains \ toErase /\ pc = "restore"
      BY <1>5 DEF FinishRestore
    <2>2. discard => Last(alt_chain) \in toErase
      BY <1>3, <2>1 DEF EraseClear, Restoring
    <2> QED BY <1>2, <1>3, <2>1, <2>2 DEF NoneKept
  <1> QED BY <1>4, <1>5

(* An old block is offered as an alternative block; no checkpoint asked    *)
(* for a switch that does this.                                            *)
LEMMA ReaddNextCheckpoint ==
  ASSUME TypeOK, Control, CheckpointInv, ReaddNext
  PROVE  CheckpointInv'
  <1>1. /\ pc = "realt" /\ readded + 1 \in DOMAIN disconnected_chain
        /\ UNCHANGED <<m_blocks, before, aborted, m_alternative_chains, alt_chain, discard>>
        /\ UNCHANGED disconnected_chain
    BY DEF ReaddNext, RefuseReadded, chainVars, switchVars, historyVars
  <1> SUFFICES ASSUME ~aborted PROVE NoneKept' /\ WalkClear' /\ SplitClear' /\ EraseClear'
    BY <1>1 DEF CheckpointInv
  <1>2. NoneKept /\ SplitClear /\ EraseClear
    BY DEF CheckpointInv
  <1>3. ~discard
    <2>1. readded \in Nat /\ disconnected_chain \in Seq(Block)
      BY DEF TypeOK, LocalTypeOK
    <2>2. readded # Len(disconnected_chain)
      BY <1>1, <2>1
    <2> QED BY <1>1, <1>2, <2>2 DEF EraseClear
  <1>4. EraseClear'
    BY <1>1, <1>3 DEF EraseClear
  <1> DEFINE b == disconnected_chain[readded + 1]
  <1>5. \/ pc' = "unconnect"
        \/ pc' = "walk" /\ caller' = "realt" /\ block' = b /\ path' = <<b>>
    BY DEF ReaddNext, RefuseReadded
  <1>6. Switching /\ Switching'
    BY <1>1, <1>5 DEF Switching
  <1>7. NoneKept' /\ SplitClear'
    BY <1>1, <1>2, <1>6 DEF NoneKept, SplitClear, SplitHeight
  <1>8. WalkClear'
    <2>1. b \in Block
      BY <1>1 DEF TypeOK, LocalTypeOK
    <2>2. Height[b] \in Nat /\ Len(<<b>>) = 1 /\ <<b>>[1] = b
      BY <2>1, HeightAssumption
    <2> HIDE DEF b
    <2>3. CASE pc' = "unconnect"
      BY <2>3 DEF WalkClear
    <2>4. CASE pc' = "walk" /\ caller' = "realt" /\ block' = b /\ path' = <<b>>
      <3>1. \A i \in 1 .. Len(path') : Height[path'[i]] = Height[path'[1]] + i - 1
        BY <2>2, <2>4
      <3>2. \A i \in 1 .. Len(path') - 1 : FALSE
        BY <2>2, <2>4
      <3>3. \E i \in DOMAIN disconnected_chain' : block' = disconnected_chain'[i]
        BY <1>1, <2>4 DEF b
      <3> QED BY <1>1, <1>3, <2>4, <3>1, <3>2, <3>3 DEF WalkClear
    <2> QED BY <1>5, <2>3, <2>4
  <1> QED BY <1>4, <1>7, <1>8

(* The walk goes one block down.                                           *)
LEMMA WalkCheckpoint ==
  ASSUME TypeOK, Control, CheckpointInv, WalkToMainChain
  PROVE  CheckpointInv'
  <1>1. /\ pc = "walk" /\ Prev(path[1]) \in m_alternative_chains /\ path' = <<Prev(path[1])>> \o path
        /\ UNCHANGED <<pc, caller, block, m_blocks, before, aborted, m_alternative_chains>>
        /\ UNCHANGED <<alt_chain, discard, disconnected_chain, toErase, readded>>
    BY DEF WalkToMainChain, chainVars, switchVars, historyVars
  <1> SUFFICES ASSUME ~aborted PROVE NoneKept' /\ WalkClear' /\ SplitClear' /\ EraseClear'
    BY <1>1 DEF CheckpointInv
  <1>2. NoneKept /\ WalkClear /\ SplitClear /\ EraseClear
    BY DEF CheckpointInv
  <1>3. UNCHANGED <<Switching, RollingBack, Restoring>>
    BY <1>1 DEF Switching, RollingBack, Restoring, PushingFor
  <1>4. NoneKept' /\ SplitClear' /\ EraseClear'
    BY <1>1, <1>2, <1>3 DEF NoneKept, SplitClear, SplitHeight, EraseClear, Connected
  <1>5. WalkClear'
    <2> DEFINE q == Prev(path[1])
    <2>1. path \in Seq(Block) /\ path # <<>> /\ q \in Block /\ Len(path) \in Nat \ {0}
      BY <1>1 DEF TypeOK, LocalTypeOK, ChainTypeOK, Control, SwitchInv
    <2>2. path[1] \in Block /\ Height[path[1]] \in Nat
      BY <2>1, HeightAssumption
    <2>3. Height[path[1]] = Height[q] + 1 /\ Height[q] \in Nat
      BY <2>1, <2>2, HeightAssumption
    <2> HIDE DEF q
    <2>4. /\ Len(path') = Len(path) + 1 /\ path'[1] = q
          /\ \A i \in 2 .. Len(path) + 1 : path'[i] = path[i - 1]
      BY <1>1, <2>1 DEF q
    <2>5. ASSUME NEW i \in 1 .. Len(path') PROVE Height[path'[i]] = Height[path'[1]] + i - 1
      <3>1. CASE i = 1
        BY <2>3, <2>4, <3>1
      <3>2. CASE i # 1
        <4>1. i - 1 \in 1 .. Len(path) /\ path'[i] = path[i - 1]
          BY <2>1, <2>4, <3>2
        <4>2. Height[path[i - 1]] = Height[path[1]] + (i - 1) - 1
          BY <1>1, <1>2, <4>1 DEF WalkClear
        <4>3. i \in Nat
          BY <2>1, <2>4
        <4>4. Height[path'[i]] = Height[path[1]] + (i - 1) - 1 /\ Height[path'[1]] = Height[q]
          BY <2>4, <4>1, <4>2
        <4>5. Height[path[1]] + (i - 1) - 1 = Height[q] + i - 1
          BY <2>3, <4>3
        <4> QED BY <4>4, <4>5
      <3> QED BY <3>1, <3>2
    <2>6. ASSUME NEW i \in 1 .. Len(path') - 1 PROVE path'[i] \in m_alternative_chains
      <3>1. CASE i = 1
        BY <1>1, <2>4, <3>1 DEF q
      <3>2. CASE i # 1
        <4>1. i - 1 \in 1 .. Len(path) - 1 /\ path'[i] = path[i - 1]
          BY <2>1, <2>4, <3>2
        <4> QED BY <1>1, <1>2, <4>1 DEF WalkClear
      <3> QED BY <3>1, <3>2
    <2> QED BY <1>1, <1>2, <2>5, <2>6 DEF WalkClear
  <1> QED BY <1>4, <1>5

(* The walk has found a chain that starts above every checkpoint that the  *)
(* main chain has reached.                                                 *)
LEMMA WalkAboveCheckpoints ==
  ASSUME TypeOK, ShapeInv, NoneKept, WalkClear, pc = "walk", caller = "add",
         PrevalidateMinerTx(block, Height[block])
  PROVE  /\ \A i \in 1 .. Len(path) :
              Height[path[i]] \in DOMAIN Checkpoints => i = Len(path)
         /\ \A c \in DOMAIN Checkpoints : Height[path[1]] <= c => Len(m_blocks) <= c
  <1>1. /\ path \in Seq(Block) /\ path # <<>> /\ Len(path) \in Nat \ {0}
        /\ Last(path) = block /\ Len(m_blocks) \in Nat
    BY DEF TypeOK, LocalTypeOK, ChainTypeOK, ShapeInv, AddShape
  <1>2. ~Switching
    BY DEF Switching
  <1>3. ASSUME NEW i \in 1 .. Len(path) - 1 PROVE Height[path[i]] \notin DOMAIN Checkpoints
    BY <1>2, <1>3 DEF NoneKept, WalkClear
  <1>4. ASSUME NEW i \in 1 .. Len(path), Height[path[i]] \in DOMAIN Checkpoints PROVE i = Len(path)
    BY <1>1, <1>3, <1>4
  <1>5. ASSUME NEW c \in DOMAIN Checkpoints, Height[path[1]] <= c, ~(Len(m_blocks) <= c) PROVE FALSE
    <2>1. c \in Nat
      BY BoundAssumption
    <2>2. BlockInfo[block].blockIndex = Height[block] /\ block = path[Len(path)]
      BY <1>1 DEF PrevalidateMinerTx, Last
    <2>3. c < Height[block]
      BY <1>1, <1>5, <2>1, <2>2 DEF WalkClear, IsAllowed
    <2>4. Height[block] = Height[path[1]] + Len(path) - 1
      BY <1>1, <2>2 DEF WalkClear
    <2>5. Height[path[1]] \in Nat
      BY <1>1, HeightAssumption
    <2> DEFINE i == c - Height[path[1]] + 1
    <2>6. i \in 1 .. Len(path) - 1
      BY <1>1, <1>5, <2>1, <2>3, <2>4, <2>5
    <2>7. Height[path[i]] = Height[path[1]] + i - 1
      BY <1>1, <2>6 DEF WalkClear
    <2>8. Height[path[i]] = c
      BY <2>1, <2>5, <2>7
    <2> QED BY <1>3, <2>6, <2>8
  <1> QED BY <1>4, <1>5

(* An old block that is offered again is at the height of no checkpoint.   *)
LEMMA OldBlockHeight ==
  ASSUME TypeOK, Control, ShapeInv, SplitClear, WalkClear, pc = "walk", caller = "realt"
  PROVE  Height[block] \notin DOMAIN Checkpoints
  <1>1. PICK i \in DOMAIN disconnected_chain : block = disconnected_chain[i]
    BY DEF WalkClear
  <1>2. Switching /\ Connecting
    BY DEF Switching, Connecting, Readding
  <1>3. RestAbove(disconnected_chain, before.chain, SplitHeight) /\ Numbered(before.chain)
    BY <1>2 DEF ShapeInv, ConnectShape, HeightShape
  <1>4. /\ disconnected_chain \in Seq(Block) /\ before.chain \in Seq(Block)
        /\ SplitHeight \in Nat
    BY <1>2, SplitHeightType DEF TypeOK, LocalTypeOK, HistoryTypeOK, Control, SwitchInv
  <1>5. i \in 1 .. Len(disconnected_chain) /\ Len(before.chain) \in Nat
    BY <1>4
  <1>6. SplitHeight + i \in 1 .. Len(before.chain) /\ block = before.chain[SplitHeight + i]
    BY <1>1, <1>3, <1>4, <1>5 DEF RestAbove
  <1>7. Height[block] = SplitHeight + i - 1
    <2> DEFINE j == SplitHeight + i
    <2>1. j \in 1 .. Len(before.chain) /\ block = before.chain[j]
      BY <1>6
    <2> HIDE DEF j
    <2>2. Height[block] = j - 1
      BY <1>3, <2>1 DEF Numbered
    <2> QED BY <1>4, <1>5, <2>2 DEF j
  <1>8. SplitHeight <= Height[block] /\ ~(Len(before.chain) <= Height[block])
    BY <1>4, <1>5, <1>6, <1>7
  <1> QED BY <1>2, <1>8 DEF SplitClear

(* An alternative block is accepted; one at the height of a checkpoint     *)
(* makes the node switch to its chain.                                     *)
LEMMA AcceptAlternativeCheckpoint ==
  ASSUME TypeOK, Control, ShapeInv, CheckpointInv, AcceptAlternative
  PROVE  CheckpointInv'
  <1>1. /\ pc = "walk" /\ AlternativeValid(block, path[1])
        /\ m_alternative_chains' = m_alternative_chains \cup {block}
        /\ UNCHANGED <<caller, block, path, m_blocks, before, aborted, toErase, disconnected_chain>>
    BY DEF AcceptAlternative, chainVars, historyVars
  <1> SUFFICES ASSUME ~aborted PROVE NoneKept' /\ WalkClear' /\ SplitClear' /\ EraseClear'
    BY <1>1 DEF CheckpointInv
  <1>2. NoneKept /\ WalkClear /\ SplitClear /\ EraseClear
    BY DEF CheckpointInv
  <1>3. CASE caller = "add"
    <2>1. /\ \A i \in 1 .. Len(path) : Height[path[i]] \in DOMAIN Checkpoints => i = Len(path)
          /\ \A c \in DOMAIN Checkpoints : Height[path[1]] <= c => Len(m_blocks) <= c
      BY <1>1, <1>2, <1>3, WalkAboveCheckpoints DEF AlternativeValid
    <2>2. m_blocks = before.chain /\ path # <<>> /\ Last(path) = block /\ path \in Seq(Block)
      BY <1>1, <1>3 DEF ShapeInv, AddShape, Adding, TypeOK, LocalTypeOK
    <2>3. ~Switching
      BY <1>1, <1>3 DEF Switching
    <2>4. \A a \in m_alternative_chains : Height[a] \notin DOMAIN Checkpoints
      BY <1>2, <2>3 DEF NoneKept
    <2>5. CASE /\ pc' = "disconnect" /\ alt_chain' = path
               /\ discard' = (Height[block] \in DOMAIN Checkpoints)
      <3>1. Switching' /\ SplitHeight' = Height[path[1]]
        BY <2>5 DEF Switching, SplitHeight
      <3>2. NoneKept'
        BY <1>1, <2>2, <2>4, <2>5, <3>1 DEF NoneKept
      <3>3. WalkClear' /\ EraseClear'
        BY <2>5 DEF WalkClear, EraseClear, RollingBack, Restoring, PushingFor, PushPcs
      <3>4. path[Len(path)] = block
        BY <2>2 DEF Last
      <3>5. SplitClear'
        BY <1>1, <2>1, <2>2, <2>5, <3>1, <3>4 DEF SplitClear
      <3> QED BY <3>2, <3>3, <3>5
    <2>6. CASE pc' = "return" /\ Height[block] \notin DOMAIN Checkpoints
      <3>1. NoneKept'
        BY <1>1, <2>4, <2>6 DEF NoneKept
      <3> QED BY <2>6, <3>1 DEF WalkClear, SplitClear, EraseClear, Switching, RollingBack, Restoring,
                                PushingFor, PushPcs
    <2> QED BY <1>3, <2>5, <2>6 DEF AcceptAlternative
  <1>4. CASE caller = "realt"
    <2>1. pc' = "realt" /\ UNCHANGED <<alt_chain, discard>>
      BY <1>4 DEF AcceptAlternative
    <2>2. Height[block] \notin DOMAIN Checkpoints /\ ~discard
      BY <1>1, <1>2, <1>4, OldBlockHeight DEF WalkClear
    <2>3. Switching /\ Switching'
      BY <1>1, <1>4, <2>1 DEF Switching
    <2>4. NoneKept' /\ SplitClear'
      BY <1>1, <1>2, <2>1, <2>2, <2>3 DEF NoneKept, SplitClear, SplitHeight
    <2>5. WalkClear' /\ EraseClear'
      BY <2>1, <2>2 DEF WalkClear, EraseClear
    <2> QED BY <2>4, <2>5
  <1> QED BY <1>1, <1>3, <1>4 DEF Control, CallerInv

(* The block is refused: no checkpoint asked for the switch that rolls back.*)
LEMMA RefuseAlternativeCheckpoint ==
  ASSUME TypeOK, Control, CheckpointInv, RefuseAlternative
  PROVE  CheckpointInv'
  <1>1. /\ pc = "walk" /\ UNCHANGED <<caller, m_blocks, before, aborted, m_alternative_chains>>
        /\ UNCHANGED <<alt_chain, discard>>
        /\ \/ caller = "add" /\ pc' = "return"
           \/ caller = "realt" /\ pc' = "unconnect"
    BY DEF RefuseAlternative, RefuseReadded, chainVars, historyVars
  <1> SUFFICES ASSUME ~aborted PROVE NoneKept' /\ WalkClear' /\ SplitClear' /\ EraseClear'
    BY <1>1 DEF CheckpointInv
  <1>2. NoneKept /\ WalkClear /\ SplitClear
    BY DEF CheckpointInv
  <1>3. Switching' <=> Switching
    BY <1>1 DEF Switching
  <1>4. NoneKept' /\ SplitClear' /\ WalkClear'
    BY <1>1, <1>2, <1>3 DEF NoneKept, SplitClear, SplitHeight, WalkClear
  <1>5. EraseClear'
    BY <1>1, <1>2 DEF EraseClear, WalkClear, RollingBack, Restoring, PushingFor, PushPcs
  <1> QED BY <1>4, <1>5

-----------------------------------------------------------------------------
(* addNewBlock starts a walk only for a block that isAllowed admits.       *)
LEMMA AddNewBlockCheckpoint ==
  ASSUME TypeOK, Control, CheckpointInv, NEW b \in Block, AddNewBlock(b)
  PROVE  CheckpointInv'
  <1>1. /\ pc = "idle" /\ caller' = "add" /\ block' = b
        /\ UNCHANGED <<m_blocks, aborted, m_alternative_chains>>
        /\ \/ pc' = "load"
           \/ pc' = "walk" /\ path' = <<b>> /\ AlternativeAdmissible(b)
    BY DEF AddNewBlock, chainVars
  <1> SUFFICES ASSUME ~aborted PROVE NoneKept' /\ WalkClear' /\ SplitClear' /\ EraseClear'
    BY <1>1 DEF CheckpointInv
  <1>2. ~Switching /\ ~Switching' /\ ~RollingBack' /\ ~Restoring' /\ pc' # "realt"
    BY <1>1 DEF Switching, RollingBack, Restoring, PushingFor
  <1>3. NoneKept' /\ SplitClear' /\ EraseClear'
    BY <1>1, <1>2 DEF CheckpointInv, NoneKept, SplitClear, EraseClear
  <1>4. Height[b] \in Nat /\ Len(<<b>>) = 1 /\ <<b>>[1] = b
    BY HeightAssumption
  <1>5. CASE pc' = "load"
    BY <1>3, <1>5 DEF WalkClear
  <1>6. CASE pc' = "walk" /\ path' = <<b>> /\ AlternativeAdmissible(b)
    <2>1. \A i \in 1 .. Len(path') : Height[path'[i]] = Height[path'[1]] + i - 1
      BY <1>4, <1>6
    <2>2. \A i \in 1 .. Len(path') - 1 : FALSE
      BY <1>4, <1>6
    <2>3. IsAllowed(Len(m_blocks'), BlockInfo[block'].blockIndex)
      BY <1>1, <1>6 DEF AlternativeAdmissible
    <2>4. IsAllowed(Len(m_blocks), BlockInfo[block].blockIndex)'
      BY <2>3 DEF IsAllowed
    <2>5. WalkClear'
      BY <1>1, <2>1, <2>2, <2>4 DEF WalkClear
    <2> QED BY <1>3, <2>5
  <1> QED BY <1>1, <1>5, <1>6

(* Nothing of this is left when no operation runs.                         *)
LEMMA RestCheckpoint ==
  ASSUME CheckpointInv, pc' \in {"idle", "rebuild"},
         \/ m_alternative_chains' = {}
         \/ pc \in {"idle", "rebuild", "return"} /\ UNCHANGED <<m_alternative_chains, aborted>>
  PROVE  CheckpointInv'
  <1> SUFFICES ASSUME ~aborted' PROVE NoneKept' /\ WalkClear' /\ SplitClear' /\ EraseClear'
    BY DEF CheckpointInv
  <1>1. WalkClear' /\ SplitClear' /\ EraseClear'
    BY DEF WalkClear, SplitClear, EraseClear, Switching, RollingBack, Restoring, PushingFor, PushPcs
  <1>2. CASE m_alternative_chains' = {}
    BY <1>1, <1>2 DEF NoneKept
  <1>3. CASE pc \in {"idle", "rebuild", "return"} /\ UNCHANGED <<m_alternative_chains, aborted>>
    <2>1. ~Switching /\ NoneKept
      BY <1>3 DEF Switching, CheckpointInv
    <2> QED BY <1>1, <1>3, <2>1 DEF NoneKept
  <1> QED BY <1>2, <1>3

(* Every step keeps it.                                                    *)
LEMMA NextCheckpoint ==
  TypeOK /\ Control /\ ShapeInv /\ CheckpointInv /\ [Next]_vars => CheckpointInv'
  <1> SUFFICES ASSUME TypeOK, Control, ShapeInv, CheckpointInv, [Next]_vars PROVE CheckpointInv'
    OBVIOUS
  <1>1. CASE LoadTransactions
    BY <1>1, LoadTransactionsCheckpoint
  <1>2. CASE CheckBlock
    BY <1>2, CheckBlockCheckpoint
  <1>3. CASE PushNextTransaction
    BY <1>3, PushNextTransactionCheckpoint
  <1>4. CASE FinishPush
    BY <1>4, FinishPushCheckpoint
  <1>5. CASE UndoTransaction \/ StartPop
    BY <1>5, PopCheckpoint
  <1>6. CASE FinishUndo
    BY <1>6, FinishUndoCheckpoint
  <1>7. CASE StartConnect \/ ConnectNext \/ FinishConnect \/ StartRestore \/ RestoreNext
    BY <1>7, LoopsCheckpoint
  <1>8. CASE ReaddNext
    BY <1>8, ReaddNextCheckpoint
  <1>9. CASE FinishSwitch \/ FinishRestore
    BY <1>9, ErasedCheckpoint
  <1>10. CASE WalkToMainChain
    BY <1>10, WalkCheckpoint
  <1>11. CASE AcceptAlternative
    BY <1>11, AcceptAlternativeCheckpoint
  <1>12. CASE RefuseAlternative
    BY <1>12, RefuseAlternativeCheckpoint
  <1>13. CASE RebuildNext \/ FinishRebuild \/ Return
    <2>1. /\ pc' \in {"idle", "rebuild"} /\ pc \in {"idle", "rebuild", "return"}
          /\ UNCHANGED <<m_alternative_chains, aborted>>
      BY <1>13 DEF RebuildNext, FinishRebuild, Return, historyVars
    <2> QED BY <2>1, RestCheckpoint
  <1>14. CASE \E b \in Block : AddNewBlock(b)
    BY <1>14, AddNewBlockCheckpoint
  <1>15. CASE \/ \E t \in Tx, keptByBlock \in BOOLEAN : AddNewTx(t, keptByBlock)
              \/ \E expired \in SUBSET m_transactions,
                    forgotten \in SUBSET m_recentlyDeletedTransactions :
                   RemoveExpiredTransactions(expired, forgotten)
    <2>1. /\ pc' \in {"idle", "rebuild"} /\ pc \in {"idle", "rebuild", "return"}
          /\ UNCHANGED <<m_alternative_chains, aborted>>
      BY <1>15 DEF AddNewTx, RemoveExpiredTransactions, historyVars
    <2> QED BY <2>1, RestCheckpoint
  <1>16. CASE Crash \/ Shutdown
    <2>1. pc' = "rebuild" /\ m_alternative_chains' = {}
      BY <1>16 DEF Crash, Shutdown, Start
    <2> QED BY <2>1, RestCheckpoint
  <1>17. CASE UNCHANGED vars
    <2>1. /\ UNCHANGED <<m_alternative_chains, alt_chain, discard, toErase, before, m_blocks, aborted>>
          /\ UNCHANGED <<pc, caller, block, path, readded, disconnected_chain>>
      BY <1>17 DEF vars, chainVars, switchVars, historyVars
    <2>2. UNCHANGED <<Switching, RollingBack, Restoring, SplitHeight, Connected>>
      BY <2>1 DEF Switching, RollingBack, Restoring, PushingFor, SplitHeight, Connected
    <2> QED BY <2>1, <2>2 DEF CheckpointInv, NoneKept, WalkClear, SplitClear, EraseClear, IsAllowed
  <1> QED BY <1>1, <1>2, <1>3, <1>4, <1>5, <1>6, <1>7, <1>8, <1>9, <1>10, <1>11, <1>12, <1>13,
             <1>14, <1>15, <1>16, <1>17 DEF Next, Step

(* Only pushBlock and popBlock change the main chain.                      *)
LEMMA MainChainSteps == [Next]_vars => UNCHANGED m_blocks \/ FinishPush \/ FinishUndo
  <1> SUFFICES ASSUME [Next]_vars, ~FinishPush, ~FinishUndo PROVE UNCHANGED m_blocks
    OBVIOUS
  <1> USE DEF chainVars
  <1>1. CASE LoadTransactions \/ CheckBlock \/ PushNextTransaction \/ UndoTransaction \/ StartPop
    BY <1>1 DEF LoadTransactions, CheckBlock, PushNextTransaction, UndoTransaction, StartPop
  <1>2. CASE StartConnect \/ ConnectNext \/ FinishConnect \/ ReaddNext \/ FinishSwitch
    BY <1>2 DEF StartConnect, ConnectNext, FinishConnect, ReaddNext, FinishSwitch
  <1>3. CASE StartRestore \/ RestoreNext \/ FinishRestore
    BY <1>3 DEF StartRestore, RestoreNext, FinishRestore
  <1>4. CASE WalkToMainChain \/ AcceptAlternative \/ RefuseAlternative
    BY <1>4 DEF WalkToMainChain, AcceptAlternative, RefuseAlternative
  <1>5. CASE RebuildNext \/ FinishRebuild \/ Return
    BY <1>5 DEF RebuildNext, FinishRebuild, Return
  <1>6. CASE \E b \in Block : AddNewBlock(b)
    BY <1>6 DEF AddNewBlock
  <1>7. CASE \E t \in Tx, keptByBlock \in BOOLEAN : AddNewTx(t, keptByBlock)
    BY <1>7 DEF AddNewTx
  <1>8. CASE \E expired \in SUBSET m_transactions,
                forgotten \in SUBSET m_recentlyDeletedTransactions :
               RemoveExpiredTransactions(expired, forgotten)
    BY <1>8 DEF RemoveExpiredTransactions
  <1>9. CASE Crash \/ Shutdown
    BY <1>9 DEF Crash, Shutdown, Start
  <1>10. CASE UNCHANGED vars
    BY <1>10 DEF vars
  <1> QED BY <1>1, <1>2, <1>3, <1>4, <1>5, <1>6, <1>7, <1>8, <1>9, <1>10 DEF Next, Step

(* popBlock never removes a block at the height of a checkpoint.           *)
LEMMA PoppedHeight ==
  ASSUME TypeOK, Control, ShapeInv, CheckpointInv, ~aborted, Popping
  PROVE  Len(m_blocks) - 1 \notin DOMAIN Checkpoints
  <1>0. NoneKept /\ SplitClear /\ EraseClear
    BY DEF CheckpointInv
  <1>1. Switching /\ pc = "undo" /\ caller \in {"disconnect", "unconnect"}
    BY DEF Popping, Switching
  <1>2. /\ SplitHeight \in Nat /\ SplitHeight < Len(m_blocks) /\ alt_chain \in Seq(Block)
        /\ m_blocks \in Seq(Block) /\ Len(m_blocks) \in Nat /\ Len(before.chain) \in Nat
    BY <1>1, SplitHeightType DEF TypeOK, LocalTypeOK, ChainTypeOK, HistoryTypeOK, Control, SwitchInv
  <1>3. CASE caller = "disconnect"
    <2>1. Len(m_blocks) <= Len(before.chain)
      BY <1>1, <1>3 DEF ShapeInv, DisconnectShape, Disconnecting, SameUpTo
    <2>2. SplitHeight <= Len(m_blocks) - 1 /\ ~(Len(before.chain) <= Len(m_blocks) - 1)
      BY <1>2, <2>1
    <2> QED BY <1>0, <1>1, <2>2 DEF SplitClear
  <1>4. CASE caller = "unconnect"
    <2>1. GrowsAlong(m_blocks, SplitHeight, alt_chain) /\ Numbered(m_blocks)
      BY <1>1, <1>4 DEF ShapeInv, ConnectShape, Connecting, HeightShape
    <2> DEFINE k == Len(m_blocks) - SplitHeight
    <2>2. k \in 1 .. Len(alt_chain) /\ m_blocks[SplitHeight + k] = alt_chain[k]
      BY <1>2, <2>1 DEF GrowsAlong
    <2>3. SplitHeight + k = Len(m_blocks) /\ Len(m_blocks) \in 1 .. Len(m_blocks)
      BY <1>2
    <2>4. Height[alt_chain[k]] = Len(m_blocks) - 1
      BY <2>1, <2>2, <2>3 DEF Numbered
    <2>5. k = Connected
      BY DEF Connected
    <2> HIDE DEF k
    <2> SUFFICES ASSUME Len(m_blocks) - 1 \in DOMAIN Checkpoints PROVE FALSE
      OBVIOUS
    <2>6. k = Len(alt_chain) /\ discard
      BY <1>0, <1>1, <2>2, <2>4 DEF SplitClear
    <2>7. Connected < Len(alt_chain)
      BY <1>0, <1>1, <1>4, <2>6 DEF EraseClear, RollingBack
    <2> QED BY <1>2, <2>5, <2>6, <2>7
  <1> QED BY <1>1, <1>3, <1>4

(***************************************************************************)
(* A block at the height of a checkpoint stays in the main chain through   *)
(* every switch and rollback, unless an exception has ended an operation.  *)
(***************************************************************************)
THEOREM CheckpointsAlwaysStay == Spec => CheckpointsStay
  <1>1. Init => CheckpointInv
    BY DEF Init, CheckpointInv, NoneKept, WalkClear, SplitClear, EraseClear, Switching, RollingBack,
           Restoring, PushingFor, PushPcs
  <1>2. TypeOK /\ Control /\ ShapeInv /\ CheckpointInv /\ [Next]_vars => [CheckpointStays]_m_blocks
    <2> SUFFICES ASSUME TypeOK, Control, ShapeInv, CheckpointInv, [Next]_vars, ~aborted,
                        ~UNCHANGED m_blocks, NEW h \in DOMAIN Checkpoints, h < Len(m_blocks)
                 PROVE  h < Len(m_blocks') /\ m_blocks'[h + 1] = m_blocks[h + 1]
      BY DEF CheckpointStays
    <2>1. m_blocks \in Seq(Block) /\ m_blocks # <<>> /\ Len(m_blocks) \in Nat /\ h \in Nat
      BY BoundAssumption DEF TypeOK, ChainTypeOK, Control, LinkInv, ChainLinked
    <2>2. h + 1 \in 1 .. Len(m_blocks)
      BY <2>1
    <2>3. CASE FinishPush
      <3>1. m_blocks' = Append(m_blocks, block) /\ block \in Block
        BY <2>3 DEF FinishPush, PushEntry, SaveAndFail, chainVars, TypeOK, LocalTypeOK
      <3> QED BY <2>1, <2>2, <3>1, AppendType, AppendKeeps
    <2>4. CASE FinishUndo
      <3>1. Popping /\ m_blocks' = Front(m_blocks)
        BY <2>4 DEF FinishUndo, PopEntry, chainVars, Popping
      <3>2. h # Len(m_blocks) - 1
        BY <3>1, PoppedHeight
      <3>3. h + 1 \in 1 .. Len(m_blocks) - 1
        BY <2>1, <3>2
      <3>4. Len(m_blocks') = Len(m_blocks) - 1 /\ m_blocks'[h + 1] = m_blocks[h + 1]
        BY <2>1, <3>1, <3>3, FrontProperties
      <3> QED BY <2>1, <3>3, <3>4
    <2> QED BY <2>3, <2>4, MainChainSteps
  <1>3. Spec => [](TypeOK /\ Control /\ ShapeInv)
    BY ShapeAlways
  <1> QED BY <1>1, <1>2, <1>3, NextCheckpoint, PTL DEF Spec, CheckpointsStay

-----------------------------------------------------------------------------
(***************************************************************************)
(* The transaction map, the spent key images and the lists of outputs      *)
(* agree with the block files at every step, until pushBlock leaves a      *)
(* rejected block in them.                                                 *)
(*                                                                         *)
(* What the indexes should hold is a set of entries, one per transaction   *)
(* of the chain.  Every step leaves that set as it is, adds the entry that *)
(* is last in the order of the chain, removes it, or (a restart) empties   *)
(* the set; so the argument is about the three indexes and a set of        *)
(* entries, and about the set and the chain, each for itself.              *)
(***************************************************************************)

Entry(h, p, t) == [block |-> h, transaction |-> p, tx |-> t]
EntryType == [block : Nat, transaction : Nat, tx : TxId]
EntryBefore(e, f) ==
  e.block < f.block \/ (e.block = f.block /\ e.transaction < f.transaction)

MapMatches(M, E) ==
  /\ \A e \in E : M[e.tx] = [block |-> e.block, transaction |-> e.transaction]
  /\ \A t \in TxId : M[t] # NoIndex => Entry(M[t].block, M[t].transaction, t) \in E

KeysMatch(K, E) ==
  /\ K \subseteq KeyImage
  /\ \A k \in KeyImage : k \in K <=> \E e \in E : k \in KeyImagesOf(e.tx)
  /\ \A e, f \in E : e # f => KeyImagesOf(e.tx) \cap KeyImagesOf(f.tx) = {}

(* The list of an amount: its outputs are those of the entries, in their   *)
(* order, and those of a transaction follow each other from the first.     *)
OutputOf(e, k) == [block |-> e.block, transaction |-> e.transaction, out |-> k]
FromEntries(outs, E, a) ==
  \A i \in 1 .. Len(outs) : \E e \in E :
    /\ outs[i].block = e.block /\ outs[i].transaction = e.transaction
    /\ outs[i].out < TxInfo[e.tx].outputs[a]
AllEntries(outs, E, a) ==
  \A e \in E : \A k \in 0 .. TxInfo[e.tx].outputs[a] - 1 :
    \E i \in 1 .. Len(outs) : outs[i] = OutputOf(e, k)
InOrder(outs) == \A i, j \in 1 .. Len(outs) : i < j => OutputBefore(outs[i], outs[j])
InRuns(outs) ==
  \A i \in 1 .. Len(outs) :
    /\ outs[i].out < i
    /\ \A k \in 0 .. outs[i].out : outs[(i - outs[i].out) + k] = OutputOf(outs[i], k)
ListMatches(outs, E, a) ==
  /\ outs \in Seq(OutputPlace)
  /\ FromEntries(outs, E, a) /\ AllEntries(outs, E, a) /\ InOrder(outs) /\ InRuns(outs)

OutputsMatchEntries(O, E) == \A a \in Amount : ListMatches(O[a], E, a)

-----------------------------------------------------------------------------
(* The indexes and a set of entries.                                       *)

(* How many outputs of an amount a transaction has.                        *)
LEMMA OutputCount == \A t \in TxId, a \in Amount : TxInfo[t].outputs[a] \in Nat
  BY TxAssumption DEF TransactionData

(* pushTransaction enters a transaction that the map does not hold.        *)
LEMMA MapInserted ==
  ASSUME NEW M \in [TxId -> TransactionIndex \cup {NoIndex}], NEW E \in SUBSET EntryType,
         MapMatches(M, E), NEW h \in Nat, NEW p \in Nat, NEW t \in TxId, M[t] = NoIndex
  PROVE  MapMatches([M EXCEPT ![t] = [block |-> h, transaction |-> p]], E \cup {Entry(h, p, t)})
  <1> DEFINE N == [M EXCEPT ![t] = [block |-> h, transaction |-> p]]
             F == E \cup {Entry(h, p, t)}
  <1>1. N[t] = [block |-> h, transaction |-> p] /\ \A u \in TxId : u # t => N[u] = M[u]
    OBVIOUS
  <1>2. \A e \in E : e.tx \in TxId /\ e.block \in Nat /\ e.transaction \in Nat
    BY DEF EntryType
  <1>3. ASSUME NEW e \in E PROVE e.tx # t
    <2>1. M[e.tx] = [block |-> e.block, transaction |-> e.transaction]
      BY DEF MapMatches
    <2>2. M[e.tx].block \in Nat
      BY <1>2, <2>1
    <2>3. NoIndex.block \notin Nat
      BY DEF NoIndex
    <2> QED BY <2>2, <2>3
  <1>4. /\ Entry(h, p, t).tx = t /\ Entry(h, p, t).block = h /\ Entry(h, p, t).transaction = p
    BY DEF Entry
  <1> HIDE DEF N
  <1>5. ASSUME NEW e \in F PROVE N[e.tx] = [block |-> e.block, transaction |-> e.transaction]
    <2>1. CASE e \in E
      BY <2>1, <1>1, <1>2, <1>3 DEF MapMatches
    <2>2. CASE e = Entry(h, p, t)
      BY <2>2, <1>1, <1>4
    <2> QED BY <2>1, <2>2
  <1>6. ASSUME NEW u \in TxId, N[u] # NoIndex PROVE Entry(N[u].block, N[u].transaction, u) \in F
    <2>1. CASE u = t
      BY <2>1, <1>1
    <2>2. CASE u # t
      BY <2>2, <1>1, <1>6 DEF MapMatches
    <2> QED BY <2>1, <2>2
  <1>7. MapMatches(N, F)
    BY <1>5, <1>6 DEF MapMatches
  <1> QED BY <1>7 DEF N

(* popTransaction removes a transaction from the map.                      *)
LEMMA MapRemoved ==
  ASSUME NEW M \in [TxId -> TransactionIndex \cup {NoIndex}], NEW E \in SUBSET EntryType,
         MapMatches(M, E), NEW e \in E
  PROVE  MapMatches([M EXCEPT ![e.tx] = NoIndex], E \ {e})
  <1> DEFINE N == [M EXCEPT ![e.tx] = NoIndex]
  <1>1. \A f \in E : f.tx \in TxId /\ f = Entry(f.block, f.transaction, f.tx)
    BY DEF EntryType, Entry
  <1>2. N[e.tx] = NoIndex /\ \A u \in TxId : u # e.tx => N[u] = M[u]
    BY <1>1
  <1> HIDE DEF N
  <1>3. ASSUME NEW f \in E, f.tx = e.tx PROVE f = e
    <2>1. M[f.tx] = [block |-> f.block, transaction |-> f.transaction]
          /\ M[e.tx] = [block |-> e.block, transaction |-> e.transaction]
      BY DEF MapMatches
    <2>2. f.block = e.block /\ f.transaction = e.transaction
      BY <1>3, <2>1
    <2> QED BY <1>1, <1>3, <2>2
  <1>4. ASSUME NEW f \in E \ {e}
        PROVE  N[f.tx] = [block |-> f.block, transaction |-> f.transaction]
    <2>1. f.tx # e.tx
      BY <1>3
    <2> QED BY <1>1, <1>2, <2>1 DEF MapMatches
  <1>5. ASSUME NEW u \in TxId, N[u] # NoIndex
        PROVE  Entry(N[u].block, N[u].transaction, u) \in E \ {e}
    <2>1. u # e.tx /\ N[u] = M[u]
      BY <1>2, <1>5
    <2>2. Entry(N[u].block, N[u].transaction, u) \in E
      BY <1>5, <2>1 DEF MapMatches
    <2>3. Entry(N[u].block, N[u].transaction, u).tx = u
      BY DEF Entry
    <2> QED BY <2>1, <2>2, <2>3
  <1>6. MapMatches(N, E \ {e})
    BY <1>4, <1>5 DEF MapMatches
  <1> QED BY <1>6 DEF N

(* pushTransaction marks key images that no entry spends.                  *)
LEMMA KeysInserted ==
  ASSUME NEW K, NEW E \in SUBSET EntryType, KeysMatch(K, E), NEW e \in EntryType,
         KeyImagesOf(e.tx) \cap K = {}
  PROVE  KeysMatch(K \cup KeyImagesOf(e.tx), E \cup {e})
  <1>1. \A f \in E : f.tx \in TxId
    BY DEF EntryType
  <1>2. KeyImagesOf(e.tx) \subseteq KeyImage /\ \A f \in E : KeyImagesOf(f.tx) \subseteq KeyImage
    BY <1>1, KeyImagesType DEF EntryType
  <1>3. \A f \in E : KeyImagesOf(f.tx) \subseteq K
    BY <1>2 DEF KeysMatch
  <1>4. \A f \in E : KeyImagesOf(e.tx) \cap KeyImagesOf(f.tx) = {}
    BY <1>3
  <1>5. K \cup KeyImagesOf(e.tx) \subseteq KeyImage
    BY <1>2 DEF KeysMatch
  <1>6. \A k \in KeyImage : k \in K \cup KeyImagesOf(e.tx)
                              <=> \E f \in E \cup {e} : k \in KeyImagesOf(f.tx)
    BY DEF KeysMatch
  <1>7. \A f, g \in E \cup {e} : f # g => KeyImagesOf(f.tx) \cap KeyImagesOf(g.tx) = {}
    BY <1>4 DEF KeysMatch
  <1> QED BY <1>5, <1>6, <1>7 DEF KeysMatch

(* popTransaction frees the key images of its transaction and no others.   *)
LEMMA KeysRemoved ==
  ASSUME NEW K, NEW E \in SUBSET EntryType, KeysMatch(K, E), NEW e \in E
  PROVE  KeysMatch(K \ KeyImagesOf(e.tx), E \ {e})
  <1>1. K \ KeyImagesOf(e.tx) \subseteq KeyImage
    BY DEF KeysMatch
  <1>2. ASSUME NEW k \in KeyImage
        PROVE  k \in K \ KeyImagesOf(e.tx) <=> \E f \in E \ {e} : k \in KeyImagesOf(f.tx)
    BY DEF KeysMatch
  <1>3. \A f, g \in E \ {e} : f # g => KeyImagesOf(f.tx) \cap KeyImagesOf(g.tx) = {}
    BY DEF KeysMatch
  <1> QED BY <1>1, <1>2, <1>3 DEF KeysMatch

(* The outputs that pushTransaction appends to the list of an amount.      *)
NewOutputs(e, n) == [i \in 1 .. n |-> OutputOf(e, i - 1)]

(* An output of a list names a block, a transaction and an output of it.   *)
LEMMA PlaceFields ==
  ASSUME NEW outs \in Seq(OutputPlace)
  PROVE  \A i \in 1 .. Len(outs) :
           /\ outs[i] \in OutputPlace /\ outs[i].out \in Nat
           /\ outs[i].block \in Nat /\ outs[i].transaction \in Nat
  <1>1. \A i \in 1 .. Len(outs) : outs[i] \in OutputPlace
    OBVIOUS
  <1>2. \A o \in OutputPlace : o.out \in Nat /\ o.block \in Nat /\ o.transaction \in Nat
    BY DEF OutputPlace
  <1> QED BY <1>1, <1>2

(* The list with the outputs of one more transaction, place by place.      *)
LEMMA ListAppended ==
  ASSUME NEW outs \in Seq(OutputPlace), NEW e \in EntryType, NEW n \in Nat
  PROVE  /\ outs \o NewOutputs(e, n) \in Seq(OutputPlace)
         /\ Len(outs \o NewOutputs(e, n)) = Len(outs) + n
         /\ \A i \in 1 .. Len(outs) : (outs \o NewOutputs(e, n))[i] = outs[i]
         /\ \A i \in 1 .. n : (outs \o NewOutputs(e, n))[Len(outs) + i] = OutputOf(e, i - 1)
  <1>1. \A i \in 1 .. n : OutputOf(e, i - 1) \in OutputPlace
    BY DEF OutputOf, OutputPlace, EntryType
  <1>2. NewOutputs(e, n) \in Seq(OutputPlace) /\ Len(NewOutputs(e, n)) = n
        /\ \A i \in 1 .. n : NewOutputs(e, n)[i] = OutputOf(e, i - 1)
    BY <1>1 DEF NewOutputs
  <1> DEFINE new == NewOutputs(e, n)
  <1> HIDE DEF new
  <1>3. new \in Seq(OutputPlace) /\ Len(new) = n /\ \A i \in 1 .. n : new[i] = OutputOf(e, i - 1)
    BY <1>2 DEF new
  <1>4. outs \o new \in Seq(OutputPlace) /\ Len(outs \o new) = Len(outs) + n
        /\ \A i \in 1 .. Len(outs) : (outs \o new)[i] = outs[i]
    BY <1>3
  <1>5. \A i \in 1 .. n : (outs \o new)[Len(outs) + i] = new[i]
    BY <1>3
  <1> QED BY <1>3, <1>4, <1>5 DEF new

(* pushTransaction appends the outputs of a transaction that comes last.   *)
LEMMA ListInserted ==
  ASSUME NEW a \in Amount, NEW outs, NEW E \in SUBSET EntryType, ListMatches(outs, E, a),
         NEW e \in EntryType, \A f \in E : EntryBefore(f, e)
  PROVE  ListMatches(outs \o NewOutputs(e, TxInfo[e.tx].outputs[a]), E \cup {e}, a)
  <1> DEFINE n == TxInfo[e.tx].outputs[a]
             w == outs \o NewOutputs(e, n)
             L == Len(outs)
  <1>1. n \in Nat /\ e.block \in Nat /\ e.transaction \in Nat
    BY OutputCount DEF EntryType
  <1>2. outs \in Seq(OutputPlace) /\ L \in Nat
    BY DEF ListMatches
  <1> HIDE DEF n
  <1>3. /\ w \in Seq(OutputPlace) /\ Len(w) = L + n
        /\ \A i \in 1 .. L : w[i] = outs[i]
        /\ \A i \in 1 .. n : w[L + i] = OutputOf(e, i - 1)
    BY <1>1, <1>2, ListAppended
  <1> HIDE DEF w, L
  <1>4. \A i \in 1 .. L : outs[i] \in OutputPlace /\ outs[i].out \in Nat /\ outs[i].block \in Nat
                           /\ outs[i].transaction \in Nat
    BY <1>2, PlaceFields DEF L
  <1>5. \A i \in 1 .. L + n : i \in 1 .. L \/ (i - L \in 1 .. n /\ L + (i - L) = i)
    BY <1>1, <1>2
  <1>6. \A i \in 1 .. L + n : i \in 1 .. L \/ (i - L \in 1 .. n /\ w[i] = OutputOf(e, (i - L) - 1))
    BY <1>3, <1>5
  <1>7. FromEntries(w, E \cup {e}, a)
    <2> SUFFICES ASSUME NEW i \in 1 .. L + n
                 PROVE  \E f \in E \cup {e} : /\ w[i].block = f.block
                                              /\ w[i].transaction = f.transaction
                                              /\ w[i].out < TxInfo[f.tx].outputs[a]
      BY <1>3 DEF FromEntries
    <2>1. CASE i \in 1 .. L
      <3>1. w[i] = outs[i]
        BY <2>1, <1>3
      <3>2. PICK f \in E : /\ outs[i].block = f.block /\ outs[i].transaction = f.transaction
                           /\ outs[i].out < TxInfo[f.tx].outputs[a]
        BY <2>1 DEF ListMatches, FromEntries, L
      <3> QED BY <3>1, <3>2
    <2>2. CASE i - L \in 1 .. n /\ w[i] = OutputOf(e, (i - L) - 1)
      <3>1. w[i].block = e.block /\ w[i].transaction = e.transaction /\ w[i].out = (i - L) - 1
        BY <2>2 DEF OutputOf
      <3>2. (i - L) - 1 < n
        BY <1>1, <1>2, <2>2
      <3> QED BY <3>1, <3>2 DEF n
    <2> QED BY <2>1, <2>2, <1>6
  <1>8. AllEntries(w, E \cup {e}, a)
    <2> SUFFICES ASSUME NEW f \in E \cup {e}, NEW k \in 0 .. TxInfo[f.tx].outputs[a] - 1
                 PROVE  \E i \in 1 .. L + n : w[i] = OutputOf(f, k)
      BY <1>3 DEF AllEntries
    <2>1. CASE f \in E
      <3>1. PICK i \in 1 .. L : outs[i] = OutputOf(f, k)
        BY <2>1 DEF ListMatches, AllEntries, L
      <3>2. i \in 1 .. L + n /\ w[i] = outs[i]
        BY <1>1, <1>2, <1>3
      <3> QED BY <3>1, <3>2
    <2>2. CASE f = e
      <3>1. k \in 0 .. n - 1
        BY <2>2 DEF n
      <3>2. k + 1 \in 1 .. n /\ (k + 1) - 1 = k /\ L + (k + 1) \in 1 .. L + n
        BY <3>1, <1>1, <1>2
      <3>3. w[L + (k + 1)] = OutputOf(e, (k + 1) - 1)
        BY <3>2, <1>3
      <3> QED BY <2>2, <3>2, <3>3
    <2> QED BY <2>1, <2>2
  <1>9. InOrder(w)
    <2> SUFFICES ASSUME NEW i \in 1 .. L + n, NEW j \in 1 .. L + n, i < j
                 PROVE  OutputBefore(w[i], w[j])
      BY <1>3 DEF InOrder
    <2>1. CASE j \in 1 .. L
      <3>1. i \in 1 .. L
        BY <1>1, <1>2, <2>1
      <3>2. OutputBefore(outs[i], outs[j])
        BY <2>1, <3>1 DEF ListMatches, InOrder, L
      <3> QED BY <2>1, <3>1, <3>2, <1>3
    <2>2. CASE j - L \in 1 .. n /\ w[j] = OutputOf(e, (j - L) - 1)
      <3>1. w[j].block = e.block /\ w[j].transaction = e.transaction /\ w[j].out = (j - L) - 1
        BY <2>2 DEF OutputOf
      <3>2. CASE i \in 1 .. L
        <4>1. w[i] = outs[i]
          BY <3>2, <1>3
        <4>2. PICK f \in E : outs[i].block = f.block /\ outs[i].transaction = f.transaction
          BY <3>2 DEF ListMatches, FromEntries, L
        <4>3. EntryBefore(f, e)
          OBVIOUS
        <4> QED BY <3>1, <4>1, <4>2, <4>3 DEF EntryBefore, OutputBefore
      <3>3. CASE i - L \in 1 .. n /\ w[i] = OutputOf(e, (i - L) - 1)
        <4>1. w[i].block = e.block /\ w[i].transaction = e.transaction /\ w[i].out = (i - L) - 1
          BY <3>3 DEF OutputOf
        <4>2. (i - L) - 1 < (j - L) - 1
          BY <1>1, <1>2
        <4> QED BY <3>1, <4>1, <4>2 DEF OutputBefore
      <3> QED BY <3>2, <3>3, <1>6
    <2> QED BY <2>1, <2>2, <1>6
  <1>10. InRuns(w)
    <2> SUFFICES ASSUME NEW i \in 1 .. L + n
                 PROVE  /\ w[i].out < i
                        /\ \A k \in 0 .. w[i].out : w[(i - w[i].out) + k] = OutputOf(w[i], k)
      BY <1>3 DEF InRuns
    <2>1. CASE i \in 1 .. L
      <3>1. w[i] = outs[i] /\ outs[i].out \in Nat
        BY <2>1, <1>3, <1>4
      <3>2. outs[i].out < i
            /\ \A k \in 0 .. outs[i].out : outs[(i - outs[i].out) + k] = OutputOf(outs[i], k)
        BY <2>1 DEF ListMatches, InRuns, L
      <3>3. ASSUME NEW k \in 0 .. outs[i].out PROVE w[(i - outs[i].out) + k] = OutputOf(outs[i], k)
        <4>1. (i - outs[i].out) + k \in 1 .. L
          BY <1>2, <2>1, <3>1, <3>2
        <4> QED BY <4>1, <3>2, <1>3
      <3> QED BY <3>1, <3>2, <3>3
    <2>2. CASE i - L \in 1 .. n /\ w[i] = OutputOf(e, (i - L) - 1)
      <3>1. w[i].block = e.block /\ w[i].transaction = e.transaction /\ w[i].out = (i - L) - 1
        BY <2>2 DEF OutputOf
      <3>2. \A k : OutputOf(w[i], k) = OutputOf(e, k)
        BY <3>1 DEF OutputOf
      <3>3. (i - L) - 1 < i /\ i - ((i - L) - 1) = L + 1
        BY <1>1, <1>2
      <3>4. ASSUME NEW k \in 0 .. (i - L) - 1 PROVE w[(L + 1) + k] = OutputOf(e, k)
        <4>1. k + 1 \in 1 .. n /\ L + (k + 1) = (L + 1) + k /\ (k + 1) - 1 = k
          BY <1>1, <1>2, <2>2
        <4>2. w[L + (k + 1)] = OutputOf(e, (k + 1) - 1)
          BY <4>1, <1>3
        <4> QED BY <4>1, <4>2
      <3> QED BY <3>1, <3>2, <3>3, <3>4
    <2> QED BY <2>1, <2>2, <1>6
  <1>11. ListMatches(w, E \cup {e}, a)
    BY <1>3, <1>7, <1>8, <1>9, <1>10 DEF ListMatches
  <1> QED BY <1>11 DEF w, n

(* At the end of the list stands the whole run of the last transaction:    *)
(* what popTransaction cuts off.                                           *)
LEMMA RunAtEndIsWhole ==
  ASSUME NEW a \in Amount, NEW outs, NEW E \in SUBSET EntryType, ListMatches(outs, E, a),
         NEW e \in E, \A f \in E : f = e \/ EntryBefore(f, e)
  PROVE  LET n == TxInfo[e.tx].outputs[a]
         IN  /\ RunAtEnd(outs, [block |-> e.block, transaction |-> e.transaction], n) = n
             /\ n <= Len(outs)
             /\ \A k \in 0 .. n - 1 : outs[((Len(outs) - n) + 1) + k] = OutputOf(e, k)
             /\ n = 0 => \A i \in 1 .. Len(outs) :
                           ~(outs[i].block = e.block /\ outs[i].transaction = e.transaction)
  <1> DEFINE n == TxInfo[e.tx].outputs[a]
             L == Len(outs)
             ix == [block |-> e.block, transaction |-> e.transaction]
  <1>1. n \in Nat /\ e.block \in Nat /\ e.transaction \in Nat /\ e \in EntryType
    BY OutputCount DEF EntryType
  <1>2. outs \in Seq(OutputPlace) /\ L \in Nat
    BY DEF ListMatches
  <1>3. \A i \in 1 .. L : outs[i] \in OutputPlace /\ outs[i].out \in Nat /\ outs[i].block \in Nat
                           /\ outs[i].transaction \in Nat
    BY <1>2, PlaceFields
  <1>4. ix.block = e.block /\ ix.transaction = e.transaction
    OBVIOUS
  <1>5. \A f \in E : f.block \in Nat /\ f.transaction \in Nat
    BY DEF EntryType
  <1>6. ASSUME NEW i \in 1 .. L
        PROVE  \/ outs[i].block < e.block
               \/ outs[i].block = e.block /\ outs[i].transaction < e.transaction
               \/ outs[i].block = e.block /\ outs[i].transaction = e.transaction /\ outs[i].out < n
    <2>1. PICK f \in E : /\ outs[i].block = f.block /\ outs[i].transaction = f.transaction
                         /\ outs[i].out < TxInfo[f.tx].outputs[a]
      BY DEF ListMatches, FromEntries
    <2>2. CASE f = e
      BY <2>1, <2>2
    <2>3. CASE EntryBefore(f, e)
      BY <2>1, <2>3 DEF EntryBefore
    <2> QED BY <2>2, <2>3
  <1> HIDE DEF n, ix
  <1>7. CASE n = 0
    <2>1. ASSUME NEW i \in 1 .. L
          PROVE  ~(outs[i].block = e.block /\ outs[i].transaction = e.transaction)
      BY <1>1, <1>3, <1>6, <1>7
    <2>2. CASE outs = <<>>
      BY <2>2, <1>7, <1>2, <2>1 DEF RunAtEnd, n, ix
    <2>3. CASE outs # <<>>
      <3>1. L \in 1 .. L /\ Last(outs) = outs[L]
        BY <1>2, <2>3 DEF Last
      <3>2. ~(Last(outs).block = ix.block /\ Last(outs).transaction = ix.transaction)
        BY <1>4, <2>1, <3>1
      <3>3. RunAtEnd(outs, ix, n) = 0
        BY <3>2 DEF RunAtEnd
      <3> QED BY <3>3, <1>7, <1>2, <2>1 DEF n, ix
    <2> QED BY <2>2, <2>3
  <1>8. CASE n > 0
    <2>1. n - 1 \in 0 .. n - 1
      BY <1>1, <1>8
    <2>2. PICK i \in 1 .. L : outs[i] = OutputOf(e, n - 1)
      BY <2>1 DEF ListMatches, AllEntries, n
    <2>3. outs[i].block = e.block /\ outs[i].transaction = e.transaction /\ outs[i].out = n - 1
      BY <2>2 DEF OutputOf
    <2>4. i = L
      <3> SUFFICES ASSUME i < L PROVE FALSE
        BY <1>2
      <3>1. L \in 1 .. L
        BY <1>2
      <3>2. OutputBefore(outs[i], outs[L])
        BY <3>1 DEF ListMatches, InOrder
      <3> QED BY <1>1, <1>3, <1>6, <2>3, <3>1, <3>2, SMTT(30) DEF OutputBefore
    <2>5. Last(outs) = outs[L] /\ outs # <<>>
      BY <1>2, <2>2 DEF Last
    <2>6. n - 1 < n /\ (n - 1) + 1 = n
      BY <1>1
    <2>7. RunAtEnd(outs, ix, n) = n
      BY <1>4, <2>3, <2>4, <2>5, <2>6 DEF RunAtEnd
    <2>8. outs[L].out < L
          /\ \A k \in 0 .. outs[L].out : outs[(L - outs[L].out) + k] = OutputOf(outs[L], k)
      BY <2>4 DEF ListMatches, InRuns
    <2>9. n <= L
      BY <1>1, <1>2, <2>3, <2>4, <2>8
    <2>10. ASSUME NEW k \in 0 .. n - 1 PROVE outs[((L - n) + 1) + k] = OutputOf(e, k)
      <3>1. outs[(L - outs[L].out) + k] = OutputOf(outs[L], k)
        BY <2>3, <2>4, <2>8
      <3>2. OutputOf(outs[L], k) = OutputOf(e, k)
        BY <2>3, <2>4 DEF OutputOf
      <3>3. L - outs[L].out = (L - n) + 1
        BY <1>1, <1>2, <2>3, <2>4
      <3> QED BY <3>1, <3>2, <3>3
    <2> QED BY <1>8, <2>7, <2>9, <2>10 DEF n, ix
  <1>9. n = 0 \/ n > 0
    BY <1>1
  <1> QED BY <1>7, <1>8, <1>9

(* popTransaction removes the outputs of its transaction and no others.    *)
LEMMA ListRemoved ==
  ASSUME NEW a \in Amount, NEW outs, NEW E \in SUBSET EntryType, ListMatches(outs, E, a),
         NEW e \in E, \A f \in E : f = e \/ EntryBefore(f, e)
  PROVE  ListMatches(SubSeq(outs, 1, Len(outs)
           - RunAtEnd(outs, [block |-> e.block, transaction |-> e.transaction],
                      TxInfo[e.tx].outputs[a])), E \ {e}, a)
  <1> DEFINE n == TxInfo[e.tx].outputs[a]
             L == Len(outs)
             m == L - n
             w == SubSeq(outs, 1, m)
  <1>1. n \in Nat /\ e.block \in Nat /\ e.transaction \in Nat /\ e \in EntryType
    BY OutputCount DEF EntryType
  <1>2. outs \in Seq(OutputPlace) /\ L \in Nat
    BY DEF ListMatches
  <1>3. /\ RunAtEnd(outs, [block |-> e.block, transaction |-> e.transaction], n) = n
        /\ n <= L
        /\ \A k \in 0 .. n - 1 : outs[(m + 1) + k] = OutputOf(e, k)
        /\ n = 0 => \A i \in 1 .. L : ~(outs[i].block = e.block /\ outs[i].transaction = e.transaction)
    BY RunAtEndIsWhole
  <1>4. \A i \in 1 .. L : outs[i] \in OutputPlace /\ outs[i].out \in Nat /\ outs[i].block \in Nat
                           /\ outs[i].transaction \in Nat
    BY <1>2, PlaceFields
  <1>5. \A f \in E : f.block \in Nat /\ f.transaction \in Nat
    BY DEF EntryType
  <1> HIDE DEF n
  <1>6. m \in Nat /\ m <= L /\ m + n = L
    BY <1>1, <1>2, <1>3
  <1>7. /\ w \in Seq(OutputPlace) /\ Len(w) = m
        /\ \A i \in 1 .. m : w[i] = outs[i] /\ i \in 1 .. L
    BY <1>2, <1>6
  <1> HIDE DEF w, L, m
  <1>8. ASSUME NEW i \in 1 .. m
        PROVE  ~(outs[i].block = e.block /\ outs[i].transaction = e.transaction)
    <2>1. CASE n = 0
      BY <2>1, <1>3, <1>7
    <2>2. CASE n > 0
      <3>1. 0 \in 0 .. n - 1 /\ m + 1 \in 1 .. L /\ i \in 1 .. L /\ i < m + 1 /\ (m + 1) + 0 = m + 1
        BY <1>1, <1>2, <1>6, <2>2
      <3>2. outs[(m + 1) + 0] = OutputOf(e, 0)
        BY <3>1, <1>3
      <3>3. outs[m + 1].block = e.block /\ outs[m + 1].transaction = e.transaction /\ outs[m + 1].out = 0
        BY <3>1, <3>2 DEF OutputOf
      <3>4. OutputBefore(outs[i], outs[m + 1])
        BY <3>1 DEF ListMatches, InOrder, L
      <3> QED BY <1>1, <1>4, <3>1, <3>3, <3>4 DEF OutputBefore
    <2> QED BY <1>1, <2>1, <2>2
  <1>9. FromEntries(w, E \ {e}, a)
    <2> SUFFICES ASSUME NEW i \in 1 .. m
                 PROVE  \E f \in E \ {e} : /\ w[i].block = f.block
                                           /\ w[i].transaction = f.transaction
                                           /\ w[i].out < TxInfo[f.tx].outputs[a]
      BY <1>7 DEF FromEntries
    <2>1. w[i] = outs[i] /\ i \in 1 .. L
      BY <1>7
    <2>2. PICK f \in E : /\ outs[i].block = f.block /\ outs[i].transaction = f.transaction
                         /\ outs[i].out < TxInfo[f.tx].outputs[a]
      BY <2>1 DEF ListMatches, FromEntries, L
    <2>3. f # e
      BY <1>8, <2>2
    <2> QED BY <2>1, <2>2, <2>3
  <1>10. AllEntries(w, E \ {e}, a)
    <2> SUFFICES ASSUME NEW f \in E \ {e}, NEW k \in 0 .. TxInfo[f.tx].outputs[a] - 1
                 PROVE  \E i \in 1 .. m : w[i] = OutputOf(f, k)
      BY <1>7 DEF AllEntries
    <2>1. PICK i \in 1 .. L : outs[i] = OutputOf(f, k)
      BY DEF ListMatches, AllEntries, L
    <2>2. outs[i].block = f.block /\ outs[i].transaction = f.transaction
      BY <2>1 DEF OutputOf
    <2>3. i <= m
      <3> SUFFICES ASSUME i > m PROVE FALSE
        BY <1>6, <1>2
      <3>1. (i - m) - 1 \in 0 .. n - 1 /\ (m + 1) + ((i - m) - 1) = i
        BY <1>1, <1>2, <1>6
      <3>2. outs[i] = OutputOf(e, (i - m) - 1)
        BY <3>1, <1>3
      <3>3. outs[i].block = e.block /\ outs[i].transaction = e.transaction
        BY <3>2 DEF OutputOf
      <3>4. EntryBefore(f, e)
        OBVIOUS
      <3> QED BY <1>1, <1>5, <2>2, <3>3, <3>4 DEF EntryBefore
    <2>4. i \in 1 .. m
      BY <2>3, <1>6, <1>2
    <2> QED BY <2>1, <2>4, <1>7
  <1>11. InOrder(w)
    BY <1>7 DEF ListMatches, InOrder, L
  <1>12. InRuns(w)
    <2> SUFFICES ASSUME NEW i \in 1 .. m
                 PROVE  /\ w[i].out < i
                        /\ \A k \in 0 .. w[i].out : w[(i - w[i].out) + k] = OutputOf(w[i], k)
      BY <1>7 DEF InRuns
    <2>1. w[i] = outs[i] /\ i \in 1 .. L /\ outs[i].out \in Nat
      BY <1>4, <1>7
    <2>2. outs[i].out < i
          /\ \A k \in 0 .. outs[i].out : outs[(i - outs[i].out) + k] = OutputOf(outs[i], k)
      BY <2>1 DEF ListMatches, InRuns, L
    <2>3. ASSUME NEW k \in 0 .. outs[i].out PROVE w[(i - outs[i].out) + k] = OutputOf(outs[i], k)
      <3>1. (i - outs[i].out) + k \in 1 .. m
        BY <2>1, <2>2, <1>6
      <3> QED BY <3>1, <2>2, <1>7
    <2> QED BY <2>1, <2>2, <2>3
  <1>13. ListMatches(w, E \ {e}, a)
    BY <1>7, <1>9, <1>10, <1>11, <1>12 DEF ListMatches
  <1> QED BY <1>3, <1>13 DEF w, m, n, L

-----------------------------------------------------------------------------
(* The three indexes together.                                             *)
Match(M, K, O, E) == MapMatches(M, E) /\ KeysMatch(K, E) /\ OutputsMatchEntries(O, E)
IndexesHold(E) == Match(m_transactionMap, m_spent_keys, m_outputs, E)

(* pushTransaction and rebuildCache enter a transaction that comes last.   *)
LEMMA InsertMatches ==
  ASSUME IndexTypeOK, NEW E \in SUBSET EntryType, IndexesHold(E),
         NEW h \in Nat, NEW p \in Nat, NEW t \in TxId, InsertTransaction(t, h, p),
         m_transactionMap[t] = NoIndex, KeyImagesOf(t) \cap m_spent_keys = {},
         \A f \in E : EntryBefore(f, Entry(h, p, t))
  PROVE  Match(m_transactionMap', m_spent_keys', m_outputs', E \cup {Entry(h, p, t)})
  <1> DEFINE e == Entry(h, p, t)
  <1>1. e \in EntryType /\ e.tx = t /\ e.block = h /\ e.transaction = p
    BY DEF Entry, EntryType
  <1> HIDE DEF e
  <1>2. MapMatches(m_transactionMap', E \cup {e})
    <2>1. m_transactionMap' = [m_transactionMap EXCEPT ![t] = [block |-> h, transaction |-> p]]
      BY DEF InsertTransaction
    <2>2. m_transactionMap \in [TxId -> TransactionIndex \cup {NoIndex}]
      BY DEF IndexTypeOK
    <2> QED BY <2>1, <2>2, MapInserted DEF IndexesHold, Match, e
  <1>3. KeysMatch(m_spent_keys', E \cup {e})
    <2>1. m_spent_keys' = m_spent_keys \cup KeyImagesOf(e.tx)
      BY <1>1 DEF InsertTransaction
    <2> QED BY <1>1, <2>1, KeysInserted DEF IndexesHold, Match
  <1>4. ASSUME NEW a \in Amount PROVE ListMatches(m_outputs'[a], E \cup {e}, a)
    <2>1. m_outputs'[a] = m_outputs[a] \o OutputsOf(t, h, p)[a]
      BY DEF InsertTransaction
    <2>2. OutputsOf(t, h, p)[a] = NewOutputs(e, TxInfo[e.tx].outputs[a])
      BY <1>1 DEF OutputsOf, NewOutputs, OutputOf
    <2>3. ListMatches(m_outputs[a], E, a)
      BY DEF IndexesHold, Match, OutputsMatchEntries
    <2>4. \A f \in E : EntryBefore(f, e)
      BY DEF e
    <2> QED BY <1>1, <2>1, <2>2, <2>3, <2>4, ListInserted
  <1> QED BY <1>2, <1>3, <1>4 DEF Match, OutputsMatchEntries, e

(* popTransaction removes the transaction that comes last.                 *)
LEMMA PopMatches ==
  ASSUME IndexTypeOK, NEW E \in SUBSET EntryType, IndexesHold(E),
         NEW e \in E, \A f \in E : f = e \/ EntryBefore(f, e), PopTransaction(e.tx)
  PROVE  Match(m_transactionMap', m_spent_keys', m_outputs', E \ {e})
  <1>1. m_transactionMap[e.tx] = [block |-> e.block, transaction |-> e.transaction]
    BY DEF IndexesHold, Match, MapMatches
  <1>2. MapMatches(m_transactionMap', E \ {e})
    BY MapRemoved DEF IndexesHold, Match, PopTransaction, IndexTypeOK
  <1>3. KeysMatch(m_spent_keys', E \ {e})
    BY KeysRemoved DEF IndexesHold, Match, PopTransaction
  <1>4. ASSUME NEW a \in Amount PROVE ListMatches(m_outputs'[a], E \ {e}, a)
    <2>1. m_outputs'[a] = SubSeq(m_outputs[a], 1, Len(m_outputs[a])
            - RunAtEnd(m_outputs[a], [block |-> e.block, transaction |-> e.transaction],
                       TxInfo[e.tx].outputs[a]))
      BY <1>1 DEF PopTransaction
    <2>2. ListMatches(m_outputs[a], E, a)
      BY DEF IndexesHold, Match, OutputsMatchEntries
    <2> QED BY <2>1, <2>2, ListRemoved
  <1> QED BY <1>2, <1>3, <1>4 DEF Match, OutputsMatchEntries

(* Empty indexes hold no entry.                                            *)
LEMMA ClearMatches ==
  ASSUME ClearIndexes
  PROVE  Match(m_transactionMap', m_spent_keys', m_outputs', {})
  <1>1. MapMatches(m_transactionMap', {})
    BY DEF ClearIndexes, MapMatches
  <1>2. KeysMatch(m_spent_keys', {})
    BY DEF ClearIndexes, KeysMatch
  <1>3. ASSUME NEW a \in Amount PROVE ListMatches(m_outputs'[a], {}, a)
    <2>1. m_outputs'[a] = <<>>
      BY DEF ClearIndexes
    <2>2. <<>> \in Seq(OutputPlace) /\ Len(<<>>) = 0
      OBVIOUS
    <2> QED BY <2>1, <2>2 DEF ListMatches, FromEntries, AllEntries, InOrder, InRuns
  <1> QED BY <1>1, <1>2, <1>3 DEF Match, OutputsMatchEntries

-----------------------------------------------------------------------------
(* The entries of a chain: those of the first n blocks of s, and the first *)
(* k transactions of block b after them.                                   *)
EntriesOf(s, n, b, k) ==
  {e \in EntryType :
     \/ /\ e.block < n /\ e.transaction < TxCount(s[e.block + 1])
        /\ e.tx = TxAt(s[e.block + 1], e.transaction)
     \/ /\ e.block = n /\ e.transaction < k
        /\ e.tx = TxAt(b, e.transaction)}

(* One more transaction of the block is one more entry, the last one.      *)
LEMMA EntriesGrow ==
  ASSUME NEW s, NEW n \in Nat, NEW b \in Block, NEW k \in Nat, k < TxCount(b)
  PROVE  /\ EntriesOf(s, n, b, k + 1) = EntriesOf(s, n, b, k) \cup {Entry(n, k, TxAt(b, k))}
         /\ \A f \in EntriesOf(s, n, b, k) : EntryBefore(f, Entry(n, k, TxAt(b, k)))
  <1> DEFINE t == TxAt(b, k)
             e == Entry(n, k, t)
  <1>1. t \in TxId
    BY TxAtType
  <1>2. e \in EntryType /\ e.block = n /\ e.transaction = k /\ e.tx = t
    BY <1>1 DEF Entry, EntryType
  <1>3. \A f \in EntryType : f.block \in Nat /\ f.transaction \in Nat
                              /\ f = Entry(f.block, f.transaction, f.tx)
    BY DEF EntryType, Entry
  <1>4. ASSUME NEW f \in EntriesOf(s, n, b, k + 1)
        PROVE  f \in EntriesOf(s, n, b, k) \/ f = e
    <2>1. f \in EntryType
      BY DEF EntriesOf
    <2>2. CASE f.block = n /\ f.transaction = k /\ f.tx = TxAt(b, f.transaction)
      BY <2>1, <2>2, <1>3
    <2>3. CASE f.block = n /\ f.transaction < k /\ f.tx = TxAt(b, f.transaction)
      BY <2>1, <2>3 DEF EntriesOf
    <2>4. CASE /\ f.block < n /\ f.transaction < TxCount(s[f.block + 1])
               /\ f.tx = TxAt(s[f.block + 1], f.transaction)
      BY <2>1, <2>4 DEF EntriesOf
    <2>5. f.transaction < k + 1 => f.transaction = k \/ f.transaction < k
      BY <2>1, <1>3
    <2> HIDE DEF e, t
    <2> QED BY <2>2, <2>3, <2>4, <2>5 DEF EntriesOf
  <1>5. ASSUME NEW f \in EntriesOf(s, n, b, k) PROVE f \in EntriesOf(s, n, b, k + 1)
    <2>1. f \in EntryType /\ (f.transaction < k => f.transaction < k + 1)
      BY <1>3 DEF EntriesOf
    <2> QED BY <2>1 DEF EntriesOf
  <1>6. e \in EntriesOf(s, n, b, k + 1)
    <2>1. k < k + 1
      OBVIOUS
    <2> HIDE DEF e
    <2> QED BY <1>2, <2>1 DEF EntriesOf
  <1>7. ASSUME NEW f \in EntriesOf(s, n, b, k) PROVE EntryBefore(f, e)
    <2> HIDE DEF e
    <2> QED BY <1>2 DEF EntriesOf, EntryBefore
  <1> QED BY <1>4, <1>5, <1>6, <1>7

(* One transaction less.                                                   *)
LEMMA EntriesShrink ==
  ASSUME NEW s, NEW n \in Nat, NEW b \in Block, NEW k \in Nat, k > 0, k <= TxCount(b)
  PROVE  LET e == Entry(n, k - 1, TxAt(b, k - 1))
         IN  /\ e \in EntriesOf(s, n, b, k)
             /\ EntriesOf(s, n, b, k - 1) = EntriesOf(s, n, b, k) \ {e}
             /\ \A f \in EntriesOf(s, n, b, k) : f = e \/ EntryBefore(f, e)
  <1> DEFINE e == Entry(n, k - 1, TxAt(b, k - 1))
  <1>1. k - 1 \in Nat /\ k - 1 < TxCount(b) /\ (k - 1) + 1 = k
    BY TxCountType
  <1>2. /\ EntriesOf(s, n, b, k) = EntriesOf(s, n, b, k - 1) \cup {e}
        /\ \A f \in EntriesOf(s, n, b, k - 1) : EntryBefore(f, e)
    BY <1>1, EntriesGrow
  <1>3. e.block = n /\ e.transaction = k - 1
    BY DEF Entry
  <1> HIDE DEF e
  <1>4. ~EntryBefore(e, e)
    BY <1>1, <1>3 DEF EntryBefore
  <1>5. e \notin EntriesOf(s, n, b, k - 1)
    BY <1>2, <1>4
  <1> QED BY <1>2, <1>5 DEF e

(* Chains with the same first n blocks have the same entries in them.      *)
LEMMA EntriesSame ==
  ASSUME NEW s, NEW u, NEW n \in Nat, NEW b, NEW c, \A i \in 1 .. n : s[i] = u[i]
  PROVE  EntriesOf(s, n, b, 0) = EntriesOf(u, n, c, 0)
  <1>1. \A f \in EntryType : f.block \in Nat /\ f.transaction \in Nat
    BY DEF EntryType
  <1>2. \A f \in EntryType : f.block < n => s[f.block + 1] = u[f.block + 1]
    BY <1>1
  <1>3. \A f \in EntryType : ~(f.transaction < 0)
    BY <1>1
  <1> QED BY <1>2, <1>3 DEF EntriesOf

(* A block with all its transactions is one more block.                    *)
LEMMA EntriesClose ==
  ASSUME NEW s, NEW u, NEW n \in Nat, NEW b, NEW c, \A i \in 1 .. n : s[i] = u[i], u[n + 1] = b
  PROVE  EntriesOf(s, n, b, TxCount(b)) = EntriesOf(u, n + 1, c, 0)
  <1>1. \A f \in EntryType : f.block \in Nat /\ f.transaction \in Nat
    BY DEF EntryType
  <1>2. \A f \in EntryType : f.block < n => s[f.block + 1] = u[f.block + 1] /\ f.block < n + 1
    BY <1>1
  <1>3. \A f \in EntryType : f.block = n => u[f.block + 1] = b /\ f.block < n + 1
    BY <1>1
  <1>4. \A f \in EntryType : f.block < n + 1 => f.block < n \/ f.block = n
    BY <1>1
  <1>5. \A f \in EntryType : ~(f.transaction < 0)
    BY <1>1
  <1>6. ASSUME NEW f \in EntryType
        PROVE  f \in EntriesOf(s, n, b, TxCount(b)) <=> f \in EntriesOf(u, n + 1, c, 0)
    BY <1>2, <1>3, <1>4, <1>5 DEF EntriesOf
  <1>7. EntriesOf(s, n, b, TxCount(b)) \subseteq EntryType /\ EntriesOf(u, n + 1, c, 0) \subseteq EntryType
    BY DEF EntriesOf
  <1> QED BY <1>6, <1>7

(* Entries are entries.                                                    *)
LEMMA EntriesType == \A s, n, b, k : EntriesOf(s, n, b, k) \in SUBSET EntryType
  BY DEF EntriesOf

-----------------------------------------------------------------------------
(* The entries that the indexes should hold now.                           *)
Held == EntriesOf(m_blocks, CompleteBlocks, PendingBlock, pushed)

(* A block of the chain claims its height, so no miner transaction is in   *)
(* the chain twice.                                                        *)
BaseInv ==
  /\ \A i \in 1 .. Len(m_blocks) : BlockInfo[m_blocks[i]].blockIndex = i - 1
  /\ pc = "tx" => BlockInfo[block].blockIndex = Len(m_blocks)

HoldInv == ~residue => IndexesHold(Held)
IndexInv == BaseInv /\ HoldInv

Working == pc \in {"tx", "undo", "rebuild"}

(* The indexes and the entries do not change.                              *)
LEMMA QuietHold ==
  ASSUME HoldInv, UNCHANGED indexVars, ~residue' => ~residue, Held' = Held
  PROVE  HoldInv'
  BY DEF HoldInv, IndexesHold, indexVars

(* Nor does the chain.                                                     *)
LEMMA QuietBase ==
  ASSUME BaseInv, UNCHANGED m_blocks, pc' = "tx" => pc = "tx" /\ block' = block
  PROVE  BaseInv'
  BY DEF BaseInv

(* A step between two blocks, of any operation.                            *)
LEMMA QuietIndex ==
  ASSUME TypeOK, IndexInv, PushedInv, PushedInv', ~Working, ~Working', UNCHANGED m_blocks,
         UNCHANGED indexVars, ~residue' => ~residue
  PROVE  IndexInv'
  <1>1. pushed = 0 /\ pushed' = 0
    BY DEF PushedInv, Working
  <1>2. CompleteBlocks = Len(m_blocks) /\ CompleteBlocks' = Len(m_blocks)
    BY DEF CompleteBlocks, Popping, Working
  <1>3. Len(m_blocks) \in Nat
    BY DEF TypeOK, ChainTypeOK
  <1>4. Held' = Held
    BY <1>1, <1>2, <1>3, EntriesSame DEF Held
  <1>5. BaseInv'
    BY QuietBase DEF IndexInv, Working
  <1> QED BY <1>4, <1>5, QuietHold DEF IndexInv

(* pushBlock has failed.                                                   *)
LEMMA SaveAndFailIndex ==
  ASSUME CallerInv, pc \in {"check", "tx", "undo"}, caller \in {"add", "connect", "restore"},
         SaveAndFail
  PROVE  ~Working' /\ pc' # "tx"
  BY DEF SaveAndFail, PushReturns, Unwind, Working

(* A miner transaction that no block of the chain has, at a new height.    *)
LEMMA NewCoinbase ==
  ASSUME TypeOK, BaseInv, NEW b \in Block, BlockInfo[b].blockIndex = Len(m_blocks),
         IndexesHold(EntriesOf(m_blocks, Len(m_blocks), b, 0))
  PROVE  m_transactionMap[TxAt(b, 0)] = NoIndex
  <1> DEFINE t == TxAt(b, 0)
             ix == m_transactionMap[t]
             E == EntriesOf(m_blocks, Len(m_blocks), b, 0)
  <1>1. t \in TxId /\ t \notin Tx /\ t = BlockInfo[b].baseTransaction
    BY KeysOfCoinbase DEF TxAt
  <1>2. m_blocks \in Seq(Block) /\ Len(m_blocks) \in Nat
    BY DEF TypeOK, ChainTypeOK
  <1> SUFFICES ASSUME ix # NoIndex PROVE FALSE
    OBVIOUS
  <1>3. Entry(ix.block, ix.transaction, t) \in E
    BY <1>1 DEF IndexesHold, Match, MapMatches
  <1> DEFINE e == Entry(ix.block, ix.transaction, t)
  <1>4. e.tx = t
    BY DEF Entry
  <1>5. e \in EntryType /\ e.block \in Nat /\ e.transaction \in Nat
    BY <1>3 DEF EntriesOf, EntryType
  <1> HIDE DEF e, t, ix
  <1>6. /\ e.block < Len(m_blocks) /\ e.transaction < TxCount(m_blocks[e.block + 1])
        /\ e.tx = TxAt(m_blocks[e.block + 1], e.transaction)
    <2>1. ~(e.transaction < 0)
      BY <1>5
    <2> QED BY <1>3, <2>1 DEF EntriesOf, e
  <1>7. e.block + 1 \in 1 .. Len(m_blocks) /\ m_blocks[e.block + 1] \in Block
    BY <1>2, <1>5, <1>6
  <1>8. e.transaction = 0
    <2> SUFFICES ASSUME e.transaction > 0 PROVE FALSE
      BY <1>5
    <2>1. TxAt(m_blocks[e.block + 1], e.transaction) \in Tx
      BY <1>5, <1>6, <1>7, TxAtPosition
    <2> QED BY <1>1, <1>4, <1>6, <2>1
  <1>9. BlockInfo[m_blocks[e.block + 1]].baseTransaction = BlockInfo[b].baseTransaction
    BY <1>1, <1>4, <1>6, <1>8 DEF TxAt
  <1>10. BlockInfo[m_blocks[e.block + 1]].blockIndex = BlockInfo[b].blockIndex
    BY <1>7, <1>9, MinerTxAssumption
  <1>11. BlockInfo[m_blocks[e.block + 1]].blockIndex = (e.block + 1) - 1
    BY <1>7 DEF BaseInv
  <1>12. (e.block + 1) - 1 = e.block
    BY <1>5
  <1> QED BY <1>2, <1>5, <1>6, <1>10, <1>11, <1>12

(* The tests of pushBlock, and its miner transaction.                      *)
LEMMA CheckBlockIndex ==
  ASSUME TypeOK, Control, PushedInv', IndexInv, CheckBlock
  PROVE  IndexInv'
  <1>1. pc = "check" /\ UNCHANGED <<m_blocks, residue>> /\ ~Working /\ ~Popping
        /\ caller \in {"add", "connect", "restore"} /\ PushedInv /\ CallerInv
    BY DEF CheckBlock, chainVars, Working, Popping, Control, CallerInv
  <1>2. CASE ~BlockValid(block)
    <2>1. SaveAndFail /\ UNCHANGED indexVars
      BY <1>2 DEF CheckBlock
    <2> QED BY <1>1, <2>1, SaveAndFailIndex, QuietIndex
  <1>3. CASE BlockValid(block)
    <2>1. /\ PushTransaction(TxAt(block, 0), Len(m_blocks), 0) /\ pushed' = 1 /\ pc' = "tx"
          /\ UNCHANGED <<block, caller>>
      BY <1>3 DEF CheckBlock
    <2>2. /\ block \in Block /\ Len(m_blocks) \in Nat /\ IndexTypeOK /\ pushed = 0
          /\ 0 < TxCount(block)
      BY <1>1, TxCountType DEF TypeOK, ChainTypeOK, LocalTypeOK, PushedInv
    <2>3. BlockInfo[block].blockIndex = Len(m_blocks)
      BY <1>3 DEF BlockValid, PrevalidateMinerTx
    <2>4. BaseInv'
      BY <1>1, <2>1, <2>3 DEF IndexInv, BaseInv
    <2>5. HoldInv'
      <3> SUFFICES ASSUME ~residue PROVE IndexesHold(Held)'
        BY <1>1 DEF HoldInv
      <3> DEFINE E == EntriesOf(m_blocks, Len(m_blocks), block, 0)
                 t == TxAt(block, 0)
      <3>1. CompleteBlocks = Len(m_blocks) /\ PendingBlock = block
        BY <1>1 DEF CompleteBlocks, PendingBlock
      <3>2. CompleteBlocks' = Len(m_blocks) /\ PendingBlock' = block
        BY <1>1, <2>1 DEF CompleteBlocks, PendingBlock, Popping
      <3>3. Held = E /\ Held' = EntriesOf(m_blocks, Len(m_blocks), block, 1)
        BY <1>1, <2>1, <2>2, <3>1, <3>2 DEF Held
      <3>4. /\ EntriesOf(m_blocks, Len(m_blocks), block, 0 + 1) = E \cup {Entry(Len(m_blocks), 0, t)}
            /\ \A f \in E : EntryBefore(f, Entry(Len(m_blocks), 0, t))
        BY <2>2, EntriesGrow
      <3>5. IndexesHold(E)
        BY <3>3 DEF IndexInv, HoldInv
      <3>6. m_transactionMap[t] = NoIndex
        BY <2>2, <2>3, <3>5, NewCoinbase DEF IndexInv
      <3>7. t \in TxId /\ KeyImagesOf(t) = {}
        BY <2>2, KeysOfCoinbase
      <3>8. InsertTransaction(t, Len(m_blocks), 0)
        BY <2>1, <3>6, <3>7 DEF PushTransaction
      <3>9. E \in SUBSET EntryType
        BY EntriesType
      <3> HIDE DEF E, t
      <3>10. Match(m_transactionMap', m_spent_keys', m_outputs', E \cup {Entry(Len(m_blocks), 0, t)})
        BY <2>2, <3>4, <3>5, <3>6, <3>7, <3>8, <3>9, InsertMatches
      <3>11. Held' = E \cup {Entry(Len(m_blocks), 0, t)}
        BY <3>3, <3>4
      <3> QED BY <3>10, <3>11 DEF IndexesHold
    <2> QED BY <2>4, <2>5 DEF IndexInv
  <1> QED BY <1>2, <1>3

(* A transaction of the block.                                             *)
LEMMA PushNextTransactionIndex ==
  ASSUME TypeOK, Control, PendingInv, IndexInv, PushNextTransaction
  PROVE  IndexInv'
  <1>1. /\ pc = "tx" /\ pushed < TxCount(block) /\ UNCHANGED m_blocks /\ ~Popping
        /\ caller \in {"add", "connect", "restore"} /\ pushed > 0
    BY DEF PushNextTransaction, chainVars, Popping, Control, CallerInv, PendingInv
  <1> DEFINE t == TxAt(block, pushed)
  <1>2. /\ block \in Block /\ Len(m_blocks) \in Nat /\ IndexTypeOK /\ pushed \in Nat
    BY DEF TypeOK, ChainTypeOK, LocalTypeOK
  <1>3. CompleteBlocks = Len(m_blocks) /\ PendingBlock = block
    BY <1>1 DEF CompleteBlocks, PendingBlock
  <1>4. CASE /\ CheckTransactionInputs(t) = "ok" /\ PushTransaction(t, Len(m_blocks), pushed)
             /\ pushed' = pushed + 1 /\ UNCHANGED <<pc, residue, block, caller>>
    <2>1. BaseInv'
      BY <1>1, <1>4, QuietBase DEF IndexInv
    <2>2. HoldInv'
      <3> SUFFICES ASSUME ~residue PROVE IndexesHold(Held)'
        BY <1>4 DEF HoldInv
      <3> DEFINE n == Len(m_blocks)
                 E == EntriesOf(m_blocks, n, block, pushed)
      <3>1. CompleteBlocks' = n /\ PendingBlock' = block
        BY <1>1, <1>4 DEF CompleteBlocks, PendingBlock, Popping
      <3>2. Held = E /\ Held' = EntriesOf(m_blocks, n, block, pushed + 1)
        BY <1>1, <1>3, <1>4, <3>1 DEF Held
      <3>3. /\ EntriesOf(m_blocks, n, block, pushed + 1) = E \cup {Entry(n, pushed, t)}
            /\ \A f \in E : EntryBefore(f, Entry(n, pushed, t))
        BY <1>1, <1>2, EntriesGrow
      <3>4. IndexesHold(E) /\ E \in SUBSET EntryType
        BY <3>2, EntriesType DEF IndexInv, HoldInv
      <3>5. t \in Tx /\ t \in TxId /\ KeyImagesOf(t) # {} /\ KeyImagesOf(t) \subseteq KeyImage
        BY <1>1, <1>2, TxAtPosition, KeysOfTx, KeyImagesType
      <3>6. KeyImagesOf(t) \cap m_spent_keys = {}
        BY <1>4, <3>5, CheckedInputsUnspent
      <3> HIDE DEF E, n, t
      <3>7. m_transactionMap[t] = NoIndex
        <4> SUFFICES ASSUME m_transactionMap[t] # NoIndex PROVE FALSE
          OBVIOUS
        <4> DEFINE e == Entry(m_transactionMap[t].block, m_transactionMap[t].transaction, t)
        <4>1. e \in E
          BY <3>4, <3>5 DEF IndexesHold, Match, MapMatches
        <4>2. e.tx = t
          BY DEF Entry
        <4> HIDE DEF e
        <4>3. KeyImagesOf(t) \subseteq m_spent_keys
          BY <3>4, <3>5, <4>1, <4>2 DEF IndexesHold, Match, KeysMatch
        <4> QED BY <3>5, <3>6, <4>3
      <3>8. InsertTransaction(t, n, pushed)
        BY <1>4, <3>6, <3>7 DEF PushTransaction, n
      <3>9. Match(m_transactionMap', m_spent_keys', m_outputs', E \cup {Entry(n, pushed, t)})
        BY <1>2, <3>3, <3>4, <3>5, <3>6, <3>7, <3>8, InsertMatches DEF n
      <3>10. Held' = E \cup {Entry(n, pushed, t)}
        BY <3>2, <3>3
      <3> QED BY <3>9, <3>10 DEF IndexesHold
    <2> QED BY <2>1, <2>2 DEF IndexInv
  <1>5. CASE pc' = "undo" /\ UNCHANGED <<indexVars, pushed, residue, block, caller>>
    <2>1. BaseInv'
      BY <1>1, <1>5, QuietBase DEF IndexInv
    <2>2. CompleteBlocks' = Len(m_blocks) /\ PendingBlock' = block
      BY <1>1, <1>5 DEF CompleteBlocks, PendingBlock, Popping
    <2>3. Held' = Held
      BY <1>1, <1>3, <1>5, <2>2 DEF Held
    <2> QED BY <1>5, <2>1, <2>3, QuietHold DEF IndexInv
  <1>6. CASE residue' = TRUE /\ pc' = "return"
    <2>1. BaseInv'
      BY <1>1, <1>6, QuietBase DEF IndexInv
    <2> QED BY <1>6, <2>1 DEF IndexInv, HoldInv
  <1> QED BY <1>4, <1>5, <1>6 DEF PushNextTransaction, Unwind

(* pushBlock ends: the entries of the block become those of the chain.     *)
LEMMA FinishPushIndex ==
  ASSUME TypeOK, Control, PushedInv', IndexInv, FinishPush
  PROVE  IndexInv'
  <1>1. /\ pc = "tx" /\ pushed = TxCount(block) /\ UNCHANGED indexVars /\ ~Popping
        /\ caller \in {"add", "connect", "restore"} /\ CallerInv
    BY DEF FinishPush, Popping, Control, CallerInv
  <1>2. block \in Block /\ m_blocks \in Seq(Block) /\ Len(m_blocks) \in Nat
    BY DEF TypeOK, ChainTypeOK, LocalTypeOK
  <1>3. CompleteBlocks = Len(m_blocks) /\ PendingBlock = block
    BY <1>1 DEF CompleteBlocks, PendingBlock
  <1>4. CASE ~BlockSizeOk(block)
    <2>1. residue' = TRUE /\ SaveAndFail /\ UNCHANGED m_blocks
      BY <1>4 DEF FinishPush, chainVars
    <2>2. BaseInv'
      BY <1>1, <2>1, SaveAndFailIndex, QuietBase DEF IndexInv
    <2> QED BY <2>1, <2>2 DEF IndexInv, HoldInv
  <1>5. CASE BlockSizeOk(block) /\ ~BlockInfo[block].reward
    <2>1. pc' = "undo" /\ UNCHANGED <<m_blocks, pushed, residue, block, caller>>
      BY <1>5 DEF FinishPush, chainVars
    <2>2. BaseInv'
      BY <2>1, QuietBase DEF IndexInv
    <2>3. CompleteBlocks' = Len(m_blocks) /\ PendingBlock' = block
      BY <1>1, <2>1 DEF CompleteBlocks, PendingBlock, Popping
    <2>4. Held' = Held
      BY <1>3, <2>1, <2>3 DEF Held
    <2> QED BY <1>1, <2>1, <2>2, <2>4, QuietHold DEF IndexInv
  <1>6. CASE BlockSizeOk(block) /\ BlockInfo[block].reward
    <2>1. /\ m_blocks' = Append(m_blocks, block) /\ pushed' = 0 /\ UNCHANGED residue
          /\ PushReturns(TRUE)
      BY <1>6 DEF FinishPush, PushEntry
    <2>2. pc' \in {"return", "connect", "restore"}
      BY <1>1, <2>1 DEF PushReturns
    <2>3. /\ Len(m_blocks') = Len(m_blocks) + 1 /\ m_blocks'[Len(m_blocks) + 1] = block
          /\ \A i \in 1 .. Len(m_blocks) : m_blocks[i] = m_blocks'[i]
      BY <1>2, <2>1, AppendType, AppendLast, AppendKeeps
    <2>4. BaseInv'
      <3>1. ASSUME NEW i \in 1 .. Len(m_blocks) + 1
            PROVE  BlockInfo[m_blocks'[i]].blockIndex = i - 1
        <4>1. CASE i \in 1 .. Len(m_blocks)
          BY <2>3, <4>1 DEF IndexInv, BaseInv
        <4>2. CASE i = Len(m_blocks) + 1
          <5>1. BlockInfo[block].blockIndex = Len(m_blocks) /\ i - 1 = Len(m_blocks)
            BY <1>1, <1>2, <4>2 DEF IndexInv, BaseInv
          <5> QED BY <2>3, <4>2, <5>1
        <4> QED BY <1>2, <4>1, <4>2
      <3> QED BY <2>2, <2>3, <3>1 DEF BaseInv
    <2>5. CompleteBlocks' = Len(m_blocks) + 1
      BY <2>2, <2>3 DEF CompleteBlocks, Popping
    <2>6. Held' = Held
      <3>1. EntriesOf(m_blocks, Len(m_blocks), block, TxCount(block))
              = EntriesOf(m_blocks', Len(m_blocks) + 1, PendingBlock', 0)
        BY <1>2, <2>3, EntriesClose
      <3>2. Held = EntriesOf(m_blocks, Len(m_blocks), block, TxCount(block))
        BY <1>1, <1>3 DEF Held
      <3>3. Held' = EntriesOf(m_blocks', Len(m_blocks) + 1, PendingBlock', 0)
        BY <2>1, <2>5 DEF Held
      <3> QED BY <3>1, <3>2, <3>3
    <2> QED BY <1>1, <2>1, <2>4, <2>6, QuietHold DEF IndexInv
  <1> QED BY <1>4, <1>5, <1>6

(* popTransactions: the last entry leaves the indexes.                     *)
LEMMA UndoTransactionIndex ==
  ASSUME TypeOK, Control, IndexInv, UndoTransaction
  PROVE  IndexInv'
  <1>1. /\ pc = "undo" /\ pushed > 0 /\ PopTransaction(TxAt(block, pushed - 1))
        /\ pushed' = pushed - 1 /\ UNCHANGED <<m_blocks, pc, block, caller, residue>>
    BY DEF UndoTransaction, chainVars, historyVars
  <1>2. /\ block \in Block /\ m_blocks \in Seq(Block) /\ m_blocks # <<>> /\ IndexTypeOK
        /\ pushed \in Nat /\ pushed <= TxCount(block)
    BY <1>1 DEF TypeOK, ChainTypeOK, LocalTypeOK, Control, PushedInv, LinkInv, ChainLinked
  <1>3. CompleteBlocks \in Nat /\ PendingBlock = block
    <2>1. Len(m_blocks) \in Nat /\ Len(m_blocks) - 1 \in Nat
      BY <1>2
    <2>2. CompleteBlocks = Len(m_blocks) \/ CompleteBlocks = Len(m_blocks) - 1
      BY <1>1 DEF CompleteBlocks
    <2> QED BY <1>1, <2>1, <2>2 DEF PendingBlock
  <1>4. CompleteBlocks' = CompleteBlocks /\ PendingBlock' = block
    BY <1>1 DEF CompleteBlocks, PendingBlock, Popping
  <1>5. BaseInv'
    BY <1>1, QuietBase DEF IndexInv
  <1>6. HoldInv'
    <2> SUFFICES ASSUME ~residue PROVE IndexesHold(Held)'
      BY <1>1 DEF HoldInv
    <2> DEFINE E == EntriesOf(m_blocks, CompleteBlocks, block, pushed)
               e == Entry(CompleteBlocks, pushed - 1, TxAt(block, pushed - 1))
    <2>1. Held = E /\ Held' = EntriesOf(m_blocks, CompleteBlocks, block, pushed - 1)
      BY <1>1, <1>3, <1>4 DEF Held
    <2>2. /\ e \in E /\ EntriesOf(m_blocks, CompleteBlocks, block, pushed - 1) = E \ {e}
          /\ \A f \in E : f = e \/ EntryBefore(f, e)
      <3>1. ASSUME NEW n \in Nat
            PROVE  LET g == Entry(n, pushed - 1, TxAt(block, pushed - 1))
                   IN  /\ g \in EntriesOf(m_blocks, n, block, pushed)
                       /\ EntriesOf(m_blocks, n, block, pushed - 1)
                            = EntriesOf(m_blocks, n, block, pushed) \ {g}
                       /\ \A f \in EntriesOf(m_blocks, n, block, pushed) :
                            f = g \/ EntryBefore(f, g)
        BY <1>1, <1>2, EntriesShrink
      <3> QED BY <1>3, <3>1, Zenon
    <2>3. IndexesHold(E) /\ E \in SUBSET EntryType
      BY <2>1, EntriesType DEF IndexInv, HoldInv
    <2>4. e.tx = TxAt(block, pushed - 1)
      BY DEF Entry
    <2>5. PopTransaction(e.tx)
      BY <1>1, <2>4
    <2> HIDE DEF e, E
    <2>6. Match(m_transactionMap', m_spent_keys', m_outputs', E \ {e})
      BY <1>2, <2>2, <2>3, <2>5, PopMatches
    <2> QED BY <2>1, <2>2, <2>6 DEF IndexesHold
  <1> QED BY <1>5, <1>6 DEF IndexInv

(* The transactions are out, and with popBlock so is the block.            *)
LEMMA FinishUndoIndex ==
  ASSUME TypeOK, Control, PushedInv', IndexInv, FinishUndo
  PROVE  IndexInv'
  <1>1. pc = "undo" /\ pushed = 0 /\ UNCHANGED <<indexVars, residue>> /\ CallerInv
    BY DEF FinishUndo, Control
  <1>2. m_blocks \in Seq(Block) /\ m_blocks # <<>> /\ Len(m_blocks) \in Nat /\ Len(m_blocks) > 0
    BY DEF TypeOK, ChainTypeOK, Control, LinkInv, ChainLinked
  <1>3. CASE caller \in {"add", "connect", "restore"}
    <2>1. SaveAndFail /\ UNCHANGED m_blocks
      BY <1>3 DEF FinishUndo, chainVars
    <2>2. ~Working' /\ pc' # "tx"
      BY <1>1, <1>3, <2>1, SaveAndFailIndex
    <2>3. BaseInv'
      BY <2>1, <2>2, QuietBase DEF IndexInv
    <2>4. CompleteBlocks = Len(m_blocks) /\ CompleteBlocks' = Len(m_blocks) /\ pushed' = 0
      BY <1>1, <1>3, <2>1, <2>2 DEF CompleteBlocks, Popping, Working, PushedInv
    <2>5. Held' = Held
      BY <1>1, <1>2, <2>1, <2>4, EntriesSame DEF Held
    <2> QED BY <1>1, <2>3, <2>5, QuietHold DEF IndexInv
  <1>4. CASE caller \in {"disconnect", "unconnect"}
    <2>1. m_blocks' = Front(m_blocks) /\ pc' = caller /\ UNCHANGED pushed
      BY <1>4 DEF FinishUndo, PopEntry
    <2>2. /\ Len(m_blocks') = Len(m_blocks) - 1
          /\ \A i \in 1 .. Len(m_blocks) - 1 : m_blocks[i] = m_blocks'[i]
      BY <1>2, <2>1, FrontProperties
    <2>3. BaseInv'
      <3>1. \A i \in 1 .. Len(m_blocks) - 1 : i \in 1 .. Len(m_blocks)
        BY <1>2
      <3> QED BY <1>4, <2>1, <2>2, <3>1 DEF IndexInv, BaseInv
    <2>4. CompleteBlocks = Len(m_blocks) - 1 /\ CompleteBlocks' = Len(m_blocks) - 1
      BY <1>1, <1>4, <2>1, <2>2 DEF CompleteBlocks, Popping
    <2>5. Len(m_blocks) - 1 \in Nat
      BY <1>2
    <2>6. Held' = Held
      BY <1>1, <2>1, <2>2, <2>4, <2>5, EntriesSame DEF Held
    <2> QED BY <1>1, <2>3, <2>6, QuietHold DEF IndexInv
  <1> QED BY <1>3, <1>4 DEF FinishUndo

(* popBlock starts: the entries of the last block are the pending ones.    *)
LEMMA StartPopIndex ==
  ASSUME TypeOK, Control, PushedInv', IndexInv, StartPop
  PROVE  IndexInv'
  <1>1. /\ pc \in {"disconnect", "unconnect"} /\ UNCHANGED <<m_blocks, indexVars, residue>>
        /\ ~Working /\ PushedInv /\ pushed = 0
    BY DEF StartPop, chainVars, Working, Control, PushedInv
  <1>2. m_blocks \in Seq(Block) /\ m_blocks # <<>> /\ Len(m_blocks) \in Nat /\ Len(m_blocks) > 0
    BY DEF TypeOK, ChainTypeOK, Control, LinkInv, ChainLinked
  <1>3. CASE /\ pc' = "undo" /\ caller' = pc /\ block' = Last(m_blocks)
             /\ pushed' = TxCount(Last(m_blocks))
    <2>1. BaseInv'
      BY <1>1, <1>3, QuietBase DEF IndexInv
    <2>2. CompleteBlocks = Len(m_blocks)
      BY <1>1 DEF CompleteBlocks, Popping
    <2>3. CompleteBlocks' = Len(m_blocks) - 1 /\ PendingBlock' = Last(m_blocks)
      BY <1>1, <1>3 DEF CompleteBlocks, PendingBlock, Popping
    <2>4. /\ Len(m_blocks) - 1 \in Nat /\ (Len(m_blocks) - 1) + 1 = Len(m_blocks)
          /\ m_blocks[Len(m_blocks)] = Last(m_blocks)
      BY <1>2 DEF Last
    <2>5. EntriesOf(m_blocks, Len(m_blocks) - 1, Last(m_blocks), TxCount(Last(m_blocks)))
            = EntriesOf(m_blocks, Len(m_blocks), PendingBlock, 0)
      BY <2>4, EntriesClose
    <2>6. Held' = Held
      BY <1>1, <1>3, <2>2, <2>3, <2>5 DEF Held
    <2> QED BY <1>1, <2>1, <2>6, QuietHold DEF IndexInv
  <1>4. CASE pc' = "return"
    BY <1>1, <1>4, QuietIndex DEF Working
  <1> QED BY <1>3, <1>4 DEF StartPop, Unwind

(* A restart empties the indexes.                                          *)
LEMMA StartIndex ==
  ASSUME TypeOK, IndexInv, NEW pool, NEW expired, NEW forgotten, Start(pool, expired, forgotten)
  PROVE  IndexInv'
  <1>1. /\ pc' = "rebuild" /\ m_blockIndex' = <<>> /\ pushed' = 0 /\ UNCHANGED m_blocks
        /\ ClearIndexes
    BY DEF Start
  <1>2. BaseInv'
    BY <1>1, QuietBase DEF IndexInv
  <1>3. CompleteBlocks' = 0
    <2>1. Len(<<>>) = 0
      OBVIOUS
    <2> QED BY <1>1, <2>1 DEF CompleteBlocks, Popping
  <1>4. Held' = {}
    <2>1. \A f \in EntryType : ~(f.block < 0) /\ ~(f.transaction < 0)
      BY DEF EntryType
    <2> QED BY <1>1, <1>3, <2>1 DEF Held, EntriesOf
  <1>5. IndexesHold(Held)'
    BY <1>1, <1>4, ClearMatches DEF IndexesHold
  <1> QED BY <1>2, <1>5 DEF IndexInv, HoldInv

(* A transaction of the chain on disk is in none of the places before it,  *)
(* and spends nothing that they spend.                                     *)
LEMMA NewOnDisk ==
  ASSUME TypeOK, BaseInv, NoDoubleSpend, NEW h \in Nat, h < Len(m_blocks),
         NEW k \in Nat, k < TxCount(m_blocks[h + 1]),
         NEW f \in EntriesOf(m_blocks, h, m_blocks[h + 1], k)
  PROVE  /\ f.tx # TxAt(m_blocks[h + 1], k)
         /\ KeyImagesOf(f.tx) \cap KeyImagesOf(TxAt(m_blocks[h + 1], k)) = {}
  <1> DEFINE b == m_blocks[h + 1]
             g == f.block + 1
             c == m_blocks[g]
             q == f.transaction
             t == TxAt(b, k)
  <1>1. m_blocks \in Seq(Block) /\ Len(m_blocks) \in Nat
    BY DEF TypeOK, ChainTypeOK
  <1>2. f \in EntryType /\ f.block \in Nat /\ q \in Nat
    BY DEF EntriesOf, EntryType
  <1>3. \/ f.block < h /\ q < TxCount(c) /\ f.tx = TxAt(c, q)
        \/ f.block = h /\ q < k /\ f.tx = TxAt(b, q)
    BY DEF EntriesOf
  <1>4. h + 1 \in DOMAIN m_blocks /\ b \in Block /\ g \in DOMAIN m_blocks /\ c \in Block
    BY <1>1, <1>2, <1>3
  <1>5. q < TxCount(c) /\ f.tx = TxAt(c, q) /\ ~(g = h + 1 /\ q = k)
    <2>1. CASE f.block < h /\ q < TxCount(c) /\ f.tx = TxAt(c, q)
      <3>1. g # h + 1
        BY <1>2, <2>1
      <3> QED BY <2>1, <3>1
    <2>2. CASE f.block = h /\ q < k /\ f.tx = TxAt(b, q)
      <3>1. TxCount(b) \in Nat
        BY <1>4, TxCountType
      <3>2. q < TxCount(b) /\ q # k
        BY <1>2, <2>2, <3>1
      <3> QED BY <2>2, <3>2
    <2> QED BY <1>3, <2>1, <2>2
  <1> HIDE DEF t
  <1>6. CASE k = 0
    <2>1. t = TxAt(b, 0) /\ t \notin Tx /\ KeyImagesOf(t) = {} /\ t = BlockInfo[b].baseTransaction
      BY <1>4, <1>6, KeysOfCoinbase DEF TxAt, t
    <2>2. f.tx # t
      <3>1. CASE q = 0
        <4> SUFFICES ASSUME f.tx = t PROVE FALSE
          OBVIOUS
        <4>1. BlockInfo[c].baseTransaction = BlockInfo[b].baseTransaction
          BY <1>5, <2>1, <3>1 DEF TxAt
        <4>2. BlockInfo[c].blockIndex = BlockInfo[b].blockIndex
          BY <1>4, <4>1, MinerTxAssumption
        <4>3. g \in 1 .. Len(m_blocks) /\ h + 1 \in 1 .. Len(m_blocks)
          BY <1>1, <1>4
        <4>4. BlockInfo[c].blockIndex = g - 1 /\ BlockInfo[b].blockIndex = (h + 1) - 1
          BY <4>3 DEF BaseInv
        <4>5. g - 1 = f.block /\ (h + 1) - 1 = h
          BY <1>2
        <4>6. f.block = h
          BY <4>2, <4>4, <4>5
        <4> QED BY <1>5, <1>6, <3>1, <4>6
      <3>2. CASE q # 0
        <4>1. q > 0
          BY <1>2, <3>2
        <4>2. f.tx \in Tx
          BY <1>2, <1>4, <1>5, <4>1, TxAtPosition
        <4> QED BY <2>1, <4>2
      <3> QED BY <3>1, <3>2
    <2> QED BY <2>1, <2>2 DEF t
  <1>7. CASE k # 0
    <2>1. k > 0
      BY <1>7
    <2>2. t = TxsOf(b)[k] /\ t \in Tx /\ k \in DOMAIN TxsOf(b)
      BY <1>4, <2>1, TxAtPosition DEF t
    <2>3. CASE q = 0
      <3>1. f.tx \notin Tx /\ KeyImagesOf(f.tx) = {}
        BY <1>4, <1>5, <2>3, KeysOfCoinbase
      <3> QED BY <2>2, <3>1 DEF t
    <2>4. CASE q # 0
      <3>1. q > 0
        BY <1>2, <2>4
      <3>2. f.tx = TxsOf(c)[q] /\ f.tx \in Tx /\ q \in DOMAIN TxsOf(c)
        BY <1>2, <1>4, <1>5, <3>1, TxAtPosition
      <3>3. KeyImagesOf(TxsOf(c)[q]) \cap KeyImagesOf(TxsOf(b)[k]) # {} => g = h + 1 /\ q = k
        BY <1>4, <2>2, <3>2 DEF NoDoubleSpend
      <3>4. KeyImagesOf(f.tx) \cap KeyImagesOf(t) = {}
        BY <1>5, <2>2, <3>2, <3>3
      <3>5. f.tx # t
        BY <2>2, <3>4, KeysOfTx
      <3> QED BY <3>4, <3>5 DEF t
    <2> QED BY <2>3, <2>4
  <1> QED BY <1>6, <1>7

(* rebuildCache enters the next transaction of the chain.                  *)
LEMMA RebuildNextIndex ==
  ASSUME TypeOK, Control, SpendInv, IndexInv, RebuildNext
  PROVE  IndexInv'
  <1> DEFINE h == Len(m_blockIndex)
             b == m_blocks[h + 1]
             t == TxAt(b, pushed)
  <1>1. /\ pc = "rebuild" /\ pc' = "rebuild" /\ h < Len(m_blocks)
        /\ InsertTransaction(t, h, pushed) /\ UNCHANGED <<m_blocks, residue>>
    BY DEF RebuildNext, historyVars
  <1>2. \/ pushed + 1 < TxCount(b) /\ pushed' = pushed + 1 /\ UNCHANGED m_blockIndex
        \/ ~(pushed + 1 < TxCount(b)) /\ pushed' = 0 /\ m_blockIndex' = Append(m_blockIndex, b)
    BY DEF RebuildNext
  <1>3. /\ m_blocks \in Seq(Block) /\ Len(m_blocks) \in Nat /\ m_blockIndex \in Seq(Block)
        /\ h \in Nat /\ pushed \in Nat /\ IndexTypeOK
    BY DEF TypeOK, ChainTypeOK, LocalTypeOK
  <1>4. b \in Block /\ pushed < TxCount(b) /\ TxCount(b) \in Nat
    <2>1. b \in Block
      BY <1>1, <1>3
    <2>2. pushed < TxCount(b)
      BY <1>1 DEF Control, PushedInv
    <2> QED BY <2>1, <2>2, TxCountType
  <1>5. CompleteBlocks = h /\ PendingBlock = b
    BY <1>1 DEF CompleteBlocks, PendingBlock, Popping
  <1>6. BaseInv'
    BY <1>1, QuietBase DEF IndexInv
  <1>7. HoldInv'
    <2> SUFFICES ASSUME ~residue PROVE IndexesHold(Held)'
      BY <1>1 DEF HoldInv
    <2> DEFINE E == EntriesOf(m_blocks, h, b, pushed)
               e == Entry(h, pushed, t)
    <2>1. Held = E
      BY <1>5 DEF Held
    <2>2. /\ EntriesOf(m_blocks, h, b, pushed + 1) = E \cup {e}
          /\ \A f \in E : EntryBefore(f, e)
      BY <1>3, <1>4, EntriesGrow
    <2>3. IndexesHold(E) /\ E \in SUBSET EntryType
      BY <2>1, EntriesType DEF IndexInv, HoldInv
    <2>4. t \in TxId /\ KeyImagesOf(t) \subseteq KeyImage
      BY <1>3, <1>4, TxAtType, KeyImagesType
    <2>5. \A f \in E : f.tx # t /\ KeyImagesOf(f.tx) \cap KeyImagesOf(t) = {}
      BY <1>1, <1>3, <1>4, NewOnDisk DEF IndexInv, SpendInv
    <2>6. Held' = E \cup {e}
      <3>1. CASE pushed + 1 < TxCount(b) /\ pushed' = pushed + 1 /\ UNCHANGED m_blockIndex
        <4>1. CompleteBlocks' = h /\ PendingBlock' = b
          BY <1>1, <3>1 DEF CompleteBlocks, PendingBlock, Popping
        <4> QED BY <1>1, <2>2, <3>1, <4>1 DEF Held
      <3>2. CASE ~(pushed + 1 < TxCount(b)) /\ pushed' = 0 /\ m_blockIndex' = Append(m_blockIndex, b)
        <4>1. Len(m_blockIndex') = h + 1
          BY <1>3, <1>4, <3>2, AppendType
        <4>2. CompleteBlocks' = h + 1
          BY <1>1, <4>1 DEF CompleteBlocks, Popping
        <4>3. pushed + 1 = TxCount(b)
          BY <1>3, <1>4, <3>2
        <4>4. EntriesOf(m_blocks, h, b, TxCount(b)) = EntriesOf(m_blocks, h + 1, PendingBlock', 0)
          BY <1>3, EntriesClose
        <4>5. Held' = EntriesOf(m_blocks, h + 1, PendingBlock', 0)
          BY <1>1, <3>2, <4>2 DEF Held
        <4> QED BY <2>2, <4>3, <4>4, <4>5
      <3> QED BY <1>2, <3>1, <3>2
    <2> HIDE DEF E, e, t
    <2>7. m_transactionMap[t] = NoIndex
      <3> SUFFICES ASSUME m_transactionMap[t] # NoIndex PROVE FALSE
        OBVIOUS
      <3> DEFINE f == Entry(m_transactionMap[t].block, m_transactionMap[t].transaction, t)
      <3>1. f \in E
        BY <2>3, <2>4 DEF IndexesHold, Match, MapMatches
      <3>2. f.tx = t
        BY DEF Entry
      <3> HIDE DEF f
      <3> QED BY <2>5, <3>1, <3>2
    <2>8. KeyImagesOf(t) \cap m_spent_keys = {}
      <3> SUFFICES ASSUME NEW x \in KeyImagesOf(t), x \in m_spent_keys PROVE FALSE
        OBVIOUS
      <3>1. PICK f \in E : x \in KeyImagesOf(f.tx)
        BY <2>3, <2>4 DEF IndexesHold, Match, KeysMatch
      <3> QED BY <2>5, <3>1
    <2>9. Match(m_transactionMap', m_spent_keys', m_outputs', E \cup {Entry(h, pushed, t)})
      <3>1. \A f \in E : EntryBefore(f, Entry(h, pushed, t))
        BY <2>2 DEF e
      <3> HIDE DEF h
      <3> QED BY <1>1, <1>3, <2>3, <2>4, <2>7, <2>8, <3>1, InsertMatches
    <2> QED BY <2>6, <2>9 DEF IndexesHold, e
  <1> QED BY <1>6, <1>7 DEF IndexInv

(* rebuildCache is done.                                                   *)
LEMMA FinishRebuildIndex ==
  ASSUME TypeOK, Control, PushedInv', IndexInv, FinishRebuild
  PROVE  IndexInv'
  <1>1. /\ pc = "rebuild" /\ pc' = "idle" /\ Len(m_blockIndex) = Len(m_blocks)
        /\ UNCHANGED <<m_blocks, indexVars, residue, pushed>>
    BY DEF FinishRebuild, chainVars, historyVars
  <1>2. pushed = 0 /\ Len(m_blocks) \in Nat
    BY <1>1 DEF Control, PushedInv, TypeOK, ChainTypeOK
  <1>3. CompleteBlocks = Len(m_blocks) /\ CompleteBlocks' = Len(m_blocks)
    BY <1>1 DEF CompleteBlocks, Popping
  <1>4. Held' = Held
    BY <1>1, <1>2, <1>3, EntriesSame DEF Held
  <1>5. BaseInv'
    BY <1>1, QuietBase DEF IndexInv
  <1> QED BY <1>1, <1>4, <1>5, QuietHold DEF IndexInv

(* The indexes of the genesis block.                                       *)
LEMMA InitIndex == Init => IndexInv
  <1> SUFFICES ASSUME Init PROVE IndexInv
    OBVIOUS
  <1> DEFINE t == TxAt(Genesis, 0)
             e == Entry(0, 0, t)
             s == <<Genesis>>
             M == [u \in TxId |-> NoIndex]
  <1>1. /\ m_blocks = s /\ pc = "idle" /\ pushed = 0 /\ m_spent_keys = {} /\ ~residue
        /\ m_transactionMap = [u \in TxId |-> IF u = t THEN [block |-> 0, transaction |-> 0] ELSE NoIndex]
        /\ m_outputs = OutputsOf(t, 0, 0)
    BY DEF Init
  <1>2. Len(s) = 1 /\ s[1] = Genesis /\ Genesis \in Block
    BY NamesAssumption
  <1>3. BaseInv
    BY <1>1, <1>2, HeightAssumption DEF BaseInv
  <1>4. t \in TxId /\ KeyImagesOf(t) = {}
    BY <1>2, KeysOfCoinbase
  <1>5. e \in EntryType /\ e.tx = t /\ e.block = 0 /\ e.transaction = 0
    BY <1>4 DEF Entry, EntryType
  <1>6. TxCount(Genesis) = 1
    <2>1. Len(<<>>) = 0
      OBVIOUS
    <2> QED BY <2>1, BlockAssumption DEF TxCount
  <1>7. Held = {e}
    <2>1. CompleteBlocks = 1
      BY <1>1, <1>2 DEF CompleteBlocks, Popping
    <2>2. EntriesOf(s, 0, Genesis, TxCount(Genesis)) = EntriesOf(s, 0 + 1, PendingBlock, 0)
      <3>1. s[0 + 1] = Genesis
        BY <1>2
      <3> HIDE DEF s
      <3> QED BY <3>1, EntriesClose
    <2>3. EntriesOf(s, 0, Genesis, 0 + 1) = EntriesOf(s, 0, Genesis, 0) \cup {e}
      BY <1>2, <1>6, EntriesGrow
    <2>4. EntriesOf(s, 0, Genesis, 0) = {}
      <3>1. \A f \in EntryType : ~(f.block < 0) /\ ~(f.transaction < 0)
        BY DEF EntryType
      <3> QED BY <3>1 DEF EntriesOf
    <2> HIDE DEF s, e
    <2> QED BY <1>1, <1>6, <2>1, <2>2, <2>3, <2>4 DEF Held
  <1>8. MapMatches(m_transactionMap, {e})
    <2>1. M \in [TxId -> TransactionIndex \cup {NoIndex}] /\ M[t] = NoIndex
      BY <1>4
    <2>2. MapMatches(M, {})
      BY DEF MapMatches
    <2>3. m_transactionMap = [M EXCEPT ![t] = [block |-> 0, transaction |-> 0]]
      BY <1>1, <1>4
    <2> HIDE DEF M, t
    <2>4. MapMatches([M EXCEPT ![t] = [block |-> 0, transaction |-> 0]], {} \cup {Entry(0, 0, t)})
      BY <1>4, <2>1, <2>2, MapInserted
    <2>5. {} \cup {Entry(0, 0, t)} = {Entry(0, 0, t)}
      OBVIOUS
    <2> QED BY <2>3, <2>4, <2>5
  <1>9. KeysMatch(m_spent_keys, {e})
    <2> HIDE DEF e, t
    <2> QED BY <1>1, <1>4, <1>5 DEF KeysMatch
  <1>10. ASSUME NEW a \in Amount PROVE ListMatches(m_outputs[a], {e}, a)
    <2>1. m_outputs[a] = NewOutputs(e, TxInfo[e.tx].outputs[a])
      BY <1>1, <1>5 DEF OutputsOf, NewOutputs, OutputOf
    <2>2. <<>> \in Seq(OutputPlace) /\ Len(<<>>) = 0
      OBVIOUS
    <2>3. ListMatches(<<>>, {}, a)
      BY <2>2 DEF ListMatches, FromEntries, AllEntries, InOrder, InRuns
    <2> HIDE DEF e
    <2>4. ListMatches(<<>> \o NewOutputs(e, TxInfo[e.tx].outputs[a]), {} \cup {e}, a)
      BY <1>5, <2>3, ListInserted
    <2>5. NewOutputs(e, TxInfo[e.tx].outputs[a]) \in Seq(OutputPlace)
      <3>1. TxInfo[e.tx].outputs[a] \in Nat
        BY <1>4, <1>5, OutputCount
      <3>2. \A i \in 1 .. TxInfo[e.tx].outputs[a] : OutputOf(e, i - 1) \in OutputPlace
        BY <1>5, <3>1 DEF OutputOf, OutputPlace, EntryType
      <3> QED BY <3>1, <3>2 DEF NewOutputs
    <2>6. <<>> \o NewOutputs(e, TxInfo[e.tx].outputs[a]) = NewOutputs(e, TxInfo[e.tx].outputs[a])
      BY <2>5
    <2>7. {} \cup {e} = {e}
      OBVIOUS
    <2> QED BY <2>1, <2>4, <2>6, <2>7
  <1>11. IndexesHold(Held)
    BY <1>7, <1>8, <1>9, <1>10 DEF IndexesHold, Match, OutputsMatchEntries
  <1> QED BY <1>3, <1>11 DEF IndexInv, HoldInv

(* A step that leaves the blocks and the indexes alone.                    *)
Untouched == UNCHANGED <<m_blocks, indexVars, residue>> /\ ~Working /\ ~Working'

(* LoadTransactions is such a step.                                     *)
LEMMA LoadTransactionsUntouched ==
  ASSUME TypeOK, Control, LoadTransactions
  PROVE  Untouched
  <1> USE DEF LoadTransactions, PushReturns, chainVars, indexVars, poolVars, switchVars, historyVars
  <1>1. UNCHANGED <<m_blocks, indexVars, residue>>
    OBVIOUS
  <1>2. ~Working /\ ~Working'
    BY DEF Control, CallerInv, Working
  <1> QED BY <1>1, <1>2 DEF Untouched

(* StartConnect is such a step.                                         *)
LEMMA StartConnectUntouched ==
  ASSUME TypeOK, Control, StartConnect
  PROVE  Untouched
  <1> USE DEF StartConnect, chainVars, indexVars, poolVars, switchVars, historyVars
  <1>1. UNCHANGED <<m_blocks, indexVars, residue>>
    OBVIOUS
  <1>2. ~Working /\ ~Working'
    BY DEF Control, CallerInv, Working
  <1> QED BY <1>1, <1>2 DEF Untouched

(* ConnectNext is such a step.                                          *)
LEMMA ConnectNextUntouched ==
  ASSUME TypeOK, Control, ConnectNext
  PROVE  Untouched
  <1> USE DEF ConnectNext, StartPush, chainVars, indexVars, poolVars, switchVars, historyVars
  <1>1. UNCHANGED <<m_blocks, indexVars, residue>>
    OBVIOUS
  <1>2. ~Working /\ ~Working'
    BY DEF Control, CallerInv, Working
  <1> QED BY <1>1, <1>2 DEF Untouched

(* FinishConnect is such a step.                                        *)
LEMMA FinishConnectUntouched ==
  ASSUME TypeOK, Control, FinishConnect
  PROVE  Untouched
  <1> USE DEF FinishConnect, chainVars, indexVars, poolVars, switchVars, historyVars
  <1>1. UNCHANGED <<m_blocks, indexVars, residue>>
    OBVIOUS
  <1>2. ~Working /\ ~Working'
    BY DEF Control, CallerInv, Working
  <1> QED BY <1>1, <1>2 DEF Untouched

(* ReaddNext is such a step.                                            *)
LEMMA ReaddNextUntouched ==
  ASSUME TypeOK, Control, ReaddNext
  PROVE  Untouched
  <1> USE DEF ReaddNext, RefuseReadded, chainVars, indexVars, poolVars, switchVars, historyVars
  <1>1. UNCHANGED <<m_blocks, indexVars, residue>>
    OBVIOUS
  <1>2. ~Working /\ ~Working'
    BY DEF Control, CallerInv, Working
  <1> QED BY <1>1, <1>2 DEF Untouched

(* FinishSwitch is such a step.                                         *)
LEMMA FinishSwitchUntouched ==
  ASSUME TypeOK, Control, FinishSwitch
  PROVE  Untouched
  <1> USE DEF FinishSwitch, chainVars, indexVars, poolVars, switchVars, historyVars
  <1>1. UNCHANGED <<m_blocks, indexVars, residue>>
    OBVIOUS
  <1>2. ~Working /\ ~Working'
    BY DEF Control, CallerInv, Working
  <1> QED BY <1>1, <1>2 DEF Untouched

(* StartRestore is such a step.                                         *)
LEMMA StartRestoreUntouched ==
  ASSUME TypeOK, Control, StartRestore
  PROVE  Untouched
  <1> USE DEF StartRestore, chainVars, indexVars, poolVars, switchVars, historyVars
  <1>1. UNCHANGED <<m_blocks, indexVars, residue>>
    OBVIOUS
  <1>2. ~Working /\ ~Working'
    BY DEF Control, CallerInv, Working
  <1> QED BY <1>1, <1>2 DEF Untouched

(* RestoreNext is such a step.                                          *)
LEMMA RestoreNextUntouched ==
  ASSUME TypeOK, Control, RestoreNext
  PROVE  Untouched
  <1> USE DEF RestoreNext, StartPush, chainVars, indexVars, poolVars, switchVars, historyVars
  <1>1. UNCHANGED <<m_blocks, indexVars, residue>>
    OBVIOUS
  <1>2. ~Working /\ ~Working'
    BY DEF Control, CallerInv, Working
  <1> QED BY <1>1, <1>2 DEF Untouched

(* FinishRestore is such a step.                                        *)
LEMMA FinishRestoreUntouched ==
  ASSUME TypeOK, Control, FinishRestore
  PROVE  Untouched
  <1> USE DEF FinishRestore, chainVars, indexVars, poolVars, switchVars, historyVars
  <1>1. UNCHANGED <<m_blocks, indexVars, residue>>
    OBVIOUS
  <1>2. ~Working /\ ~Working'
    BY DEF Control, CallerInv, Working
  <1> QED BY <1>1, <1>2 DEF Untouched

(* WalkToMainChain is such a step.                                      *)
LEMMA WalkToMainChainUntouched ==
  ASSUME TypeOK, Control, WalkToMainChain
  PROVE  Untouched
  <1> USE DEF WalkToMainChain, chainVars, indexVars, poolVars, switchVars, historyVars
  <1>1. UNCHANGED <<m_blocks, indexVars, residue>>
    OBVIOUS
  <1>2. ~Working /\ ~Working'
    BY DEF Control, CallerInv, Working
  <1> QED BY <1>1, <1>2 DEF Untouched

(* AcceptAlternative is such a step.                                    *)
LEMMA AcceptAlternativeUntouched ==
  ASSUME TypeOK, Control, AcceptAlternative
  PROVE  Untouched
  <1> USE DEF AcceptAlternative, chainVars, indexVars, poolVars, switchVars, historyVars
  <1>1. UNCHANGED <<m_blocks, indexVars, residue>>
    OBVIOUS
  <1>2. ~Working /\ ~Working'
    BY DEF Control, CallerInv, Working
  <1> QED BY <1>1, <1>2 DEF Untouched

(* RefuseAlternative is such a step.                                    *)
LEMMA RefuseAlternativeUntouched ==
  ASSUME TypeOK, Control, RefuseAlternative
  PROVE  Untouched
  <1> USE DEF RefuseAlternative, RefuseReadded, chainVars, indexVars, poolVars, switchVars, historyVars
  <1>1. UNCHANGED <<m_blocks, indexVars, residue>>
    OBVIOUS
  <1>2. ~Working /\ ~Working'
    BY DEF Control, CallerInv, Working
  <1> QED BY <1>1, <1>2 DEF Untouched

(* Return is such a step.                                               *)
LEMMA ReturnUntouched ==
  ASSUME TypeOK, Control, Return
  PROVE  Untouched
  <1> USE DEF Return, chainVars, indexVars, poolVars, switchVars, historyVars
  <1>1. UNCHANGED <<m_blocks, indexVars, residue>>
    OBVIOUS
  <1>2. ~Working /\ ~Working'
    BY DEF Control, CallerInv, Working
  <1> QED BY <1>1, <1>2 DEF Untouched

(* So are the calls that the node makes from outside.                      *)
LEMMA CallsUntouched ==
  /\ \A b \in Block : AddNewBlock(b) => Untouched
  /\ \A t \in Tx, kept \in BOOLEAN : AddNewTx(t, kept) => Untouched
  /\ \A S, F : RemoveExpiredTransactions(S, F) => Untouched
  <1> USE DEF chainVars, indexVars, poolVars, switchVars, historyVars, Working, Untouched
  <1>1. ASSUME NEW b \in Block, AddNewBlock(b) PROVE Untouched
    BY <1>1 DEF AddNewBlock
  <1>2. ASSUME NEW t \in Tx, NEW kept \in BOOLEAN, AddNewTx(t, kept) PROVE Untouched
    BY <1>2 DEF AddNewTx
  <1>3. ASSUME NEW S, NEW F, RemoveExpiredTransactions(S, F) PROVE Untouched
    BY <1>3 DEF RemoveExpiredTransactions
  <1> QED BY <1>1, <1>2, <1>3

(* Every step keeps the indexes.                                           *)
LEMMA NextIndex == TypeOK /\ Control /\ SpendInv /\ IndexInv /\ [Next]_vars => IndexInv'
  <1> SUFFICES ASSUME TypeOK, Control, SpendInv, IndexInv, [Next]_vars PROVE IndexInv'
    OBVIOUS
  <1>0. PushedInv /\ PushedInv' /\ PendingInv
    BY NextStep DEF Control, SpendInv
  <1>q. ASSUME Untouched PROVE IndexInv'
    BY <1>0, <1>q, QuietIndex DEF Untouched
  <1>1. CASE LoadTransactions
    BY <1>1, <1>q, LoadTransactionsUntouched
  <1>2. CASE CheckBlock
    BY <1>0, <1>2, CheckBlockIndex
  <1>3. CASE PushNextTransaction
    BY <1>0, <1>3, PushNextTransactionIndex
  <1>4. CASE FinishPush
    BY <1>0, <1>4, FinishPushIndex
  <1>5. CASE UndoTransaction
    BY <1>0, <1>5, UndoTransactionIndex
  <1>6. CASE FinishUndo
    BY <1>0, <1>6, FinishUndoIndex
  <1>7. CASE StartPop
    BY <1>0, <1>7, StartPopIndex
  <1>8. CASE StartConnect
    BY <1>8, <1>q, StartConnectUntouched
  <1>9. CASE ConnectNext
    BY <1>9, <1>q, ConnectNextUntouched
  <1>10. CASE FinishConnect
    BY <1>10, <1>q, FinishConnectUntouched
  <1>11. CASE ReaddNext
    BY <1>11, <1>q, ReaddNextUntouched
  <1>12. CASE FinishSwitch
    BY <1>12, <1>q, FinishSwitchUntouched
  <1>13. CASE StartRestore
    BY <1>13, <1>q, StartRestoreUntouched
  <1>14. CASE RestoreNext
    BY <1>14, <1>q, RestoreNextUntouched
  <1>15. CASE FinishRestore
    BY <1>15, <1>q, FinishRestoreUntouched
  <1>16. CASE WalkToMainChain
    BY <1>16, <1>q, WalkToMainChainUntouched
  <1>17. CASE AcceptAlternative
    BY <1>17, <1>q, AcceptAlternativeUntouched
  <1>18. CASE RefuseAlternative
    BY <1>18, <1>q, RefuseAlternativeUntouched
  <1>19. CASE RebuildNext
    BY <1>0, <1>19, RebuildNextIndex
  <1>20. CASE FinishRebuild
    BY <1>0, <1>20, FinishRebuildIndex
  <1>21. CASE Return
    BY <1>21, <1>q, ReturnUntouched
  <1>22. CASE Crash
    BY <1>22, StartIndex DEF Crash
  <1>23. CASE Shutdown
    BY <1>23, StartIndex DEF Shutdown
  <1>24. ASSUME NEW b \in Block, AddNewBlock(b) PROVE IndexInv'
    BY <1>24, <1>q, CallsUntouched
  <1>25. ASSUME NEW t \in Tx, NEW kept \in BOOLEAN, AddNewTx(t, kept) PROVE IndexInv'
    BY <1>25, <1>q, CallsUntouched
  <1>26. ASSUME NEW S \in SUBSET m_transactions, NEW F \in SUBSET m_recentlyDeletedTransactions,
                RemoveExpiredTransactions(S, F)
         PROVE  IndexInv'
    BY <1>26, <1>q, CallsUntouched
  <1>27. CASE UNCHANGED vars
    <2>1. Held' = Held
      BY <1>27 DEF vars, chainVars, Held, CompleteBlocks, Popping, PendingBlock
    <2>2. BaseInv'
      BY <1>27, QuietBase DEF vars, chainVars, IndexInv
    <2> QED BY <1>27, <2>1, <2>2, QuietHold DEF vars, indexVars, historyVars, IndexInv
  <1> QED
    BY <1>1, <1>2, <1>3, <1>4, <1>5, <1>6, <1>7, <1>8, <1>9, <1>10, <1>11, <1>12, <1>13, <1>14,
       <1>15, <1>16, <1>17, <1>18, <1>19, <1>20, <1>21, <1>22, <1>23, <1>24, <1>25, <1>26, <1>27
    DEF Next, Step

-----------------------------------------------------------------------------
(* How far the indexes are.                                                *)
LEMMA ProgressType ==
  ASSUME TypeOK, Control
  PROVE  /\ CompleteBlocks \in Nat /\ CompleteBlocks <= Len(m_blocks) /\ Len(m_blocks) \in Nat
         /\ \A h \in Nat : h < CompleteBlocks => m_blocks[h + 1] \in Block
         /\ pushed \in Nat
         /\ pushed > 0 => PendingBlock \in Block /\ pushed <= TxCount(PendingBlock)
  <1>1. m_blocks \in Seq(Block) /\ Len(m_blocks) \in Nat /\ Len(m_blockIndex) \in Nat /\ pushed \in Nat
    BY DEF TypeOK, ChainTypeOK, LocalTypeOK
  <1>2. Len(m_blocks) > 0
    BY <1>1 DEF Control, LinkInv, ChainLinked
  <1>3. CompleteBlocks \in Nat /\ CompleteBlocks <= Len(m_blocks)
    BY <1>1, <1>2 DEF CompleteBlocks, Control, PushedInv
  <1>4. ASSUME NEW h \in Nat, h < CompleteBlocks PROVE m_blocks[h + 1] \in Block
    <2>1. h + 1 \in 1 .. Len(m_blocks)
      BY <1>1, <1>3, <1>4
    <2> QED BY <1>1, <2>1
  <1>5. ASSUME pushed > 0 PROVE PendingBlock \in Block /\ pushed <= TxCount(PendingBlock)
    <2>1. CASE pc = "rebuild"
      <3>1. CompleteBlocks = Len(m_blockIndex) /\ PendingBlock = m_blocks[Len(m_blockIndex) + 1]
        <4>1. CompleteBlocks = Len(m_blockIndex)
          BY <2>1 DEF CompleteBlocks, Popping
        <4> QED BY <2>1, <4>1 DEF PendingBlock
      <3>2. Len(m_blockIndex) < Len(m_blocks)
        BY <1>1, <1>5, <2>1 DEF Control, PushedInv
      <3>3. Len(m_blockIndex) + 1 \in 1 .. Len(m_blocks)
        BY <1>1, <3>2
      <3>4. PendingBlock \in Block
        BY <1>1, <3>1, <3>3
      <3>5. pushed < TxCount(PendingBlock)
        BY <2>1, <3>1, <3>2 DEF Control, PushedInv
      <3>6. TxCount(PendingBlock) \in Nat
        BY <3>4, TxCountType
      <3> QED BY <1>1, <3>4, <3>5, <3>6
    <2>2. CASE pc # "rebuild"
      <3>1. PendingBlock = block /\ block \in Block
        BY <2>2 DEF PendingBlock, TypeOK, LocalTypeOK
      <3>2. pc \in {"tx", "undo"}
        BY <1>1, <1>5, <2>2 DEF Control, PushedInv
      <3> QED BY <3>1, <3>2 DEF Control, PushedInv
    <2> QED BY <2>1, <2>2
  <1> QED BY <1>1, <1>3, <1>4, <1>5

(* A place of the chain is the place of an entry.                          *)
LEMMA PlaceIsHeld ==
  ASSUME TypeOK, Control, NEW h, NEW p, IsPlace(h, p)
  PROVE  /\ h \in Nat /\ p \in Nat /\ TxOfPlace(h, p) \in TxId
         /\ Entry(h, p, TxOfPlace(h, p)) \in Held
  <1> DEFINE t == TxOfPlace(h, p)
             e == Entry(h, p, t)
  <1>1. /\ CompleteBlocks \in Nat /\ pushed \in Nat
        /\ \A i \in Nat : i < CompleteBlocks => m_blocks[i + 1] \in Block
        /\ pushed > 0 => PendingBlock \in Block /\ pushed <= TxCount(PendingBlock)
    BY ProgressType
  <1>2. h \in Nat /\ h <= CompleteBlocks /\ p \in PositionsAt(h)
    BY <1>1 DEF IsPlace
  <1>3. CASE h < CompleteBlocks
    <2>1. m_blocks[h + 1] \in Block /\ t = TxAt(m_blocks[h + 1], p)
      BY <1>1, <1>2, <1>3 DEF TxOfPlace
    <2>2. p \in 0 .. Len(TxsOf(m_blocks[h + 1]))
      BY <1>2, <1>3 DEF PositionsAt
    <2>3. Len(TxsOf(m_blocks[h + 1])) \in Nat
      BY <2>1, TxsOfType
    <2>4. p \in Nat /\ p < TxCount(m_blocks[h + 1])
      BY <2>2, <2>3 DEF TxCount
    <2>5. t \in TxId
      BY <2>1, <2>4, TxAtType
    <2>6. e \in EntryType /\ e.block = h /\ e.transaction = p /\ e.tx = t
      BY <1>2, <2>4, <2>5 DEF Entry, EntryType
    <2> HIDE DEF e, t
    <2>7. e \in Held
      BY <1>3, <2>1, <2>4, <2>6 DEF Held, EntriesOf
    <2> QED BY <1>2, <2>4, <2>5, <2>7 DEF e, t
  <1>4. CASE ~(h < CompleteBlocks)
    <2>1. h = CompleteBlocks /\ t = TxAt(PendingBlock, p)
      BY <1>1, <1>2, <1>4 DEF TxOfPlace
    <2>2. p \in 0 .. pushed - 1
      BY <1>2, <1>4 DEF PositionsAt
    <2>3. p \in Nat /\ p < pushed /\ pushed > 0
      BY <1>1, <2>2
    <2>4. p < TxCount(PendingBlock) /\ PendingBlock \in Block
      <3>1. TxCount(PendingBlock) \in Nat
        BY <1>1, <2>3, TxCountType
      <3> QED BY <1>1, <2>3, <3>1
    <2>5. t \in TxId
      BY <2>1, <2>3, <2>4, TxAtType
    <2>6. e \in EntryType /\ e.block = h /\ e.transaction = p /\ e.tx = t
      BY <1>2, <2>3, <2>5 DEF Entry, EntryType
    <2> HIDE DEF e, t
    <2>7. e \in Held
      BY <2>1, <2>3, <2>6 DEF Held, EntriesOf
    <2> QED BY <1>2, <2>3, <2>5, <2>7 DEF e, t
  <1> QED BY <1>3, <1>4

(* And the place of an entry is one of the chain.                          *)
LEMMA HeldIsPlace ==
  ASSUME TypeOK, Control, NEW e \in Held
  PROVE  /\ e \in EntryType
         /\ IsPlace(e.block, e.transaction)
         /\ TxOfPlace(e.block, e.transaction) = e.tx
         /\ <<e.block, e.transaction>> \in Places
  <1>1. /\ CompleteBlocks \in Nat /\ pushed \in Nat
        /\ \A i \in Nat : i < CompleteBlocks => m_blocks[i + 1] \in Block
    BY ProgressType
  <1>2. e \in EntryType /\ e.block \in Nat /\ e.transaction \in Nat
    BY DEF Held, EntriesOf, EntryType
  <1>3. \/ /\ e.block < CompleteBlocks /\ e.transaction < TxCount(m_blocks[e.block + 1])
           /\ e.tx = TxAt(m_blocks[e.block + 1], e.transaction)
        \/ e.block = CompleteBlocks /\ e.transaction < pushed /\ e.tx = TxAt(PendingBlock, e.transaction)
    BY DEF Held, EntriesOf
  <1>4. IsPlace(e.block, e.transaction) /\ TxOfPlace(e.block, e.transaction) = e.tx
    <2>1. CASE /\ e.block < CompleteBlocks /\ e.transaction < TxCount(m_blocks[e.block + 1])
               /\ e.tx = TxAt(m_blocks[e.block + 1], e.transaction)
      <3>1. Len(TxsOf(m_blocks[e.block + 1])) \in Nat
        BY <1>1, <1>2, <2>1, TxsOfType
      <3>2. e.transaction \in 0 .. Len(TxsOf(m_blocks[e.block + 1]))
        BY <1>2, <2>1, <3>1 DEF TxCount
      <3>3. e.block \in 0 .. CompleteBlocks
        BY <1>1, <1>2, <2>1
      <3> QED BY <2>1, <3>2, <3>3 DEF IsPlace, PositionsAt, TxOfPlace
    <2>2. CASE e.block = CompleteBlocks /\ e.transaction < pushed /\ e.tx = TxAt(PendingBlock, e.transaction)
      <3>1. e.transaction \in 0 .. pushed - 1
        BY <1>1, <1>2, <2>2
      <3>2. e.block \in 0 .. CompleteBlocks /\ ~(e.block < CompleteBlocks)
        BY <1>1, <1>2, <2>2
      <3> QED BY <2>2, <3>1, <3>2 DEF IsPlace, PositionsAt, TxOfPlace
    <2> QED BY <1>3, <2>1, <2>2
  <1>5. <<e.block, e.transaction>> \in {e.block} \X PositionsAt(e.block)
    BY <1>4 DEF IsPlace
  <1>6. <<e.block, e.transaction>> \in Places
    BY <1>4, <1>5 DEF IsPlace, Places
  <1> QED BY <1>2, <1>4, <1>6

(* The entry of a place.                                                   *)
EntryAt(s) == Entry(s[1], s[2], TxOfPlace(s[1], s[2]))

(* Different places have different entries, with their fields.             *)
LEMMA PlaceEntry ==
  ASSUME TypeOK, Control
  PROVE  /\ \A s \in Places : /\ EntryAt(s) \in Held /\ IsPlace(s[1], s[2])
                              /\ EntryAt(s).block = s[1] /\ EntryAt(s).transaction = s[2]
                              /\ EntryAt(s).tx = TxOfPlace(s[1], s[2]) /\ EntryAt(s).tx \in TxId
         /\ \A s, u \in Places : s # u => EntryAt(s) # EntryAt(u)
  <1>1. ASSUME NEW s \in Places
        PROVE  /\ EntryAt(s) \in Held /\ IsPlace(s[1], s[2]) /\ s = <<s[1], s[2]>>
               /\ EntryAt(s).block = s[1] /\ EntryAt(s).transaction = s[2]
               /\ EntryAt(s).tx = TxOfPlace(s[1], s[2]) /\ EntryAt(s).tx \in TxId
    <2>1. PICK h \in 0 .. CompleteBlocks : s \in {h} \X PositionsAt(h)
      BY DEF Places
    <2>2. s = <<s[1], s[2]>> /\ s[1] = h /\ s[2] \in PositionsAt(h)
      BY <2>1
    <2>3. IsPlace(s[1], s[2])
      BY <2>2 DEF IsPlace
    <2>4. EntryAt(s) \in Held /\ TxOfPlace(s[1], s[2]) \in TxId
      BY <2>3, PlaceIsHeld DEF EntryAt
    <2>5. /\ EntryAt(s).block = s[1] /\ EntryAt(s).transaction = s[2]
          /\ EntryAt(s).tx = TxOfPlace(s[1], s[2])
      BY DEF EntryAt, Entry
    <2> QED BY <2>2, <2>3, <2>4, <2>5
  <1>2. ASSUME NEW s \in Places, NEW u \in Places, EntryAt(s) = EntryAt(u) PROVE s = u
    <2>1. s[1] = u[1] /\ s[2] = u[2]
      BY <1>1, <1>2
    <2> QED BY <1>1, <2>1
  <1> QED BY <1>1, <1>2

(* The transaction map.                                                    *)
LEMMA HeldMap ==
  ASSUME TypeOK, Control, MapMatches(m_transactionMap, Held)
  PROVE  TransactionMapMatches
  <1>1. ASSUME NEW s \in Places
        PROVE  m_transactionMap[TxOfPlace(s[1], s[2])] = [block |-> s[1], transaction |-> s[2]]
    BY PlaceEntry DEF MapMatches
  <1>2. ASSUME NEW t \in TxId, m_transactionMap[t] # NoIndex
        PROVE  LET ix == m_transactionMap[t] IN
                 IsPlace(ix.block, ix.transaction) /\ TxOfPlace(ix.block, ix.transaction) = t
    <2> DEFINE ix == m_transactionMap[t]
               e == Entry(ix.block, ix.transaction, t)
    <2>1. e \in Held
      BY <1>2 DEF MapMatches
    <2>2. e.block = ix.block /\ e.transaction = ix.transaction /\ e.tx = t
      BY DEF Entry
    <2> HIDE DEF e, ix
    <2>3. IsPlace(e.block, e.transaction) /\ TxOfPlace(e.block, e.transaction) = e.tx
      BY <2>1, HeldIsPlace
    <2> QED BY <2>2, <2>3 DEF ix
  <1> QED BY <1>1, <1>2 DEF TransactionMapMatches

(* The key images.                                                         *)
LEMMA HeldKeys ==
  ASSUME TypeOK, Control, KeysMatch(m_spent_keys, Held)
  PROVE  SpentKeysMatch
  <1> DEFINE K == UNION {KeyImagesOf(TxOfPlace(s[1], s[2])) : s \in Places}
  <1>1. ASSUME NEW k \in m_spent_keys PROVE k \in K
    <2>1. PICK e \in Held : k \in KeyImagesOf(e.tx)
      BY DEF KeysMatch
    <2> DEFINE u == <<e.block, e.transaction>>
    <2>2. u \in Places /\ TxOfPlace(u[1], u[2]) = e.tx
      BY HeldIsPlace
    <2> HIDE DEF u
    <2> QED BY <2>1, <2>2
  <1>2. ASSUME NEW k \in K PROVE k \in m_spent_keys
    <2>1. PICK s \in Places : k \in KeyImagesOf(TxOfPlace(s[1], s[2]))
      OBVIOUS
    <2>2. EntryAt(s) \in Held /\ EntryAt(s).tx = TxOfPlace(s[1], s[2]) /\ EntryAt(s).tx \in TxId
      BY PlaceEntry
    <2>3. k \in KeyImage
      BY <2>1, <2>2, KeyImagesType
    <2> QED BY <2>1, <2>2, <2>3 DEF KeysMatch
  <1>3. ASSUME NEW s \in Places, NEW u \in Places, s # u
        PROVE  KeyImagesOf(TxOfPlace(s[1], s[2])) \cap KeyImagesOf(TxOfPlace(u[1], u[2])) = {}
    <2>1. EntryAt(s) # EntryAt(u) /\ EntryAt(s) \in Held /\ EntryAt(u) \in Held
      BY <1>3, PlaceEntry
    <2>2. EntryAt(s).tx = TxOfPlace(s[1], s[2]) /\ EntryAt(u).tx = TxOfPlace(u[1], u[2])
      BY PlaceEntry
    <2> QED BY <2>1, <2>2 DEF KeysMatch
  <1>4. m_spent_keys = K
    BY <1>1, <1>2
  <1> QED BY <1>3, <1>4 DEF SpentKeysMatch

(* The outputs of a transaction, by their numbers.                         *)
LEMMA OutputsOfPlace ==
  ASSUME NEW t \in TxId, NEW h, NEW p, NEW a \in Amount, NEW o
  PROVE  o \in ToSet(OutputsOf(t, h, p)[a])
           <=> \E k \in 0 .. TxInfo[t].outputs[a] - 1 : o = [block |-> h, transaction |-> p, out |-> k]
  <1> DEFINE n == TxInfo[t].outputs[a]
             w == [i \in 1 .. n |-> [block |-> h, transaction |-> p, out |-> i - 1]]
  <1>1. n \in Nat
    BY OutputCount
  <1>2. OutputsOf(t, h, p)[a] = w
    BY DEF OutputsOf
  <1> HIDE DEF n
  <1>3. ASSUME o \in ToSet(w)
        PROVE  \E k \in 0 .. n - 1 : o = [block |-> h, transaction |-> p, out |-> k]
    <2>1. PICK i \in 1 .. n : o = w[i]
      BY <1>3 DEF ToSet
    <2>2. i - 1 \in 0 .. n - 1
      BY <1>1
    <2> QED BY <2>1, <2>2
  <1>4. ASSUME NEW k \in 0 .. n - 1, o = [block |-> h, transaction |-> p, out |-> k]
        PROVE  o \in ToSet(w)
    <2>1. k + 1 \in 1 .. n /\ (k + 1) - 1 = k
      BY <1>1
    <2>2. w[k + 1] = o
      BY <1>4, <2>1
    <2>3. k + 1 \in DOMAIN w
      BY <2>1
    <2> HIDE DEF w
    <2> QED BY <2>2, <2>3 DEF ToSet
  <1> QED BY <1>2, <1>3, <1>4 DEF n

(* The list of an amount.                                                  *)
LEMMA HeldOutputs ==
  ASSUME TypeOK, Control, OutputsMatchEntries(m_outputs, Held)
  PROVE  OutputsMatch
  <1> SUFFICES ASSUME NEW a \in Amount
      PROVE  /\ ToSet(m_outputs[a]) =
                  UNION {ToSet(OutputsOf(TxOfPlace(s[1], s[2]), s[1], s[2])[a]) : s \in Places}
             /\ \A i, j \in DOMAIN m_outputs[a] :
                  i < j => OutputBefore(m_outputs[a][i], m_outputs[a][j])
    BY DEF OutputsMatch
  <1> DEFINE outs == m_outputs[a]
             all == UNION {ToSet(OutputsOf(TxOfPlace(s[1], s[2]), s[1], s[2])[a]) : s \in Places}
  <1>1. ListMatches(outs, Held, a)
    BY DEF OutputsMatchEntries
  <1> HIDE DEF outs
  <1>2. outs \in Seq(OutputPlace) /\ DOMAIN outs = 1 .. Len(outs)
    BY <1>1 DEF ListMatches
  <1>3. ASSUME NEW o \in ToSet(outs) PROVE o \in all
    <2>1. PICK i \in 1 .. Len(outs) : o = outs[i]
      BY <1>2 DEF ToSet
    <2>2. PICK e \in Held : /\ o.block = e.block /\ o.transaction = e.transaction
                            /\ o.out < TxInfo[e.tx].outputs[a]
      BY <1>1, <2>1 DEF ListMatches, FromEntries
    <2>3. o \in OutputPlace /\ o.out \in Nat
      <3>1. outs[i] \in OutputPlace
        BY <1>2
      <3> QED BY <2>1, <3>1 DEF OutputPlace
    <2>4. o = [block |-> e.block, transaction |-> e.transaction, out |-> o.out]
      BY <2>2, <2>3 DEF OutputPlace
    <2> DEFINE u == <<e.block, e.transaction>>
    <2>5. /\ u \in Places /\ u[1] = e.block /\ u[2] = e.transaction
          /\ TxOfPlace(u[1], u[2]) = e.tx /\ e.tx \in TxId
      BY HeldIsPlace DEF EntryType
    <2> HIDE DEF u
    <2>6. TxInfo[e.tx].outputs[a] \in Nat
      BY <2>5, OutputCount
    <2>7. o.out \in 0 .. TxInfo[e.tx].outputs[a] - 1
      BY <2>2, <2>3, <2>6
    <2>8. o \in ToSet(OutputsOf(e.tx, e.block, e.transaction)[a])
      BY <2>4, <2>5, <2>7, OutputsOfPlace
    <2> QED BY <2>5, <2>8
  <1>4. ASSUME NEW o \in all PROVE o \in ToSet(outs)
    <2>1. PICK s \in Places : o \in ToSet(OutputsOf(TxOfPlace(s[1], s[2]), s[1], s[2])[a])
      OBVIOUS
    <2>2. /\ EntryAt(s) \in Held /\ EntryAt(s).block = s[1] /\ EntryAt(s).transaction = s[2]
          /\ EntryAt(s).tx = TxOfPlace(s[1], s[2]) /\ EntryAt(s).tx \in TxId
      BY PlaceEntry
    <2>3. PICK k \in 0 .. TxInfo[EntryAt(s).tx].outputs[a] - 1 :
            o = [block |-> s[1], transaction |-> s[2], out |-> k]
      BY <2>1, <2>2, OutputsOfPlace
    <2>4. o = OutputOf(EntryAt(s), k)
      BY <2>2, <2>3 DEF OutputOf
    <2>5. \E i \in 1 .. Len(outs) : outs[i] = OutputOf(EntryAt(s), k)
      BY <1>1, <2>2 DEF ListMatches, AllEntries
    <2> QED BY <1>2, <2>4, <2>5 DEF ToSet
  <1>5. ToSet(outs) = all
    BY <1>3, <1>4
  <1>6. \A i, j \in DOMAIN outs : i < j => OutputBefore(outs[i], outs[j])
    BY <1>1, <1>2 DEF ListMatches, InOrder
  <1> QED BY <1>5, <1>6 DEF outs

(***************************************************************************)
(* The transaction map, the spent key images and the lists of outputs      *)
(* agree with the blocks on the disk and the block at hand at every step of*)
(* pushBlock, popBlock, a switch, a rollback and a rebuild after a kill,   *)
(* until pushBlock throws out of a block and leaves it in the indexes.     *)
(***************************************************************************)
THEOREM IndexesAlwaysMatch == Spec => []IndexesMatch
  <1>1. Init => TypeOK /\ Control /\ SpendInv /\ IndexInv
    BY InitStep, InitSpends, InitIndex
  <1>2. TypeOK /\ Control /\ SpendInv /\ IndexInv /\ [Next]_vars
          => TypeOK' /\ Control' /\ SpendInv' /\ IndexInv'
    BY NextStep, NextSpends, NextIndex
  <1>3. TypeOK /\ Control /\ IndexInv => IndexesMatch
    <2> SUFFICES ASSUME TypeOK, Control, IndexInv PROVE IndexesMatch
      OBVIOUS
    <2>1. CASE residue
      BY <2>1 DEF IndexesMatch, TransactionMapMatches, SpentKeysMatch, OutputsMatch
    <2>2. CASE ~residue
      <3>1. /\ MapMatches(m_transactionMap, Held) /\ KeysMatch(m_spent_keys, Held)
            /\ OutputsMatchEntries(m_outputs, Held)
        BY <2>2 DEF IndexInv, HoldInv, IndexesHold, Match
      <3> QED BY <3>1, HeldMap, HeldKeys, HeldOutputs DEF IndexesMatch
    <2> QED BY <2>1, <2>2
  <1> QED BY <1>1, <1>2, <1>3, PTL DEF Spec

-----------------------------------------------------------------------------
(***************************************************************************)
(* Where the transactions are.  Each of them is in the pool, in the chain  *)
(* or in the hands of pushBlock, which has taken it from the one and not   *)
(* yet put it into the other, and never in two of these.  The block that   *)
(* popBlock removes no longer counts: its transactions are in the pool     *)
(* before the block leaves the files.                                      *)
(***************************************************************************)
InChain(t, s) == \E i \in DOMAIN s : t \in ToSet(TxsOf(s[i]))
Settled == IF Popping THEN Front(m_blocks) ELSE m_blocks
InHand == IF pc = "check" \/ Pushing THEN ToSet(TxsOf(block)) ELSE {}

ApartInv ==
  ~crashed =>
    /\ \A t \in m_transactions : ~InChain(t, Settled) /\ t \notin InHand
    /\ \A t \in InHand : ~InChain(t, Settled)

KeptInv ==
  \/ pc \in {"idle", "rebuild"} \/ aborted
  \/ \A t \in Tx : t \in before.pool \/ InChain(t, before.chain)
       => t \in m_transactions \/ InChain(t, Settled) \/ t \in InHand

AbortInv == ~residue /\ ~crashed => ~aborted

PlaceInv == ApartInv /\ KeptInv /\ AbortInv

-----------------------------------------------------------------------------
(* The smallest number of a set.                                           *)
LEMMA SmallestOfSet ==
  ASSUME NEW T \in SUBSET Nat, T # {}
  PROVE  Min(T) \in T
  <1> DEFINE R == OpToRel(<, Nat)
  <1>1. IsWellFoundedOn(R, Nat)
    BY NatLessThanWellFounded
  <1>2. \E x \in T : \A y \in T : <<y, x>> \notin R
    <2> HIDE DEF R
    <2> QED BY <1>1, WFMin
  <1>3. \E x \in T : \A y \in T : x <= y
    <2>1. PICK x \in T : \A y \in T : <<y, x>> \notin R
      BY <1>2
    <2>2. \A y \in T : ~ (y < x)
      BY <2>1 DEF OpToRel
    <2> QED BY <2>2
  <1> QED BY <1>3 DEF Min

(* A chain and one more block.                                             *)
LEMMA InAppended ==
  ASSUME NEW s \in Seq(Block), NEW b \in Block, NEW t
  PROVE  InChain(t, Append(s, b)) <=> InChain(t, s) \/ t \in ToSet(TxsOf(b))
  <1> DEFINE r == Append(s, b)
  <1>1. /\ DOMAIN r = 1 .. Len(s) + 1 /\ DOMAIN s = 1 .. Len(s) /\ Len(s) \in Nat
        /\ r[Len(s) + 1] = b /\ \A i \in 1 .. Len(s) : r[i] = s[i]
    OBVIOUS
  <1> HIDE DEF r
  <1>2. DOMAIN r = DOMAIN s \cup {Len(s) + 1}
    BY <1>1
  <1>3. InChain(t, r) <=> InChain(t, s) \/ t \in ToSet(TxsOf(b))
    BY <1>1, <1>2 DEF InChain
  <1> QED BY <1>3 DEF r

(* A chain without its last block.                                         *)
LEMMA InFront ==
  ASSUME NEW s \in Seq(Block), s # <<>>, NEW t
  PROVE  InChain(t, s) <=> InChain(t, Front(s)) \/ t \in ToSet(TxsOf(Last(s)))
  <1>1. /\ Front(s) \in Seq(Block) /\ Len(Front(s)) = Len(s) - 1
        /\ \A i \in 1 .. Len(s) - 1 : Front(s)[i] = s[i]
    BY FrontProperties
  <1>2. Len(s) \in Nat /\ Len(s) > 0 /\ Last(s) = s[Len(s)] /\ DOMAIN s = 1 .. Len(s)
    BY DEF Last
  <1>3. DOMAIN Front(s) = 1 .. Len(s) - 1
    BY <1>1
  <1>4. DOMAIN s = DOMAIN Front(s) \cup {Len(s)}
    BY <1>2, <1>3
  <1> QED BY <1>1, <1>2, <1>3, <1>4 DEF InChain

(* A transaction of the last block is in no other one.                     *)
LEMMA LastIsNew ==
  ASSUME TypeOK, Control, SpendInv, NEW t \in ToSet(TxsOf(Last(m_blocks)))
  PROVE  ~InChain(t, Front(m_blocks))
  <1>1. /\ m_blocks \in Seq(Block) /\ m_blocks # <<>> /\ Len(m_blocks) \in Nat /\ Len(m_blocks) > 0
    BY DEF TypeOK, ChainTypeOK, Control, LinkInv, ChainLinked
  <1>2. /\ Front(m_blocks) \in Seq(Block) /\ Len(Front(m_blocks)) = Len(m_blocks) - 1
        /\ \A i \in 1 .. Len(m_blocks) - 1 : Front(m_blocks)[i] = m_blocks[i]
    BY <1>1, FrontProperties
  <1> DEFINE n == Len(m_blocks)
  <1>3. Last(m_blocks) = m_blocks[n] /\ m_blocks[n] \in Block /\ n \in DOMAIN m_blocks
    BY <1>1 DEF Last
  <1>4. PICK p \in DOMAIN TxsOf(m_blocks[n]) : t = TxsOf(m_blocks[n])[p]
    BY <1>3 DEF ToSet
  <1>5. t \in Tx
    BY <1>3, <1>4, TxsOfType
  <1> SUFFICES ASSUME InChain(t, Front(m_blocks)) PROVE FALSE
    OBVIOUS
  <1>6. PICK i \in DOMAIN Front(m_blocks) : t \in ToSet(TxsOf(Front(m_blocks)[i]))
    BY DEF InChain
  <1>7. i \in 1 .. n - 1 /\ i \in DOMAIN m_blocks
    BY <1>1, <1>2
  <1>8. PICK q \in DOMAIN TxsOf(m_blocks[i]) : t = TxsOf(m_blocks[i])[q]
    BY <1>2, <1>6, <1>7 DEF ToSet
  <1>9. KeyImagesOf(TxsOf(m_blocks[i])[q]) \cap KeyImagesOf(TxsOf(m_blocks[n])[p]) # {}
    BY <1>4, <1>5, <1>8, KeysOfTx
  <1>10. i = n
    BY <1>3, <1>7, <1>9 DEF SpendInv, NoDoubleSpend
  <1> QED BY <1>1, <1>7, <1>10

(* What is in the files is in the transaction map.                         *)
LEMMA DiskIndexed ==
  ASSUME TypeOK, Control, SpendInv, pc # "rebuild", ~Popping, NEW t, InChain(t, m_blocks)
  PROVE  t \in Tx /\ Indexed(t)
  <1>1. CompleteBlocks = Len(m_blocks) /\ m_blocks \in Seq(Block) /\ Len(m_blocks) \in Nat
    BY DEF CompleteBlocks, TypeOK, ChainTypeOK
  <1>2. PICK i \in DOMAIN m_blocks : t \in ToSet(TxsOf(m_blocks[i]))
    BY DEF InChain
  <1>3. PICK p \in Positions(i) : t = DiskTx(i, p)
    BY <1>2 DEF ToSet, Positions, DiskTx
  <1>4. i \in 1 .. CompleteBlocks
    BY <1>1
  <1> QED BY <1>3, <1>4, DiskTxType DEF SpendInv, CompleteInv

(* add_tx does not throw for a transaction whose first key image is spent. *)
LEMMA SpentDoesNotThrow ==
  ASSUME TypeOK, SpendInv, NEW t \in Tx, Indexed(t)
  PROVE  CheckTransactionInputs(t) # "throw"
  <1> DEFINE ins == TxInfo[t].inputs
             results == [i \in DOMAIN ins |-> CheckTxInput(ins[i])]
  <1>1. t \in TxId
    BY KeysOfTx
  <1>2. ins \in Seq(KeyInput) /\ ins # <<>>
    BY <1>1, TxAssumption DEF TransactionData
  <1>3. KeyImagesOf(t) \subseteq m_spent_keys
    BY <1>1 DEF SpendInv, IndexedInv
  <1>4. \A i \in DOMAIN ins : ins[i].keyImage \in m_spent_keys
    BY <1>3 DEF KeyImagesOf
  <1>5. \A i \in DOMAIN ins : CheckTxInput(ins[i]) = "fail"
    BY <1>4 DEF CheckTxInput
  <1>6. \A i \in DOMAIN results : results[i] = "fail"
    BY <1>5
  <1>7. FirstNotOk(results) # "throw"
    <2> HIDE DEF results
    <2> QED BY <1>6 DEF FirstNotOk
  <1> QED BY <1>7 DEF CheckTransactionInputs

(* saveTransactions that does not throw saves all, and never more.         *)
LEMMA SavedAll ==
  ASSUME NEW b \in Block
  PROVE  /\ Saved(TxsOf(b)) \subseteq ToSet(TxsOf(b))
         /\ ~SaveThrows(TxsOf(b)) => Saved(TxsOf(b)) = ToSet(TxsOf(b))
  BY DEF Saved, SaveThrows, ToSet

-----------------------------------------------------------------------------
(* A step that leaves each transaction where it is.                        *)
LEMMA QuietPlaces ==
  ASSUME PlaceInv, UNCHANGED <<m_transactions, Settled, InHand, crashed, residue, aborted>>,
         \/ pc' \in {"idle", "rebuild"}
         \/ pc \notin {"idle", "rebuild"} /\ UNCHANGED before
  PROVE  PlaceInv'
  <1>1. ApartInv'
    BY DEF PlaceInv, ApartInv, InChain
  <1>2. KeptInv'
    BY DEF PlaceInv, KeptInv, InChain
  <1>3. AbortInv'
    BY DEF PlaceInv, AbortInv
  <1> QED BY <1>1, <1>2, <1>3 DEF PlaceInv

(* The same, of a step that is none of pushBlock or popBlock.              *)
LEMMA ElsewherePlaces ==
  ASSUME PlaceInv, UNCHANGED <<m_blocks, m_transactions, crashed, residue, aborted>>,
         pc \notin {"check", "tx", "undo"}, pc' \notin {"check", "tx", "undo"},
         \/ pc' \in {"idle", "rebuild"}
         \/ pc \notin {"idle", "rebuild"} /\ UNCHANGED before
  PROVE  PlaceInv'
  <1>1. UNCHANGED <<Settled, InHand>>
    BY DEF Settled, InHand, Pushing, Popping
  <1> QED BY <1>1, QuietPlaces

(* Checks that all end well or fail throw nothing.                         *)
LEMMA NoneThrows ==
  ASSUME NEW f, \A i \in DOMAIN f : f[i] # "throw"
  PROVE  FirstNotOk(f) # "throw"
  BY DEF FirstNotOk

(* While the indexes are those of the blocks in the files, no check throws.*)
LEMMA CheckDoesNotThrow ==
  ASSUME TypeOK, Control, OutputsMatch, ~residue, pushed = 0, pc # "rebuild", ~Popping,
         NEW t \in Tx
  PROVE  CheckTransactionInputs(t) # "throw"
  <1>1. CompleteBlocks = Len(m_blocks) /\ m_blocks \in Seq(Block) /\ Len(m_blocks) \in Nat
    BY DEF CompleteBlocks, TypeOK, ChainTypeOK
  <1>2. m_outputs \in [Amount -> Seq(OutputPlace)]
    BY DEF TypeOK, IndexTypeOK
  <1>3. ASSUME NEW a \in Amount, NEW j \in DOMAIN m_outputs[a] PROVE OnDisk(m_outputs[a][j])
    <2> DEFINE o == m_outputs[a][j]
    <2>1. o \in ToSet(m_outputs[a])
      BY DEF ToSet
    <2>2. ToSet(m_outputs[a]) =
            UNION {ToSet(OutputsOf(TxOfPlace(s[1], s[2]), s[1], s[2])[a]) : s \in Places}
      BY DEF OutputsMatch
    <2>3. PICK s \in Places : o \in ToSet(OutputsOf(TxOfPlace(s[1], s[2]), s[1], s[2])[a])
      BY <2>1, <2>2
    <2> HIDE DEF o
    <2>4. /\ EntryAt(s).tx = TxOfPlace(s[1], s[2]) /\ EntryAt(s).tx \in TxId
          /\ EntryAt(s) \in Held /\ EntryAt(s).block = s[1] /\ EntryAt(s).transaction = s[2]
      BY PlaceEntry
    <2>5. o.block = s[1] /\ o.transaction = s[2]
      <3>1. PICK k \in 0 .. TxInfo[EntryAt(s).tx].outputs[a] - 1 :
              o = [block |-> s[1], transaction |-> s[2], out |-> k]
        BY <2>3, <2>4, OutputsOfPlace
      <3> QED BY <3>1
    <2>6. PICK h \in 0 .. CompleteBlocks : s \in {h} \X PositionsAt(h)
      BY DEF Places
    <2>7. s[1] = h /\ s[2] \in PositionsAt(h)
      BY <2>6
    <2>8. h < Len(m_blocks) /\ s[2] \in 0 .. Len(TxsOf(m_blocks[h + 1]))
      BY <1>1, <2>6, <2>7 DEF PositionsAt
    <2>9. h + 1 \in 1 .. Len(m_blocks)
      BY <1>1, <2>8
    <2>10. TxsOf(m_blocks[h + 1]) \in Seq(Tx)
      BY <1>1, <2>9, TxsOfType
    <2>11. OnDisk(o)
      BY <1>1, <2>5, <2>7, <2>8, <2>10 DEF OnDisk, TxCount
    <2> QED BY <2>11 DEF o
  <1>4. ASSUME NEW a \in Amount, NEW r \in RingMember PROVE ResolveMember(a, r) # "throw"
    <2>1. r.index \in Nat
      BY DEF RingMember
    <2>2. m_outputs[a] \in Seq(OutputPlace)
      BY <1>2
    <2>3. CASE r.index >= Len(m_outputs[a])
      BY <2>3 DEF ResolveMember
    <2>4. CASE ~(r.index >= Len(m_outputs[a]))
      <3>1. r.index + 1 \in DOMAIN m_outputs[a]
        BY <2>1, <2>2, <2>4
      <3>2. OnDisk(m_outputs[a][r.index + 1])
        BY <1>3, <3>1
      <3> QED BY <2>4, <3>2 DEF ResolveMember
    <2> QED BY <2>3, <2>4
  <1>5. ASSUME NEW in \in KeyInput PROVE CheckTxInput(in) # "throw"
    <2>1. in.amount \in Amount /\ in.ring \in Seq(RingMember)
      BY DEF KeyInput
    <2> DEFINE f == [j \in DOMAIN in.ring |-> ResolveMember(in.amount, in.ring[j])]
    <2>2. \A j \in DOMAIN in.ring : in.ring[j] \in RingMember
      BY <2>1
    <2>3. \A j \in DOMAIN f : f[j] # "throw"
      BY <1>4, <2>1, <2>2
    <2>4. FirstNotOk(f) # "throw"
      <3> HIDE DEF f
      <3> QED BY <2>3, NoneThrows
    <2>5. RingFound(in) # "throw"
      BY <2>4 DEF RingFound
    <2> QED BY <2>5 DEF CheckTxInput, RingCheck
  <1>6. TxInfo[t].inputs \in Seq(KeyInput)
    BY KeysOfTx, TxAssumption DEF TransactionData
  <1> DEFINE g == [i \in DOMAIN TxInfo[t].inputs |-> CheckTxInput(TxInfo[t].inputs[i])]
  <1>7. \A i \in DOMAIN g : g[i] # "throw"
    BY <1>5, <1>6
  <1>8. FirstNotOk(g) # "throw"
    <2> HIDE DEF g
    <2> QED BY <1>7, NoneThrows
  <1> QED BY <1>8 DEF CheckTransactionInputs

-----------------------------------------------------------------------------
(* loadTransactions takes the transactions of the block from the pool.     *)
LEMMA LoadTransactionsPlaces ==
  ASSUME TypeOK, Control, OutputsMatch, PlaceInv, LoadTransactions
  PROVE  PlaceInv'
  <1> DEFINE txs == TxsOf(block)
             missing == {i \in DOMAIN txs : \/ txs[i] \notin m_transactions
                                            \/ \E j \in 1 .. i - 1 : txs[j] = txs[i]}
             taken == IF missing = {} THEN DOMAIN txs ELSE 1 .. Min(missing) - 1
             broken == {i \in taken : CheckTransactionInputs(txs[i]) = "throw"}
             lost == IF broken = {} THEN {} ELSE {txs[i] : i \in 1 .. Max(broken)}
  <1>0. /\ pc = "load" /\ UNCHANGED <<m_blocks, crashed, residue, before, caller, block>>
    BY DEF LoadTransactions, chainVars
  <1>1. block \in Block /\ txs \in Seq(Tx) /\ ~Popping /\ Settled = m_blocks /\ InHand = {}
    BY <1>0, TxsOfType DEF TypeOK, LocalTypeOK, Popping, Settled, InHand, Pushing
  <1>2. CASE missing = {}
    <2>1. PoolWithout(ToSet(txs)) /\ pc' = "check" /\ UNCHANGED aborted
      BY <1>2 DEF LoadTransactions
    <2>2. m_transactions' = m_transactions \ ToSet(txs)
      BY <2>1 DEF PoolWithout
    <2>3. Settled' = m_blocks /\ InHand' = ToSet(txs)
      BY <1>0, <2>1 DEF Settled, InHand, Popping
    <2>4. ToSet(txs) \subseteq m_transactions
      BY <1>2 DEF ToSet
    <2> HIDE DEF txs, missing
    <2>5. ApartInv'
      BY <1>0, <1>1, <2>2, <2>3, <2>4 DEF PlaceInv, ApartInv, InChain
    <2>6. KeptInv'
      BY <1>0, <1>1, <2>1, <2>2, <2>3 DEF PlaceInv, KeptInv, InChain
    <2>7. AbortInv'
      BY <1>0, <2>1 DEF PlaceInv, AbortInv
    <2> QED BY <2>5, <2>6, <2>7 DEF PlaceInv
  <1>3. CASE missing # {}
    <2>1. /\ PoolWithout(lost)
          /\ IF lost = {} THEN PushReturns(FALSE) /\ UNCHANGED aborted
             ELSE pc' = "return" /\ aborted' = TRUE
      BY <1>3 DEF LoadTransactions
    <2>2. m_transactions' = m_transactions \ lost
      BY <2>1 DEF PoolWithout
    <2>3. pc' \in {"return", "unconnect"}
      <3> HIDE DEF lost
      <3> QED BY <1>0, <2>1 DEF PushReturns, Control, CallerInv
    <2>4. Settled' = m_blocks /\ InHand' = {}
      BY <1>0, <2>3 DEF Settled, InHand, Pushing, Popping
    <2>5. lost # {} => residue
      <3> SUFFICES ASSUME ~residue PROVE lost = {}
        OBVIOUS
      <3>1. pushed = 0
        BY <1>0 DEF Control, PushedInv
      <3>2. \A t \in Tx : CheckTransactionInputs(t) # "throw"
        BY <1>0, <1>1, <3>1, CheckDoesNotThrow
      <3>3. taken \subseteq DOMAIN txs
        <4>1. Min(missing) \in missing
          <5>1. missing \subseteq Nat
            BY <1>1
          <5> HIDE DEF missing
          <5> QED BY <1>3, <5>1, SmallestOfSet
        <4>2. Min(missing) \in DOMAIN txs
          BY <4>1
        <4> HIDE DEF missing
        <4> QED BY <1>1, <4>2
      <3>4. broken = {}
        BY <1>1, <3>2, <3>3
      <3> QED BY <3>4
    <2> HIDE DEF lost
    <2>6. ApartInv'
      BY <1>0, <1>1, <2>2, <2>4 DEF PlaceInv, ApartInv, InChain
    <2>7. KeptInv'
      BY <1>0, <1>1, <2>1, <2>2, <2>4 DEF PlaceInv, KeptInv, InChain
    <2>8. AbortInv'
      BY <1>0, <2>1, <2>5 DEF PlaceInv, AbortInv
    <2> QED BY <2>6, <2>7, <2>8 DEF PlaceInv
  <1> QED BY <1>2, <1>3

(* A block that is refused: its transactions go back to the pool.          *)
LEMMA SaveAndFailPlaces ==
  ASSUME TypeOK, Control, OutputsMatch, PlaceInv, SaveAndFail, UNCHANGED m_blocks,
         pc \in {"check", "tx", "undo"}, ~Popping,
         residue' \/ (~residue /\ pushed = 0) \/ (residue /\ UNCHANGED residue)
  PROVE  PlaceInv'
  <1> DEFINE txs == TxsOf(block)
  <1>1. block \in Block /\ txs \in Seq(Tx)
    BY TxsOfType DEF TypeOK, LocalTypeOK
  <1>2. Settled = m_blocks /\ InHand = ToSet(txs)
    BY DEF Settled, InHand, Pushing
  <1>3. pc' \in {"return", "connect", "restore", "unconnect"}
    BY DEF SaveAndFail, PushReturns, Unwind, Control, CallerInv, Popping
  <1>4. Settled' = m_blocks /\ InHand' = {}
    BY <1>3 DEF Settled, InHand, Pushing, Popping
  <1>5. UNCHANGED <<before, crashed>>
    BY DEF SaveAndFail, Unwind
  <1>6. m_transactions' = m_transactions \cup Saved(txs)
    BY DEF SaveAndFail, SaveTransactions, PoolWith
  <1>7. Saved(txs) \subseteq ToSet(txs) /\ (~SaveThrows(txs) => Saved(txs) = ToSet(txs))
    BY <1>1, SavedAll
  <1>8. /\ SaveThrows(txs) => aborted'
        /\ ~SaveThrows(txs) => UNCHANGED aborted
    BY DEF SaveAndFail, Unwind
  <1>9. SaveThrows(txs) => residue' \/ crashed
    <2> SUFFICES ASSUME ~residue', ~crashed PROVE ~SaveThrows(txs)
      OBVIOUS
    <2>1. ~residue /\ pushed = 0
      OBVIOUS
    <2>2. pc # "rebuild"
      OBVIOUS
    <2>3. \A t \in Tx : CheckTransactionInputs(t) # "throw"
      BY <2>1, <2>2, CheckDoesNotThrow
    <2>4. \A t \in ToSet(txs) : t \notin m_transactions
      BY <1>2 DEF PlaceInv, ApartInv
    <2>5. \A i \in DOMAIN txs : txs[i] \in Tx /\ txs[i] \in ToSet(txs)
      BY <1>1 DEF ToSet
    <2> HIDE DEF txs
    <2> QED BY <2>3, <2>4, <2>5 DEF SaveThrows, Unsavable
  <1> HIDE DEF txs
  <1>10. ApartInv'
    BY <1>2, <1>4, <1>5, <1>6, <1>7 DEF PlaceInv, ApartInv, InChain
  <1>11. KeptInv'
    BY <1>2, <1>4, <1>5, <1>6, <1>7, <1>8 DEF PlaceInv, KeptInv, InChain
  <1>12. AbortInv'
    BY <1>5, <1>8, <1>9 DEF PlaceInv, AbortInv, TypeOK, HistoryTypeOK
  <1> QED BY <1>10, <1>11, <1>12 DEF PlaceInv

(* CheckBlock keeps the transactions in hand or saves them.                *)
LEMMA CheckBlockPlaces ==
  ASSUME TypeOK, Control, OutputsMatch, PlaceInv, CheckBlock
  PROVE  PlaceInv'
  <1>0. pc = "check" /\ UNCHANGED <<m_blocks, residue>> /\ ~Popping /\ pushed = 0
    BY DEF CheckBlock, chainVars, Popping, Control, PushedInv
  <1>1. CASE BlockValid(block)
    <2>1. /\ pc' = "tx"
          /\ UNCHANGED <<m_transactions, caller, block, before, aborted, crashed>>
      BY <1>1 DEF CheckBlock, poolVars
    <2>2. UNCHANGED <<Settled, InHand>>
      BY <1>0, <2>1 DEF Settled, InHand, Pushing, Popping
    <2> QED BY <1>0, <2>1, <2>2, QuietPlaces
  <1>2. CASE ~BlockValid(block)
    <2>1. SaveAndFail
      BY <1>2 DEF CheckBlock
    <2>2. residue \in BOOLEAN
      BY DEF TypeOK, HistoryTypeOK
    <2> QED BY <1>0, <2>1, <2>2, SaveAndFailPlaces
  <1> QED BY <1>1, <1>2

(* PushNextTransaction keeps the transactions in hand, or throws.          *)
LEMMA PushNextTransactionPlaces ==
  ASSUME TypeOK, Control, PlaceInv, PushNextTransaction
  PROVE  PlaceInv'
  <1> DEFINE t == TxAt(block, pushed)
  <1>0. pc = "tx" /\ UNCHANGED <<m_blocks, m_transactions>> /\ ~Popping
    BY DEF PushNextTransaction, chainVars, poolVars, Popping
  <1>1. CASE CheckTransactionInputs(t) \in {"ok", "fail"}
    <2>1. pc' \in {"tx", "undo"} /\ UNCHANGED <<caller, block, before, aborted, crashed, residue>>
      BY <1>0, <1>1 DEF PushNextTransaction
    <2>2. caller \notin {"disconnect", "unconnect"}
      BY <1>0 DEF Control, CallerInv
    <2>3. UNCHANGED <<Settled, InHand>>
      BY <1>0, <2>1, <2>2 DEF Settled, InHand, Pushing, Popping
    <2> QED BY <1>0, <2>1, <2>3, QuietPlaces
  <1>2. CASE CheckTransactionInputs(t) \notin {"ok", "fail"}
    <2>1. pc' = "return" /\ aborted' /\ residue' /\ UNCHANGED crashed
      BY <1>2 DEF PushNextTransaction, Unwind
    <2>2. Settled = m_blocks /\ Settled' = m_blocks /\ InHand' = {}
      BY <1>0, <2>1 DEF Settled, InHand, Pushing, Popping
    <2>3. ApartInv'
      BY <1>0, <2>1, <2>2 DEF PlaceInv, ApartInv, InChain
    <2> QED BY <2>1, <2>3 DEF PlaceInv, KeptInv, AbortInv
  <1> QED BY <1>1, <1>2

(* A block that enters the files takes the transactions in hand with it.   *)
LEMMA FinishPushPlaces ==
  ASSUME TypeOK, Control, OutputsMatch, PlaceInv, FinishPush
  PROVE  PlaceInv'
  <1>0. pc = "tx" /\ ~Popping /\ caller \notin {"disconnect", "unconnect"}
    BY DEF FinishPush, Popping, Control, CallerInv
  <1>1. CASE ~BlockSizeOk(block)
    <2>1. SaveAndFail /\ residue' /\ UNCHANGED m_blocks
      BY <1>1 DEF FinishPush, chainVars
    <2> QED BY <1>0, <2>1, SaveAndFailPlaces
  <1>2. CASE BlockSizeOk(block) /\ ~BlockInfo[block].reward
    <2>1. /\ pc' = "undo"
          /\ UNCHANGED <<m_blocks, m_transactions, caller, block, before, aborted, crashed, residue>>
      BY <1>2 DEF FinishPush, chainVars, poolVars
    <2>2. UNCHANGED <<Settled, InHand>>
      BY <1>0, <2>1 DEF Settled, InHand, Pushing, Popping
    <2> QED BY <1>0, <2>1, <2>2, QuietPlaces
  <1>3. CASE BlockSizeOk(block) /\ BlockInfo[block].reward
    <2>1. /\ m_blocks' = Append(m_blocks, block) /\ PushReturns(TRUE)
          /\ UNCHANGED <<m_transactions, before, aborted, crashed, residue>>
      BY <1>3 DEF FinishPush, PushEntry, poolVars
    <2>2. pc' \in {"return", "connect", "restore"}
      BY <2>1 DEF PushReturns
    <2>3. block \in Block /\ m_blocks \in Seq(Block)
      BY DEF TypeOK, LocalTypeOK, ChainTypeOK
    <2>4. Settled = m_blocks /\ InHand = ToSet(TxsOf(block))
      BY <1>0 DEF Settled, InHand, Pushing
    <2>5. Settled' = Append(m_blocks, block) /\ InHand' = {}
      BY <2>1, <2>2 DEF Settled, InHand, Pushing, Popping
    <2>6. \A t : InChain(t, Settled') <=> InChain(t, Settled) \/ t \in InHand
      BY <2>3, <2>4, <2>5, InAppended
    <2>7. \A t : InChain(t, Settled)' <=> InChain(t, Settled')
      BY DEF InChain
    <2>8. ApartInv'
      BY <2>1, <2>5, <2>6, <2>7 DEF PlaceInv, ApartInv
    <2>9. KeptInv'
      <3>1. \A t : InChain(t, before.chain)' <=> InChain(t, before.chain)
        BY <2>1 DEF InChain
      <3> QED BY <1>0, <2>1, <2>5, <2>6, <2>7, <3>1 DEF PlaceInv, KeptInv
    <2>10. AbortInv'
      BY <2>1 DEF PlaceInv, AbortInv
    <2> QED BY <2>8, <2>9, <2>10 DEF PlaceInv
  <1> QED BY <1>1, <1>2, <1>3

(* UndoTransaction leaves them where they are.                             *)
LEMMA UndoTransactionPlaces ==
  ASSUME PlaceInv, UndoTransaction
  PROVE  PlaceInv'
  <1>1. /\ pc = "undo"
        /\ UNCHANGED <<pc, m_blocks, m_transactions, caller, block, before, aborted, crashed, residue>>
    BY DEF UndoTransaction, chainVars, poolVars, historyVars
  <1>2. UNCHANGED <<Settled, InHand>>
    BY <1>1 DEF Settled, InHand, Pushing, Popping
  <1> QED BY <1>1, <1>2, QuietPlaces

(* The block of a pushBlock is refused; that of a popBlock leaves the      *)
(* files, when its transactions no longer count as settled.                *)
LEMMA FinishUndoPlaces ==
  ASSUME TypeOK, Control, OutputsMatch, PlaceInv, FinishUndo
  PROVE  PlaceInv'
  <1>0. pc = "undo" /\ pushed = 0 /\ UNCHANGED residue
    BY DEF FinishUndo
  <1>1. CASE caller \in {"add", "connect", "restore"}
    <2>1. SaveAndFail /\ UNCHANGED m_blocks
      BY <1>1 DEF FinishUndo, chainVars
    <2>2. ~Popping /\ residue \in BOOLEAN
      BY <1>1 DEF Popping, TypeOK, HistoryTypeOK
    <2> QED BY <1>0, <2>1, <2>2, SaveAndFailPlaces
  <1>2. CASE caller \in {"disconnect", "unconnect"}
    <2>1. /\ m_blocks' = Front(m_blocks) /\ pc' = caller
          /\ UNCHANGED <<m_transactions, before, aborted, crashed>>
      BY <1>2 DEF FinishUndo, PopEntry, poolVars
    <2>2. UNCHANGED <<Settled, InHand>>
      BY <1>0, <1>2, <2>1 DEF Settled, InHand, Pushing, Popping
    <2> QED BY <1>0, <1>2, <2>1, <2>2, QuietPlaces
  <1> QED BY <1>0, <1>1, <1>2 DEF Control, CallerInv

(* popBlock first puts the transactions of the last block into the pool.   *)
LEMMA StartPopPlaces ==
  ASSUME TypeOK, Control, SpendInv, PlaceInv, StartPop
  PROVE  PlaceInv'
  <1> DEFINE b == Last(m_blocks)
             txs == TxsOf(b)
  <1>0. pc \in {"disconnect", "unconnect"} /\ UNCHANGED <<m_blocks, residue>> /\ ~Popping
    BY DEF StartPop, chainVars, Popping
  <1>1. /\ m_blocks \in Seq(Block) /\ m_blocks # <<>> /\ b \in Block /\ txs \in Seq(Tx)
    <2>1. m_blocks \in Seq(Block) /\ m_blocks # <<>>
      BY DEF TypeOK, ChainTypeOK, Control, LinkInv, ChainLinked
    <2>2. b \in Block
      BY <2>1, FrontProperties
    <2> QED BY <2>1, <2>2, TxsOfType
  <1>2. Settled = m_blocks /\ InHand = {}
    BY <1>0 DEF Settled, InHand, Pushing
  <1>3. m_transactions' = m_transactions \cup Saved(txs) /\ UNCHANGED <<before, crashed>>
    BY DEF StartPop, SaveTransactions, PoolWith, Unwind
  <1>4. Saved(txs) \subseteq ToSet(txs) /\ (~SaveThrows(txs) => Saved(txs) = ToSet(txs))
    BY <1>1, SavedAll
  <1> HIDE DEF b
  <1>5. \A t : InChain(t, m_blocks) <=> InChain(t, Front(m_blocks)) \/ t \in ToSet(txs)
    BY <1>1, InFront DEF b
  <1>6. CASE ~SaveThrows(txs)
    <2>1. pc' = "undo" /\ caller' = pc /\ UNCHANGED aborted
      BY <1>6 DEF StartPop, b
    <2>2. Settled' = Front(m_blocks) /\ InHand' = {}
      BY <1>0, <2>1 DEF Settled, InHand, Pushing, Popping
    <2>3. \A t : InChain(t, Settled)' <=> InChain(t, Front(m_blocks))
      BY <2>2 DEF InChain
    <2>4. \A t \in ToSet(txs) : ~InChain(t, Front(m_blocks))
      BY LastIsNew DEF b
    <2>5. m_transactions' = m_transactions \cup ToSet(txs)
      BY <1>3, <1>4, <1>6
    <2> HIDE DEF txs
    <2>6. ApartInv'
      BY <1>2, <1>3, <1>5, <2>2, <2>3, <2>4, <2>5 DEF PlaceInv, ApartInv
    <2>7. KeptInv'
      <3>1. \A t : InChain(t, before.chain)' <=> InChain(t, before.chain)
        BY <1>3 DEF InChain
      <3> QED BY <1>0, <1>2, <1>3, <1>5, <2>1, <2>2, <2>3, <2>5, <3>1 DEF PlaceInv, KeptInv
    <2>8. AbortInv'
      BY <1>0, <1>3, <2>1 DEF PlaceInv, AbortInv
    <2> QED BY <2>6, <2>7, <2>8 DEF PlaceInv
  <1>7. CASE SaveThrows(txs)
    <2>1. pc' = "return" /\ aborted'
      BY <1>7 DEF StartPop, Unwind, b
    <2>2. crashed
      <3> SUFFICES ASSUME ~crashed PROVE FALSE
        OBVIOUS
      <3>1. PICK i \in DOMAIN txs : txs[i] \in m_transactions \/ CheckTransactionInputs(txs[i]) = "throw"
        BY <1>7 DEF SaveThrows, Unsavable
      <3>2. txs[i] \in ToSet(txs) /\ txs[i] \in Tx
        BY <1>1 DEF ToSet
      <3>3. InChain(txs[i], m_blocks)
        BY <1>5, <3>2
      <3>4. txs[i] \notin m_transactions
        BY <1>2, <3>3 DEF PlaceInv, ApartInv
      <3>5. Indexed(txs[i])
        BY <1>0, <3>3, DiskIndexed
      <3> QED BY <3>1, <3>2, <3>4, <3>5, SpentDoesNotThrow
    <2> QED BY <1>3, <2>1, <2>2 DEF PlaceInv, ApartInv, KeptInv, AbortInv
  <1> QED BY <1>6, <1>7

(* A start of the process after a clean shutdown reads the pool it saved;  *)
(* one after a kill is excepted.                                           *)
LEMMA StartPlaces ==
  ASSUME PlaceInv, Crash \/ Shutdown
  PROVE  PlaceInv'
  <1>1. pc' = "rebuild" /\ ~aborted' /\ UNCHANGED m_blocks
    BY DEF Crash, Shutdown, Start
  <1>2. KeptInv' /\ AbortInv'
    BY <1>1 DEF KeptInv, AbortInv
  <1>3. CASE Crash
    <2>1. crashed'
      BY <1>3 DEF Crash
    <2> QED BY <1>2, <2>1 DEF PlaceInv, ApartInv
  <1>4. CASE Shutdown
    <2>1. m_transactions' \subseteq m_transactions /\ UNCHANGED crashed /\ pc = "idle"
      <3>1. PICK expired \in SUBSET m_transactions, forgotten \in SUBSET m_recentlyDeletedTransactions :
              Start(poolFile', expired, forgotten)
        BY <1>4 DEF Shutdown
      <3>2. poolFile' = [transactions |-> m_transactions, spent_key_images |-> m_spent_key_images,
                         recentlyDeleted |-> m_recentlyDeletedTransactions]
        BY <1>4 DEF Shutdown
      <3>3. m_transactions' = m_transactions \ expired
        BY <3>1, <3>2 DEF Start
      <3> QED BY <1>4, <3>3 DEF Shutdown
    <2>2. Settled' = m_blocks /\ Settled = m_blocks /\ InHand' = {}
      BY <1>1, <2>1 DEF Settled, InHand, Pushing, Popping
    <2>3. ApartInv'
      BY <2>1, <2>2 DEF PlaceInv, ApartInv, InChain
    <2> QED BY <1>2, <2>3 DEF PlaceInv
  <1> QED BY <1>3, <1>4

(* core::add_new_tx adds no transaction of the chain to the pool.          *)
LEMMA AddNewTxPlaces ==
  ASSUME TypeOK, Control, SpendInv, PlaceInv, NEW t \in Tx, NEW kept \in BOOLEAN, AddNewTx(t, kept)
  PROVE  PlaceInv'
  <1>1. /\ pc = "idle" /\ pc' = "idle" /\ m_transactions' = m_transactions \cup {t} /\ ~Indexed(t)
        /\ UNCHANGED <<m_blocks, crashed, residue, aborted>>
    BY DEF AddNewTx, PoolWith, Indexed, chainVars, historyVars
  <1>2. Settled' = m_blocks /\ Settled = m_blocks /\ InHand' = {}
    BY <1>1 DEF Settled, InHand, Pushing, Popping
  <1>3. ~InChain(t, m_blocks)
    BY <1>1, DiskIndexed DEF Popping
  <1>4. ApartInv'
    BY <1>1, <1>2, <1>3 DEF PlaceInv, ApartInv, InChain
  <1> QED BY <1>1, <1>4 DEF PlaceInv, KeptInv, AbortInv

(* The other calls from outside.                                           *)
LEMMA CallsPlaces ==
  ASSUME TypeOK, PlaceInv
  PROVE  /\ \A b \in Block : AddNewBlock(b) => PlaceInv'
         /\ \A S, F : RemoveExpiredTransactions(S, F) => PlaceInv'
  <1>1. ASSUME NEW b \in Block, AddNewBlock(b) PROVE PlaceInv'
    <2>1. /\ pc = "idle" /\ pc' \in {"load", "walk"}
          /\ before' = [chain |-> m_blocks, pool |-> m_transactions]
          /\ UNCHANGED <<m_blocks, m_transactions, crashed, residue, aborted>>
      BY <1>1 DEF AddNewBlock, chainVars, poolVars
    <2>2. Settled' = m_blocks /\ Settled = m_blocks /\ InHand' = {} /\ InHand = {}
      BY <2>1 DEF Settled, InHand, Pushing, Popping
    <2>3. ApartInv'
      BY <2>1, <2>2 DEF PlaceInv, ApartInv, InChain
    <2>4. KeptInv'
      BY <2>1, <2>2 DEF KeptInv, InChain
    <2> QED BY <2>1, <2>3, <2>4 DEF PlaceInv, AbortInv
  <1>2. ASSUME NEW S, NEW F, RemoveExpiredTransactions(S, F) PROVE PlaceInv'
    <2>1. /\ pc = "idle" /\ pc' = "idle" /\ m_transactions' = m_transactions \ S
          /\ UNCHANGED <<m_blocks, crashed, residue, aborted>>
      BY <1>2 DEF RemoveExpiredTransactions, PoolWithout, chainVars, historyVars
    <2>2. Settled' = m_blocks /\ Settled = m_blocks /\ InHand' = {}
      BY <2>1 DEF Settled, InHand, Pushing, Popping
    <2>3. ApartInv'
      BY <2>1, <2>2 DEF PlaceInv, ApartInv, InChain
    <2> QED BY <2>1, <2>3 DEF PlaceInv, KeptInv, AbortInv
  <1> QED BY <1>1, <1>2

(* The steps between the blocks of a switch or a rollback, those of        *)
(* handle_alternative_block, and the rebuild of the indexes.               *)
LEMMA OtherStepsPlaces ==
  ASSUME TypeOK, Control, PlaceInv,
         \/ StartConnect \/ ConnectNext \/ FinishConnect \/ ReaddNext \/ FinishSwitch
         \/ StartRestore \/ RestoreNext \/ FinishRestore
         \/ WalkToMainChain \/ AcceptAlternative \/ RefuseAlternative
         \/ RebuildNext \/ FinishRebuild \/ Return
  PROVE  PlaceInv'
  <1> USE DEF chainVars, indexVars, poolVars, switchVars, historyVars
  <1>1. CASE StartConnect \/ ConnectNext \/ FinishConnect
    <2>1. /\ UNCHANGED <<m_blocks, m_transactions, crashed, residue, aborted, before>>
          /\ pc \in {"disconnect", "connect"} /\ pc' \in {"connect", "load", "realt"}
      BY <1>1 DEF StartConnect, ConnectNext, StartPush, FinishConnect
    <2> QED BY <2>1, ElsewherePlaces
  <1>2. CASE ReaddNext \/ FinishSwitch
    <2>1. /\ UNCHANGED <<m_blocks, m_transactions, crashed, residue, aborted, before>>
          /\ pc = "realt" /\ pc' \in {"walk", "unconnect", "return"}
      BY <1>2 DEF ReaddNext, RefuseReadded, FinishSwitch
    <2> QED BY <2>1, ElsewherePlaces
  <1>3. CASE StartRestore \/ RestoreNext \/ FinishRestore
    <2>1. /\ UNCHANGED <<m_blocks, m_transactions, crashed, residue, aborted, before>>
          /\ pc \in {"unconnect", "restore"} /\ pc' \in {"restore", "load", "return"}
      BY <1>3 DEF StartRestore, RestoreNext, StartPush, FinishRestore
    <2> QED BY <2>1, ElsewherePlaces
  <1>4. CASE WalkToMainChain \/ AcceptAlternative \/ RefuseAlternative
    <2>1. /\ UNCHANGED <<m_blocks, m_transactions, crashed, residue, aborted, before>>
          /\ pc = "walk" /\ pc' \in {"walk", "disconnect", "return", "realt", "unconnect"}
      BY <1>4 DEF WalkToMainChain, AcceptAlternative, RefuseAlternative, RefuseReadded
    <2> QED BY <2>1, ElsewherePlaces
  <1>5. CASE RebuildNext \/ FinishRebuild \/ Return
    <2>1. /\ UNCHANGED <<m_blocks, m_transactions, crashed, residue, aborted>>
          /\ pc \in {"rebuild", "return"} /\ pc' \in {"rebuild", "idle"}
      BY <1>5 DEF RebuildNext, FinishRebuild, Return
    <2> QED BY <2>1, ElsewherePlaces
  <1> QED BY <1>1, <1>2, <1>3, <1>4, <1>5

(* Every step keeps the transactions apart.                                *)
LEMMA NextPlaces ==
  TypeOK /\ Control /\ SpendInv /\ OutputsMatch /\ PlaceInv /\ [Next]_vars => PlaceInv'
  <1> SUFFICES ASSUME TypeOK, Control, SpendInv, OutputsMatch, PlaceInv, [Next]_vars
               PROVE  PlaceInv'
    OBVIOUS
  <1>1. CASE LoadTransactions
    BY <1>1, LoadTransactionsPlaces
  <1>2. CASE CheckBlock
    BY <1>2, CheckBlockPlaces
  <1>3. CASE PushNextTransaction
    BY <1>3, PushNextTransactionPlaces
  <1>4. CASE FinishPush
    BY <1>4, FinishPushPlaces
  <1>5. CASE UndoTransaction
    BY <1>5, UndoTransactionPlaces
  <1>6. CASE FinishUndo
    BY <1>6, FinishUndoPlaces
  <1>7. CASE StartPop
    BY <1>7, StartPopPlaces
  <1>8. CASE \/ StartConnect \/ ConnectNext \/ FinishConnect \/ ReaddNext \/ FinishSwitch
             \/ StartRestore \/ RestoreNext \/ FinishRestore
             \/ WalkToMainChain \/ AcceptAlternative \/ RefuseAlternative
             \/ RebuildNext \/ FinishRebuild \/ Return
    BY <1>8, OtherStepsPlaces
  <1>9. CASE \E b \in Block : AddNewBlock(b)
    BY <1>9, CallsPlaces
  <1>10. CASE \E t \in Tx, keptByBlock \in BOOLEAN : AddNewTx(t, keptByBlock)
    BY <1>10, AddNewTxPlaces
  <1>11. CASE \E expired \in SUBSET m_transactions,
                 forgotten \in SUBSET m_recentlyDeletedTransactions :
                RemoveExpiredTransactions(expired, forgotten)
    BY <1>11, CallsPlaces
  <1>12. CASE Crash \/ Shutdown
    BY <1>12, StartPlaces
  <1>13. CASE UNCHANGED vars
    <2>1. UNCHANGED <<pc, m_blocks, m_transactions, crashed, residue, aborted, before, caller, block>>
      BY <1>13 DEF vars, chainVars, poolVars, historyVars
    <2>2. UNCHANGED <<Settled, InHand>>
      BY <2>1 DEF Settled, InHand, Pushing, Popping
    <2> QED BY <2>1, <2>2, QuietPlaces
  <1> QED BY <1>1, <1>2, <1>3, <1>4, <1>5, <1>6, <1>7, <1>8, <1>9, <1>10, <1>11, <1>12, <1>13
          DEF Next, Step

(* The first state has no transaction anywhere.                            *)
LEMMA InitPlaces == Init => PlaceInv
  <1> SUFFICES ASSUME Init PROVE PlaceInv
    OBVIOUS
  <1>1. m_transactions = {} /\ pc = "idle" /\ ~aborted
    BY DEF Init
  <1>2. InHand = {}
    BY <1>1 DEF InHand, Pushing
  <1> QED BY <1>1, <1>2 DEF PlaceInv, ApartInv, KeptInv, AbortInv

(* They all hold together.                                                 *)
LEMMA PlacesAlways ==
  Spec => [](TypeOK /\ Control /\ SpendInv /\ PlaceInv /\ IndexesMatch)
  <1>1. Init => TypeOK /\ Control /\ SpendInv /\ PlaceInv
    BY InitStep, InitSpends, InitPlaces
  <1>2. TypeOK /\ Control /\ SpendInv /\ IndexesMatch /\ PlaceInv /\ [Next]_vars
          => TypeOK' /\ Control' /\ SpendInv' /\ PlaceInv'
    BY NextStep, NextSpends, NextPlaces DEF IndexesMatch
  <1>3. Spec => []IndexesMatch
    BY IndexesAlwaysMatch
  <1> QED BY <1>1, <1>2, <1>3, PTL DEF Spec

(***************************************************************************)
(* When no operation runs, no transaction of the pool is in the chain,     *)
(* whatever pushBlock, popBlock, switches and rollbacks moved, as long as  *)
(* no kill made the node read an old pool.                                 *)
(***************************************************************************)
THEOREM PoolAlwaysDisjoint == Spec => []PoolDisjointFromChain
  <1>1. TypeOK /\ Control /\ PlaceInv /\ IndexesMatch => PoolDisjointFromChain
    <2> SUFFICES ASSUME TypeOK, Control, PlaceInv, IndexesMatch, pc = "idle", ~residue, ~crashed,
                        NEW t \in m_transactions, m_transactionMap[t] # NoIndex
                 PROVE  FALSE
      BY DEF PoolDisjointFromChain
    <2> DEFINE ix == m_transactionMap[t]
               h == ix.block
               p == ix.transaction
    <2>1. t \in Tx /\ t \in TxId
      BY DEF TypeOK, PoolTypeOK, TxId
    <2>2. IsPlace(h, p) /\ TxOfPlace(h, p) = t
      BY <2>1 DEF IndexesMatch, TransactionMapMatches
    <2> HIDE DEF h, p
    <2>3. CompleteBlocks = Len(m_blocks) /\ pushed = 0 /\ Settled = m_blocks
      BY DEF CompleteBlocks, Popping, Control, PushedInv, Settled
    <2>4. m_blocks \in Seq(Block) /\ Len(m_blocks) \in Nat
      BY DEF TypeOK, ChainTypeOK
    <2>5. h \in Nat /\ h < Len(m_blocks) /\ p \in 0 .. Len(TxsOf(m_blocks[h + 1]))
      BY <2>2, <2>3, <2>4 DEF IsPlace, PositionsAt
    <2>6. h + 1 \in DOMAIN m_blocks
      BY <2>4, <2>5
    <2> DEFINE b == m_blocks[h + 1]
    <2>7. b \in Block
      BY <2>4, <2>6
    <2>8. t = TxAt(b, p)
      BY <2>2, <2>3, <2>5 DEF TxOfPlace
    <2>9. p # 0
      <3>1. BlockInfo[b].baseTransaction \in Coinbase
        BY <2>7, BlockAssumption DEF BlockData
      <3> QED BY <2>1, <2>8, <3>1, NamesAssumption DEF TxAt
    <2>10. TxsOf(b) \in Seq(Tx)
      BY <2>7, TxsOfType
    <2>11. t \in ToSet(TxsOf(b))
      BY <2>5, <2>8, <2>9, <2>10 DEF TxAt, ToSet
    <2>12. InChain(t, Settled)
      BY <2>3, <2>6, <2>11 DEF InChain
    <2> QED BY <2>12 DEF PlaceInv, ApartInv
  <1> QED BY <1>1, PlacesAlways, PTL

(***************************************************************************)
(* A transaction that the pool or the chain had when addNewBlock began is  *)
(* in one of them when it returns, after a switch, a failed switch and a   *)
(* rollback that fails too, unless an exception ended an operation.        *)
(***************************************************************************)
THEOREM TransactionsNeverLost == Spec => []NoTransactionLost
  <1>1. TypeOK /\ Control /\ SpendInv /\ PlaceInv => NoTransactionLost
    <2> SUFFICES ASSUME TypeOK, Control, SpendInv, PlaceInv, pc = "return", ~aborted, NEW t \in Tx,
                        \/ t \in before.pool
                        \/ \E i \in DOMAIN before.chain : t \in ToSet(TxsOf(before.chain[i]))
                 PROVE  t \in m_transactions \/ m_transactionMap[t] # NoIndex
      BY DEF NoTransactionLost
    <2>1. Settled = m_blocks /\ InHand = {} /\ ~Popping
      BY DEF Settled, InHand, Pushing, Popping
    <2>2. t \in m_transactions \/ InChain(t, m_blocks)
      BY <2>1 DEF PlaceInv, KeptInv, InChain
    <2> QED BY <2>1, <2>2, DiskIndexed DEF Indexed
  <1> QED BY <1>1, PlacesAlways, PTL

(***************************************************************************)
(* No exception ends an operation half-way, as long as the indexes hold no *)
(* rejected block and the pool is not an old one: popBlock can save what   *)
(* it takes off the chain, and the transactions of a refused block go back.*)
(***************************************************************************)
THEOREM NeverAborted == Spec => [](~residue /\ ~crashed => ~aborted)
  <1>1. PlaceInv => (~residue /\ ~crashed => ~aborted)
    BY DEF PlaceInv, AbortInv
  <1> QED BY <1>1, PlacesAlways, PTL

=============================================================================
