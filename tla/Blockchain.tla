----------------------------- MODULE Blockchain -----------------------------
(***************************************************************************)
(* The main chain, its indexes, the alternative chains and the transaction *)
(* pool of a node: cryptonote::Blockchain and cryptonote::TxMemoryPool as  *)
(* cryptonote::core drives them.                                           *)
(*                                                                         *)
(* Every operation that changes state holds the pool lock and then the     *)
(* blockchain lock from start to end, so operations do not interleave;     *)
(* but each block that addNewBlock appends or removes goes to the block    *)
(* files at once, and the process can stop between two of them.  An        *)
(* operation is therefore a sequence of steps, one per block or per        *)
(* transaction that the code handles, and "pc" says where the operation    *)
(* stands.  A call that the code rejects without changing anything is not  *)
(* a step.                                                                 *)
(*                                                                         *)
(* The block files are the stack of module BlockStack, and the process     *)
(* stops when its last item is durable.  Module BlockAccessor is about     *)
(* the stops that come earlier.                                            *)
(***************************************************************************)
EXTENDS Integers, Sequences, FiniteSets, SequencesExt

CONSTANTS
  Block,                  \* block hashes that peers may send, genesis included
  Genesis,                \* the block every chain starts from
  Tx,                     \* hashes of transactions that pass check_tx_semantic
  Coinbase,               \* hashes of miner transactions
  KeyImage,               \* key images of the inputs
  Amount,                 \* amounts of the outputs
  BlockInfo,              \* what a block contains and which static tests it passes
  TxInfo,                 \* what a transaction contains
  Height,                 \* number of ancestors of a block
  CumulativeDifficulty,   \* difficulty of a block and its ancestors
  Checkpoints,            \* m_points: a function from some heights to blocks
  MaxBlockCumulativeSize, \* currency.maxBlockCumulativeSize
  LockedTxAllowedDeltaBlocks,
  MaxRestarts             \* bound on restarts

TxId == Tx \cup Coinbase

(* A member of a ring names an output of the chain by its position among   *)
(* the outputs of the amount; the signature binds it to one output.        *)
RingMember == [index : Nat, tx : TxId, out : Nat]

KeyInput == [keyImage : KeyImage, amount : Amount, ring : Seq(RingMember)]

TransactionData ==
  [ inputs     : Seq(KeyInput),
    outputs    : [Amount -> Nat],  \* how many outputs of each amount
    unlockTime : Nat,
    blobSize   : Nat,
    relayable  : BOOLEAN ]         \* fee and size that add_tx asks of a relayed one

BlockData ==
  [ previousBlockHash : Block \cup {"unknown"},
    transactionHashes : Seq(Tx),
    baseTransaction   : Coinbase,
    blockIndex        : Nat,       \* the height its miner transaction claims
    timestampMain     : BOOLEAN,   \* check_block_timestamp_main
    timestampAlt      : BOOLEAN,   \* check_block_timestamp on an alternative chain
    proofOfWork       : BOOLEAN,   \* checkProofOfWork at the required difficulty
    minerTx           : BOOLEAN,   \* the rest of prevalidate_miner_transaction
    reward            : BOOLEAN ]  \* validate_miner_transaction

Prev(b) == BlockInfo[b].previousBlockHash
TxsOf(b) == BlockInfo[b].transactionHashes
KeyImagesOf(t) == {TxInfo[t].inputs[i].keyImage : i \in DOMAIN TxInfo[t].inputs}

ASSUME NamesAssumption ==
  /\ Tx \cap Coinbase = {}
  /\ Genesis \in Block
  /\ "unknown" \notin Block

ASSUME BlockAssumption ==
  /\ BlockInfo \in [Block -> BlockData]
  /\ Prev(Genesis) = "unknown"
  /\ TxsOf(Genesis) = <<>>

(* A miner transaction contains the height of its block.                   *)
ASSUME MinerTxAssumption ==
  \A b, c \in Block : BlockInfo[b].baseTransaction = BlockInfo[c].baseTransaction
                        => BlockInfo[b].blockIndex = BlockInfo[c].blockIndex

(* check_tx_semantic: a transaction has an input, and its key images       *)
(* differ.  A miner transaction has no key input.                          *)
ASSUME TxAssumption ==
  /\ TxInfo \in [TxId -> TransactionData]
  /\ \A t \in Tx : TxInfo[t].inputs # <<>>
  /\ \A t \in Tx : \A i, j \in DOMAIN TxInfo[t].inputs :
       TxInfo[t].inputs[i].keyImage = TxInfo[t].inputs[j].keyImage => i = j
  /\ \A c \in Coinbase : TxInfo[c].inputs = <<>>

ASSUME HeightAssumption ==
  /\ Height \in [Block -> Nat]
  /\ CumulativeDifficulty \in [Block -> Nat]
  /\ Height[Genesis] = 0
  /\ BlockInfo[Genesis].blockIndex = 0
  /\ \A b \in Block \ {Genesis} : Height[b] > 0
  /\ \A b \in Block : Prev(b) \in Block =>
       /\ Height[b] = Height[Prev(b)] + 1
       /\ CumulativeDifficulty[b] > CumulativeDifficulty[Prev(b)]

ASSUME BoundAssumption ==
  /\ \A h \in DOMAIN Checkpoints : h \in Nat
  /\ MaxBlockCumulativeSize \in Nat
  /\ LockedTxAllowedDeltaBlocks \in Nat
  /\ MaxRestarts \in Nat

-----------------------------------------------------------------------------
VARIABLES
  m_blocks,             \* the main chain, in the block files
  m_blockIndex,         \* hashes of the main chain, in memory
  m_transactionMap,     \* transaction -> its place in the main chain, or NoIndex
  m_spent_keys,         \* key images the main chain has spent
  m_outputs,            \* amount -> places of its outputs, in chain order
  m_alternative_chains, \* blocks that are not on the main chain
  m_transactions,       \* the pool
  m_spent_key_images,   \* key image -> transactions of the pool that spend it
  m_recentlyDeletedTransactions,
  poolFile,             \* the pool as the last clean shutdown saved it
  pc,                   \* the step of the running operation
  caller,               \* the loop that pushBlock, popBlock or handle_alternative_block returns to
  block,                \* the block they work on
  pushed,               \* how many transactions of that block the indexes hold
  path,                 \* alternative ancestors of the block, up to the block
  alt_chain,            \* the chain being switched to
  disconnected_chain,   \* the blocks that the switch removed
  discard,              \* discard_disconnected_chain
  readded,              \* how many of them became alternative blocks
  toErase,              \* alternative blocks to erase after a rollback
  follower,             \* the chain a reader of the message queue has built
  before,               \* history: the main chain and the pool when the operation began
  residue,              \* history: an exit of pushBlock left its block in the indexes
  aborted,              \* history: an exception left the operation half done
  panicked,             \* history: a rollback could not restore the chain
  crashed,              \* history: the process has stopped without a clean shutdown
  restarts              \* how many restarts there were, for their bound

chainVars == <<m_blocks, m_blockIndex>>
indexVars == <<m_transactionMap, m_spent_keys, m_outputs>>
poolVars == <<m_transactions, m_spent_key_images, m_recentlyDeletedTransactions>>
switchVars == <<alt_chain, disconnected_chain, discard, readded, toErase>>
historyVars == <<before, residue, aborted, panicked, crashed, restarts>>
vars == <<chainVars, indexVars, m_alternative_chains, poolVars, poolFile, pc,
          caller, block, pushed, path, switchVars, follower, historyVars>>

-----------------------------------------------------------------------------
(* Places in the main chain.  Heights and positions count from 0, as in    *)
(* the code; position 0 of a block is its miner transaction.               *)
NoIndex == [block |-> -1, transaction |-> -1]
TransactionIndex == [block : Nat, transaction : Nat]
OutputPlace == [block : Nat, transaction : Nat, out : Nat]

TxAt(b, p) == IF p = 0 THEN BlockInfo[b].baseTransaction ELSE TxsOf(b)[p]
TxCount(b) == Len(TxsOf(b)) + 1
NoOperation == [chain |-> <<>>, pool |-> {}]
TailId == Last(m_blockIndex)
MainBlocks == ToSet(m_blockIndex)
HaveBlock(b) == b \in MainBlocks \cup m_alternative_chains

-----------------------------------------------------------------------------
(* Checkpoints.                                                            *)
IsCheckpoint(h) == \E c \in DOMAIN Checkpoints : h <= c
CheckpointMatches(h, b) == h \in DOMAIN Checkpoints => Checkpoints[h] = b
(* Mutant: the last checkpoint is not asked for.                           *)
AnyHeightAllowed(blockchain_height, block_height) == block_height # 0
IsAllowed(blockchain_height, block_height) ==
  /\ block_height # 0
  /\ \A c \in DOMAIN Checkpoints : c <= blockchain_height => c < block_height

-----------------------------------------------------------------------------
(* checkTransactionInputs: "ok", "fail", or "throw" when an output place   *)
(* points past the blocks on disk, which m_blocks[] answers with an        *)
(* exception.  An output of the block being pushed is such a place.  (A    *)
(* place past the transactions of its block, which only residue of a       *)
(* rejected block can be, is an undefined read; it ends the call too.)     *)
OnDisk(o) == /\ o.block < Len(m_blocks)
             /\ o.transaction < TxCount(m_blocks[o.block + 1])

SpendtimeUnlocked(t) ==
  Len(m_blocks) - 1 + LockedTxAllowedDeltaBlocks >= TxInfo[t].unlockTime

ResolveMember(a, r) ==
  IF r.index >= Len(m_outputs[a]) THEN "fail"
  ELSE LET o == m_outputs[a][r.index + 1] IN
       CASE ~OnDisk(o) -> "throw"
         [] OnDisk(o) /\ SpendtimeUnlocked(TxAt(m_blocks[o.block + 1], o.transaction)) -> "ok"
         [] OTHER -> "fail"

SignatureMatches(in) ==
  \A j \in DOMAIN in.ring :
    LET o == m_outputs[in.amount][in.ring[j].index + 1]
    IN  /\ TxAt(m_blocks[o.block + 1], o.transaction) = in.ring[j].tx
        /\ o.out = in.ring[j].out

(* The result of checks that stop at the first one that is not "ok".       *)
FirstNotOk(results) ==
  IF \A i \in DOMAIN results : results[i] = "ok" THEN "ok"
  ELSE IF \E i \in DOMAIN results : /\ results[i] = "throw"
                                   /\ \A j \in 1 .. i - 1 : results[j] = "ok"
       THEN "throw" ELSE "fail"

RingFound(in) == FirstNotOk([j \in DOMAIN in.ring |-> ResolveMember(in.amount, in.ring[j])])
RingCheck(in) ==
  IF RingFound(in) = "ok" /\ ~SignatureMatches(in) THEN "fail" ELSE RingFound(in)

(* Mutant: the key image is not looked up.                                 *)
CheckTxInputSpentIgnored(in) == IF in.ring = <<>> THEN "fail" ELSE RingCheck(in)
CheckTxInput(in) ==
  IF in.keyImage \in m_spent_keys \/ in.ring = <<>> THEN "fail" ELSE RingCheck(in)

CheckTransactionInputs(t) ==
  FirstNotOk([i \in DOMAIN TxInfo[t].inputs |-> CheckTxInput(TxInfo[t].inputs[i])])

-----------------------------------------------------------------------------
(* The pool.                                                               *)
PoolWith(S) ==
  /\ m_transactions' = m_transactions \cup S
  /\ m_spent_key_images' = [k \in KeyImage |->
       m_spent_key_images[k] \cup {t \in S : k \in KeyImagesOf(t)}]

(* Mutants: take_tx leaves the key images, or the transaction, behind.     *)
PoolWithoutKeepingImages(S) ==
  m_transactions' = m_transactions \ S /\ UNCHANGED m_spent_key_images
PoolWithoutRemoval(S) == UNCHANGED <<m_transactions, m_spent_key_images>>
PoolWithout(S) ==
  /\ m_transactions' = m_transactions \ S
  /\ m_spent_key_images' = [k \in KeyImage |-> m_spent_key_images[k] \ S]

(* saveTransactions puts the transactions of a block back from the last to *)
(* the first; add_tx refuses one that the pool holds, and the refusal is   *)
(* thrown.                                                                 *)
Unsavable(txs) ==
  {i \in DOMAIN txs : \/ txs[i] \in m_transactions
                      \/ CheckTransactionInputs(txs[i]) = "throw"}
Saved(txs) == {txs[j] : j \in {i \in DOMAIN txs : \A u \in Unsavable(txs) : i > u}}
SaveThrows(txs) == Unsavable(txs) # {}
(* Mutant: the transactions are dropped.                                   *)
SaveNothing(txs) ==
  UNCHANGED <<m_transactions, m_spent_key_images, m_recentlyDeletedTransactions>>
SaveTransactions(txs) == PoolWith(Saved(txs)) /\ UNCHANGED m_recentlyDeletedTransactions

-----------------------------------------------------------------------------
(* The indexes of the main chain.                                          *)
(* Mutant: the position of an output is one too small.                     *)
OutputsOfShifted(t, h, p) ==
  [a \in Amount |->
    [i \in 1 .. TxInfo[t].outputs[a] |-> [block |-> h, transaction |-> p, out |-> i - 2]]]
OutputsOf(t, h, p) ==
  [a \in Amount |->
    [i \in 1 .. TxInfo[t].outputs[a] |-> [block |-> h, transaction |-> p, out |-> i - 1]]]

InsertTransaction(t, h, p) ==
  /\ m_transactionMap' =
       [m_transactionMap EXCEPT ![t] =
          IF @ = NoIndex THEN [block |-> h, transaction |-> p] ELSE @]
  /\ m_spent_keys' = m_spent_keys \cup KeyImagesOf(t)
  /\ m_outputs' = [a \in Amount |-> m_outputs[a] \o OutputsOf(t, h, p)[a]]

(* pushTransaction refuses a transaction the chain holds or a key image it *)
(* has spent; pushBlock ignores the refusal.                               *)
PushTransaction(t, h, p) ==
  IF m_transactionMap[t] = NoIndex /\ KeyImagesOf(t) \cap m_spent_keys = {}
  THEN InsertTransaction(t, h, p)
  ELSE UNCHANGED indexVars

(* popTransaction removes the outputs at the end of the list of an amount  *)
(* as long as they are the transaction's; outputs enter a list in runs     *)
(* 0, 1, .., so the last one tells how many follow.                        *)
(* Mutant: one output too few is removed.                                  *)
RunAtEndShort(outs, ix, n) ==
  IF /\ outs # <<>>
     /\ Last(outs).block = ix.block
     /\ Last(outs).transaction = ix.transaction
     /\ Last(outs).out < n
  THEN Last(outs).out
  ELSE 0
RunAtEnd(outs, ix, n) ==
  IF /\ outs # <<>>
     /\ Last(outs).block = ix.block
     /\ Last(outs).transaction = ix.transaction
     /\ Last(outs).out < n
  THEN Last(outs).out + 1
  ELSE 0

PopTransaction(t) ==
  LET ix == m_transactionMap[t] IN
  /\ m_outputs' = [a \in Amount |->
       SubSeq(m_outputs[a], 1,
              Len(m_outputs[a]) - RunAtEnd(m_outputs[a], ix, TxInfo[t].outputs[a]))]
  /\ m_spent_keys' = m_spent_keys \ KeyImagesOf(t)
  /\ m_transactionMap' = [m_transactionMap EXCEPT ![t] = NoIndex]

(* What rebuildCache starts from.                                          *)
(* Mutant: the map keeps what it held.                                     *)
ClearIndexesButMap ==
  /\ UNCHANGED m_transactionMap
  /\ m_spent_keys' = {}
  /\ m_outputs' = [a \in Amount |-> <<>>]
ClearIndexes ==
  /\ m_transactionMap' = [t \in TxId |-> NoIndex]
  /\ m_spent_keys' = {}
  /\ m_outputs' = [a \in Amount |-> <<>>]

(* The block and its hash enter and leave the main chain.                  *)
PushEntry(b) ==
  /\ m_blocks' = Append(m_blocks, b)
  /\ m_blockIndex' = Append(m_blockIndex, b)

(* Mutant: the block stays on disk.                                        *)
PopHashOnly ==
  /\ UNCHANGED m_blocks
  /\ m_blockIndex' = Front(m_blockIndex)
PopEntry ==
  /\ m_blocks' = Front(m_blocks)
  /\ m_blockIndex' = Front(m_blockIndex)

-----------------------------------------------------------------------------
(* Sizes.  An alternative block is measured by the transactions that the   *)
(* node knows; the others count for nothing.                               *)
SizeOfPositions(b, P) == MapThenSumSet(LAMBDA p : TxInfo[TxAt(b, p)].blobSize, P)
KnownPositions(b) ==
  {0} \cup {p \in DOMAIN TxsOf(b) : \/ m_transactionMap[TxsOf(b)[p]] # NoIndex
                                     \/ TxsOf(b)[p] \in m_transactions}
BlockSizeOk(b) == SizeOfPositions(b, 0 .. Len(TxsOf(b))) <= MaxBlockCumulativeSize
KnownSizeOk(b) == SizeOfPositions(b, KnownPositions(b)) <= MaxBlockCumulativeSize

PrevalidateMinerTx(b, h) == BlockInfo[b].blockIndex = h /\ BlockInfo[b].minerTx

-----------------------------------------------------------------------------
(* An exception unwinds the whole operation; the connection handler that   *)
(* called it catches it, and the node goes on.                             *)
Unwind ==
  /\ pc' = "return"
  /\ aborted' = TRUE
  /\ pushed' = 0
  /\ UNCHANGED <<before, panicked, crashed, restarts, follower,
                 m_alternative_chains, switchVars, path, caller, block, poolFile>>

SplitHeight == Height[alt_chain[1]]
Connected == Len(m_blocks) - SplitHeight   \* blocks of the switch now on the main chain

(* What the caller does with the result of pushBlock.                      *)
(* Mutant: a block that was refused is tried again.                        *)
PushReturnsRetrying(ok) ==
  \/ /\ caller = "add" /\ ok
     /\ pc' = "return"
     /\ follower' = Append(follower, block)
     /\ UNCHANGED <<m_alternative_chains, toErase, panicked>>
  \/ /\ caller # "add" \/ ~ok
     /\ pc' = IF ok THEN caller ELSE "load"
     /\ UNCHANGED <<follower, m_alternative_chains, toErase, panicked>>
PushReturns(ok) ==
  \/ /\ caller = "add"
     /\ pc' = "return"
     /\ follower' = IF ok THEN Append(follower, block) ELSE follower
     /\ UNCHANGED <<m_alternative_chains, toErase, panicked>>
  \/ /\ caller \in {"connect", "restore"} /\ ok
     /\ pc' = caller
     /\ UNCHANGED <<follower, m_alternative_chains, toErase, panicked>>
  \/ /\ caller = "connect" /\ ~ok
     /\ pc' = "unconnect"
     /\ toErase' = {alt_chain[i] : i \in Connected + 1 .. Len(alt_chain)}
     /\ UNCHANGED <<follower, m_alternative_chains, panicked>>
  \/ /\ caller = "restore" /\ ~ok
     /\ pc' = "return"
     /\ m_alternative_chains' = m_alternative_chains \ toErase
     /\ panicked' = TRUE
     /\ UNCHANGED <<follower, toErase>>

(* pushBlock has failed after it took the transactions from the pool.      *)
SaveAndFail ==
  /\ SaveTransactions(TxsOf(block))
  /\ \/ /\ ~SaveThrows(TxsOf(block))
        /\ PushReturns(FALSE)
        /\ pushed' = 0
        /\ UNCHANGED <<aborted, poolFile, caller, block, path, alt_chain,
                       disconnected_chain, discard, readded, before, crashed, restarts>>
     \/ SaveThrows(TxsOf(block)) /\ Unwind

(* loadTransactions: all or nothing, but for an exception while it puts    *)
(* the first ones back.                                                    *)
LoadTransactions ==
  /\ pc = "load"
  /\ LET txs == TxsOf(block)
         missing == {i \in DOMAIN txs : \/ txs[i] \notin m_transactions
                                        \/ \E j \in 1 .. i - 1 : txs[j] = txs[i]}
         taken == IF missing = {} THEN DOMAIN txs ELSE 1 .. Min(missing) - 1
         broken == {i \in taken : CheckTransactionInputs(txs[i]) = "throw"}
         lost == IF broken = {} THEN {} ELSE {txs[i] : i \in 1 .. Max(broken)}
     IN  IF missing = {}
         THEN /\ PoolWithout(ToSet(txs))
              /\ pc' = "check"
              /\ UNCHANGED <<aborted, follower, m_alternative_chains, toErase, panicked>>
         ELSE /\ PoolWithout(lost)
              /\ IF lost = {} THEN PushReturns(FALSE) /\ UNCHANGED aborted
                 ELSE /\ pc' = "return" /\ aborted' = TRUE
                      /\ UNCHANGED <<follower, m_alternative_chains, toErase, panicked>>
  /\ UNCHANGED <<chainVars, indexVars, m_recentlyDeletedTransactions, poolFile,
                 caller, block, pushed, path, alt_chain, disconnected_chain,
                 discard, readded, before, residue, crashed, restarts>>

BlockValid(b) ==
  /\ b \notin MainBlocks
  /\ Prev(b) = TailId
  /\ BlockInfo[b].timestampMain
  /\ IF IsCheckpoint(Len(m_blocks)) THEN CheckpointMatches(Len(m_blocks), b)
     ELSE BlockInfo[b].proofOfWork
  /\ PrevalidateMinerTx(b, Len(m_blocks))

CheckBlock ==
  /\ pc = "check"
  /\ \/ /\ BlockValid(block)
        /\ PushTransaction(TxAt(block, 0), Len(m_blocks), 0)
        /\ pushed' = 1
        /\ pc' = "tx"
        /\ UNCHANGED <<poolVars, m_alternative_chains, poolFile, caller, block, path,
                       switchVars, follower, before, aborted, panicked, crashed, restarts>>
     \/ /\ ~BlockValid(block)
        /\ SaveAndFail
        /\ UNCHANGED indexVars
  /\ UNCHANGED <<chainVars, residue>>

(* The next transaction of the block: its inputs, then the indexes.        *)
PushNextTransaction ==
  /\ pc = "tx"
  /\ pushed < TxCount(block)
  /\ LET t == TxAt(block, pushed) IN
     \/ /\ CheckTransactionInputs(t) = "ok"
        /\ PushTransaction(t, Len(m_blocks), pushed)
        /\ pushed' = pushed + 1
        /\ UNCHANGED <<pc, residue, aborted, before, panicked, crashed, restarts, follower,
                       m_alternative_chains, switchVars, path, caller, block, poolFile>>
     \/ /\ CheckTransactionInputs(t) = "fail"
        /\ pc' = "undo"
        /\ UNCHANGED <<indexVars, pushed, residue, aborted, before, panicked, crashed, restarts,
                       follower, m_alternative_chains, switchVars, path, caller, block, poolFile>>
     \/ /\ CheckTransactionInputs(t) = "throw"
        /\ residue' = TRUE
        /\ Unwind
        /\ UNCHANGED indexVars
  /\ UNCHANGED <<chainVars, poolVars>>

(* All transactions are in the indexes.  A block that is too big is        *)
(* refused here and stays in them; a wrong reward undoes them.             *)
FinishPush ==
  /\ pc = "tx"
  /\ pushed = TxCount(block)
  /\ \/ /\ ~BlockSizeOk(block)
        /\ residue' = TRUE
        /\ SaveAndFail
        /\ UNCHANGED chainVars
     \/ /\ BlockSizeOk(block) /\ ~BlockInfo[block].reward
        /\ pc' = "undo"
        /\ UNCHANGED <<chainVars, poolVars, pushed, residue, aborted, before, panicked, crashed,
                       restarts, follower, m_alternative_chains, switchVars, path, caller,
                       block, poolFile>>
     \/ /\ BlockSizeOk(block) /\ BlockInfo[block].reward
        /\ PushEntry(block)
        /\ pushed' = 0
        /\ PushReturns(TRUE)
        /\ UNCHANGED <<poolVars, residue, aborted, before, crashed, restarts, alt_chain,
                       disconnected_chain, discard, readded, path, caller, block, poolFile>>
  /\ UNCHANGED indexVars

(* popTransactions, from the last transaction to the miner transaction.    *)
UndoTransaction ==
  /\ pc = "undo"
  /\ pushed > 0
  /\ LET t == TxAt(block, pushed - 1) IN
     /\ m_transactionMap[t] # NoIndex     \* m_transactionMap.at(t) does not throw
     /\ PopTransaction(t)
  /\ pushed' = pushed - 1
  /\ UNCHANGED <<chainVars, poolVars, m_alternative_chains, poolFile, pc, caller, block, path,
                 switchVars, follower, historyVars>>

(* The transactions are out of the indexes: pushBlock saves them and fails *)
(* (popBlock saved them first), popBlock removes the block.                *)
FinishUndo ==
  /\ pc = "undo"
  /\ pushed = 0
  /\ \/ /\ caller \in {"add", "connect", "restore"}
        /\ SaveAndFail
        /\ UNCHANGED chainVars
     \/ /\ caller \in {"disconnect", "unconnect"}
        /\ PopEntry
        /\ disconnected_chain' = IF caller = "disconnect" THEN <<block>> \o disconnected_chain
                                 ELSE disconnected_chain
        /\ pc' = caller
        /\ UNCHANGED <<poolVars, aborted, before, panicked, crashed, restarts, follower,
                       m_alternative_chains, alt_chain, discard, readded, toErase, path,
                       caller, block, pushed, poolFile>>
  /\ UNCHANGED <<indexVars, residue>>

-----------------------------------------------------------------------------
(* popBlock: the transactions of the last block go to the pool first, then *)
(* they leave the indexes, then the block leaves the chain.                *)
StartPop ==
  /\ pc \in {"disconnect", "unconnect"}
  /\ Connected > 0
  /\ LET b == Last(m_blocks) IN
     /\ SaveTransactions(TxsOf(b))
     /\ \/ /\ ~SaveThrows(TxsOf(b))
           /\ pc' = "undo"
           /\ caller' = pc
           /\ block' = b
           /\ pushed' = TxCount(b)
           /\ UNCHANGED <<aborted, before, panicked, crashed, restarts, follower,
                          m_alternative_chains, switchVars, path, poolFile>>
        \/ SaveThrows(TxsOf(b)) /\ Unwind
  /\ UNCHANGED <<chainVars, indexVars, residue>>

StartPush(b) ==
  /\ pc' = "load"
  /\ caller' = pc
  /\ block' = b
  /\ UNCHANGED <<m_alternative_chains, follower, readded, toErase, path>>

(* switch_to_alternative_blockchain, once the old blocks are off: connect  *)
(* the new ones, then offer the old ones as alternative blocks, then drop  *)
(* the new ones from the alternative chains and announce the switch.       *)
StartConnect ==
  /\ pc = "disconnect"
  /\ Connected = 0
  /\ pc' = "connect"
  /\ UNCHANGED <<chainVars, indexVars, poolVars, m_alternative_chains, poolFile, caller, block,
                 pushed, path, switchVars, follower, historyVars>>

ConnectNext ==
  /\ pc = "connect"
  /\ Connected + 1 \in DOMAIN alt_chain
  /\ StartPush(alt_chain[Connected + 1])
  /\ UNCHANGED <<chainVars, indexVars, poolVars, poolFile, pushed, alt_chain,
                 disconnected_chain, discard, historyVars>>

FinishConnect ==
  /\ pc = "connect"
  /\ Connected = Len(alt_chain)
  /\ pc' = "realt"
  /\ readded' = IF discard THEN Len(disconnected_chain) ELSE 0
  /\ UNCHANGED <<chainVars, indexVars, poolVars, m_alternative_chains, poolFile, caller, block,
                 pushed, path, alt_chain, disconnected_chain, discard, toErase, follower,
                 historyVars>>

(* ChainSwitchMessage carries the last block that the two chains have in   *)
(* common and the new blocks; a follower goes back to the one and appends  *)
(* the others.                                                             *)
PositionOf(s, b) ==
  CHOOSE n \in 0 .. Len(s) :
    IF \E i \in 1 .. Len(s) : s[i] = b THEN n > 0 /\ s[n] = b ELSE n = 0
UpTo(s, b) == SubSeq(s, 1, PositionOf(s, b))
(* Mutant: the message starts with the first new block.                    *)
FollowerAfterWrongRoot == UpTo(follower, alt_chain[1]) \o alt_chain
FollowerAfterSwitch == UpTo(follower, Prev(alt_chain[1])) \o alt_chain

FinishSwitch ==
  /\ pc = "realt"
  /\ readded = Len(disconnected_chain)
  /\ m_alternative_chains' = m_alternative_chains \ ToSet(alt_chain)
  /\ follower' = FollowerAfterSwitch
  /\ pc' = "return"
  /\ UNCHANGED <<chainVars, indexVars, poolVars, poolFile, caller, block, pushed, path,
                 switchVars, historyVars>>

(* rollback_blockchain_switching: the new blocks leave the main chain and  *)
(* the old ones come back; the blocks that failed are erased afterwards.   *)
(* Mutant: the old blocks are forgotten.                                   *)
StartNoRestore ==
  /\ pc = "unconnect"
  /\ Connected = 0
  /\ pc' = "return"
  /\ UNCHANGED <<chainVars, indexVars, poolVars, m_alternative_chains, poolFile, caller, block,
                 pushed, path, switchVars, follower, historyVars>>
StartRestore ==
  /\ pc = "unconnect"
  /\ Connected = 0
  /\ pc' = "restore"
  /\ UNCHANGED <<chainVars, indexVars, poolVars, m_alternative_chains, poolFile, caller, block,
                 pushed, path, switchVars, follower, historyVars>>

RestoreNext ==
  /\ pc = "restore"
  /\ Connected + 1 \in DOMAIN disconnected_chain
  /\ StartPush(disconnected_chain[Connected + 1])
  /\ UNCHANGED <<chainVars, indexVars, poolVars, poolFile, pushed, alt_chain,
                 disconnected_chain, discard, historyVars>>

FinishRestore ==
  /\ pc = "restore"
  /\ Connected = Len(disconnected_chain)
  /\ m_alternative_chains' = m_alternative_chains \ toErase
  /\ pc' = "return"
  /\ UNCHANGED <<chainVars, indexVars, poolVars, poolFile, caller, block, pushed, path,
                 switchVars, follower, historyVars>>

-----------------------------------------------------------------------------
(* handle_alternative_block.  The tests that come before the walk to the   *)
(* main chain:                                                             *)
AlternativeAdmissible(b) ==
  /\ BlockInfo[b].blockIndex # 0
  /\ IsAllowed(Len(m_blocks), BlockInfo[b].blockIndex)
  /\ KnownSizeOk(b)

(* and those that come after it, first being the first block of the walk.  *)
AlternativeValid(b, first) ==
  /\ Len(m_blocks) > Height[first]
  /\ m_blocks[Height[first]] = Prev(first)
  /\ BlockInfo[b].timestampAlt
  /\ CheckpointMatches(Height[b], b)
  /\ BlockInfo[b].proofOfWork
  /\ PrevalidateMinerTx(b, Height[b])
  /\ b \notin m_alternative_chains

(* The old block is refused as an alternative block: roll back.            *)
RefuseReadded ==
  /\ pc' = "unconnect"
  /\ toErase' = {}
  /\ UNCHANGED <<m_alternative_chains, alt_chain, discard, readded>>

ReaddNext ==
  /\ pc = "realt"
  /\ readded + 1 \in DOMAIN disconnected_chain
  /\ LET b == disconnected_chain[readded + 1] IN
     \/ /\ AlternativeAdmissible(b)
        /\ HaveBlock(Prev(b))
        /\ pc' = "walk"
        /\ caller' = "realt"
        /\ block' = b
        /\ path' = <<b>>
        /\ UNCHANGED <<m_alternative_chains, switchVars>>
     \/ /\ ~AlternativeAdmissible(b)
        /\ RefuseReadded
        /\ UNCHANGED <<caller, block, path, disconnected_chain>>
  /\ UNCHANGED <<chainVars, indexVars, poolVars, poolFile, pushed, follower, historyVars>>

WalkToMainChain ==
  /\ pc = "walk"
  /\ Prev(path[1]) \in m_alternative_chains
  /\ path' = <<Prev(path[1])>> \o path
  /\ UNCHANGED <<chainVars, indexVars, poolVars, m_alternative_chains, poolFile, pc, caller,
                 block, pushed, switchVars, follower, historyVars>>

(* Mutant: the comparison is reversed.                                     *)
OutweighedByMain(b) == CumulativeDifficulty[Last(m_blocks)] > CumulativeDifficulty[b]
OutweighsMain(b) == CumulativeDifficulty[Last(m_blocks)] < CumulativeDifficulty[b]

AcceptAlternative ==
  /\ pc = "walk"
  /\ Prev(path[1]) \notin m_alternative_chains
  /\ AlternativeValid(block, path[1])
  /\ m_alternative_chains' = m_alternative_chains \cup {block}
  /\ \/ /\ caller = "add"
        /\ Height[block] \in DOMAIN Checkpoints \/ OutweighsMain(block)
        /\ pc' = "disconnect"
        /\ alt_chain' = path
        /\ discard' = (Height[block] \in DOMAIN Checkpoints)
        /\ UNCHANGED readded
     \/ /\ caller = "add"
        /\ Height[block] \notin DOMAIN Checkpoints /\ ~OutweighsMain(block)
        /\ pc' = "return"
        /\ UNCHANGED <<alt_chain, discard, readded>>
     \/ /\ caller = "realt"
        /\ pc' = "realt"
        /\ readded' = readded + 1
        /\ UNCHANGED <<alt_chain, discard>>
  /\ UNCHANGED <<chainVars, indexVars, poolVars, poolFile, caller, block, pushed, path,
                 disconnected_chain, toErase, follower, historyVars>>

RefuseAlternative ==
  /\ pc = "walk"
  /\ Prev(path[1]) \notin m_alternative_chains
  /\ ~AlternativeValid(block, path[1])
  /\ \/ /\ caller = "add"
        /\ pc' = "return"
        /\ UNCHANGED <<m_alternative_chains, alt_chain, discard, readded, toErase>>
     \/ caller = "realt" /\ RefuseReadded
  /\ UNCHANGED <<chainVars, indexVars, poolVars, poolFile, caller, block, pushed, path,
                 disconnected_chain, follower, historyVars>>

-----------------------------------------------------------------------------
(* addNewBlock.                                                            *)
AddNewBlock(b) ==
  /\ pc = "idle"
  /\ ~HaveBlock(b)
  /\ before' = [chain |-> m_blocks, pool |-> m_transactions]
  /\ caller' = "add"
  /\ block' = b
  /\ \/ /\ Prev(b) = TailId
        /\ pc' = "load"
        /\ UNCHANGED path
     \/ /\ Prev(b) # TailId
        /\ AlternativeAdmissible(b)
        /\ HaveBlock(Prev(b))
        /\ pc' = "walk"
        /\ path' = <<b>>
  /\ UNCHANGED <<chainVars, indexVars, poolVars, m_alternative_chains, poolFile, pushed,
                 switchVars, follower, residue, aborted, panicked, crashed, restarts>>

(* The operation returns: its local variables and its locks are gone.      *)
Return ==
  /\ pc = "return"
  /\ pc' = "idle"
  /\ caller' = "add" /\ block' = Genesis /\ pushed' = 0 /\ path' = <<>>
  /\ alt_chain' = <<>> /\ disconnected_chain' = <<>> /\ discard' = FALSE
  /\ readded' = 0 /\ toErase' = {} /\ before' = NoOperation
  /\ UNCHANGED <<chainVars, indexVars, poolVars, m_alternative_chains, poolFile, follower,
                 residue, aborted, panicked, crashed, restarts>>

-----------------------------------------------------------------------------
(* core::add_new_tx.  A transaction that arrives with a block is kept      *)
(* whether its inputs are right or not.                                    *)
AddNewTx(t, keptByBlock) ==
  /\ pc = "idle"
  /\ m_transactionMap[t] = NoIndex
  /\ t \notin m_transactions
  /\ CheckTransactionInputs(t) # "throw"
  /\ ~keptByBlock =>
       /\ TxInfo[t].relayable
       /\ \A k \in KeyImagesOf(t) : m_spent_key_images[k] = {}
       /\ CheckTransactionInputs(t) = "ok"
       /\ t \notin m_recentlyDeletedTransactions
  /\ PoolWith({t})
  /\ UNCHANGED <<chainVars, indexVars, m_recentlyDeletedTransactions, m_alternative_chains,
                 poolFile, pc, caller, block, pushed, path, switchVars, follower, historyVars>>

(* removeExpiredTransactions: time passes outside the model, so any        *)
(* transaction may be too old, and any deletion old enough to forget.      *)
RemoveExpiredTransactions(expired, forgotten) ==
  /\ pc = "idle"
  /\ PoolWithout(expired)
  /\ m_recentlyDeletedTransactions' = (m_recentlyDeletedTransactions \ forgotten) \cup expired
  /\ UNCHANGED <<chainVars, indexVars, m_alternative_chains, poolFile, pc, caller, block,
                 pushed, path, switchVars, follower, historyVars>>

-----------------------------------------------------------------------------
(* The process stops and starts again: core::init reads the pool file,     *)
(* drops from the pool what is too old by now, reads the blocks, and       *)
(* rebuildCache fills the indexes from them.                               *)
Start(pool, expired, forgotten) ==
  /\ restarts < MaxRestarts
  /\ restarts' = restarts + 1
  /\ m_transactions' = pool.transactions \ expired
  /\ m_spent_key_images' = [k \in KeyImage |-> pool.spent_key_images[k] \ expired]
  /\ m_recentlyDeletedTransactions' = (pool.recentlyDeleted \ forgotten) \cup expired
  /\ m_blockIndex' = <<>>
  /\ ClearIndexes
  /\ m_alternative_chains' = {}
  /\ pc' = "rebuild"
  /\ caller' = "add" /\ block' = Genesis /\ pushed' = 0 /\ path' = <<>>
  /\ alt_chain' = <<>> /\ disconnected_chain' = <<>> /\ discard' = FALSE
  /\ readded' = 0 /\ toErase' = {} /\ before' = NoOperation
  /\ follower' = <<>>
  /\ residue' = FALSE /\ aborted' = FALSE /\ panicked' = FALSE
  /\ UNCHANGED m_blocks

Crash ==
  /\ \E expired \in SUBSET poolFile.transactions, forgotten \in SUBSET poolFile.recentlyDeleted :
       Start(poolFile, expired, forgotten)
  /\ crashed' = TRUE
  /\ UNCHANGED poolFile

(* core::deinit saves the pool.                                            *)
Shutdown ==
  /\ pc = "idle"
  /\ poolFile' = [transactions |-> m_transactions, spent_key_images |-> m_spent_key_images,
                  recentlyDeleted |-> m_recentlyDeletedTransactions]
  /\ \E expired \in SUBSET m_transactions, forgotten \in SUBSET m_recentlyDeletedTransactions :
       Start(poolFile', expired, forgotten)
  /\ UNCHANGED crashed

(* One transaction of rebuildCache.  The index of hashes counts the blocks *)
(* that are done.                                                          *)
RebuildNext ==
  /\ pc = "rebuild"
  /\ Len(m_blockIndex) < Len(m_blocks)
  /\ LET h == Len(m_blockIndex)
         b == m_blocks[h + 1]
     IN  /\ InsertTransaction(TxAt(b, pushed), h, pushed)
         /\ IF pushed + 1 < TxCount(b)
            THEN pushed' = pushed + 1 /\ UNCHANGED m_blockIndex
            ELSE pushed' = 0 /\ m_blockIndex' = Append(m_blockIndex, b)
  /\ UNCHANGED <<m_blocks, poolVars, m_alternative_chains, poolFile, pc, caller, block, path,
                 switchVars, follower, historyVars>>

FinishRebuild ==
  /\ pc = "rebuild"
  /\ Len(m_blockIndex) = Len(m_blocks)
  /\ pc' = "idle"
  /\ follower' = m_blocks
  /\ UNCHANGED <<chainVars, indexVars, poolVars, m_alternative_chains, poolFile, caller, block,
                 pushed, path, switchVars, historyVars>>

-----------------------------------------------------------------------------
Init ==
  /\ m_blocks = <<Genesis>>
  /\ m_blockIndex = <<Genesis>>
  /\ m_transactionMap = [t \in TxId |->
       IF t = TxAt(Genesis, 0) THEN [block |-> 0, transaction |-> 0] ELSE NoIndex]
  /\ m_spent_keys = {}
  /\ m_outputs = OutputsOf(TxAt(Genesis, 0), 0, 0)
  /\ m_alternative_chains = {}
  /\ m_transactions = {}
  /\ m_spent_key_images = [k \in KeyImage |-> {}]
  /\ m_recentlyDeletedTransactions = {}
  /\ poolFile = [transactions |-> {}, spent_key_images |-> [k \in KeyImage |-> {}],
                 recentlyDeleted |-> {}]
  /\ pc = "idle"
  /\ caller = "add" /\ block = Genesis /\ pushed = 0 /\ path = <<>>
  /\ alt_chain = <<>> /\ disconnected_chain = <<>> /\ discard = FALSE
  /\ readded = 0 /\ toErase = {} /\ before = NoOperation
  /\ follower = <<Genesis>>
  /\ residue = FALSE /\ aborted = FALSE /\ panicked = FALSE /\ crashed = FALSE
  /\ restarts = 0

(* The steps of a running operation: there is at most one, and nothing     *)
(* but the end of the process takes its locks away.                        *)
Step ==
  \/ LoadTransactions \/ CheckBlock \/ PushNextTransaction \/ FinishPush
  \/ UndoTransaction \/ FinishUndo \/ StartPop
  \/ StartConnect \/ ConnectNext \/ FinishConnect \/ ReaddNext \/ FinishSwitch
  \/ StartRestore \/ RestoreNext \/ FinishRestore
  \/ WalkToMainChain \/ AcceptAlternative \/ RefuseAlternative
  \/ RebuildNext \/ FinishRebuild \/ Return

Next ==
  \/ Step
  \/ \E b \in Block : AddNewBlock(b)
  \/ \E t \in Tx, keptByBlock \in BOOLEAN : AddNewTx(t, keptByBlock)
  \/ \E expired \in SUBSET m_transactions, forgotten \in SUBSET m_recentlyDeletedTransactions :
       RemoveExpiredTransactions(expired, forgotten)
  \/ Crash
  \/ Shutdown

Spec == Init /\ [][Next]_vars /\ WF_vars(Step)

-----------------------------------------------------------------------------
PC == {"idle", "load", "check", "tx", "undo", "disconnect", "connect", "realt",
       "unconnect", "restore", "walk", "return", "rebuild"}
Callers == {"add", "connect", "restore", "disconnect", "unconnect", "realt"}
PoolState == [transactions : SUBSET Tx, spent_key_images : [KeyImage -> SUBSET Tx],
              recentlyDeleted : SUBSET Tx]

ChainTypeOK ==
  /\ m_blocks \in Seq(Block)
  /\ m_blockIndex \in Seq(Block)
  /\ m_alternative_chains \in SUBSET Block
  /\ follower \in Seq(Block)
IndexTypeOK ==
  /\ m_transactionMap \in [TxId -> TransactionIndex \cup {NoIndex}]
  /\ m_spent_keys \in SUBSET KeyImage
  /\ m_outputs \in [Amount -> Seq(OutputPlace)]
PoolTypeOK ==
  /\ m_transactions \in SUBSET Tx
  /\ m_spent_key_images \in [KeyImage -> SUBSET Tx]
  /\ m_recentlyDeletedTransactions \in SUBSET Tx
  /\ poolFile \in PoolState
LocalTypeOK ==
  /\ pc \in PC
  /\ caller \in Callers
  /\ block \in Block
  /\ pushed \in Nat
  /\ path \in Seq(Block)
  /\ alt_chain \in Seq(Block)
  /\ disconnected_chain \in Seq(Block)
  /\ discard \in BOOLEAN
  /\ readded \in Nat
  /\ toErase \in SUBSET Block
HistoryTypeOK ==
  /\ before \in [chain : Seq(Block), pool : SUBSET Tx]
  /\ residue \in BOOLEAN
  /\ aborted \in BOOLEAN
  /\ panicked \in BOOLEAN
  /\ crashed \in BOOLEAN
  /\ restarts \in Nat

(* The types of the variables.                                             *)
TypeOK == ChainTypeOK /\ IndexTypeOK /\ PoolTypeOK /\ LocalTypeOK /\ HistoryTypeOK

-----------------------------------------------------------------------------
(* The places of the main chain whose transactions the indexes should      *)
(* hold: those of the blocks that are complete, and the first ones of the  *)
(* block that pushBlock adds, popBlock removes or rebuildCache reads.      *)
Popping == pc = "undo" /\ caller \in {"disconnect", "unconnect"}
CompleteBlocks ==
  CASE pc = "rebuild" -> Len(m_blockIndex)
    [] Popping -> Len(m_blocks) - 1
    [] OTHER -> Len(m_blocks)
PendingBlock == IF pc = "rebuild" THEN m_blocks[CompleteBlocks + 1] ELSE block
PositionsAt(h) ==
  IF h < CompleteBlocks THEN 0 .. Len(TxsOf(m_blocks[h + 1])) ELSE 0 .. pushed - 1
IsPlace(h, p) == h \in 0 .. CompleteBlocks /\ p \in PositionsAt(h)
TxOfPlace(h, p) == TxAt(IF h < CompleteBlocks THEN m_blocks[h + 1] ELSE PendingBlock, p)
Places == UNION {{h} \X PositionsAt(h) : h \in 0 .. CompleteBlocks}

(* What the block files hold is a chain at every moment, in the middle of  *)
(* a switch or of a rollback and after any exit or restart: it starts with *)
(* the genesis block and every block names the one before it.  The index   *)
(* of hashes agrees with it, or is being rebuilt as a prefix of it.        *)
ChainLinked ==
  /\ m_blocks # <<>> /\ m_blocks[1] = Genesis
  /\ \A i \in 2 .. Len(m_blocks) : Prev(m_blocks[i]) = m_blocks[i - 1]
  /\ IF pc = "rebuild" THEN IsPrefix(m_blockIndex, m_blocks) ELSE m_blockIndex = m_blocks

(* No two transactions of the main chain on disk spend the same key image, *)
(* whatever rejected blocks left in the indexes and whenever the process   *)
(* was killed.                                                             *)
NoDoubleSpend ==
  \A h, g \in DOMAIN m_blocks :
    \A p \in DOMAIN TxsOf(m_blocks[h]), q \in DOMAIN TxsOf(m_blocks[g]) :
      KeyImagesOf(TxsOf(m_blocks[h])[p]) \cap KeyImagesOf(TxsOf(m_blocks[g])[q]) # {}
        => h = g /\ p = q

(* The transaction map holds every transaction of the main chain at its    *)
(* place and nothing else, after any number of switches, rollbacks,        *)
(* rejected blocks and restarts, and between their steps, unless pushBlock *)
(* left a rejected block in the indexes.  In particular no transaction is  *)
(* in the chain twice.                                                     *)
TransactionMapMatches ==
  ~residue =>
    /\ \A s \in Places :
         m_transactionMap[TxOfPlace(s[1], s[2])] = [block |-> s[1], transaction |-> s[2]]
    /\ \A t \in TxId : LET ix == m_transactionMap[t] IN
         ix # NoIndex => /\ IsPlace(ix.block, ix.transaction)
                         /\ TxOfPlace(ix.block, ix.transaction) = t

(* m_spent_keys is the set of the key images that the main chain spends,   *)
(* and no two of its transactions spend the same one.                      *)
SpentKeysMatch ==
  ~residue =>
    /\ m_spent_keys = UNION {KeyImagesOf(TxOfPlace(s[1], s[2])) : s \in Places}
    /\ \A s, u \in Places :
         s # u => KeyImagesOf(TxOfPlace(s[1], s[2])) \cap KeyImagesOf(TxOfPlace(u[1], u[2])) = {}

(* The list of an amount holds every output of the main chain of that      *)
(* amount, once, in the order of the chain: the global indexes that wallets*)
(* put into rings mean the same output on every node with this chain.      *)
OutputBefore(o, q) ==
  \/ o.block < q.block
  \/ o.block = q.block /\ o.transaction < q.transaction
  \/ o.block = q.block /\ o.transaction = q.transaction /\ o.out < q.out
OutputsMatch ==
  ~residue => \A a \in Amount :
    /\ ToSet(m_outputs[a]) = UNION {ToSet(OutputsOf(TxOfPlace(s[1], s[2]), s[1], s[2])[a]) : s \in Places}
    /\ \A i, j \in DOMAIN m_outputs[a] : i < j => OutputBefore(m_outputs[a][i], m_outputs[a][j])

(* The three indexes of the main chain agree with the block files, at      *)
(* every step of pushBlock, popBlock, a switch, a rollback and a rebuild.  *)
IndexesMatch == TransactionMapMatches /\ SpentKeysMatch /\ OutputsMatch

(* The pool lists under a key image exactly the transactions that spend it.*)
PoolIndexMatches ==
  \A k \in KeyImage : m_spent_key_images[k] = {t \in m_transactions : k \in KeyImagesOf(t)}

(* When no operation runs, no transaction is both in the pool and in the   *)
(* main chain, whatever switches and rollbacks moved it: what the locks of *)
(* core::add_new_tx are for.  A process that was killed reads an old pool. *)
PoolDisjointFromChain ==
  pc = "idle" /\ ~residue /\ ~crashed =>
    \A t \in m_transactions : m_transactionMap[t] = NoIndex

(* addNewBlock changes the main chain in one of three ways or not at all:  *)
(* it appends the block, or it replaces the end of the chain by the whole  *)
(* alternative chain.  A switch that fails at any block restores the chain,*)
(* unless an exception or a failing rollback ends it.                      *)
AllOrNothing ==
  pc = "return" /\ ~aborted /\ ~panicked =>
    \/ m_blocks = before.chain
    \/ m_blocks = Append(before.chain, block)
    \/ alt_chain # <<>> /\ m_blocks = SubSeq(before.chain, 1, SplitHeight) \o alt_chain

(* The rollback of a switch never fails, and no exception interrupts an    *)
(* operation, as long as the indexes and the pool were in order.           *)
RollbackNeverFails == ~residue /\ ~crashed => ~panicked /\ ~aborted

(* A transaction that was in the main chain or in the pool when addNewBlock*)
(* began is in one of them when it returns: a reorganisation loses none.   *)
NoTransactionLost ==
  pc = "return" /\ ~aborted /\ ~residue =>
    \A t \in Tx :
      (t \in before.pool \/ \E i \in DOMAIN before.chain : t \in ToSet(TxsOf(before.chain[i])))
        => t \in m_transactions \/ m_transactionMap[t] # NoIndex

(* The main chain never ends with less work than it had, but for a switch  *)
(* that a checkpoint asks for.                                             *)
WorkNeverDecreases ==
  pc = "return" /\ ~aborted /\ ~panicked /\ ~discard =>
    CumulativeDifficulty[Last(m_blocks)] >= CumulativeDifficulty[Last(before.chain)]

(* A reader of the message queue that appends the block of a NewBlock and  *)
(* replaces its end on a ChainSwitch has the main chain: failed switches   *)
(* send nothing, and what they send is in order and complete.              *)
FollowerHasMainChain ==
  pc = "idle" /\ ~aborted /\ ~panicked => follower = m_blocks

(* A block at the height of a checkpoint never leaves the main chain, be   *)
(* it in a switch or in its rollback.  After an exception the block that a *)
(* checkpoint asks for may be left among the alternative ones, and then in *)
(* the middle of a chain that is connected and rolled back.                *)
CheckpointStays ==
  ~aborted => \A h \in DOMAIN Checkpoints : h < Len(m_blocks) =>
                h < Len(m_blocks') /\ m_blocks'[h + 1] = m_blocks[h + 1]
CheckpointsStay == [][CheckpointStays]_m_blocks

(* Every operation ends, and so does every restart.                        *)
EveryOperationEnds == []<>(pc = "idle")

-----------------------------------------------------------------------------
(* What comments, assertions and messages of the code say, and the code    *)
(* does not guarantee.                                                     *)

(* The rollback of a failed switch always restores the old chain: its      *)
(* failure is what rollback_blockchain_switching reports as PANIC.         *)
RollbackSucceeds == ~panicked
=============================================================================
