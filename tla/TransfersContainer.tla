------------------------- MODULE TransfersContainer -------------------------
(***************************************************************************)
(* src/transfers: one TransfersConsumer with one subscription, whose       *)
(* TransfersContainer holds the outputs that belong to a wallet and what   *)
(* has become of them.  The worker thread of the BlockchainSynchronizer    *)
(* calls the consumer with blocks, detached heights and changes of the     *)
(* transaction pool; the wallet adds and removes the transactions that it  *)
(* sends itself.  One call is one step: the container is locked in each.   *)
(* An exception leaves what was done before it in the container.  That of  *)
(* a batch of blocks and that of a transaction of the wallet are caught    *)
(* and the worker goes on; that of a pool update ends the process.         *)
(* A transaction is known by its outputs to the wallet and by its inputs   *)
(* that spend such outputs.  Several outputs may have one key image: they  *)
(* differ in their amounts, and only one of them can ever be spent.        *)
(***************************************************************************)
EXTENDS Integers, SequencesExt

CONSTANTS
  Tx,             \* transactions
  Outputs,        \* of each transaction to the wallet: a sequence of records
  Inputs,         \* of each transaction from the wallet: a sequence of records
  Own,            \* transactions that this wallet sends itself
  Keyless,        \* transactions without a public key
  SpendableAge,   \* m_transactionSpendableAge
  MaxHeight,      \* bound: height of the chain
  MaxBlockTxs,    \* bound: transactions of a block
  MaxBatch,       \* bound: blocks of a batch, 1 or 2
  MaxFaults,      \* bound: exceptions and refusals together
  SameBlockSpend, \* whether a block may spend an output that it creates
  DetachSending   \* whether blocks may be detached while the wallet waits for the worker

ASSUME TransfersAssumption ==
  /\ Outputs \in [Tx -> Seq([type : {"key"}, image : STRING, amount : Nat]
                             \cup [type : {"multisignature"}, amount : Nat])]
  /\ Inputs \in [Tx -> Seq([type : {"key"}, image : STRING, amount : Nat]
                            \cup [type : {"multisignature"}, amount : Nat, index : Nat])]
  /\ SpendableAge \in Nat /\ MaxHeight \in Nat /\ MaxBlockTxs \in Nat
  /\ MaxBatch \in 1..2 /\ MaxFaults \in Nat
  /\ Keyless \subseteq Tx /\ \A t \in Keyless : Outputs[t] = <<>>
  /\ IsFiniteSet(Tx) /\ Own \subseteq Tx /\ SameBlockSpend \in BOOLEAN /\ DetachSending \in BOOLEAN

VARIABLES
  chain,     \* the blocks that the consumer has taken, from height 1
  refused,   \* the blocks that it refused, when lastBlockId is the last of them
  outdated,  \* whether the node's top is another block than lastBlockId
  container, \* the members of the TransfersContainer
  m_poolTxs, \* transactions of the pool that the consumer knows
  outgoing,  \* the transaction that the wallet is sending, if any
  sent,      \* transactions of this wallet that the network may have seen
  failed,    \* transactions of this wallet that the container did not take
  ended,     \* whether an exception has ended the process
  faults,    \* history: the exceptions that left the consumer, and its refusals
  doubtful   \* history: the transactions that may have been left half done

vars == <<chain, refused, outdated, container, m_poolTxs, outgoing, sent, failed, ended, faults,
          doubtful>>
node == <<chain, refused, outdated>>
wallet == <<outgoing, sent, failed>>
errors == <<ended, faults, doubtful>>

(* The height and the global index of what is not in a block; the largest  *)
(* 32-bit number in the code.                                              *)
Unconfirmed == 1000
Quiet == "none"

EmptyContainer ==
  [m_transactions |-> <<>>,           \* ordered by height, as its second index
   m_unconfirmedTransfers |-> {}, m_availableTransfers |-> {}, m_spentTransfers |-> {},
   m_currentHeight |-> 0, exception |-> Quiet]

Init ==
  /\ chain = <<>> /\ refused = <<>> /\ outdated = FALSE
  /\ container = EmptyContainer /\ m_poolTxs = {}
  /\ outgoing = [stage |-> "none"] /\ sent = {} /\ failed = {}
  /\ ended = FALSE /\ faults = <<>> /\ doubtful = {}

-----------------------------------------------------------------------------
(* The chain of the node, which gives out only valid blocks.               *)

TxsOf(ch) == FlattenSeq(ch)
Confirmed == ToSet(TxsOf(chain))

(* The multisignature outputs of an amount are numbered along the chain.   *)
SameAmount(t, amount) ==
  Len(SelectSeq(Outputs[t], LAMBDA o : o.type = "multisignature" /\ o.amount = amount))
GlobalIndex(txs, k, n) ==
  LET amount == Outputs[txs[k]][n].amount
  IN FoldLeft(LAMBDA sum, t : sum + SameAmount(t, amount), 0, SubSeq(txs, 1, k - 1))
     + Len(SelectSeq(SubSeq(Outputs[txs[k]], 1, n - 1),
                     LAMBDA o : o.type = "multisignature" /\ o.amount = amount))

(* SpentOutputDescriptor of an output with a global index, and of an input. *)
Descriptor(out, index) ==
  IF out.type = "key" THEN <<"key", out.image>> ELSE <<"multisignature", out.amount, index>>
SpentDescriptor(in) ==
  IF in.type = "key" THEN <<"key", in.image>> ELSE <<"multisignature", in.amount, in.index>>

Created(txs) ==
  UNION {{<<Descriptor(Outputs[txs[k]][n], GlobalIndex(txs, k, n)), Outputs[txs[k]][n].amount>> :
            n \in DOMAIN Outputs[txs[k]]} : k \in DOMAIN txs}
Spent(txs) == UNION {{SpentDescriptor(i) : i \in ToSet(Inputs[txs[k]])} : k \in DOMAIN txs}

Public == (Tx \ Own) \cup sent

(* A transaction can follow txs when the outputs that it spends are among  *)
(* those created, and are not spent.                                       *)
CanFollow(t, txs, created) ==
  /\ t \notin ToSet(txs)
  /\ \A i \in ToSet(Inputs[t]) :
       <<SpentDescriptor(i), i.amount>> \in created /\ SpentDescriptor(i) \notin Spent(txs)
Followers(ch) ==
  LET created == Created(TxsOf(ch)) IN {t \in Public : CanFollow(t, TxsOf(ch), created)}
BlocksAfter(ch) ==
  LET created == Created(TxsOf(ch))
      Ahead(b, k) == TxsOf(ch) \o SubSeq(b, 1, k - 1)
  IN IF Len(ch) >= MaxHeight THEN {}
     ELSE {b \in BoundedSeq(Public \ ToSet(TxsOf(ch)), MaxBlockTxs) : \A k \in DOMAIN b :
             CanFollow(b[k], Ahead(b, k), IF SameBlockSpend THEN Created(Ahead(b, k)) ELSE created)}

(* What follows the chain of the consumer at the node, which may have      *)
(* changed since the last question.                                        *)
Batches ==
  UNION {{<<b>>} \cup {<<b, d>> : d \in IF MaxBatch = 1 THEN {} ELSE BlocksAfter(Append(chain, b))} :
           b \in BlocksAfter(chain)}

(* get_difference of the node's pool counts only transactions that could   *)
(* be in the next block.  Some of them may spend the same output, for the  *)
(* pool takes the transactions of a block that came off as they are.       *)
ReadyPool(ch) == SUBSET Followers(ch)

-----------------------------------------------------------------------------
(* TransfersContainer.                                                     *)

Throw(c, what) == [c EXCEPT !.exception = what]
Failed(c) == c.exception # Quiet

HeightOf(c, t) == (CHOOSE i \in ToSet(c.m_transactions) : i.tx = t).height
Recorded(c, t) == \E i \in ToSet(c.m_transactions) : i.tx = t

(* The elements of s that are in S, in their order.                        *)
KeepItem(arg, kept, k) == IF arg.s[k] \in arg.S THEN Append(kept, arg.s[k]) ELSE kept
Filter == INSTANCE Loop WITH Round <- KeepItem
Only(s, S) == Filter!Rounds([s |-> s, S |-> S], <<>>, Len(s))

(* Insertion behind the transactions of the same height.                   *)
InsertTransaction(c, t, height) ==
  LET txs == c.m_transactions
      lower == {i \in ToSet(txs) : i.height <= height}
  IN [c EXCEPT !.m_transactions =
        Only(txs, lower) \o <<[tx |-> t, height |-> height]>> \o Only(txs, ToSet(txs) \ lower)]
EraseTransaction(c, t) ==
  [c EXCEPT !.m_transactions = Only(@, {i \in ToSet(@) : i.tx # t})]

With(S, d) == {x \in S : x.desc = d}
Before(x, y) == x.height < y.height \/ (x.height = y.height /\ x.index < y.index)
Earliest(S) == CHOOSE x \in S : \A y \in S : ~Before(y, x)

(* Of the outputs with one key image none is visible when one is spent;    *)
(* else it is the earliest in the chain; else one that is alone in the     *)
(* pool.                                                                   *)
First(c, x) ==
  With(c.m_spentTransfers, x.desc) = {} /\ x = Earliest(With(c.m_availableTransfers, x.desc))
Alone(c, x) ==
  /\ With(c.m_spentTransfers, x.desc) = {} /\ With(c.m_availableTransfers, x.desc) = {}
  /\ With(c.m_unconfirmedTransfers, x.desc) = {x}
Mark(x, keys, visible) == IF x.desc \in keys THEN [x EXCEPT !.visible = visible] ELSE x

(* Mutant: what is in the pool stays visible.                              *)
updateKeepingUnconfirmed(c, descs) ==
  LET keys == {d \in descs : d[1] = "key"}
  IN [c EXCEPT !.m_availableTransfers = {Mark(x, keys, First(c, x)) : x \in @}]
updateTransfersVisibility(c, descs) ==
  LET keys == {d \in descs : d[1] = "key"}
  IN [c EXCEPT !.m_unconfirmedTransfers = {Mark(x, keys, Alone(c, x)) : x \in @},
               !.m_availableTransfers = {Mark(x, keys, First(c, x)) : x \in @},
               !.m_spentTransfers = {Mark(x, keys, TRUE) : x \in @}]

AlreadyExists(c, x) ==
  /\ x.desc[1] = "multisignature"
  /\ With(c.m_availableTransfers, x.desc) \cup With(c.m_spentTransfers, x.desc) # {}

(* m_unconfirmedTransfers and m_availableTransfers may hold an output more *)
(* than once; copy tells such elements apart, wherever they go.            *)
Copies(c, t, n) ==
  {x.copy : x \in {y \in c.m_unconfirmedTransfers \cup c.m_availableTransfers \cup c.m_spentTransfers :
                     y.tx = t /\ y.out = n}}
NewCopy(c, t, n) == Min((1 .. Cardinality(Copies(c, t, n)) + 1) \ Copies(c, t, n))

(* The block of a transaction is known by its height, the position of the  *)
(* transaction in it and the global indexes of its outputs; the pool       *)
(* leaves the position undefined, and nothing reads it.                    *)
PoolBlock(t) ==
  [height |-> Unconfirmed, index |-> 0, globals |-> [n \in DOMAIN Outputs[t] |-> Unconfirmed]]
Transfer(block, t, n, copy) ==
  [tx |-> t, out |-> n, copy |-> copy, desc |-> Descriptor(Outputs[t][n], block.globals[n]),
   amount |-> Outputs[t][n].amount, height |-> block.height, index |-> block.index,
   visible |-> TRUE]

AddOutput(arg, c, n) ==
  LET x == Transfer(arg.block, arg.tx, n, NewCopy(c, arg.tx, n))
  IN IF Failed(c) THEN c
     ELSE IF arg.block.height = Unconfirmed
     THEN updateTransfersVisibility([c EXCEPT !.m_unconfirmedTransfers = @ \cup {x}], {x.desc})
     ELSE IF AlreadyExists(c, x) THEN Throw(c, "Transfer already exists")
     ELSE updateTransfersVisibility([c EXCEPT !.m_availableTransfers = @ \cup {x}], {x.desc})
AddOutputs == INSTANCE Loop WITH Round <- AddOutput
addTransactionOutputs(c, block, t) ==
  AddOutputs!Rounds([block |-> block, tx |-> t], c, Len(Outputs[t]))

FindAny(S, amount) == S
findFirstByAmount(S, amount) == {x \in S : x.amount = amount}

copyToSpent(c, block, t, x) ==
  [c EXCEPT !.m_spentTransfers =
     @ \cup {[tx |-> x.tx, out |-> x.out, copy |-> x.copy, desc |-> x.desc, amount |-> x.amount,
              height |-> x.height, index |-> x.index, visible |-> x.visible, by |-> t,
              spendingHeight |-> block.height]}]

SpendOutput(c, block, t, x) ==
  updateTransfersVisibility([copyToSpent(c, block, t, x) EXCEPT !.m_availableTransfers = @ \ {x}],
                            {x.desc})
AddInput(arg, c, k) ==
  LET in == Inputs[arg.tx][k]
      d == SpentDescriptor(in)
      available == With(c.m_availableTransfers, d)
      matching == findFirstByAmount(available, in.amount)
  IN IF Failed(c) THEN c
     ELSE IF in.type = "multisignature"
     THEN IF available = {} THEN c ELSE SpendOutput(c, arg.block, arg.tx, Earliest(available))
     ELSE IF With(c.m_spentTransfers, d) # {} THEN Throw(c, "Spending already spent transfer")
     ELSE IF available = {}
     THEN IF With(c.m_unconfirmedTransfers, d) # {}
          THEN Throw(c, "Spending unconfirmed transfer") ELSE c
     ELSE IF matching = {} THEN Throw(c, "Input has invalid amount")
     ELSE SpendOutput(c, arg.block, arg.tx, Earliest(matching))
AddInputs == INSTANCE Loop WITH Round <- AddInput
addTransactionInputs(c, block, t) ==
  AddInputs!Rounds([block |-> block, tx |-> t], c, Len(Inputs[t]))

LowerBlock == "Cannot add transaction from block < m_currentHeight"
addTransaction(c, block, t) ==
  LET withOutputs == addTransactionOutputs(c, block, t)
      added == addTransactionInputs(withOutputs, block, t)
      recorded == IF Outputs[t] = <<>> /\ added.m_spentTransfers = c.m_spentTransfers THEN added
                  ELSE InsertTransaction(added, t, block.height)
  IN IF block.height < c.m_currentHeight THEN Throw(c, LowerBlock)
     ELSE IF Recorded(c, t) THEN Throw(c, "transaction_t is already added")
     ELSE IF Failed(added) THEN added
     ELSE IF block.height = Unconfirmed THEN recorded
     ELSE [recorded EXCEPT !.m_currentHeight = block.height]

(* What the transaction spent is available again, and what it created is   *)
(* gone, unless another transaction has spent it.                          *)
deleteTransactionTransfers(c, t) ==
  LET Unspent(x) == [tx |-> x.tx, out |-> x.out, copy |-> x.copy, desc |-> x.desc,
                     amount |-> x.amount, height |-> x.height, index |-> x.index,
                     visible |-> x.visible]
      spent == {x \in c.m_spentTransfers : x.by = t}
      available == c.m_availableTransfers \cup {Unspent(x) : x \in spent}
      created == {x \in c.m_unconfirmedTransfers \cup available : x.tx = t}
  IN updateTransfersVisibility([c EXCEPT !.m_spentTransfers = @ \ spent,
                                         !.m_availableTransfers = available \ created,
                                         !.m_unconfirmedTransfers = @ \ created],
                               {x.desc : x \in spent \cup created})

deleteUnconfirmedTransaction(c, t) ==
  IF Recorded(c, t) /\ HeightOf(c, t) = Unconfirmed
  THEN EraseTransaction(deleteTransactionTransfers(c, t), t) ELSE c

ConfirmOutput(arg, c, k) ==
  LET y == arg.transfers[k]
      old == {z \in c.m_unconfirmedTransfers : z.tx = y.tx /\ z.out = y.out /\ z.copy = y.copy}
      x == Transfer(arg.block, y.tx, y.out, y.copy)
  IN IF Failed(c) THEN c
     ELSE IF AlreadyExists(c, x) THEN Throw(c, "Transfer already exists")
     ELSE updateTransfersVisibility([c EXCEPT !.m_availableTransfers = @ \cup {x},
                                              !.m_unconfirmedTransfers = @ \ old], {x.desc})
ConfirmOutputs == INSTANCE Loop WITH Round <- ConfirmOutput
markTransactionConfirmed(c, block, t) ==
  LET moved == InsertTransaction(EraseTransaction(c, t), t, block.height)
      transfers == SetToSeq({x \in c.m_unconfirmedTransfers : x.tx = t})
      confirmed == ConfirmOutputs!Rounds([block |-> block, transfers |-> transfers], moved,
                                         Len(transfers))
  IN IF ~(Recorded(c, t) /\ HeightOf(c, t) = Unconfirmed) THEN c
     ELSE IF Failed(confirmed) THEN confirmed
     ELSE [confirmed EXCEPT !.m_spentTransfers =
             {IF x.by = t THEN [x EXCEPT !.spendingHeight = block.height] ELSE x : x \in @}]

MustDeleteAbove(c, i, height) ==
  IF i.height = Unconfirmed
  THEN \E x \in c.m_spentTransfers : x.by = i.tx /\ x.height > height
  ELSE i.height > height
MustDelete(c, i, height) ==
  IF i.height = Unconfirmed
  THEN \E x \in c.m_spentTransfers : x.by = i.tx /\ x.height >= height
  ELSE i.height >= height

(* From the highest transaction down to the first that stays in the chain. *)
DetachTransaction(arg, s, k) ==
  LET i == arg.txs[Len(arg.txs) + 1 - k]
  IN IF s.done THEN s
     ELSE IF MustDelete(s.c, i, arg.height)
     THEN [s EXCEPT !.c = EraseTransaction(deleteTransactionTransfers(@, i.tx), i.tx)]
     ELSE [s EXCEPT !.done = i.height # Unconfirmed]
DetachTransactions == INSTANCE Loop WITH Round <- DetachTransaction
detach(c, height) ==
  LET txs == c.m_transactions
      end == DetachTransactions!Rounds([txs |-> txs, height |-> height],
                                       [c |-> c, done |-> FALSE], Len(txs)).c
  IN [end EXCEPT !.m_currentHeight = IF height = 0 THEN 0 ELSE height - 1]

advanceHeight(c, height) ==
  IF c.m_currentHeight <= height THEN [c EXCEPT !.m_currentHeight = height] ELSE c

(* The outputs that the wallet may spend.                                  *)
isIncludedUnlocked(c, x) ==
  x.visible /\ x.height # Unconfirmed /\ c.m_currentHeight >= x.height + SpendableAge

-----------------------------------------------------------------------------
(* TransfersConsumer.                                                      *)

(* A transaction that the container has in a block is left there; that it  *)
(* is the same block is only asserted.                                     *)
processAgain(c, block, t) == addTransaction(c, block, t)
processOutputs(c, block, t) ==
  IF ~Recorded(c, t) THEN addTransaction(c, block, t)
  ELSE IF HeightOf(c, t) = Unconfirmed /\ block.height # Unconfirmed
  THEN markTransactionConfirmed(c, block, t) ELSE c

(* The end of a call, which may be an exception.                           *)
Finish(c, caught) ==
  /\ ~ended
  /\ container' = [c EXCEPT !.exception = Quiet]
  /\ IF Failed(c)
     THEN Len(faults) < MaxFaults /\ faults' = Append(faults, c.exception) /\ ended' = ~caught
     ELSE UNCHANGED <<ended, faults>>

(* Of the transactions of a call that ends with an exception it is unknown *)
(* how far they got, and an output that one of them has spent stays so     *)
(* when its own transaction goes.                                          *)
HalfDone(c, txs) ==
  IF Failed(c) THEN txs \cup {x.tx : x \in {y \in c.m_spentTransfers : y.by \in txs}} ELSE {}

BlockOf(before, b, k) ==
  LET txs == TxsOf(before) \o b
  IN [height |-> Len(before) + 1, index |-> k,
      globals |-> [n \in DOMAIN Outputs[b[k]] |-> GlobalIndex(txs, Len(TxsOf(before)) + k, n)]]

(* The base transaction of a block concerns somebody else, but it is given *)
(* to the container.                                                       *)
BaseTransaction(c, height) ==
  IF Failed(c) THEN c ELSE IF height < c.m_currentHeight THEN Throw(c, LowerBlock)
  ELSE [c EXCEPT !.m_currentHeight = height]
ProcessTransaction(arg, c, k) ==
  IF Failed(c) \/ arg.block[k] \in Keyless THEN c
  ELSE processOutputs(c, BlockOf(arg.before, arg.block, k), arg.block[k])
ProcessTransactions == INSTANCE Loop WITH Round <- ProcessTransaction
ProcessBlock(arg, c, k) ==
  LET before == arg.before \o SubSeq(arg.batch, 1, k - 1)
      b == arg.batch[k]
  IN ProcessTransactions!Rounds([before |-> before, block |-> b],
                                BaseTransaction(c, Len(before) + 1), Len(b))
ProcessBlocks == INSTANCE Loop WITH Round <- ProcessBlock

(* The chain of the consumer grows when the whole batch was processed; an  *)
(* exception leaves lastBlockId where it was.                              *)
onNewBlocks(batch) ==
  LET c == ProcessBlocks!Rounds([before |-> chain, batch |-> batch], container, Len(batch))
      height == Len(chain) + Len(batch)
  IN /\ Finish(IF Failed(c) THEN c ELSE advanceHeight(c, height), TRUE)
     /\ doubtful' = doubtful \cup HalfDone(c, ToSet(TxsOf(batch)))
     /\ IF Failed(c)
        THEN outdated' = (outdated \/ batch # refused) /\ UNCHANGED <<chain, refused>>
        ELSE chain' = chain \o batch /\ refused' = <<>> /\ outdated' = FALSE
     /\ UNCHANGED <<m_poolTxs, wallet>>

(* The node fails to tell the global indexes of some output of the blocks. *)
(* lastBlockId moves all the same.                                         *)
Refusal == "refused"
onNewBlocksFails(batch) ==
  /\ ~ended /\ Len(faults) < MaxFaults
  /\ \E t \in ToSet(TxsOf(batch)) : Outputs[t] # <<>>
  /\ container' = detach(container, Len(chain) + 1)
  /\ faults' = Append(faults, Refusal) /\ refused' = batch /\ outdated' = FALSE
  /\ UNCHANGED <<chain, m_poolTxs, wallet, ended, doubtful>>

(* Other blocks follow in the same call of the synchronizer.               *)
onBlockchainDetach(height) ==
  /\ outgoing.stage = "prepared" => DetachSending
  /\ Finish(detach(container, height), TRUE)
  /\ chain' = SubSeq(chain, 1, height - 1) /\ refused' = <<>> /\ outdated' = TRUE
  /\ UNCHANGED <<m_poolTxs, wallet, doubtful>>

(* Additions come before deletions.  Nobody catches an exception.  What a  *)
(* transaction spends of blocks that were refused is not found.            *)
AddFromPool(txs, c, k) == IF Failed(c) THEN c ELSE processOutputs(c, PoolBlock(txs[k]), txs[k])
DeleteFromPool(txs, c, k) == deleteUnconfirmedTransaction(c, txs[k])
Additions == INSTANCE Loop WITH Round <- AddFromPool
Deletions == INSTANCE Loop WITH Round <- DeleteFromPool
onPoolUpdated(added, deleted) ==
  LET c == Additions!Rounds(added, container, Len(added))
  IN /\ Finish(IF Failed(c) THEN c ELSE Deletions!Rounds(deleted, c, Len(deleted)), FALSE)
     /\ doubtful' = doubtful \cup (ToSet(added) \ Followers(chain))
     /\ m_poolTxs' = IF Failed(c) THEN m_poolTxs ELSE (m_poolTxs \cup ToSet(added)) \ ToSet(deleted)
     /\ UNCHANGED <<node, wallet>>

(* The node tells the changes of its pool to who knows its top; a consumer *)
(* that has refused blocks then gets the pool of a chain it does not have. *)
PoolSync(pool) ==
  /\ ~outdated
  /\ \E added \in SetToSeqs(pool \ m_poolTxs), deleted \in SetToSeqs(m_poolTxs \ pool) :
       onPoolUpdated(added, deleted)

(* The wallet builds a transaction from its outputs, has it added on the   *)
(* worker thread, relays it, and has it removed when that fails.           *)
Prepare(t) ==
  /\ ~ended /\ outgoing.stage = "none" /\ t \notin sent \cup failed
  /\ \A i \in ToSet(Inputs[t]) : \E x \in container.m_availableTransfers :
       x.desc = SpentDescriptor(i) /\ x.amount = i.amount /\ isIncludedUnlocked(container, x)
  /\ outgoing' = [stage |-> "prepared", tx |-> t]
  /\ UNCHANGED <<node, container, m_poolTxs, sent, failed, errors>>

(* A transaction that the container does not take is not relayed, and the  *)
(* wallet has it as failed.                                                *)
addUnconfirmedTransaction ==
  LET t == outgoing.tx
      c == processOutputs(container, PoolBlock(t), t)
  IN /\ outgoing.stage = "prepared"
     /\ Finish(c, TRUE) /\ doubtful' = doubtful \cup HalfDone(c, {t})
     /\ IF Failed(c) THEN outgoing' = [stage |-> "none"] /\ failed' = failed \cup {t} /\ UNCHANGED sent
        ELSE outgoing' = [outgoing EXCEPT !.stage = "added"] /\ sent' = sent \cup {t} /\ UNCHANGED failed
     /\ UNCHANGED <<node, m_poolTxs>>

Relayed ==
  /\ ~ended /\ outgoing.stage = "added" /\ outgoing' = [stage |-> "none"]
  /\ UNCHANGED <<node, container, m_poolTxs, sent, failed, errors>>
removeUnconfirmedTransaction ==
  /\ outgoing.stage = "added" /\ outgoing' = [stage |-> "none"]
  /\ Finish(deleteUnconfirmedTransaction(container, outgoing.tx), TRUE)
  /\ UNCHANGED <<node, m_poolTxs, sent, failed, doubtful>>

(* save writes m_transactions in the order of its hashed index, and load   *)
(* inserts them in the order in which they were written; the pool that the *)
(* consumer knows is then what is unconfirmed, and lastBlockId is set by   *)
(* the next answer of the node.                                            *)
LoadTransaction(written, c, k) == InsertTransaction(c, written[k].tx, written[k].height)
LoadTransactions == INSTANCE Loop WITH Round <- LoadTransaction
SaveAndLoad ==
  /\ ~ended /\ outgoing.stage = "none"
  /\ LET txs == container.m_transactions
     IN \E written \in [DOMAIN txs -> ToSet(txs)] :
          /\ ToSet(written) = ToSet(txs)
          /\ container' = LoadTransactions!Rounds(written, [container EXCEPT !.m_transactions = <<>>],
                                                  Len(txs))
  /\ m_poolTxs' = {i.tx : i \in {j \in ToSet(container.m_transactions) : j.height = Unconfirmed}}
  /\ refused' = <<>> /\ outdated' = (outdated \/ refused # <<>>)
  /\ UNCHANGED <<chain, wallet, errors>>

Next ==
  \/ \E batch \in Batches : onNewBlocks(batch) \/ onNewBlocksFails(batch)
  \/ \E height \in 1..Len(chain) : onBlockchainDetach(height)
  \/ \E pool \in ReadyPool(chain \o refused) : PoolSync(pool)
  \/ \E t \in Own : Prepare(t)
  \/ addUnconfirmedTransaction \/ Relayed \/ removeUnconfirmedTransaction
  \/ SaveAndLoad

Spec == Init /\ [][Next]_vars

-----------------------------------------------------------------------------
(* Properties.                                                             *)

Unspent == container.m_availableTransfers
Held == Unspent \cup container.m_spentTransfers
Pending == {i.tx : i \in {j \in ToSet(container.m_transactions) : j.height = Unconfirmed}}
Place(x) == <<x.tx, x.out, x.desc, x.height>>
PlacesOnChain ==
  LET txs == TxsOf(chain)
      Height(k) == CHOOSE h \in DOMAIN chain :
        Len(TxsOf(SubSeq(chain, 1, h - 1))) < k /\ k <= Len(TxsOf(SubSeq(chain, 1, h)))
  IN UNION {{<<txs[k], n, Descriptor(Outputs[txs[k]][n], GlobalIndex(txs, k, n)), Height(k)>> :
               n \in DOMAIN Outputs[txs[k]]} : k \in DOMAIN txs}
Sound(S) == {x \in S : x.tx \notin doubtful}

(* However the chain came about - blocks detached and connected again,     *)
(* transactions that were seen in the pool first, refused batches,         *)
(* exceptions, a restart - the container holds each output of the          *)
(* transactions in the chain once, at its height and under its global      *)
(* index, and each output of the recorded unconfirmed transactions once.   *)
(* An exception does no harm to the outputs of other transactions than     *)
(* those it left half processed and those whose outputs these had spent.   *)
OutputsFollowChain ==
  ~ended =>
    /\ {Place(x) : x \in Sound(Held)} = {place \in PlacesOnChain : place[1] \notin doubtful}
    /\ \A x, y \in Sound(Held) : Place(x) = Place(y) => x = y
    /\ {<<x.tx, x.out>> : x \in Sound(container.m_unconfirmedTransfers)} =
         UNION {{<<t, n>> : n \in DOMAIN Outputs[t]} : t \in Pending \ doubtful}
    /\ \A x, y \in Sound(container.m_unconfirmedTransfers) : x.tx = y.tx /\ x.out = y.out => x = y

(* An output is counted as spent exactly when a transaction that is in the *)
(* chain or that the container has as unconfirmed spends it: the container *)
(* never offers an output that the chain has spent.  Excepted are what an  *)
(* exception has left half processed, and the transactions in blocks that  *)
(* have no public key, at which the consumer does not look.                *)
Creators(d, amount) ==
  LET txs == TxsOf(chain)
  IN {txs[k] : k \in {j \in DOMAIN txs : \E n \in DOMAIN Outputs[txs[j]] :
        /\ Outputs[txs[j]][n].amount = amount
        /\ Descriptor(Outputs[txs[j]][n], GlobalIndex(txs, j, n)) = d}}
SpendsFollowChain ==
  ~ended =>
    {<<x.by, x.desc, x.amount>> : x \in {y \in Sound(container.m_spentTransfers) : y.by \notin doubtful}} =
      UNION {{<<t, SpentDescriptor(i), i.amount>> :
                i \in {j \in ToSet(Inputs[t]) : Creators(SpentDescriptor(j), j.amount) \notin SUBSET doubtful}} :
               t \in ((Confirmed \ Keyless) \cup Pending) \ doubtful}

(* Visibility is not left behind by the changes of a key image's outputs:  *)
(* at most one of them is spent, as updateTransfersVisibility asserts, and *)
(* then none of the others is counted in the balance; otherwise the        *)
(* earliest is counted when some are in the chain, and the one in the pool *)
(* when it is alone.                                                       *)
OneVisiblePerKeyImage ==
  \A d \in {x.desc : x \in {y \in Unspent \cup container.m_unconfirmedTransfers : y.desc[1] = "key"}} :
    LET available == With(Unspent, d)
        unconfirmed == With(container.m_unconfirmedTransfers, d)
        spent == With(container.m_spentTransfers, d)
        counted == {x \in available \cup unconfirmed : x.visible}
    IN /\ \A x, y \in spent : x = y
       /\ IF spent # {} THEN counted = {}
          ELSE IF available # {} THEN \E x \in available : counted = {x} /\ \A y \in available : ~Before(y, x)
          ELSE counted = {x \in unconfirmed : unconfirmed = {x}}

(* Of the exceptions of the container and the consumer only one can come   *)
(* first when the chain and the pool are valid and no block was refused: a *)
(* second transaction spends a key image before the consumer has learnt    *)
(* that the first, which it has as unconfirmed, is gone, or the wallet     *)
(* sends a transaction that was overtaken.                                 *)
Overtaken(x) ==
  \/ x.spendingHeight = Unconfirmed
  \/ outgoing.stage = "prepared" /\ x.desc \in Spent(<<outgoing.tx>>)
Thrown(met) == ToSet(met) \ {Refusal}
OnlyDoubleSpendThrows ==
  [][Thrown(faults) = {} /\ Thrown(faults') # {} /\ refused = <<>> =>
       /\ Thrown(faults') = {"Spending already spent transfer"}
       /\ \E x \in container'.m_spentTransfers :
            /\ Overtaken(x)
            /\ \E t \in Public' \cup failed' : t # x.by /\ x.desc \in Spent(<<t>>)]_vars
=============================================================================
