---------------------------- MODULE MCBlockchain ----------------------------
(***************************************************************************)
(* Instances of Blockchain for TLC: a catalogue of transactions and of     *)
(* blocks; a run takes a part of it.                                       *)
(***************************************************************************)
EXTENDS Blockchain

Input(k, i, t) ==
  [keyImage |-> k, amount |-> 1, ring |-> <<[index |-> i, tx |-> t, out |-> 0]>>]
Data(inputs, n, unlock, size) ==
  [inputs |-> inputs, outputs |-> [a \in {1} |-> n], unlockTime |-> unlock,
   blobSize |-> size, relayable |-> TRUE]

(* t1 and t2 spend the output of the genesis block; t3 spends the output   *)
(* of t1, which is the third of a chain only after a1; t4 spends the       *)
(* output that a1 and n1 create before it.                                 *)
MCTxInfo == [t \in TxId |->
  CASE t \in {"t1", "t2"} -> Data(<<Input("k1", 0, "cG")>>, 1, 0, 1)
    [] t = "t3" -> Data(<<Input("k3", 2, "t1")>>, 0, 0, 1)
    [] t = "t4" -> Data(<<Input("k4", 1, "ca1")>>, 0, 0, 1)
    [] t = "big" -> Data(<<Input("k7", 0, "cG")>>, 1, 0, 5)
    [] t = "cG" -> Data(<<>>, 1, 0, 1)
    [] t = "ca1" -> Data(<<>>, 1, 2, 1)
    [] t = "cbig" -> Data(<<>>, 1, 9, 5)
    [] OTHER    -> Data(<<>>, 1, 9, 1)]

(* b1, b2, .. is a chain beside a1, a2, ..; b3 spends what b1 has spent,   *)
(* e3 does not.  h1, h2 carry more work than the others.  d1 takes a wrong *)
(* reward, v1 and w1 lack proof of work, x1 and o1 are too big, n1 spends  *)
(* an output of its own block.                                             *)
MCHeight == [b \in Block |->
  CASE b = "G" -> 0
    [] b \in {"a1", "b1", "d1", "h1", "n1", "o1", "v1", "w1", "x1"} -> 1
    [] b \in {"a2", "b2", "h2", "x2"} -> 2
    [] b \in {"b3", "e3"} -> 3
    [] b = "e4" -> 4]
PrevOf(b) ==
  CASE b = "G" -> "unknown"
    [] b = "a2" -> "a1" [] b = "b2" -> "b1" [] b = "x2" -> "x1" [] b = "h2" -> "h1"
    [] b \in {"b3", "e3"} -> "b2"
    [] b = "e4" -> "e3"
    [] OTHER -> "G"
TransactionsOf(b) ==
  CASE b \in {"a1", "h1", "o1", "d1", "b3"} -> <<"t1">>
    [] b = "a2" -> <<"t3">> [] b = "b1" -> <<"t2">> [] b = "x1" -> <<"t1", "big">>
    [] b = "n1" -> <<"t4">> [] b = "w1" -> <<"t4", "t1">>
    [] OTHER -> <<>>
CoinbaseOf(b) ==
  CASE b \in {"a1", "n1"} -> "ca1" [] b = "o1" -> "cbig"
    [] OTHER -> CASE MCHeight[b] = 0 -> "cG" [] MCHeight[b] = 1 -> "c1" [] MCHeight[b] = 2 -> "c2"
                  [] MCHeight[b] = 3 -> "c3" [] MCHeight[b] = 4 -> "c4"

MCBlockInfo == [b \in Block |->
  [ previousBlockHash |-> PrevOf(b),
    transactionHashes |-> TransactionsOf(b),
    baseTransaction   |-> CoinbaseOf(b),
    blockIndex        |-> MCHeight[b],
    timestampMain     |-> TRUE,
    timestampAlt      |-> TRUE,
    proofOfWork       |-> b \notin {"v1", "w1"},
    minerTx           |-> TRUE,
    reward            |-> b # "d1" ]]
MCCumulativeDifficulty == [b \in Block |->
  CASE b = "h1" -> 8 [] b = "h2" -> 10 [] OTHER -> 2 * MCHeight[b] + 1]

MCCoinbase == {"cG", "ca1", "cbig", "c1", "c2", "c3", "c4"}

NoCheckpoints == <<>>
Checkpoint4 == 4 :> "e4"
=============================================================================
