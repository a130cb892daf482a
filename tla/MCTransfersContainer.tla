------------------------ MODULE MCTransfersContainer ------------------------
EXTENDS TransfersContainer

(* Two outputs with one key image (a and d) and a multisignature output    *)
(* (d); a transaction of the wallet that spends the multisignature output  *)
(* and then the first with the key image (b); one of a second copy of the  *)
(* wallet that spends the second with the key image (c); and one without a *)
(* public key that spends what c creates (n).                              *)
Key(image, amount) == [type |-> "key", image |-> image, amount |-> amount]
Multisignature(amount) == [type |-> "multisignature", amount |-> amount]
MCTx == {"a", "d", "b", "c", "n"}
MCOutputs == [t \in MCTx |->
  CASE t = "a" -> <<Key("k1", 5)>>
    [] t = "d" -> <<Key("k1", 7), Multisignature(3)>>
    [] t = "b" -> <<Multisignature(4)>>
    [] t = "c" -> <<Key("k2", 4)>>
    [] t = "n" -> <<>>]
MCInputs == [t \in MCTx |->
  CASE t = "b" -> <<[type |-> "multisignature", amount |-> 3, index |-> 0], Key("k1", 5)>>
    [] t = "c" -> <<Key("k1", 7)>>
    [] t = "n" -> <<Key("k2", 4)>>
    [] OTHER -> <<>>]
=============================================================================
