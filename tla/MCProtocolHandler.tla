------------------------- MODULE MCProtocolHandler -------------------------
EXTENDS ProtocolHandler

(* Two forks over the genesis block, of which each in turn has the most    *)
(* work; the second ends in a block that is rejected.  The first is longer *)
(* than a chain entry, and a chain entry than a request.                   *)
MCBlock == {"g", "a1", "a2", "a3", "a4", "b1", "b2"}
MCParent == [b \in MCBlock \ {"g"} |->
  CASE b = "a2" -> "a1" [] b = "a3" -> "a2" [] b = "a4" -> "a3" [] b = "b2" -> "b1" [] OTHER -> "g"]
MCWork == [b \in MCBlock |->
  CASE b = "g" -> 0 [] b = "a1" -> 1 [] b = "b1" -> 2 [] b = "a2" -> 3
    [] b = "b2" -> 4 [] b = "a3" -> 5 [] b = "a4" -> 6]
MCInitialTip == [c \in Conn |-> IF c = 1 THEN "a3" ELSE "b1"]

(* A fork that is shorter and has more work.                               *)
ShortBlock == {"g", "a1", "a2", "b1"}
ShortParent == [b \in ShortBlock \ {"g"} |-> IF b = "a2" THEN "a1" ELSE "g"]
ShortWork == [b \in ShortBlock |->
  CASE b = "g" -> 0 [] b = "a1" -> 1 [] b = "a2" -> 2 [] b = "b1" -> 3]
ShortTip == [c \in Conn |-> "a2"]
=============================================================================
