---------------------- MODULE MCBlockchainSynchronizer ----------------------
(* Instances of BlockchainSynchronizer for TLC. *)
EXTENDS BlockchainSynchronizer

(* Two forks over the genesis block, of which each in turn has the most    *)
(* work.                                                                   *)
MCBlock == {"g", "a1", "b1", "a2"}
MCParent == [b \in MCBlock \ {"g"} |-> IF b = "a2" THEN "a1" ELSE "g"]
MCWork == [b \in MCBlock |-> CASE b = "g" -> 0 [] b = "a1" -> 1 [] b = "b1" -> 2 [] b = "a2" -> 3]

(* Two calls are two starts, or a start and a task.                        *)
None == [s \in Steps |-> 0]
TwoCalls == [None EXCEPT !["change"] = 2, !["call"] = 2]
Failing == [TwoCalls EXCEPT !["failure"] = 1]
=============================================================================
