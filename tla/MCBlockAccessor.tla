--------------------------- MODULE MCBlockAccessor ---------------------------
(* An instance of BlockAccessor for TLC: items of one and of two cells.    *)
EXTENDS BlockAccessor

MCSize == [x \in Item |-> IF x = "long" THEN 2 ELSE 1]
=============================================================================
