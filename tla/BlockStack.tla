----------------------------- MODULE BlockStack -----------------------------
(***************************************************************************)
(* What BlockAccessor, the container of the main chain, promises: a stack  *)
(* of items that outlives the process, but for its last item.  The bytes   *)
(* of the last item may still be in the buffer of a stream when its number *)
(* is already on disk; a process that is killed then finds another item in *)
(* its place, or bytes that are none.  No earlier item is ever touched.    *)
(***************************************************************************)
EXTENDS Sequences, SequencesExt

CONSTANTS Item, Bad
VARIABLES stack, durable   \* durable: the last item would survive the process

Push(x) == stack' = Append(stack, x) /\ durable' \in BOOLEAN
Pop == stack # <<>> /\ stack' = Front(stack) /\ durable' = TRUE
Clear == stack' = <<>> /\ durable' = TRUE
Flush == durable' = TRUE /\ UNCHANGED stack
Crash ==
  /\ ~durable
  /\ durable' = TRUE
  /\ \E x \in Item \cup {Bad} : stack' = Append(Front(stack), x)

Init == stack = <<>> /\ durable = TRUE
Next == (\E x \in Item : Push(x)) \/ Pop \/ Clear \/ Flush \/ Crash
Spec == Init /\ [][Next]_<<stack, durable>>
=============================================================================
