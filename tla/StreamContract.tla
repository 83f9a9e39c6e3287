---------------------------- MODULE StreamContract ----------------------------
(* What ProviderOrchestrator.stream_generation promises its consumer, whatever  *)
(* the provider does: some deltas, then at most one completion, which nothing   *)
(* follows; the stream ends well only after both, and else it raises one error  *)
(* or the consumer abandons it.                                                 *)
EXTENDS Naturals

VARIABLES
  deltas,      \* how many deltas the consumer was given
  completed,   \* it was given a completion
  status       \* "open", "returned", "raised" or "abandoned"

vars == <<deltas, completed, status>>

Init == deltas = 0 /\ completed = FALSE /\ status = "open"

Delta ==
  /\ status = "open" /\ ~completed
  /\ deltas' = deltas + 1
  /\ UNCHANGED <<completed, status>>

Complete ==
  /\ status = "open" /\ ~completed
  /\ completed' = TRUE
  /\ UNCHANGED <<deltas, status>>

Return ==
  /\ status = "open" /\ completed /\ deltas > 0
  /\ status' = "returned"
  /\ UNCHANGED <<deltas, completed>>

Stop ==
  /\ status = "open"
  /\ status' \in {"raised", "abandoned"}
  /\ UNCHANGED <<deltas, completed>>

Next == Delta \/ Complete \/ Return \/ Stop

Spec == Init /\ [][Next]_vars
===============================================================================
