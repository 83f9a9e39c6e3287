--------------------------- MODULE MCVertexEmbedding ---------------------------
(* Model checking of embedding requests.                                        *)
EXTENDS VertexEmbedding

\* One text; three texts, so a full batch and a short one; and a request whose
\* upper bound is over the budget although its bytes are not.
SmallRequests == {[texts |-> 1, bytes |-> 5], [texts |-> 3, bytes |-> 3], [texts |-> 4, bytes |-> 4]}
===============================================================================
