----------------------------- MODULE MCJwksCache -----------------------------
(* Model checking of the signing-key cache.                                    *)
EXTENDS JwksCache, TLC

\* Requests are interchangeable, and so are the usable keys.
Symmetry == Permutations(Tasks) \cup Permutations(SigningKeys)
==============================================================================
