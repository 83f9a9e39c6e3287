--------------------------- MODULE MCSourceVersions ---------------------------
(* Model checking of the source tables.                                        *)
EXTENDS SourceVersions, TLC

CONSTANTS t1, t2, d1, v1, v2

\* Both versions are of the one document.
OneDocument == v1 :> d1 @@ v2 :> d1
OneVersion == v1 :> d1

\* Calls in a transaction.
OneEach == [t \in Txns |-> 1]
TwoEach == [t \in Txns |-> 2]
OneAndTwo == t1 :> 2 @@ t2 :> 1

TxnSymmetry == Permutations(Txns) \cup Permutations(Profiles)
Symmetry == TxnSymmetry \cup Permutations(Versions)
===============================================================================
