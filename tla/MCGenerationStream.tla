-------------------------- MODULE MCGenerationStream --------------------------
(* Model checking of generation streams over any provider.                      *)
EXTENDS GenerationStream
===============================================================================
