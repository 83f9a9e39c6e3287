---------------------------- MODULE MCVertexStream ----------------------------
(* Model checking of the smoke endpoint.                                        *)
EXTENDS VertexStream
===============================================================================
