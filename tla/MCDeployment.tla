------------------------------ MODULE MCDeployment -----------------------------
(* Model checking of deployments.                                               *)
EXTENDS Deployment, TLC
===============================================================================
