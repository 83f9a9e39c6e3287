---------------------------- MODULE MCAdminBoundary ----------------------------
(* Model checking of the administrator boundary.                               *)
EXTENDS AdminBoundary, TLC
===============================================================================
