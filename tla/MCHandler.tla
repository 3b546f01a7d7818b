----------------------------- MODULE MCHandler ------------------------------
(* A small instance of Handler alone for TLC.                               *)
EXTENDS Handler
=============================================================================
