------------------------------ MODULE MCFamily ------------------------------
(***************************************************************************)
(* A small instance of Family.                                             *)
(***************************************************************************)
EXTENDS Family
=============================================================================
