------------------------------ MODULE MCKeyed ------------------------------
(***************************************************************************)
(* Keyed for TLC: two resources of every kind that may exchange two keys,  *)
(* one more key that is reserved, and two values.                          *)
(***************************************************************************)
EXTENDS Keyed
=============================================================================
