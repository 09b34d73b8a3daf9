---------------------------- MODULE MCTransport ----------------------------
(***************************************************************************)
(* Instances of Transport for TLC: few calls, few attempts, and one status *)
(* of each kind the client distinguishes.                                  *)
(***************************************************************************)
EXTENDS Transport
=============================================================================
