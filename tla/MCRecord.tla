------------------------------ MODULE MCRecord ------------------------------
(***************************************************************************)
(* Record for TLC: two resources that may exchange two pairs, a TTL on     *)
(* each side of the width of the field, and one that is not sent.          *)
(***************************************************************************)
EXTENDS Record

\* A block has a comment or an unusual TTL, not both.
MCOffered == {b \in Blocks : b.comment = "none" \/ b.ttl = 1}
=============================================================================
