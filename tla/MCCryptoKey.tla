---------------------------- MODULE MCCryptoKey ----------------------------
(* CryptoKey for TLC: two keys in one zone. *)
EXTENDS CryptoKey
=============================================================================
