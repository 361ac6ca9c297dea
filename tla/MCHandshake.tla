----------------------------- MODULE MCHandshake -----------------------------
(* A finite instance of Handshake: a group of order 7 and two codes, one of  *)
(* which hashes to the zero scalar. *)
EXTENDS Handshake, TLC

CONSTANTS j1, k1, k2, m1, m2

MhfTable == k1 :> (j1 :> 7) @@ k2 :> (j1 :> 10)
=============================================================================
