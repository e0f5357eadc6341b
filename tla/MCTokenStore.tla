---------------------------- MODULE MCTokenStore ----------------------------
(* Two packs, one of two credits and one of one; a fourth hash so that one *)
(* pack can be sold, purged and asked for again.                           *)
EXTENDS TokenStore, TLC

CONSTANTS s1, s2

MCPackSize == (s1 :> 2) @@ (s2 :> 1)

HashSymmetry == Permutations(Tokens)
=============================================================================
