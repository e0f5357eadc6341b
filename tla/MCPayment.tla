----------------------------- MODULE MCPayment -----------------------------
(* One session that sells one credit, one visitor who opens the page at any *)
(* time, and a spare hash for a pack that is sold, purged and asked for     *)
(* again.                                                                   *)
EXTENDS PaymentFlow, TLC

CONSTANTS s1, packSize

MCPackSize == s1 :> packSize
=============================================================================
