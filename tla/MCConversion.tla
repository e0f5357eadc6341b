---------------------------- MODULE MCConversion ----------------------------
(* One pack and one or two jobs on one or two workers: a refunded credit   *)
(* can be spent again, a job can be the child of another, two jobs can     *)
(* compete for one slot, and two sweeps can overlap.                       *)
EXTENDS ConversionService, TLC

CONSTANT s1

MCPackSize == s1 :> Cardinality(Tokens)

\* Jobs are told apart by nothing but their values, and so are tokens and
\* workers.
JobSymmetry == Permutations(Jobs) \cup Permutations(Tokens) \cup Permutations(Workers)
=============================================================================
