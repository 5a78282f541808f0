----------------------------- MODULE MCHeadless -----------------------------
(***************************************************************************)
(* Headless with two catalogs and two fingerprints, the wraps' own and one *)
(* other.                                                                  *)
(***************************************************************************)
EXTENDS Headless, TLC

CONSTANTS safe, drift, own, other, w1, w2, c1

Symmetry == Permutations({safe, drift}) \union Permutations(Wraps)
=============================================================================
