------------------------------- MODULE MCWrap -------------------------------
(***************************************************************************)
(* Wrap with two catalogs and a few requests.                              *)
(***************************************************************************)
EXTENDS Wrap, TLC

CONSTANTS safe, drift, r1, call1, call2, changed1, changed2

Symmetry == Permutations({safe, drift})
=============================================================================
