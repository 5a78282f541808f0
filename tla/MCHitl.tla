------------------------------- MODULE MCHitl -------------------------------
(***************************************************************************)
(* Hitl with two hooks on one gate.                                        *)
(***************************************************************************)
EXTENDS Hitl, TLC

CONSTANTS safe, drift, poison, readOnly, h1, h2, alice, bob
=============================================================================
