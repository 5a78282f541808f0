------------------------------ MODULE MCWrapRun ------------------------------
(***************************************************************************)
(* WrapRun with one call and one list_changed.                             *)
(***************************************************************************)
EXTENDS WrapRun

CONSTANTS safe, call1, changed1
=============================================================================
