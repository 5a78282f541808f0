------------------------- MODULE TrustedPin_proofs -------------------------
(***************************************************************************)
(* What whatever implements TrustedPin inherits from it.                   *)
(***************************************************************************)
EXTENDS TrustedPin, TLAPS

\* What is trusted was granted before, and only what is trusted at that moment
\* is let through: the promise of core/gate.go, kept by the gate, by the hooks
\* and by the wraps that share a pin file, which implement this module.
THEOREM TrustedIsGranted == Spec => []FailClosed
<1>1. Init => FailClosed
  BY DEF Init, FailClosed
<1>2. FailClosed /\ [Next]_vars => FailClosed'
  <2> SUFFICES ASSUME FailClosed, [Next]_vars PROVE FailClosed'
    OBVIOUS
  <2>1. ASSUME NEW c \in Catalogs, Grant(c) PROVE FailClosed'
    BY <2>1 DEF Grant, FailClosed
  <2>2. CASE Open \/ Close \/ Install \/ Lose
    BY <2>2 DEF Open, Close, Install, Lose, FailClosed
  <2>3. CASE UNCHANGED vars
    BY <2>3 DEF vars, FailClosed
  <2> QED
    BY <2>1, <2>2, <2>3 DEF Next
<1> QED
  BY <1>1, <1>2, PTL DEF Spec

\* Whatever is let through was granted by a person, then or earlier.
COROLLARY OpenIsGranted == Spec => [](open \in granted \union {None})
<1>1. FailClosed => open \in granted \union {None}
  BY DEF FailClosed
<1> QED
  BY <1>1, TrustedIsGranted, PTL
=============================================================================
