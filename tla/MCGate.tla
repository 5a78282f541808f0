------------------------------- MODULE MCGate -------------------------------
\* TLC instance of Gate: the callers are interchangeable, and so are the
\* catalogs, because the gate only compares them.
EXTENDS Gate, TLC

CONSTANTS safe, drift, readOnly, allTools, r1, r2

Symmetry ==
  Permutations({r1, r2}) \union Permutations({safe, drift}) \union Permutations({readOnly, allTools})
=============================================================================
