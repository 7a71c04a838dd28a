----------------------------- MODULE MCSessions -----------------------------
(* Instances of Sessions for TLC.                                          *)
EXTENDS Sessions, TLC

\* Identifiers are drawn at random and never compared but for equality.
Symmetry == Permutations(Tokens) \cup Permutations(Handlers)
=============================================================================
