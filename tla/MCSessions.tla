----------------------------- MODULE MCSessions -----------------------------
(* Sessions on a small instance.                                            *)
EXTENDS Sessions, TLC

\* All constants are sets of interchangeable values.
Symmetry ==
  Permutations(Requests) \cup Permutations(Sids)
    \cup Permutations(States) \cup Permutations(Users)
=============================================================================
