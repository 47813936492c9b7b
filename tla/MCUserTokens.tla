---------------------------- MODULE MCUserTokens ----------------------------
(* UserTokens on a small instance.                                          *)
EXTENDS UserTokens, TLC

DataSymmetry ==
  Permutations(Users) \cup Permutations(Tokens) \cup Permutations(RowIds)

\* Users, tokens and row ids are interchangeable; so are the processes, where
\* every one of them may run the callback.
Symmetry == Permutations(Procs) \cup DataSymmetry

SerialSymmetry == Permutations(Procs \ Savers) \cup DataSymmetry
=============================================================================
