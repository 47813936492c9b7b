----------------------------- MODULE MCLogStats -----------------------------
(* LogStats on a small instance.                                            *)
EXTENDS LogStats, TLC

CONSTANT c1

\* One operation on two users.
SomePaths == {<<"users", "alice", "messages">>, <<"users", "bob", "messages">>}

\* One call is slower than the others.
SomeTimes == [c \in Calls |-> IF c = c1 THEN 3 ELSE 1]

Symmetry == Permutations(Calls \ {c1})
=============================================================================
