------------------------------ MODULE MCApiLogs ------------------------------
(* ApiLogs on a small instance.                                             *)
EXTENDS ApiLogs, TLC

\* No filter, or the application's own calls.
SomeFilters == {NoFilter, [NoFilter EXCEPT !.job = "client_credentials"]}

Symmetry == Permutations(Calls)
=============================================================================
