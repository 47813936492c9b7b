---------------------------- MODULE MCMigrations -----------------------------
(* Migrations on a small instance.                                          *)
EXTENDS Migrations

Downs  == {0, 2, 6}
Forced == {-1, 4}
=============================================================================
