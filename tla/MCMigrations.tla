--------------------------- MODULE MCMigrations ---------------------------
(***************************************************************************)
(* Small instances of Migrations: the four files of the repository.        *)
(***************************************************************************)
EXTENDS Migrations

\* 0004 adds a constraint without asking whether it exists.
LastFile == {4}
=============================================================================
