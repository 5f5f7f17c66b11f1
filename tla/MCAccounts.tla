---------------------------- MODULE MCAccounts -----------------------------
(* Small instances of Accounts; the constants are in the .cfg file. *)
EXTENDS Accounts
=============================================================================
