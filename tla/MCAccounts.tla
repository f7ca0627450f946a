----------------------------- MODULE MCAccounts ------------------------------
(* A small instance of Accounts for TLC.                                   *)
EXTENDS Accounts

CONSTANTS name1, address1, elsewhere
=============================================================================
