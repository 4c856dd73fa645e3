------------------------------ MODULE MCAccounts ------------------------------
(* Two emails for TLC that make the same username. *)
EXTENDS Accounts

CONSTANTS e1, e2

MCEmails == {e1, e2}
MCUsername(email) == "shared"
=============================================================================
