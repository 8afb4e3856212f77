----------------------------- MODULE MCAccounts -----------------------------
(* The small instance of Accounts that TLC checks: two administrators at      *)
(* first and a third account that takes the second one's name.                *)
EXTENDS Accounts

Names == <<"anna", "boris", "boris">>
=============================================================================
