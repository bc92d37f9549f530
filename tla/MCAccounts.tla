----------------------------- MODULE MCAccounts -----------------------------
(***************************************************************************)
(* One address in two spellings, two passwords, so that two people, or one *)
(* person twice, register it at once; two connections; a refresh token     *)
(* lives twice as long as an access token.  Three requests: two that race, *)
(* and one before or after them.                                           *)
(***************************************************************************)
EXTENDS Accounts, TLC

MCLower == [Meera |-> "meera", meera |-> "meera"]
MCSpellings == DOMAIN MCLower
Symmetry == Permutations(Conns) \cup Permutations(Passwords)
=============================================================================
