-------------------------- MODULE MCSessionClient --------------------------
(***************************************************************************)
(* Two accounts on one browser, enough actions to sign in, work, log out   *)
(* and sign in as the other.                                               *)
(***************************************************************************)
EXTENDS SessionClient
=============================================================================
