----------------------------- MODULE MCEventBus -----------------------------
(***************************************************************************)
(* Two users and two streams, which may be of the same user.  A queue      *)
(* holds one event, so that a slow client makes it overflow; u1 gets one   *)
(* event delivered, one dropped and one after the gap.                     *)
(***************************************************************************)
EXTENDS EventBus

MCUsers == {"u1", "u2"}
MCMaxSeq == [u1 |-> 3, u2 |-> 1]
=============================================================================
