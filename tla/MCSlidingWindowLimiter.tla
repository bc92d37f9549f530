----------------------- MODULE MCSlidingWindowLimiter -----------------------
(***************************************************************************)
(* Two keys of one limiter: a request bucket with a window of a second and *)
(* a half and a refresh budget with a longer one, the clock counting half  *)
(* seconds so that Retry-After has something to round.                     *)
(***************************************************************************)
EXTENDS SlidingWindowLimiter

MCKeys == {"generation", "refresh"}
MCLimit == [generation |-> 2, refresh |-> 1]
MCWindow == [generation |-> 3, refresh |-> 5]
=============================================================================
