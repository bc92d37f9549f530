--------------------------- MODULE MCRequestGate ---------------------------
(***************************************************************************)
(* Two connections of one host and one user.  The auth bucket is disabled  *)
(* (limit 0), the generation bucket and the refresh budget are not.        *)
(***************************************************************************)
EXTENDS RequestGate, TLC

MCBucketLimit == [auth |-> 0, generation |-> 2]
Symmetry == Permutations(Conns)
=============================================================================
