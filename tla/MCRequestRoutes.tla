--------------------------- MODULE MCRequestRoutes ---------------------------
(***************************************************************************)
(* Two tabs of alice and one of bob, whose request ids can coincide.       *)
(***************************************************************************)
EXTENDS RequestRoutes, TLC

CONSTANTS a1, a2, b1, alice, bob

Users == [c \in Conn |-> IF c = b1 THEN bob ELSE alice]

(* Sound: the two tabs and the two request ids are alike. *)
Alike == Permutations({a1, a2}) \cup Permutations(RequestId)
=============================================================================
