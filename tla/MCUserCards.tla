---------------------------- MODULE MCUserCards ----------------------------
(* Two users with three rows between them, two real cards, two operations   *)
(* in flight.  Handlers are interchangeable; rows and users are not, since  *)
(* idle handlers and unused rows name fixed ones.                           *)
EXTENDS UserCards, TLC

Symmetry == Permutations(Handlers)
============================================================================
