--------------------------- MODULE MCNotifications ---------------------------
(* Notifications on a small instance.                                       *)
EXTENDS Notifications, TLC

(* Clients and two writers; the same with the process restarting; clients   *)
(* that come and go more often; a listing and a writer.                     *)
MCBudgets == {[writes |-> 2, lists |-> 0, connections |-> 2, restarts |-> 0],
              [writes |-> 2, lists |-> 0, connections |-> 1, restarts |-> 1],
              [writes |-> 1, lists |-> 0, connections |-> 3, restarts |-> 0],
              [writes |-> 1, lists |-> 1, connections |-> 0, restarts |-> 0]}

Symmetry == Permutations(Users) \cup Permutations(Sockets)
                \cup Permutations(Handlers)
=============================================================================
