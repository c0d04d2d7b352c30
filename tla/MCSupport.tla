------------------------------ MODULE MCSupport ------------------------------
(* Support on a small instance: tickets that are opened while things go     *)
(* wrong, tickets that are changed and deleted by overlapping requests, and *)
(* enough tickets for listings of several pages.                            *)
EXTENDS Support

MCBudgets ==
    {[creates |-> 2, changes |-> 0, faults |-> 3],
     [creates |-> 1, changes |-> 2, faults |-> 1],
     [creates |-> 3, changes |-> 0, faults |-> 0]}
=============================================================================
