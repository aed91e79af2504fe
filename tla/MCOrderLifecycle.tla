-------------------------- MODULE MCOrderLifecycle --------------------------
(* Instances of OrderLifecycle for TLC. *)
EXTENDS OrderLifecycleInv, TLC

CONSTANTS f1, f2, r1, r2, h1, h2

\* Sent back with its postage, lost, and taken off the order with or without postage.
MCKinds ==
    {[shipped |-> TRUE, restock |-> TRUE, postage |-> TRUE],
     [shipped |-> TRUE, restock |-> FALSE, postage |-> FALSE],
     [shipped |-> FALSE, restock |-> TRUE, postage |-> FALSE],
     [shipped |-> FALSE, restock |-> TRUE, postage |-> TRUE]}

Symmetry == Permutations(Fulfilments) \cup Permutations(Refunds) \cup Permutations(Handlers)
=============================================================================
