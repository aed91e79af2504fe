------------------------------- MODULE Outbox -------------------------------
(***************************************************************************)
(* What the outbound queue promises, with no queue in it.                  *)
(*                                                                         *)
(* A key is one thing kept in step on one shop (the stock of an item, its  *)
(* listing, its price).  src[k] counts the versions ERPNext has committed, *)
(* shop[k] is the version the shop shows.  A push sends the state it read, *)
(* so the shop jumps to some version it has not passed yet; it never goes  *)
(* back.  A key the queue has given up on is parked until somebody changes *)
(* it again or puts it back.                                               *)
(***************************************************************************)
EXTENDS Naturals

CONSTANTS
    Keys,
    Versions    \* the versions convergence is asked about

VARIABLES src, shop, parked

vars == <<src, shop, parked>>

Init ==
    /\ src = [k \in Keys |-> 0]
    /\ shop = [k \in Keys |-> 0]
    /\ parked = {}

\* A save commits.  Whatever was given up on, this newer change is not.
Change(k) ==
    /\ src' = [src EXCEPT ![k] = @ + 1]
    /\ parked' = parked \ {k}
    /\ UNCHANGED shop

\* A handler pushes what it read; a key brought level is parked no more.
Deliver ==
    /\ DOMAIN shop' = Keys
    /\ \A k \in Keys : shop[k] <= shop'[k] /\ shop'[k] <= src[k]
    /\ parked' = {k \in parked : shop'[k] # src[k]}
    /\ UNCHANGED src

\* Some keys are given up on, others are put back.
Turn ==
    /\ \A k \in parked' \ parked : k \in Keys /\ shop[k] # src[k]
    /\ UNCHANGED <<src, shop>>

Next ==
    \/ Deliver
    \/ Turn
    \/ \E k \in Keys : Change(k)

Safety == Init /\ [][Next]_vars

\* Every change reaches the shop, or its key is parked where a person sees it.
Convergence ==
    \A k \in Keys, v \in Versions :
        (src[k] >= v) ~> (shop[k] >= v \/ k \in parked)

Spec == Safety /\ Convergence
=============================================================================
