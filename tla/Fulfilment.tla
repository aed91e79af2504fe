----------------------------- MODULE Fulfilment -----------------------------
(***************************************************************************)
(* Fulfilment: a Delivery Note submitted in ERPNext becomes a fulfilment   *)
(* of its Shopify order, a Shipment gives it its tracking                  *)
(* (outbound/fulfillment.py).  One order, one variant, several notes, each *)
(* for its units; Shopify splits what it owes over fulfilment orders.      *)
(*                                                                         *)
(* A note is fulfilled once because it is stamped with the fulfilment, in  *)
(* the drain's transaction, which ends with the claimed group: a call that *)
(* fails ends the group and keeps its stamps, a worker that dies does not. *)
(***************************************************************************)
EXTENDS Integers, FiniteSetsExt

CONSTANTS
    Notes,        \* Delivery Notes of the order
    Units,        \* what each ships
    FulfillmentOrders,
    Owes,         \* what each of them starts with
    MaxEdits,     \* bound: cancellations, and fulfilments made in the Shopify admin
    MaxBroken,    \* bound: calls without a reply, pushes that fail or die
    NoFulfillment

ASSUME FulfilmentAssumption ==
    /\ IsFiniteSet(Notes) /\ IsFiniteSet(FulfillmentOrders)
    /\ Units \in [Notes -> Nat \ {0}] /\ Owes \in [FulfillmentOrders -> Nat]
    /\ MaxEdits \in Nat /\ MaxBroken \in Nat /\ NoFulfillment \notin Nat

VARIABLES
    docstatus,     \* of the notes
    shipment,      \* notes a submitted Shipment covers
    stamped,       \* shopify_fulfillment_gid of a note
    noteRows,      \* notes with a Pending fulfilment row
    parcel,        \* push_fulfillments at work
    owed,          \* Shopify: remainingQuantity
    fulfillments,  \* Shopify: what this app created
    given_up,      \* notes whose last fulfilment row is Failed
    unstamped,     \* notes with a fulfilment whose id was lost (not in the code)
    edits, broken

fulfilmentVars == <<docstatus, shipment, stamped, noteRows, parcel, owed, fulfillments,
                    given_up, unstamped, edits, broken>>

NoParcel == [pc |-> "idle", rows |-> {}, todo |-> {}, note |-> NoFulfillment, stamps |-> <<>>,
             status |-> <<>>, shipped |-> {}, tracked |-> FALSE, take |-> <<>>]

FulfilmentInit ==
    /\ docstatus = [n \in Notes |-> "draft"] /\ shipment = {}
    /\ stamped = [n \in Notes |-> NoFulfillment]
    /\ noteRows = {} /\ parcel = NoParcel
    /\ owed = Owes /\ fulfillments = {}
    /\ given_up = {} /\ unstamped = {} /\ edits = 0 /\ broken = 0

Edits == edits < MaxEdits /\ edits' = edits + 1

-----------------------------------------------------------------------------
(* ERPNext.  Note and Shipment queue the same key.                          *)

on_delivery_note_submit(n) ==
    /\ docstatus[n] = "draft"
    /\ docstatus' = [docstatus EXCEPT ![n] = "submitted"]
    /\ noteRows' = noteRows \cup {n}
    /\ UNCHANGED <<shipment, stamped, parcel, owed, fulfillments, given_up, unstamped, edits,
                   broken>>

\* Variant: a Shipment queues nothing for a note that is being pushed.
on_shipment_coalesced(n) ==
    /\ docstatus[n] = "submitted" /\ n \notin shipment
    /\ shipment' = shipment \cup {n}
    /\ noteRows' = IF n \in parcel.rows THEN noteRows ELSE noteRows \cup {n}
    /\ given_up' = given_up \ noteRows'
    /\ UNCHANGED <<docstatus, stamped, parcel, owed, fulfillments, unstamped, edits, broken>>

on_shipment_submit(n) ==
    /\ docstatus[n] = "submitted" /\ n \notin shipment
    /\ shipment' = shipment \cup {n}
    /\ noteRows' = noteRows \cup {n}
    /\ given_up' = given_up \ noteRows'
    /\ UNCHANGED <<docstatus, stamped, parcel, owed, fulfillments, unstamped, edits, broken>>

CancelNote(n) ==
    /\ Edits
    /\ docstatus[n] = "submitted" /\ n \notin shipment
    /\ docstatus' = [docstatus EXCEPT ![n] = "cancelled"]
    /\ UNCHANGED <<shipment, stamped, noteRows, parcel, owed, fulfillments, given_up, unstamped,
                   broken>>

\* The merchant ticks units off in the Shopify admin.
MerchantFulfils(f) ==
    /\ Edits
    /\ owed[f] > 0 /\ owed' = [owed EXCEPT ![f] = @ - 1]
    /\ UNCHANGED <<docstatus, shipment, stamped, noteRows, parcel, fulfillments, given_up,
                   unstamped, broken>>

-----------------------------------------------------------------------------
(* push_fulfillments: one claimed group, one transaction, one snapshot.     *)

claim_notes ==
    /\ parcel = NoParcel /\ noteRows # {}
    /\ \E R \in SUBSET noteRows \ {{}} :
          /\ parcel' = [NoParcel EXCEPT !.pc = "next", !.rows = R, !.todo = R,
                           !.stamps = stamped, !.status = docstatus, !.shipped = shipment]
          /\ noteRows' = noteRows \ R
    /\ UNCHANGED <<docstatus, shipment, stamped, owed, fulfillments, given_up, unstamped, edits,
                   broken>>

Take(n) == parcel.pc = "next" /\ n \in parcel.todo
Skip(n) == parcel' = [parcel EXCEPT !.todo = @ \ {n}]

\* Cancelled since, or on Shopify already with no tracking to send.
nothing_to_push(n) ==
    /\ Take(n)
    /\ \/ parcel.status[n] # "submitted"
       \/ parcel.stamps[n] # NoFulfillment /\ n \notin parcel.shipped
    /\ Skip(n)
    /\ UNCHANGED <<docstatus, shipment, stamped, noteRows, owed, fulfillments, given_up,
                   unstamped, edits, broken>>

update_tracking(n) ==
    /\ Take(n)
    /\ parcel.status[n] = "submitted" /\ parcel.stamps[n] # NoFulfillment
    /\ n \in parcel.shipped
    /\ fulfillments' = {IF x.gid = parcel.stamps[n] THEN [x EXCEPT !.tracked = TRUE] ELSE x :
                          x \in fulfillments}
    /\ Skip(n)
    /\ UNCHANGED <<docstatus, shipment, stamped, noteRows, owed, given_up, unstamped, edits,
                   broken>>

Total(take) == MapThenSumSet(LAMBDA f : take[f], DOMAIN take)

\* Variant: every fulfilment order is asked for the note's whole units.
take_each(n) == {[f \in FulfillmentOrders |-> Min({Units[n], owed[f]})]}

\* One fulfilment order after the other, never more than it still owes, nor
\* than the note shipped, until either is used up.
may_take(n) ==
    {t \in [FulfillmentOrders -> 0..Units[n]] :
        /\ \A f \in FulfillmentOrders : t[f] <= owed[f]
        /\ Total(t) = Min({Units[n], Total(owed)})
        /\ Cardinality({f \in FulfillmentOrders : t[f] \in 1..(owed[f] - 1)}) <= 1}

line_items_to_fulfil(n) ==
    /\ Take(n)
    /\ parcel.status[n] = "submitted" /\ parcel.stamps[n] = NoFulfillment
    /\ \E take \in may_take(n) :
          IF Total(take) = 0 THEN Skip(n)
          ELSE parcel' = [parcel EXCEPT !.pc = "create", !.note = n, !.take = take]
    /\ UNCHANGED <<docstatus, shipment, stamped, noteRows, owed, fulfillments, given_up,
                   unstamped, edits, broken>>

Fulfilled(gid) ==
    fulfillments' = fulfillments \cup
        {[gid |-> gid, note |-> parcel.note, units |-> Total(parcel.take),
          tracked |-> parcel.note \in parcel.shipped]}

Accepts == \A f \in FulfillmentOrders : parcel.take[f] <= owed[f]
next_gid == Cardinality(fulfillments) + 1
Ship == owed' = [f \in FulfillmentOrders |-> owed[f] - parcel.take[f]]

\* fulfillmentCreate, with the tracking known by now, and the stamp.
create_fulfilment ==
    /\ parcel.pc = "create" /\ Accepts
    /\ Ship /\ Fulfilled(next_gid)
    /\ parcel' = [parcel EXCEPT !.pc = "next", !.todo = @ \ {parcel.note},
                                !.stamps = [@ EXCEPT ![parcel.note] = next_gid]]
    /\ UNCHANGED <<docstatus, shipment, stamped, noteRows, given_up, unstamped, edits, broken>>

Breaks == broken < MaxBroken /\ broken' = broken + 1

\* The reply is lost, and what Shopify made stays: the client sends the call
\* again, and Shopify, which has no key to know it by, makes another if it still
\* owes the units and refuses if not.
reply_lost ==
    /\ parcel.pc = "create" /\ Accepts /\ Breaks
    /\ Ship /\ Fulfilled(next_gid)
    /\ unstamped' = unstamped \cup {parcel.note}
    /\ UNCHANGED <<docstatus, shipment, stamped, noteRows, parcel, given_up, edits>>

\* The commit, after every note of the group.
commit_stamps ==
    /\ parcel.pc = "next" /\ parcel.todo = {}
    /\ stamped' = parcel.stamps
    /\ parcel' = NoParcel
    /\ UNCHANGED <<docstatus, shipment, noteRows, owed, fulfillments, given_up, unstamped, edits,
                   broken>>

\* A call fails, and with it every row of the group; the drain goes on and
\* commits, the stamps so far included.  A refusal (Shopify owes less by now) is
\* the end of all the rows, `spent`; else those are that are out of attempts.
push_fails ==
    /\ parcel.pc = "create" \/ parcel.todo # {}
    /\ \E spent \in SUBSET parcel.rows :
          /\ (parcel.rows \ spent) \cap noteRows = {}
          /\ \/ Breaks
             \/ parcel.pc = "create" /\ ~Accepts /\ spent = parcel.rows /\ UNCHANGED broken
          /\ noteRows' = noteRows \cup (parcel.rows \ spent)
          /\ given_up' = (given_up \cup spent) \ noteRows'
    /\ stamped' = parcel.stamps
    /\ parcel' = NoParcel
    /\ UNCHANGED <<docstatus, shipment, owed, fulfillments, unstamped, edits>>

\* The worker dies, or the drain does, over a row whose key was queued anew
\* (SyncQueue): the stamps are rolled back, and the janitor returns the rows.
push_dies ==
    /\ parcel # NoParcel /\ Breaks
    /\ unstamped' = unstamped \cup {n \in Notes : parcel.stamps[n] # stamped[n]}
    /\ noteRows' = noteRows \cup parcel.rows
    /\ parcel' = NoParcel
    /\ UNCHANGED <<docstatus, shipment, stamped, owed, fulfillments, given_up, edits>>

FulfilmentNext ==
    \/ \E n \in Notes : \/ on_delivery_note_submit(n) \/ on_shipment_submit(n) \/ CancelNote(n)
                        \/ nothing_to_push(n) \/ update_tracking(n) \/ line_items_to_fulfil(n)
    \/ \E f \in FulfillmentOrders : MerchantFulfils(f)
    \/ claim_notes \/ create_fulfilment \/ reply_lost \/ commit_stamps
    \/ push_fails \/ push_dies

FulfilmentSpec == FulfilmentInit /\ [][FulfilmentNext]_fulfilmentVars

-----------------------------------------------------------------------------

FulfilmentTypeOK ==
    /\ docstatus \in [Notes -> {"draft", "submitted", "cancelled"}]
    /\ shipment \subseteq Notes /\ noteRows \subseteq Notes
    /\ given_up \subseteq Notes /\ unstamped \subseteq Notes
    /\ \A n \in Notes : stamped[n] = NoFulfillment \/ \E x \in fulfillments : x.gid = stamped[n]
    /\ parcel.pc \in {"idle", "next", "create"} /\ parcel.rows \subseteq Notes
    /\ \A f \in FulfillmentOrders : owed[f] \in 0..Owes[f]
    /\ edits \in 0..MaxEdits /\ broken \in 0..MaxBroken

\* Whoever queues a note, however often, while it is being pushed included, and
\* whatever became of the group it was pushed with, it is fulfilled once and for
\* no more than it shipped, so the customer is told once -- unless the id of one
\* of its fulfilments was lost, with a reply or with a worker before the commit
\* at the end of the group, which the code leaves open (ShopifyClient.execute,
\* push_fulfillments).
ANoteShipsOnce ==
    \A n \in Notes \ unstamped :
        LET mine == {x \in fulfillments : x.note = n}
        IN  Cardinality(mine) <= 1 /\ \A x \in mine : x.units <= Units[n]

\* The tracking of a Shipment reaches the fulfilment of its note, also when the
\* Shipment was submitted while the note was being pushed, or its group failed:
\* unless the row that was to bring it is Failed.
TrackingArrives ==
    \A n \in shipment \ (unstamped \cup given_up \cup noteRows \cup parcel.rows) :
        \A x \in fulfillments : x.note = n => x.tracked
=============================================================================
