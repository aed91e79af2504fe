--------------------------- MODULE OrderLifecycle ---------------------------
(***************************************************************************)
(* One Shopify order of Qty units of one item, and the documents that      *)
(* inbound/order.py and inbound/refund.py book for it: Sales Order, Sales  *)
(* Invoice and Payment Entry, a Delivery Note per fulfilment, and a credit *)
(* note, a return note and a reversing payment per refund.                 *)
(*                                                                         *)
(* A handler is one transaction.  It begins by reading its event, which    *)
(* fixes its snapshot (REPEATABLE READ); it fetches the order or refund    *)
(* from Shopify; then it decides from both and writes.  Writes meet what   *)
(* others have committed since: a unique index, ERPNext's totals, the      *)
(* modified time of a document it cancels.  A refusal is a failure like    *)
(* any other: everything is rolled back and the event stays due.           *)
(*                                                                         *)
(* A fulfilment ships one unit; every sync switch is on; money is counted   *)
(* as the units and the postage it pays for.                               *)
(***************************************************************************)
EXTENDS Naturals, FiniteSets, FiniteSetsExt

CONSTANTS
    Qty,           \* units ordered
    Fulfilments, Refunds,
    Handlers,      \* workers that can serve this order at the same time
    Kinds,         \* what a refund may be of, beside a number of units
    MaxRepeats,    \* bound: handlers started for an event that needed none
    MaxSales,      \* bound: what happens to the order at Shopify
    NoEvent

ASSUME QtyAssumption == Qty \in Nat \ {0} /\ MaxRepeats \in Nat /\ MaxSales \in Nat
ASSUME KindsAssumption == Kinds \subseteq [shipped : BOOLEAN, restock : BOOLEAN, postage : BOOLEAN]
ASSUME NamesAssumption ==
    /\ IsFiniteSet(Fulfilments) /\ IsFiniteSet(Refunds)
    /\ Fulfilments \cap Refunds = {}
    /\ {"create", "paid", "cancelled", NoEvent} \cap (Fulfilments \cup Refunds) = {}
    /\ NoEvent \notin {"create", "paid", "cancelled"}

\* A fulfilment is the orders/(partially_)fulfilled event it raised, a refund its refunds/create.
Events == {"create", "paid", "cancelled"} \cup Fulfilments \cup Refunds

VARIABLES
    store,     \* cancel_invoiced_orders of the Shopify Store
    shop,      \* the order, as Shopify has it
    due,       \* events raised and not yet handled
    books,     \* the committed documents
    h,         \* each handler: its event, its snapshot and what it fetched
    repeats,
    overlapped,\* two handlers of this order have run at once (not in the code)
    unsettled  \* ERPNext refused to close the order after a refund: the warning
               \* of _settle_safely, until something closes or cancels the order

vars == <<store, shop, due, books, h, repeats, overlapped, unsettled>>

NoRefund == [units |-> 0, shipped |-> FALSE, restock |-> FALSE, postage |-> FALSE]

NewOrder == [paid |-> FALSE, cancelled |-> FALSE,
             ful |-> [f \in Fulfilments |-> "none"],
             refund |-> [r \in Refunds |-> NoRefund]]

\* notes and credit count submitted documents; back is the units returned on
\* return notes; torn holds the refunds whose credit note was cancelled.
NoBooks == [so |-> "none", inv |-> "none", pay |-> "none",
            notes |-> [f \in Fulfilments |-> 0], back |-> 0,
            credit |-> [r \in Refunds |-> 0], torn |-> {},
            paidBack |-> [r \in Refunds |-> 0]]

Idle == [at |-> "idle", event |-> NoEvent, snap |-> NoBooks, seen |-> NewOrder]

Init ==
    /\ store \in BOOLEAN
    /\ shop = NewOrder
    /\ due = {"create"}
    /\ books = NoBooks
    /\ h = [p \in Handlers |-> Idle]
    /\ repeats = 0
    /\ overlapped = FALSE
    /\ unsettled = FALSE

Total(f, S) == MapThenSumSet(LAMBDA x : f[x], S)

-----------------------------------------------------------------------------
(* Shopify *)

Shipped(s) == {f \in Fulfilments : s.ful[f] = "shipped"}
RefundedUnits(s, shipped) ==
    Total([r \in Refunds |-> s.refund[r].units], {r \in Refunds : s.refund[r].shipped = shipped})
Refunded(s) == RefundedUnits(s, TRUE) + RefundedUnits(s, FALSE)
PostageRefunded(s) == \E r \in Refunds : s.refund[r].postage

CurrentQuantity(s) == Qty - Refunded(s)
UnfulfilledQuantity(s) == Qty - (Cardinality(Shipped(s)) + RefundedUnits(s, FALSE))

Raises(e) ==
    /\ due' = due \cup {e}
    /\ UNCHANGED <<store, books, h, repeats, overlapped, unsettled>>

Pay ==
    /\ ~shop.paid /\ ~shop.cancelled
    /\ shop' = [shop EXCEPT !.paid = TRUE]
    /\ Raises("paid")

Ship(f) ==
    /\ shop.ful[f] = "none" /\ ~shop.cancelled
    /\ UnfulfilledQuantity(shop) > 0
    /\ shop' = [shop EXCEPT !.ful[f] = "shipped"]
    /\ Raises(f)

\* Of shipped units, or of units that will now never ship.
Refund(r, n, kind) ==
    /\ shop.paid /\ shop.refund[r].units = 0
    /\ n <= IF kind.shipped THEN Cardinality(Shipped(shop)) - RefundedUnits(shop, TRUE)
                       ELSE UnfulfilledQuantity(shop)
    /\ kind.postage => ~PostageRefunded(shop)
    /\ shop' = [shop EXCEPT !.refund[r] = [units |-> n, shipped |-> kind.shipped,
                                restock |-> kind.restock, postage |-> kind.postage]]
    /\ Raises(r)

\* No webhook of ours tells of it.
CancelFulfilment(f) ==
    /\ f \in Shipped(shop)
    /\ Cardinality(Shipped(shop)) > RefundedUnits(shop, TRUE)
    /\ shop' = [shop EXCEPT !.ful[f] = "cancelled"]
    /\ UNCHANGED <<store, due, books, h, repeats, overlapped, unsettled>>

\* An order with live fulfilments cannot be cancelled.
Cancel ==
    /\ ~shop.cancelled /\ Shipped(shop) = {}
    /\ shop' = [shop EXCEPT !.cancelled = TRUE]
    /\ Raises("cancelled")

-----------------------------------------------------------------------------
(* Reading the books *)

Delivered(b) == Total(b.notes, Fulfilments)
Credited(b) == Total([r \in Refunds |-> b.credit[r] * shop.refund[r].units], Refunds)
PostageCredited(b) == \E r \in Refunds : b.credit[r] > 0 /\ shop.refund[r].postage

\* delivered_qty: a return note puts it back down.
InHand(b) == Delivered(b) - b.back

\* ERPNext's status of an order that is delivered and billed in full.
Completed(b) == b.so = "open" /\ b.inv = "live" /\ InHand(b) >= Qty

Reserved(b) == IF b.so = "open" /\ InHand(b) < Qty THEN Qty - InHand(b) ELSE 0

fully_refunded(b) == b.inv = "live" /\ Credited(b) = Qty /\ PostageCredited(b)

\* Variant: the setting is read the wrong way round.
keeps_its_invoice_inverted(b) == store /\ b.inv = "live"

keeps_its_invoice(b) == ~store /\ b.inv = "live"

closed_by_refund(b) == \E r \in Refunds : b.credit[r] > 0

order_already_cancelled(b) == b.inv = "cancelled" \/ (b.inv = "none" /\ b.so = "cancelled")

\* Variant: the order is asked before its invoice.
NothingToCredit_of_order(b) == b.so \in {"closed", "cancelled"}

NothingToCredit(b) == b.inv # "live" /\ order_already_cancelled(b)

Least(a, b) == IF a < b THEN a ELSE b

\* Variant: only what is left on the order counts, as once it did.
owed_by_current_quantity(s) == CurrentQuantity(s)

owed_by_item(s) == Least(CurrentQuantity(s), UnfulfilledQuantity(s))

-----------------------------------------------------------------------------
(* The handlers.  The last step of each decides from the snapshot b == h[p].snap *)
(* and what was fetched, and commits on top of what others have committed.       *)

Raised(e) ==
    \/ e = "create"
    \/ e = "paid" /\ shop.paid
    \/ e = "cancelled" /\ shop.cancelled
    \/ e \in Fulfilments /\ shop.ful[e] # "none"
    \/ e \in Refunds /\ shop.refund[e].units > 0

Busy == {p \in Handlers : h[p].at # "idle"}

\* Another delivery, a retry or a replay may run an event that is done or running.
Begin(p, e) ==
    /\ h[p].at = "idle"
    /\ Raised(e)
    /\ IF e \in due /\ \A q \in Busy : h[q].event # e
       THEN UNCHANGED repeats
       ELSE repeats < MaxRepeats /\ repeats' = repeats + 1
    /\ h' = [h EXCEPT ![p] = [at |-> "begun", event |-> e, snap |-> books, seen |-> NewOrder]]
    /\ overlapped' = (overlapped \/ Busy # {})
    /\ UNCHANGED <<store, shop, due, books, unsettled>>

fetch_order(p) ==
    /\ h[p].at = "begun"
    /\ h' = [h EXCEPT ![p] = [@ EXCEPT !.at = "fetched", !.seen = shop]]
    /\ UNCHANGED <<store, shop, due, books, repeats, overlapped, unsettled>>

\* Refused by ERPNext or Shopify, timed out or deadlocked: the log says Error,
\* also for an event that was done before.
HandlerFails(p) ==
    /\ h[p].at # "idle"
    /\ h' = [h EXCEPT ![p] = Idle]
    /\ due' = due \cup {h[p].event}
    /\ UNCHANGED <<store, shop, books, repeats, overlapped, unsettled>>

Deciding(p, e) == h[p].at = "fetched" /\ h[p].event = e

Commits(p, b) ==
    /\ books' = b
    /\ due' = due \ {h[p].event}
    /\ h' = [h EXCEPT ![p] = Idle]
    /\ UNCHANGED <<store, shop, repeats, overlapped>>

\* A cancelled order carries neither invoice nor note; a missing one is made.
usable_sales_order(b) == b.so # "cancelled"

\* The Sales Order the snapshot has, or a new one; the index refuses a second.
OrderFree(p) == h[p].snap.so = "none" => books.so = "none"
create_sales_order(p) ==
    IF h[p].snap.so = "none" THEN [books EXCEPT !.so = "open"] ELSE books

on_order_create(p) ==
    /\ Deciding(p, "create")
    /\ OrderFree(p)
    /\ Commits(p, create_sales_order(p))
    /\ UNCHANGED unsettled

\* Invoiced already, or an open order (or none yet) to invoice.
on_order_paid(p) ==
    LET b == h[p].snap
    IN  /\ Deciding(p, "paid")
        /\ \/ b.inv = "live" /\ Commits(p, books)
           \/ /\ b.inv # "live" /\ usable_sales_order(b) /\ b.so # "closed"
              /\ OrderFree(p) /\ books.inv # "live"
              /\ Commits(p, [create_sales_order(p) EXCEPT !.inv = "live", !.pay = "live"])
        /\ UNCHANGED unsettled

\* Variant: a note for every fulfilment of the order, whether it has one or not.
unrecorded_all(b, s) == Shipped(s)

unrecorded(b, s) == {f \in Shipped(s) : b.notes[f] = 0}

\* A note for each fulfilment without one, while the order has units to deliver.
on_order_fulfilled(p, f) ==
    LET b == h[p].snap
        new == unrecorded(b, h[p].seen)
        room == Qty - InHand(b)
    IN  /\ Deciding(p, f)
        /\ usable_sales_order(b)
        /\ OrderFree(p)
        /\ \E made \in SUBSET new :
             /\ Cardinality(made) = Least(Cardinality(new), room)
             /\ made # {} => b.so # "closed"
             /\ InHand(books) + Cardinality(made) <= Qty
             /\ Commits(p, [create_sales_order(p) EXCEPT
                              !.notes = [g \in Fulfilments |->
                                           @[g] + IF g \in made THEN 1 ELSE 0]])
        /\ UNCHANGED unsettled

\* Closing writes the status and nothing else; a cancelled order stays one.
Closed(b) == [b EXCEPT !.so = IF @ = "open" THEN "closed" ELSE @]

\* Variant: the cancelled credit note gives its refund's key back.
TornDown_frees_key(b) ==
    [so |-> IF b.so = "none" THEN "none" ELSE "cancelled",
     inv |-> IF b.inv = "live" THEN "cancelled" ELSE b.inv,
     pay |-> IF b.pay = "live" THEN "cancelled" ELSE b.pay,
     notes |-> [f \in Fulfilments |-> 0], back |-> 0,
     credit |-> [r \in Refunds |-> 0],
     torn |-> b.torn,
     paidBack |-> b.paidBack]

TornDown(b) ==
    [so |-> IF b.so = "none" THEN "none" ELSE "cancelled",
     inv |-> IF b.inv = "live" THEN "cancelled" ELSE b.inv,
     pay |-> IF b.pay = "live" THEN "cancelled" ELSE b.pay,
     notes |-> [f \in Fulfilments |-> 0], back |-> 0,
     credit |-> [r \in Refunds |-> 0],
     torn |-> b.torn \cup {r \in Refunds : b.credit[r] > 0},
     paidBack |-> b.paidBack]

\* Nothing is linked, or everything is as the snapshot has it and is cancelled.
cancel_linked_documents(p) ==
    \/ TornDown(h[p].snap) = h[p].snap /\ Commits(p, books)
    \/ /\ TornDown(h[p].snap) # h[p].snap /\ books = h[p].snap
       /\ Commits(p, TornDown(books))

close_without_cancelling(p) ==
    LET b == h[p].snap
    IN  Commits(p, IF b.so = "open" /\ ~Completed(b) THEN Closed(books) ELSE books)

\* Variant: the status is written, not recomputed.
Reopens_as_draft(p) ==
    LET b == [books EXCEPT !.so = IF @ = "closed" THEN "Draft" ELSE @]
    IN  /\ books' = b
        /\ h' = [h EXCEPT ![p] = [@ EXCEPT !.at = "reopened", !.snap = b]]
        /\ UNCHANGED <<store, shop, due, repeats, overlapped, unsettled>>

\* update_status("Draft") recomputes the status; this much is committed at once.
Reopens(p) ==
    LET b == [books EXCEPT !.so = IF @ = "closed" THEN "open" ELSE @]
    IN  /\ books' = b
        /\ h' = [h EXCEPT ![p] = [@ EXCEPT !.at = "reopened", !.snap = b]]
        /\ UNCHANGED <<store, shop, due, repeats, overlapped, unsettled>>

Settles == unsettled' = FALSE

on_order_cancelled(p) ==
    LET b == h[p].snap
        settled == b.so = "closed" /\ fully_refunded(b)
    IN  \/ /\ Deciding(p, "cancelled")
           /\ \/ settled /\ Commits(p, books) /\ Settles
              \/ /\ ~settled /\ keeps_its_invoice(b)
                 /\ close_without_cancelling(p) /\ Settles
              \/ /\ ~settled /\ ~keeps_its_invoice(b) /\ b.so = "closed"
                 /\ closed_by_refund(b) /\ Reopens(p)
              \/ /\ ~settled /\ ~keeps_its_invoice(b) /\ b.so # "closed"
                 /\ cancel_linked_documents(p) /\ Settles
        \/ h[p].at = "reopened" /\ cancel_linked_documents(p) /\ Settles

\* Variant: the index on (store, refund gid) is missing.
CreditFree_unindexed(r) == TRUE

\* The index does not forget a cancelled credit note.
CreditFree(r) == books.credit[r] = 0 /\ r \notin books.torn

\* Variant: the order is left as it is.
settle_nothing(b, s) == FALSE

\* settle_after_refund closes an order that owes nothing.  One that still owes is
\* shortened instead, which ERPNext refuses for an invoiced line: a warning.
settle_after_refund(b, s) ==
    b.so = "open" /\ ~Completed(b) /\ owed_by_item(s) = 0

build_return_invoice(x, r) == [x EXCEPT !.credit[r] = @ + 1]

\* Stock comes back against the notes it left on, as far as those go.
Restocked(b, refund) == IF refund.restock THEN Least(refund.units, InHand(b)) ELSE 0
return_against(x, units) == [x EXCEPT !.back = @ + units]

\* On account, so nothing of ERPNext's stands in the way of a second one.
reverse_payment(x, r) == [x EXCEPT !.paidBack[r] = @ + 1]

\* The credit note and the payment are committed also when the order cannot be
\* settled after them (_settle_safely), and no later run of the event settles it.
create_credit_note(p, r) ==
    LET b == h[p].snap
        refund == h[p].seen.refund[r]
        taken == Restocked(b, refund)
        Booked(x) == reverse_payment(return_against(build_return_invoice(x, r), taken), r)
        closes == settle_after_refund(Booked(b), h[p].seen)
    IN  /\ CreditFree(r)
        /\ Credited(books) + refund.units <= Qty
        /\ taken <= InHand(books)
        /\ unsettled' \in IF closes THEN BOOLEAN ELSE {unsettled}
        /\ Commits(p, IF closes /\ ~unsettled'
                      THEN Closed(Booked(books)) ELSE Booked(books))

\* Credited already, nothing left to credit, or an invoice to credit.
on_refund_create(p, r) ==
    LET b == h[p].snap
    IN  /\ Deciding(p, r)
        /\ \/ b.credit[r] > 0 /\ Commits(p, books) /\ UNCHANGED unsettled
           \/ b.credit[r] = 0 /\ NothingToCredit(b) /\ Commits(p, books) /\ UNCHANGED unsettled
           \/ b.credit[r] = 0 /\ b.inv = "live" /\ create_credit_note(p, r)

-----------------------------------------------------------------------------
Sales ==
    Cardinality({f \in Fulfilments : shop.ful[f] # "none"})
      + Cardinality({f \in Fulfilments : shop.ful[f] = "cancelled"})
      + Cardinality({r \in Refunds : shop.refund[r].units > 0})
      + (IF shop.paid THEN 1 ELSE 0) + (IF shop.cancelled THEN 1 ELSE 0)

Selling ==
    /\ Sales < MaxSales
    /\ \/ Pay
       \/ Cancel
       \/ \E f \in Fulfilments : Ship(f) \/ CancelFulfilment(f)
       \/ \E r \in Refunds, n \in 1..Qty, kind \in Kinds : Refund(r, n, kind)

Handling(p) ==
    \/ \E e \in Events : Begin(p, e)
    \/ fetch_order(p)
    \/ on_order_create(p)
    \/ on_order_paid(p)
    \/ \E f \in Fulfilments : on_order_fulfilled(p, f)
    \/ on_order_cancelled(p)
    \/ \E r \in Refunds : on_refund_create(p, r)
    \/ HandlerFails(p)

Next == Selling \/ \E p \in Handlers : Handling(p)

Spec == Init /\ [][Next]_vars

-----------------------------------------------------------------------------
(* What holds *)

ShopType == [paid : BOOLEAN, cancelled : BOOLEAN, ful : [Fulfilments -> {"none", "shipped", "cancelled"}],
             refund : [Refunds -> [units : 0..Qty, shipped : BOOLEAN, restock : BOOLEAN,
                                   postage : BOOLEAN]]]

Docs == {"none", "live", "cancelled"}
BooksType == [so : {"none", "open", "closed", "cancelled"}, inv : Docs, pay : Docs,
              notes : [Fulfilments -> Nat], back : Nat, credit : [Refunds -> Nat],
              torn : SUBSET Refunds, paidBack : [Refunds -> Nat]]

\* The shapes of the state; no document is ever counted below zero.
TypeOK ==
    /\ store \in BOOLEAN /\ overlapped \in BOOLEAN /\ unsettled \in BOOLEAN
    /\ repeats \in 0..MaxRepeats
    /\ shop \in ShopType /\ due \subseteq Events /\ books \in BooksType
    /\ h \in [Handlers -> [at : {"idle", "begun", "fetched", "reopened"},
                           event : Events \cup {NoEvent}, snap : BooksType, seen : ShopType]]

Quiet == due = {} /\ Busy = {}

\* README.md:87: a redelivered refund cannot credit twice, nor be paid back
\* twice, also when two handlers of it run at once.
RefundBookedOnce == \A r \in Refunds : books.credit[r] <= 1 /\ books.paidBack[r] <= 1

\* order.py:896-910: a store that did not ask for it never loses the record of
\* money it received, whatever a cancellation finds or races with.
MoneyReceivedIsKept ==
    [][~store => /\ (books.inv = "live" => books'.inv = "live")
                 /\ (books.pay = "live" => books'.pay = "live")]_vars

\* Events handled in any order, failed, retried and repeated, one at a time:
\* an order with nothing cancelled or refunded is in the books as at Shopify.
BooksFollowShopify ==
    (Quiet /\ ~overlapped /\ ~shop.cancelled /\ Refunded(shop) = 0
           /\ \A f \in Fulfilments : shop.ful[f] # "cancelled") =>
        /\ books.so = "open"
        /\ books.inv = (IF shop.paid THEN "live" ELSE "none") /\ books.pay = books.inv
        /\ \A f \in Fulfilments : books.notes[f] = (IF f \in Shipped(shop) THEN 1 ELSE 0)

\* A refund whose event is done is credited, or nothing is left to credit: the
\* handler never takes a cancelled or closed order for one without an invoice.
RefundsAreNotLost ==
    (~overlapped /\ Busy = {}) =>
        \A r \in Refunds : (shop.refund[r].units > 0 /\ r \notin due) =>
            books.credit[r] = 1 \/ books.inv # "live"

\* tests/test_cancel_after_refund.py:9: cancelled and refunded, in either order,
\* the books end up right: nothing invoiced, and nothing reserved unless the order
\* was cancelled first and ERPNext then refused to close it after the last refund.
CancelledAndRefundedIsEven ==
    (Quiet /\ ~overlapped /\ shop.cancelled /\ Refunded(shop) = Qty) =>
        /\ books.inv = "live" => Credited(books) = Qty /\ PostageCredited(books) = PostageRefunded(shop)
        /\ Reserved(books) = 0 \/ unsettled

\* refund.py:275-289: a refund that leaves Shopify owing nothing leaves ERPNext
\* reserving nothing, also when its own return note reopens a delivered order; or
\* ERPNext refused the closing, and the refund is booked without it (refund.py:188).
RefundReleasesStock ==
    [][\A r \in Refunds, p \in Handlers :
         (/\ books'.credit[r] > books.credit[r] /\ h[p].event = r /\ h'[p].at = "idle"
          /\ h[p].snap = books /\ h[p].seen = shop
          /\ Least(CurrentQuantity(shop), UnfulfilledQuantity(shop)) = 0)
            => Reserved(books') = 0 \/ unsettled']_vars

-----------------------------------------------------------------------------
(* What the repository says and the code does not do *)

\* README.md:55: orders/cancelled cancels the linked documents.  A cancellation
\* handled before the order is booked finds nothing; the order is booked afterwards.
CancelledOrderReservesNothing ==
    (Quiet /\ ~overlapped /\ shop.cancelled) => Reserved(books) = 0

\* README.md:53: one Delivery Note per Shopify fulfilment.
OneNotePerFulfilment == \A f \in Fulfilments : books.notes[f] <= 1
=============================================================================
