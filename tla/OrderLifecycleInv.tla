------------------------- MODULE OrderLifecycleInv -------------------------
(* The inductive invariants behind the properties of OrderLifecycle: OInv     *)
(* holds however the handlers overlap, the parts of AloneInv speak of an      *)
(* order no two handlers of which have run at once.                           *)
EXTENDS OrderLifecycle

\* The fields of the books, as far as these two properties ask for them.
BooksShape ==
    /\ books = [so |-> books.so, inv |-> books.inv, pay |-> books.pay, notes |-> books.notes,
                back |-> books.back, credit |-> books.credit, torn |-> books.torn,
                paidBack |-> books.paidBack]
    /\ books.credit \in [Refunds -> Nat] /\ books.paidBack \in [Refunds -> Nat]
    /\ books.torn \subseteq Refunds

HandlersShape ==
    h = [p \in Handlers |-> [at |-> h[p].at, event |-> h[p].event,
                             snap |-> h[p].snap, seen |-> h[p].seen]]

\* Money is paid back for a refund whose credit note exists or was cancelled.
CreditInv == \A r \in Refunds :
    /\ books.credit[r] <= 1 /\ books.paidBack[r] <= 1
    /\ books.credit[r] = 0 /\ r \notin books.torn => books.paidBack[r] = 0

CreditHasInvoice(b) == (\E r \in Refunds : b.credit[r] > 0) => b.inv = "live"

\* What a handler g has seen invoiced still is, and it will not reopen the order.
SeesInvoice(g, b) == g.at # "idle" =>
    /\ g.at # "reopened"
    /\ CreditHasInvoice(g.snap)
    /\ g.snap.inv = "live" => b.inv = "live"

\* A payment has its invoice; where invoices are kept, so has every credit note,
\* in the books and in every snapshot of them.
PaymentInv ==
    /\ books.pay = "live" => books.inv = "live"
    /\ ~store => CreditHasInvoice(books) /\ \A p \in Handlers : SeesInvoice(h[p], books)

OInv == BooksShape /\ HandlersShape /\ CreditInv /\ PaymentInv

-----------------------------------------------------------------------------
(* Types, and Shopify's side *)

\* No more came back than was delivered.
Adds(b) == b.back <= Delivered(b)

Runs(g) == IF g.at = "idle" THEN g.event = NoEvent
                            ELSE g.event \in Events /\ (g.at = "reopened" => g.event = "cancelled")

TypeInv == TypeOK /\ Adds(books) /\ \A p \in Handlers : Adds(h[p].snap) /\ Runs(h[p])

\* What is refunded was shipped, or never will be; units make a refund.
Counts(s) ==
    /\ RefundedUnits(s, TRUE) <= Cardinality(Shipped(s))
    /\ Cardinality(Shipped(s)) + RefundedUnits(s, FALSE) <= Qty
    /\ \A r \in Refunds : s.refund[r].units = 0 => s.refund[r] = NoRefund

\* What a handler g has fetched Shopify still shows, and its event with it.
SeesOrder(g) == \A f \in Fulfilments :
    /\ g.seen.ful[f] # "none" => shop.ful[f] # "none"
    /\ g.seen.ful[f] = "cancelled" => shop.ful[f] = "cancelled"
    /\ g.at = "fetched" /\ g.event = f => g.seen.ful[f] # "none"

ShopInv ==
    /\ Counts(shop) /\ \A p \in Handlers : Counts(h[p].seen) /\ SeesOrder(h[p])
    /\ \A e \in due : Raised(e)
    /\ \A p \in Busy : Raised(h[p].event)
    /\ \A r \in Refunds : books.credit[r] > 0 => shop.refund[r].units > 0

-----------------------------------------------------------------------------
(* An order whose handlers have run one at a time *)

\* The one that runs has the books in its snapshot.
OneByOne == \A p \in Busy : h[p].snap = books /\ Busy = {p}

Undisturbed ==
    /\ ~shop.cancelled
    /\ \A r \in Refunds : shop.refund[r].units = 0
    /\ \A f \in Fulfilments : shop.ful[f] # "cancelled"

\* What is booked happened, and what happened is booked unless its event is due.
Follows ==
    /\ books.so \in {"none", "open"} /\ books.inv \in {"none", "live"} /\ books.pay = books.inv
    /\ books.inv = "live" => shop.paid
    /\ books.back = 0
    /\ \A f \in Fulfilments : books.notes[f] \in {0, 1} /\ (books.notes[f] = 1 => f \in Shipped(shop))
    /\ "create" \in due \/ books.so = "open"
    /\ shop.paid => "paid" \in due \/ books.inv = "live"
    /\ \A f \in Shipped(shop) : f \in due \/ books.notes[f] = 1

\* An invoice has its order, a cancelled order none; a refund that is done is
\* credited or came to a cancelled order, which stays one.
RefundsFollow ==
    /\ books.so = "none" => books.inv = "none" /\ \A r \in Refunds : books.credit[r] = 0
    /\ books.so = "cancelled" => books.inv # "live"
    /\ books.inv = "cancelled" => books.so = "cancelled"
    /\ \A r \in Refunds : shop.refund[r].units > 0 =>
         r \in due \/ books.credit[r] = 1 \/ books.so = "cancelled"

SeesAll(g) == g.at = "fetched" => Refunded(g.seen) = Qty

\* Of an order refunded in full, a refund that will see all of it is to be
\* credited still, or nothing is reserved, unless the cancellation has reopened
\* the order to tear it down or ERPNext refused to close it.
Released ==
    \/ \E r \in Refunds : /\ r \in due /\ books.credit[r] = 0
                         /\ \A p \in Handlers : h[p].event = r => SeesAll(h[p])
    \/ /\ books.so # "none"
       /\ \A p \in Handlers : h[p].event \in Refunds => SeesAll(h[p])
       /\ \/ Reserved(books) = 0
          \/ "cancelled" \in due
          \/ \E p \in Handlers : h[p].at = "reopened"
          \/ unsettled

AloneInv ==
    ~overlapped =>
        /\ OneByOne /\ RefundsFollow
        /\ Undisturbed => Follows
        /\ Refunded(shop) = Qty => Released

OrderInd == OInv /\ TypeInv /\ ShopInv /\ AloneInv
=============================================================================
