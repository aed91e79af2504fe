------------------------ MODULE OrderLifecycleProofs ------------------------
(* What holds of an order's books for any number of units, fulfilments,     *)
(* refunds and handlers: first however the handlers overlap, then of the    *)
(* orders whose handlers have run one at a time.                            *)
EXTENDS OrderLifecycleInv, SetFacts

\* A step keeps the money: the body of MoneyReceivedIsKept.
KeepsMoney == ~store => /\ (books.inv = "live" => books'.inv = "live")
                        /\ (books.pay = "live" => books'.pay = "live")

\* The first state satisfies the invariant.
LEMMA InitOInv == Init => OInv
BY DEF Init, OInv, BooksShape, HandlersShape, CreditInv, PaymentInv, CreditHasInvoice, SeesInvoice,
   NoBooks, Idle

\* A step that leaves the books alone, whatever a handler reads of them.
LEMMA BooksLeftAlone ==
  ASSUME OInv, UNCHANGED <<store, books>>, HandlersShape',
         \A p \in Handlers : \/ h'[p].at = "idle"
                             \/ h'[p].at # "reopened" /\ h'[p].snap = books
                             \/ h'[p].at # "reopened" /\ h[p].at # "idle" /\ h'[p].snap = h[p].snap
                             \/ h'[p] = h[p]
  PROVE  OInv' /\ KeepsMoney
<1>1. ~store => \A p \in Handlers : SeesInvoice(h'[p], books)
  BY DEF OInv, PaymentInv, SeesInvoice
<1> QED BY <1>1 DEF OInv, BooksShape, CreditInv, PaymentInv, CreditHasInvoice, KeepsMoney

\* Commits, in the words of the invariant: the handler is idle afterwards.
LEMMA CommitsShape ==
  ASSUME OInv, NEW p \in Handlers, NEW b, Commits(p, b)
  PROVE  /\ books' = b /\ store' = store /\ HandlersShape'
         /\ \A q \in Handlers : h'[q].at = "idle" \/ h'[q] = h[q]
BY DEF OInv, HandlersShape, Commits, Idle

\* What may happen to the books without credit notes changing.
LEMMA OtherDocuments ==
  ASSUME OInv, NEW p \in Handlers, NEW b, Commits(p, b),
         b = [so |-> b.so, inv |-> b.inv, pay |-> b.pay, notes |-> b.notes, back |-> b.back,
              credit |-> books.credit, torn |-> books.torn, paidBack |-> books.paidBack],
         b.pay = "live" => b.inv = "live",
         books.inv = "live" => b.inv = "live",
         books.pay = "live" => b.pay = "live"
  PROVE  OInv' /\ KeepsMoney
<1>1. /\ books' = b /\ store' = store /\ HandlersShape'
      /\ \A q \in Handlers : h'[q].at = "idle" \/ h'[q] = h[q]
  BY CommitsShape
<1>2. b.credit = books.credit /\ b.torn = books.torn /\ b.paidBack = books.paidBack
  OBVIOUS
<1>3. BooksShape' /\ CreditInv'
  BY <1>1, <1>2 DEF OInv, BooksShape, CreditInv
<1>4. PaymentInv'
  BY <1>1, <1>2 DEF OInv, PaymentInv, CreditHasInvoice, SeesInvoice
<1> QED BY <1>1, <1>3, <1>4 DEF OInv, KeepsMoney

\* Shopify's side touches no document of ours.
LEMMA SellingStep ==
  ASSUME OInv, Selling
  PROVE  OInv' /\ KeepsMoney
<1>1. UNCHANGED <<store, books, h>>
  BY DEF Selling, Pay, Ship, Refund, CancelFulfilment, Cancel, Raises
<1> QED BY <1>1 DEF OInv, BooksShape, HandlersShape, CreditInv, PaymentInv, CreditHasInvoice, SeesInvoice, KeepsMoney

\* Beginning, fetching and failing leave the books alone.
LEMMA ReadingStep ==
  ASSUME OInv, NEW p \in Handlers,
         (\E e \in Events : Begin(p, e)) \/ fetch_order(p) \/ HandlerFails(p)
  PROVE  OInv' /\ KeepsMoney
<1>1. CASE \E e \in Events : Begin(p, e)
  <2> PICK e \in Events : Begin(p, e)
    BY <1>1
  <2>1. /\ UNCHANGED <<store, books>> /\ HandlersShape'
        /\ h'[p].at = "begun" /\ h'[p].snap = books
        /\ \A q \in Handlers \ {p} : h'[q] = h[q]
    BY DEF OInv, HandlersShape, Begin, Idle
  <2>2. \A q \in Handlers : \/ h'[q].at = "idle"
                            \/ h'[q].at # "reopened" /\ h'[q].snap = books
                            \/ h'[q].at # "reopened" /\ h[q].at # "idle" /\ h'[q].snap = h[q].snap
                            \/ h'[q] = h[q]
    BY <2>1
  <2> QED BY <2>1, <2>2, BooksLeftAlone
<1>2. CASE fetch_order(p)
  <2>1. /\ UNCHANGED <<store, books>> /\ HandlersShape'
        /\ h'[p].at = "fetched" /\ h'[p].snap = h[p].snap /\ h[p].at = "begun"
        /\ \A q \in Handlers \ {p} : h'[q] = h[q]
    <3> DEFINE g == [h[p] EXCEPT !.at = "fetched"]
    <3>1. h[p] = [at |-> h[p].at, event |-> h[p].event, snap |-> h[p].snap, seen |-> h[p].seen]
      BY DEF OInv, HandlersShape
    <3>2. g = [at |-> "fetched", event |-> h[p].event, snap |-> h[p].snap, seen |-> h[p].seen]
      BY <3>1
    <3>3. h' = [h EXCEPT ![p] = [g EXCEPT !.seen = shop]]
      BY <1>2 DEF fetch_order
    <3> HIDE DEF g
    <3>4. [g EXCEPT !.seen = shop] = [at |-> "fetched", event |-> h[p].event,
                                      snap |-> h[p].snap, seen |-> shop]
      BY <3>2
    <3>5. h' = [h EXCEPT ![p] = [at |-> "fetched", event |-> h[p].event,
                                 snap |-> h[p].snap, seen |-> shop]]
      BY <3>3, <3>4
    <3> QED BY <1>2, <3>5 DEF OInv, HandlersShape, fetch_order
  <2>2. \A q \in Handlers : \/ h'[q].at = "idle"
                            \/ h'[q].at # "reopened" /\ h'[q].snap = books
                            \/ h'[q].at # "reopened" /\ h[q].at # "idle" /\ h'[q].snap = h[q].snap
                            \/ h'[q] = h[q]
    BY <2>1
  <2> QED BY <2>1, <2>2, BooksLeftAlone
<1>3. CASE HandlerFails(p)
  <2>1. /\ UNCHANGED <<store, books>> /\ HandlersShape'
        /\ \A q \in Handlers : h'[q].at = "idle" \/ h'[q] = h[q]
    BY <1>3 DEF OInv, HandlersShape, HandlerFails, Idle
  <2>2. \A q \in Handlers : \/ h'[q].at = "idle"
                            \/ h'[q].at # "reopened" /\ h'[q].snap = books
                            \/ h'[q].at # "reopened" /\ h[q].at # "idle" /\ h'[q].snap = h[q].snap
                            \/ h'[q] = h[q]
    BY <2>1
  <2> QED BY <2>1, <2>2, BooksLeftAlone
<1> QED BY <1>1, <1>2, <1>3

\* A handler that ends without writing a document.
LEMMA CommitsNothing ==
  ASSUME OInv, NEW p \in Handlers, Commits(p, books)
  PROVE  OInv' /\ KeepsMoney
BY OtherDocuments DEF OInv, BooksShape, PaymentInv

\* The order is booked or found; nothing else of the books changes.
LEMMA create_sales_orderFields ==
  ASSUME OInv, NEW p \in Handlers, NEW c, c = create_sales_order(p)
  PROVE  /\ c = [so |-> c.so, inv |-> c.inv, pay |-> c.pay, notes |-> c.notes, back |-> c.back,
                 credit |-> c.credit, torn |-> c.torn, paidBack |-> c.paidBack]
         /\ c.inv = books.inv /\ c.pay = books.pay /\ c.notes = books.notes /\ c.back = books.back
         /\ c.credit = books.credit /\ c.torn = books.torn /\ c.paidBack = books.paidBack
<1>1. CASE h[p].snap.so = "none"
  BY <1>1 DEF OInv, BooksShape, create_sales_order
<1>2. CASE h[p].snap.so # "none"
  BY <1>2 DEF OInv, BooksShape, create_sales_order
<1> QED BY <1>1, <1>2

\* Booking the order.
LEMMA on_order_createStep ==
  ASSUME OInv, NEW p \in Handlers, on_order_create(p)
  PROVE  OInv' /\ KeepsMoney
<1> PICK c : c = create_sales_order(p)
  OBVIOUS
<1>1. Commits(p, c)
  BY DEF on_order_create
<1> QED BY <1>1, create_sales_orderFields, OtherDocuments DEF OInv, PaymentInv

\* Invoice and payment come together.
LEMMA on_order_paidStep ==
  ASSUME OInv, NEW p \in Handlers, on_order_paid(p)
  PROVE  OInv' /\ KeepsMoney
<1> PICK c : c = create_sales_order(p)
  OBVIOUS
<1> DEFINE b == [c EXCEPT !.inv = "live", !.pay = "live"]
<1>1. CASE Commits(p, books)
  BY <1>1, CommitsNothing
<1>2. CASE Commits(p, b)
  <2>1. /\ b = [so |-> b.so, inv |-> b.inv, pay |-> b.pay, notes |-> b.notes, back |-> b.back,
                credit |-> books.credit, torn |-> books.torn, paidBack |-> books.paidBack]
        /\ b.inv = "live" /\ b.pay = "live"
    <3> DEFINE i == [c EXCEPT !.inv = "live"]
    <3>1. i = [so |-> c.so, inv |-> "live", pay |-> c.pay, notes |-> c.notes, back |-> c.back,
               credit |-> c.credit, torn |-> c.torn, paidBack |-> c.paidBack]
      BY create_sales_orderFields
    <3>2. b = [i EXCEPT !.pay = "live"]
      OBVIOUS
    <3> HIDE DEF i, b
    <3>3. b = [so |-> c.so, inv |-> "live", pay |-> "live", notes |-> c.notes, back |-> c.back,
               credit |-> c.credit, torn |-> c.torn, paidBack |-> c.paidBack]
      BY <3>1, <3>2
    <3> QED BY <3>3, create_sales_orderFields
  <2> HIDE DEF b
  <2> QED BY <1>2, <2>1, OtherDocuments
<1> QED BY <1>1, <1>2 DEF on_order_paid

\* Notes touch neither invoice nor credit.
LEMMA on_order_fulfilledStep ==
  ASSUME OInv, NEW p \in Handlers, NEW f \in Fulfilments, on_order_fulfilled(p, f)
  PROVE  OInv' /\ KeepsMoney
<1> PICK c : c = create_sales_order(p)
  OBVIOUS
<1> DEFINE b(made) == [c EXCEPT !.notes = [g \in Fulfilments |->
                                             @[g] + IF g \in made THEN 1 ELSE 0]]
<1>1. PICK made : Commits(p, b(made))
  BY DEF on_order_fulfilled
<1>2. /\ b(made) = [so |-> b(made).so, inv |-> b(made).inv, pay |-> b(made).pay,
                    notes |-> b(made).notes, back |-> b(made).back,
                    credit |-> books.credit, torn |-> books.torn, paidBack |-> books.paidBack]
      /\ b(made).pay = books.pay /\ b(made).inv = books.inv
  BY create_sales_orderFields
<1> HIDE DEF b
<1> QED BY <1>1, <1>2, OtherDocuments DEF OInv, PaymentInv

\* Closing writes the order's status only.
LEMMA ClosedStep ==
  ASSUME OInv, NEW p \in Handlers, Commits(p, Closed(books))
  PROVE  OInv' /\ KeepsMoney
<1> PICK c : c = Closed(books)
  OBVIOUS
<1>1. c = [so |-> c.so, inv |-> books.inv, pay |-> books.pay, notes |-> books.notes,
           back |-> books.back, credit |-> books.credit, torn |-> books.torn,
           paidBack |-> books.paidBack]
  BY DEF OInv, BooksShape, Closed
<1> QED BY <1>1, OtherDocuments DEF OInv, PaymentInv

\* Tearing down: no credit note is left, and where invoices are kept nothing was
\* invoiced, so no other handler can have seen an invoice either.
LEMMA TornDownStep ==
  ASSUME OInv, NEW p \in Handlers, ~store => h[p].snap.inv # "live" /\ h[p].at # "idle",
         cancel_linked_documents(p)
  PROVE  OInv' /\ KeepsMoney
<1>1. CASE Commits(p, books)
  BY <1>1, CommitsNothing
<1>2. CASE books = h[p].snap /\ Commits(p, TornDown(books))
  <2> PICK b : b = TornDown(books)
    OBVIOUS
  <2>1. /\ books' = b /\ store' = store /\ HandlersShape'
        /\ \A q \in Handlers : h'[q].at = "idle" \/ h'[q] = h[q]
    BY <1>2, CommitsShape
  <2>2. /\ b = [so |-> b.so, inv |-> b.inv, pay |-> b.pay, notes |-> b.notes, back |-> b.back,
                credit |-> b.credit, torn |-> b.torn, paidBack |-> b.paidBack]
        /\ b.credit = [r \in Refunds |-> 0] /\ b.paidBack = books.paidBack
        /\ b.torn = books.torn \cup {r \in Refunds : books.credit[r] > 0}
        /\ b.pay # "live" /\ b.inv # "live"
    BY DEF TornDown
  <2>3. BooksShape'
    BY <2>1, <2>2 DEF OInv, BooksShape
  <2>4. CreditInv'
    <3>1. \A r \in Refunds : r \notin b.torn => books.credit[r] = 0 /\ r \notin books.torn
      BY <2>2 DEF OInv, BooksShape
    <3> QED BY <2>1, <2>2, <3>1 DEF OInv, CreditInv
  <2>5. PaymentInv'
    <3>1. ~store => \A q \in Handlers : h[q].at # "idle" => h[q].snap.inv # "live"
      BY <1>2 DEF OInv, PaymentInv, SeesInvoice
    <3> QED BY <2>1, <2>2, <3>1 DEF OInv, PaymentInv, SeesInvoice, CreditHasInvoice
  <2>6. KeepsMoney
    BY <1>2 DEF OInv, PaymentInv, KeepsMoney
  <2> QED BY <2>1, <2>3, <2>4, <2>5, <2>6 DEF OInv
<1> QED BY <1>1, <1>2 DEF cancel_linked_documents

\* An order is reopened only to be torn down, never where invoices are kept.
LEMMA ReopensStep ==
  ASSUME OInv, NEW p \in Handlers, store, Reopens(p)
  PROVE  OInv' /\ KeepsMoney
<1> PICK b : b = [books EXCEPT !.so = IF @ = "closed" THEN "open" ELSE @]
  OBVIOUS
<1> DEFINE g == [h[p] EXCEPT !.at = "reopened"]
<1>1. b = [so |-> b.so, inv |-> books.inv, pay |-> books.pay, notes |-> books.notes,
           back |-> books.back, credit |-> books.credit, torn |-> books.torn,
           paidBack |-> books.paidBack]
  BY DEF OInv, BooksShape
<1>2. /\ books' = b /\ store' = store
      /\ h' = [h EXCEPT ![p] = [g EXCEPT !.snap = b]]
  BY DEF Reopens
<1>3. HandlersShape'
  <2>1. h[p] = [at |-> h[p].at, event |-> h[p].event, snap |-> h[p].snap, seen |-> h[p].seen]
    BY DEF OInv, HandlersShape
  <2>2. g = [at |-> "reopened", event |-> h[p].event, snap |-> h[p].snap, seen |-> h[p].seen]
    BY <2>1
  <2> HIDE DEF g
  <2>3. [g EXCEPT !.snap = b] = [at |-> "reopened", event |-> h[p].event, snap |-> b,
                                 seen |-> h[p].seen]
    BY <2>2
  <2>4. h' = [h EXCEPT ![p] = [at |-> "reopened", event |-> h[p].event, snap |-> b,
                               seen |-> h[p].seen]]
    BY <1>2, <2>3
  <2> QED BY <2>4 DEF OInv, HandlersShape
<1> HIDE DEF g
<1> QED BY <1>1, <1>2, <1>3 DEF OInv, BooksShape, CreditInv, PaymentInv, CreditHasInvoice, KeepsMoney

\* Cancelling: what the snapshot shows decides between keeping and tearing down.
LEMMA on_order_cancelledStep ==
  ASSUME OInv, NEW p \in Handlers, on_order_cancelled(p)
  PROVE  OInv' /\ KeepsMoney
<1>1. CASE h[p].at # "idle" /\ close_without_cancelling(p)
  BY <1>1, ClosedStep, CommitsNothing DEF close_without_cancelling
<1>2. CASE h[p].at # "idle" /\ Commits(p, books)
  BY <1>2, CommitsNothing
<1>3. CASE /\ h[p].at # "idle" /\ ~keeps_its_invoice(h[p].snap)
           /\ closed_by_refund(h[p].snap) /\ Reopens(p)
  <2>1. store
    BY <1>3 DEF OInv, PaymentInv, SeesInvoice, CreditHasInvoice, keeps_its_invoice, closed_by_refund
  <2> QED BY <1>3, <2>1, ReopensStep
<1>4. CASE h[p].at # "idle" /\ ~keeps_its_invoice(h[p].snap) /\ cancel_linked_documents(p)
  BY <1>4, TornDownStep DEF keeps_its_invoice
<1>5. CASE h[p].at = "reopened" /\ cancel_linked_documents(p)
  <2>1. store
    BY <1>5 DEF OInv, PaymentInv, SeesInvoice
  <2> QED BY <1>5, <2>1, TornDownStep
<1> QED BY <1>1, <1>2, <1>3, <1>4, <1>5 DEF on_order_cancelled, Deciding

\* A credit note and its reversing payment: the index left room for one, and the
\* invoice the handler saw is still there.
LEMMA BookedStep ==
  ASSUME OInv, NEW p \in Handlers, NEW r \in Refunds, NEW b, Commits(p, b),
         CreditFree(r), h[p].at = "fetched", h[p].snap.inv = "live",
         b = [so |-> b.so, inv |-> books.inv, pay |-> books.pay, notes |-> books.notes,
              back |-> b.back, credit |-> [books.credit EXCEPT ![r] = @ + 1],
              torn |-> books.torn, paidBack |-> [books.paidBack EXCEPT ![r] = @ + 1]]
  PROVE  OInv' /\ KeepsMoney
<1>1. /\ books' = b /\ store' = store /\ HandlersShape'
      /\ \A q \in Handlers : h'[q].at = "idle" \/ h'[q] = h[q]
  BY CommitsShape
<1>2. /\ b.inv = books.inv /\ b.pay = books.pay /\ b.torn = books.torn
      /\ b.credit = [books.credit EXCEPT ![r] = @ + 1]
      /\ b.paidBack = [books.paidBack EXCEPT ![r] = @ + 1]
      /\ b.notes = books.notes
  OBVIOUS
<1>3. BooksShape'
  BY <1>1, <1>2 DEF OInv, BooksShape
<1>4. CreditInv'
  <2>1. books.credit[r] = 0 /\ books.paidBack[r] = 0
    BY DEF OInv, CreditInv, CreditFree
  <2> QED BY <1>1, <1>2, <2>1 DEF OInv, BooksShape, CreditInv
<1>5. PaymentInv'
  <2>1. ~store => books.inv = "live"
    BY DEF OInv, PaymentInv, SeesInvoice
  <2> QED BY <1>1, <1>2, <2>1 DEF OInv, PaymentInv, CreditHasInvoice, SeesInvoice
<1>6. KeepsMoney
  BY <1>1, <1>2 DEF KeepsMoney
<1> QED BY <1>1, <1>3, <1>4, <1>5, <1>6 DEF OInv

\* A refund is credited, or the handler has nothing to do.
LEMMA on_refund_createStep ==
  ASSUME OInv, NEW p \in Handlers, NEW r \in Refunds, on_refund_create(p, r)
  PROVE  OInv' /\ KeepsMoney
<1>1. CASE Commits(p, books)
  BY <1>1, CommitsNothing
<1>2. CASE h[p].snap.inv = "live" /\ create_credit_note(p, r)
  <2> DEFINE taken == Restocked(h[p].snap, h[p].seen.refund[r])
             Booked == reverse_payment(return_against(build_return_invoice(books, r), taken), r)
  <2>1. /\ CreditFree(r) /\ h[p].at = "fetched"
        /\ Commits(p, Booked) \/ Commits(p, Closed(Booked))
    BY <1>2 DEF create_credit_note, on_refund_create, Deciding
  <2>2. PICK c1 : c1 = build_return_invoice(books, r)
    OBVIOUS
  <2>3. PICK c2 : c2 = return_against(c1, taken)
    OBVIOUS
  <2>4. Booked = [so |-> books.so, inv |-> books.inv, pay |-> books.pay, notes |-> books.notes,
                  back |-> c2.back, credit |-> [books.credit EXCEPT ![r] = @ + 1],
                  torn |-> books.torn, paidBack |-> [books.paidBack EXCEPT ![r] = @ + 1]]
    <3>1. c1 = [so |-> books.so, inv |-> books.inv, pay |-> books.pay, notes |-> books.notes,
                back |-> books.back, credit |-> [books.credit EXCEPT ![r] = @ + 1],
                torn |-> books.torn, paidBack |-> books.paidBack]
      BY <2>2 DEF OInv, BooksShape, build_return_invoice
    <3>2. c2 = [so |-> books.so, inv |-> books.inv, pay |-> books.pay, notes |-> books.notes,
                back |-> c2.back, credit |-> [books.credit EXCEPT ![r] = @ + 1],
                torn |-> books.torn, paidBack |-> books.paidBack]
      <4> HIDE DEF taken
      <4> QED BY <2>3, <3>1 DEF return_against
    <3>3. reverse_payment(c2, r) = [so |-> c2.so, inv |-> c2.inv, pay |-> c2.pay,
                notes |-> c2.notes, back |-> c2.back, credit |-> c2.credit, torn |-> c2.torn,
                paidBack |-> [c2.paidBack EXCEPT ![r] = @ + 1]]
      BY <3>2 DEF reverse_payment
    <3> QED BY <2>2, <2>3, <3>2, <3>3
  <2> HIDE DEF Booked
  <2>5. CASE Commits(p, Booked)
    BY <1>2, <2>1, <2>4, <2>5, BookedStep
  <2>6. CASE Commits(p, Closed(Booked))
    <3> PICK c : c = Closed(Booked)
      OBVIOUS
    <3>1. c = [so |-> c.so, inv |-> books.inv, pay |-> books.pay, notes |-> books.notes,
               back |-> c.back, credit |-> [books.credit EXCEPT ![r] = @ + 1],
               torn |-> books.torn, paidBack |-> [books.paidBack EXCEPT ![r] = @ + 1]]
      BY <2>4 DEF Closed
    <3> QED BY <1>2, <2>1, <2>6, <3>1, BookedStep
  <2> QED BY <2>1, <2>5, <2>6
<1> QED BY <1>1, <1>2 DEF on_refund_create

-----------------------------------------------------------------------------

\* The invariant is inductive, and no step loses money received.
LEMMA NextOInv == OInv /\ [Next]_vars => OInv' /\ KeepsMoney
<1> SUFFICES ASSUME OInv, [Next]_vars
             PROVE  OInv' /\ KeepsMoney
  OBVIOUS
<1>1. CASE Selling
  BY <1>1, SellingStep
<1>2. ASSUME NEW p \in Handlers, Handling(p)
      PROVE  OInv' /\ KeepsMoney
  <2>1. CASE (\E e \in Events : Begin(p, e)) \/ fetch_order(p) \/ HandlerFails(p)
    BY <2>1, ReadingStep
  <2>2. CASE on_order_create(p)
    BY <2>2, on_order_createStep
  <2>3. CASE on_order_paid(p)
    BY <2>3, on_order_paidStep
  <2>4. CASE \E f \in Fulfilments : on_order_fulfilled(p, f)
    BY <2>4, on_order_fulfilledStep
  <2>5. CASE on_order_cancelled(p)
    BY <2>5, on_order_cancelledStep
  <2>6. CASE \E r \in Refunds : on_refund_create(p, r)
    BY <2>6, on_refund_createStep
  <2> QED BY <1>2, <2>1, <2>2, <2>3, <2>4, <2>5, <2>6 DEF Handling
<1>3. CASE UNCHANGED vars
  BY <1>3 DEF vars, OInv, BooksShape, HandlersShape, CreditInv, PaymentInv, CreditHasInvoice,
              SeesInvoice, KeepsMoney
<1> QED BY <1>1, <1>2, <1>3 DEF Next

\* The inductive invariant of the order's books (OrderLifecycleInv).
THEOREM BooksInvariant == Spec => []OInv
<1>1. OInv /\ [Next]_vars => OInv'
  BY NextOInv
<1> QED BY <1>1, InitOInv, PTL DEF Spec

\* README.md:87: a redelivered refund is neither credited nor paid back twice,
\* also when two handlers of it run at once: the index refuses a second note,
\* and each reversing payment comes with its note.
THEOREM CreditedOnce == Spec => []RefundBookedOnce
<1>1. OInv => RefundBookedOnce
  BY DEF OInv, CreditInv, RefundBookedOnce
<1> QED BY <1>1, BooksInvariant, PTL

\* order.py:896-910: a store that did not ask for it keeps the record of money
\* received, although a cancellation decides from a snapshot that may be old.
THEOREM MoneyKept == Spec => MoneyReceivedIsKept
<1>1. OInv /\ [Next]_vars => [~store => /\ (books.inv = "live" => books'.inv = "live")
                                        /\ (books.pay = "live" => books'.pay = "live")]_vars
  BY NextOInv DEF KeepsMoney
<1> QED BY <1>1, BooksInvariant, PTL DEF Spec, MoneyReceivedIsKept

-----------------------------------------------------------------------------
(* What each handler writes, field by field *)

\* The totals of the model are the sums of SetFacts.
LEMMA TotalIs == ASSUME NEW f, NEW S PROVE Total(f, S) = SumOf(f, S)
BY DEF Total, SumOf

\* The books as a record of their parts.
Books(so, inv, pay, notes, back, credit, torn, paidBack) ==
  [so |-> so, inv |-> inv, pay |-> pay, notes |-> notes, back |-> back, credit |-> credit,
   torn |-> torn, paidBack |-> paidBack]

\* Books of the right type are such a record.
LEMMA BooksAre ==
  ASSUME NEW b \in BooksType
  PROVE  b = Books(b.so, b.inv, b.pay, b.notes, b.back, b.credit, b.torn, b.paidBack)
BY DEF BooksType, Books

\* The order's status once a handler has booked it or found it.
Made(p) == IF h[p].snap.so = "none" THEN "open" ELSE books.so

\* What booking the order does to the books.
LEMMA create_sales_orderIs ==
  ASSUME NEW p, books \in BooksType
  PROVE  create_sales_order(p) = Books(Made(p), books.inv, books.pay, books.notes, books.back,
                                       books.credit, books.torn, books.paidBack)
<1>1. CASE h[p].snap.so = "none"
  BY <1>1 DEF BooksType, create_sales_order, Made, Books
<1>2. CASE h[p].snap.so # "none"
  BY <1>2 DEF BooksType, create_sales_order, Made, Books
<1> QED BY <1>1, <1>2

\* The four things a handler can do to the books by committing, field by field.
Creates(p) ==
  /\ Deciding(p, "create") /\ OrderFree(p)
  /\ Commits(p, Books(Made(p), books.inv, books.pay, books.notes, books.back,
                      books.credit, books.torn, books.paidBack))

Invoices(p) ==
  /\ Deciding(p, "paid") /\ OrderFree(p)
  /\ h[p].snap.inv # "live" /\ h[p].snap.so \notin {"cancelled", "closed"} /\ books.inv # "live"
  /\ Commits(p, Books(Made(p), "live", "live", books.notes, books.back,
                      books.credit, books.torn, books.paidBack))

WithNotes(made) == [g \in Fulfilments |-> books.notes[g] + (IF g \in made THEN 1 ELSE 0)]

Delivers(p, f, made) ==
  /\ Deciding(p, f) /\ OrderFree(p) /\ h[p].snap.so # "cancelled"
  /\ made \subseteq unrecorded(h[p].snap, h[p].seen)
  /\ Cardinality(made) = Least(Cardinality(unrecorded(h[p].snap, h[p].seen)), Qty - InHand(h[p].snap))
  /\ Commits(p, Books(Made(p), books.inv, books.pay, WithNotes(made), books.back,
                      books.credit, books.torn, books.paidBack))

\* A new status and nothing else.
Marks(p, so) ==
  Commits(p, Books(so, books.inv, books.pay, books.notes, books.back,
                   books.credit, books.torn, books.paidBack))

\* orders/create: the order is booked, or found booked.
LEMMA on_order_createIs ==
  ASSUME NEW p, books \in BooksType, on_order_create(p)
  PROVE  Creates(p)
BY create_sales_orderIs DEF on_order_create, Creates

\* orders/paid: invoiced already, or invoice and payment come with the order.
LEMMA on_order_paidIs ==
  ASSUME NEW p, books \in BooksType, on_order_paid(p)
  PROVE  \/ Deciding(p, "paid") /\ h[p].snap.inv = "live" /\ Commits(p, books)
         \/ Invoices(p)
<1> PICK c : c = create_sales_order(p)
  OBVIOUS
<1> PICK so : so = Made(p)
  OBVIOUS
<1>1. c = Books(so, books.inv, books.pay, books.notes, books.back,
                books.credit, books.torn, books.paidBack)
  BY create_sales_orderIs
<1> DEFINE i == [c EXCEPT !.inv = "live"]
           b == [c EXCEPT !.inv = "live", !.pay = "live"]
<1>2. b = Books(so, "live", "live", books.notes, books.back, books.credit, books.torn, books.paidBack)
  <2>1. i = Books(so, "live", books.pay, books.notes, books.back,
                  books.credit, books.torn, books.paidBack)
    BY <1>1 DEF Books
  <2>2. b = [i EXCEPT !.pay = "live"]
    OBVIOUS
  <2> HIDE DEF i, b
  <2> QED BY <2>1, <2>2 DEF Books
<1>3. ASSUME h[p].snap.inv # "live", usable_sales_order(h[p].snap), h[p].snap.so # "closed",
             OrderFree(p), books.inv # "live", Commits(p, b), Deciding(p, "paid")
      PROVE  Invoices(p)
  <2> HIDE DEF b
  <2> QED BY <1>2, <1>3 DEF Invoices, usable_sales_order
<1> QED BY <1>3 DEF on_order_paid

\* orders/fulfilled: some of the fulfilments without a note get one.
LEMMA on_order_fulfilledIs ==
  ASSUME NEW p, NEW f, books \in BooksType, on_order_fulfilled(p, f)
  PROVE  \E made : Delivers(p, f, made)
<1> PICK c : c = create_sales_order(p)
  OBVIOUS
<1> DEFINE b(made) == [c EXCEPT !.notes = [g \in Fulfilments |->
                                             @[g] + IF g \in made THEN 1 ELSE 0]]
<1>1. PICK made \in SUBSET unrecorded(h[p].snap, h[p].seen) :
        /\ Cardinality(made) = Least(Cardinality(unrecorded(h[p].snap, h[p].seen)),
                                     Qty - InHand(h[p].snap))
        /\ Commits(p, b(made))
  BY DEF on_order_fulfilled
<1>2. c = Books(Made(p), books.inv, books.pay, books.notes, books.back,
                books.credit, books.torn, books.paidBack)
  BY create_sales_orderIs
<1>3. b(made) = Books(Made(p), books.inv, books.pay, WithNotes(made), books.back,
                      books.credit, books.torn, books.paidBack)
  BY <1>2 DEF Books, WithNotes
<1> HIDE DEF b
<1> QED BY <1>1, <1>3 DEF Delivers, on_order_fulfilled, usable_sales_order

\* Tearing down, field by field.
Torn(b) ==
  Books(IF b.so = "none" THEN "none" ELSE "cancelled",
        IF b.inv = "live" THEN "cancelled" ELSE b.inv,
        IF b.pay = "live" THEN "cancelled" ELSE b.pay,
        [f \in Fulfilments |-> 0], 0, [r \in Refunds |-> 0],
        b.torn \cup {r \in Refunds : b.credit[r] > 0}, b.paidBack)

\* TornDown, in these words.
LEMMA TornDownIs == ASSUME NEW b PROVE TornDown(b) = Torn(b)
BY DEF TornDown, Torn, Books

\* Closing changes an open order's status and nothing else.
LEMMA ClosedIs ==
  ASSUME NEW b \in BooksType
  PROVE  Closed(b) = Books(IF b.so = "open" THEN "closed" ELSE b.so, b.inv, b.pay, b.notes, b.back,
                           b.credit, b.torn, b.paidBack)
BY DEF BooksType, Closed, Books

\* The order reopened, before it is torn down.
Opened ==
  Books(IF books.so = "closed" THEN "open" ELSE books.so, books.inv, books.pay, books.notes,
        books.back, books.credit, books.torn, books.paidBack)

\* Reopening: what the books and the handler's snapshot become.
LEMMA ReopensIs ==
  ASSUME NEW p \in Handlers, TypeOK, Reopens(p)
  PROVE  /\ books' = Opened
         /\ h' = [h EXCEPT ![p] = [at |-> "reopened", event |-> h[p].event, snap |-> Opened,
                                   seen |-> h[p].seen]]
         /\ UNCHANGED <<store, shop, due, repeats, overlapped, unsettled>>
<1> PICK b : b = [books EXCEPT !.so = IF @ = "closed" THEN "open" ELSE @]
  OBVIOUS
<1> DEFINE g == [h[p] EXCEPT !.at = "reopened"]
<1>1. b = Opened
  BY DEF TypeOK, BooksType, Books, Opened
<1>2. books' = b /\ h' = [h EXCEPT ![p] = [g EXCEPT !.snap = b]]
  BY DEF Reopens
<1>3. h[p] = [at |-> h[p].at, event |-> h[p].event, snap |-> h[p].snap, seen |-> h[p].seen]
  BY DEF TypeOK
<1>4. g = [at |-> "reopened", event |-> h[p].event, snap |-> h[p].snap, seen |-> h[p].seen]
  BY <1>3
<1> HIDE DEF g
<1>5. [g EXCEPT !.snap = b] = [at |-> "reopened", event |-> h[p].event, snap |-> b,
                               seen |-> h[p].seen]
  BY <1>4
<1> QED BY <1>1, <1>2, <1>5 DEF Reopens

-----------------------------------------------------------------------------

\* The books with refund r credited, taken units of it returned.
WithCredit(x, r, taken) ==
  Books(x.so, x.inv, x.pay, x.notes, x.back + taken, [x.credit EXCEPT ![r] = @ + 1],
        x.torn, [x.paidBack EXCEPT ![r] = @ + 1])

\* What the return note of refund r brings back.
Taken(p, r) == Restocked(h[p].snap, h[p].seen.refund[r])

\* There is something for the settlement to close.
Closes(p, r) == settle_after_refund(WithCredit(h[p].snap, r, Taken(p, r)), h[p].seen)

Credits(p, r) ==
  /\ Deciding(p, r) /\ h[p].snap.credit[r] = 0 /\ h[p].snap.inv = "live"
  /\ CreditFree(r) /\ Taken(p, r) <= InHand(books)
  /\ Closes(p, r) \/ unsettled' = unsettled
  /\ Commits(p, IF Closes(p, r) /\ ~unsettled'
                THEN Closed(WithCredit(books, r, Taken(p, r)))
                ELSE WithCredit(books, r, Taken(p, r)))

\* A credit note, its return note and its reversing payment, field by field.
LEMMA WithCreditIs ==
  ASSUME NEW x \in BooksType, NEW r, NEW taken
  PROVE  reverse_payment(return_against(build_return_invoice(x, r), taken), r) = WithCredit(x, r, taken)
<1>1. PICK c1 : c1 = build_return_invoice(x, r)
  OBVIOUS
<1>2. PICK c2 : c2 = return_against(c1, taken)
  OBVIOUS
<1>3. c1 = Books(x.so, x.inv, x.pay, x.notes, x.back, [x.credit EXCEPT ![r] = @ + 1],
                 x.torn, x.paidBack)
  BY <1>1 DEF BooksType, Books, build_return_invoice
<1>4. c2 = Books(x.so, x.inv, x.pay, x.notes, x.back + taken, [x.credit EXCEPT ![r] = @ + 1],
                 x.torn, x.paidBack)
  BY <1>2, <1>3 DEF Books, return_against
<1>5. reverse_payment(c2, r) = WithCredit(x, r, taken)
  BY <1>4 DEF Books, WithCredit, reverse_payment
<1> QED BY <1>1, <1>2, <1>5

\* refunds/create: credited already, nothing to credit, or a credit note.
LEMMA on_refund_createIs ==
  ASSUME TypeOK, NEW p \in Handlers, NEW r, on_refund_create(p, r)
  PROVE  \/ /\ Deciding(p, r) /\ Commits(p, books) /\ unsettled' = unsettled
            /\ h[p].snap.credit[r] > 0 \/ (h[p].snap.credit[r] = 0 /\ NothingToCredit(h[p].snap))
         \/ Credits(p, r)
<1>1. books \in BooksType /\ h[p].snap \in BooksType
  BY DEF TypeOK
<1>2. ASSUME create_credit_note(p, r), h[p].snap.inv = "live", h[p].snap.credit[r] = 0, Deciding(p, r)
      PROVE  Credits(p, r)
  <2> DEFINE Booked(x) == reverse_payment(return_against(build_return_invoice(x, r), Taken(p, r)), r)
  <2>1. Booked(books) = WithCredit(books, r, Taken(p, r))
        /\ Booked(h[p].snap) = WithCredit(h[p].snap, r, Taken(p, r))
    BY <1>1, WithCreditIs
  <2>2. /\ CreditFree(r) /\ Taken(p, r) <= InHand(books)
        /\ settle_after_refund(Booked(h[p].snap), h[p].seen) \/ unsettled' = unsettled
        /\ Commits(p, IF settle_after_refund(Booked(h[p].snap), h[p].seen) /\ ~unsettled'
                      THEN Closed(Booked(books)) ELSE Booked(books))
    BY <1>2 DEF create_credit_note, Taken
  <2> HIDE DEF Booked
  <2> QED BY <1>2, <2>1, <2>2 DEF Credits, Closes
<1> QED BY <1>2 DEF on_refund_create

\* What becomes of the order a cancellation finds.
LEMMA on_order_cancelledIs ==
  ASSUME TypeOK, NEW p \in Handlers, on_order_cancelled(p)
  PROVE  \/ /\ Deciding(p, "cancelled") /\ Commits(p, books)
            /\ \/ h[p].snap.so = "closed"
               \/ h[p].snap.so # "open" /\ keeps_its_invoice(h[p].snap)
               \/ h[p].snap.so = "open" /\ Completed(h[p].snap)
         \/ /\ Deciding(p, "cancelled") /\ h[p].snap.so = "open"
            /\ Marks(p, IF books.so = "open" THEN "closed" ELSE books.so)
         \/ Deciding(p, "cancelled") /\ h[p].snap.so = "closed" /\ Reopens(p)
         \/ /\ Deciding(p, "cancelled") \/ h[p].at = "reopened"
            /\ \/ Torn(h[p].snap) = h[p].snap /\ Commits(p, books)
               \/ books = h[p].snap /\ Commits(p, Torn(books))
<1>1. books \in BooksType
  BY DEF TypeOK
<1>2. ASSUME cancel_linked_documents(p)
      PROVE  \/ Torn(h[p].snap) = h[p].snap /\ Commits(p, books)
             \/ books = h[p].snap /\ Commits(p, Torn(books))
  BY <1>2, TornDownIs DEF cancel_linked_documents
<1>3. ASSUME close_without_cancelling(p), Deciding(p, "cancelled"), keeps_its_invoice(h[p].snap)
      PROVE  \/ /\ Deciding(p, "cancelled") /\ Commits(p, books)
                /\ \/ h[p].snap.so # "open" /\ keeps_its_invoice(h[p].snap)
                   \/ h[p].snap.so = "open" /\ Completed(h[p].snap)
             \/ /\ Deciding(p, "cancelled") /\ h[p].snap.so = "open"
                /\ Marks(p, IF books.so = "open" THEN "closed" ELSE books.so)
  BY <1>1, <1>3, ClosedIs DEF close_without_cancelling, Marks
<1> QED BY <1>2, <1>3 DEF on_order_cancelled

-----------------------------------------------------------------------------
(* Types *)

\* What was delivered is a number of units.
LEMMA DeliveredType == ASSUME NEW b \in BooksType PROVE Delivered(b) \in Nat
<1>1. IsFiniteSet(Fulfilments) /\ \A f \in Fulfilments : b.notes[f] \in Nat
  BY NamesAssumption DEF BooksType
<1>2. SumOf(b.notes, Fulfilments) \in Nat
  BY <1>1, SumNat
<1> QED BY <1>2, TotalIs DEF Delivered

\* More notes, more delivered.
LEMMA DeliveredGrows ==
  ASSUME NEW b \in BooksType, NEW c \in BooksType, \A f \in Fulfilments : b.notes[f] <= c.notes[f]
  PROVE  Delivered(b) <= Delivered(c)
<1>1. /\ IsFiniteSet(Fulfilments)
      /\ \A f \in Fulfilments : b.notes[f] \in Int /\ c.notes[f] \in Int /\ b.notes[f] <= c.notes[f]
  BY NamesAssumption DEF BooksType
<1>2. SumOf(b.notes, Fulfilments) <= SumOf(c.notes, Fulfilments)
  BY <1>1, SumOrder
<1> QED BY <1>2, TotalIs DEF Delivered

\* Books delivered from the same notes.
LEMMA DeliveredSame ==
  ASSUME NEW b, NEW c, b.notes = c.notes
  PROVE  Delivered(b) = Delivered(c)
BY DEF Delivered

\* The empty books and an idle handler have their types.
LEMMA InitTypeInv == Init => TypeInv
<1> SUFFICES ASSUME Init PROVE TypeInv
  OBVIOUS
<1>1. NoBooks \in BooksType
  BY DEF NoBooks, BooksType, Docs
<1>2. Adds(NoBooks)
  BY <1>1, DeliveredType DEF Adds, NoBooks
<1>3. NewOrder \in ShopType
  BY QtyAssumption DEF NewOrder, ShopType, NoRefund
<1>4. TypeOK
  <2>1. h \in [Handlers -> [at : {"idle", "begun", "fetched", "reopened"},
                            event : Events \cup {NoEvent}, snap : BooksType, seen : ShopType]]
    BY <1>1, <1>3 DEF Init, Idle
  <2>2. /\ store \in BOOLEAN /\ overlapped \in BOOLEAN /\ unsettled \in BOOLEAN
        /\ repeats \in 0..MaxRepeats /\ due \subseteq Events
    <3>1. repeats \in 0..MaxRepeats
      BY QtyAssumption DEF Init
    <3>2. due \subseteq Events
      BY DEF Init, Events
    <3>3. store \in BOOLEAN /\ overlapped \in BOOLEAN /\ unsettled \in BOOLEAN
      BY DEF Init
    <3> QED BY <3>1, <3>2, <3>3
  <2> QED BY <1>1, <1>3, <2>1, <2>2 DEF Init, TypeOK
<1> QED BY <1>2, <1>4 DEF Init, TypeInv, Idle, Runs

\* A commit of well-typed books is well typed.
LEMMA CommitsType ==
  ASSUME TypeInv, unsettled' \in BOOLEAN,
         NEW p \in Handlers, NEW b \in BooksType, Adds(b), Commits(p, b)
  PROVE  TypeInv'
<1>1. /\ books' = b /\ due' = due \ {h[p].event} /\ h' = [h EXCEPT ![p] = Idle]
      /\ UNCHANGED <<store, shop, repeats, overlapped>>
  BY DEF Commits
<1>2. Idle \in [at : {"idle", "begun", "fetched", "reopened"}, event : Events \cup {NoEvent},
                snap : BooksType, seen : ShopType] /\ Adds(Idle.snap) /\ Runs(Idle)
  <2>1. NoBooks \in BooksType
    BY DEF NoBooks, BooksType, Docs
  <2>2. Adds(NoBooks)
    BY <2>1, DeliveredType DEF Adds, NoBooks
  <2>3. NewOrder \in ShopType
    BY QtyAssumption DEF NewOrder, ShopType, NoRefund
  <2> QED BY <2>1, <2>2, <2>3 DEF Idle, Runs
<1>3. TypeOK'
  BY <1>1, <1>2 DEF TypeInv, TypeOK
<1>4. \A q \in Handlers : h'[q] = IF q = p THEN Idle ELSE h[q]
  BY <1>1 DEF TypeInv, TypeOK
<1>5. Adds(books)'
  BY <1>1
<1>6. \A q \in Handlers : Adds(h'[q].snap) /\ Runs(h'[q])
  BY <1>2, <1>4 DEF TypeInv
<1> QED BY <1>3, <1>5, <1>6 DEF TypeInv

\* A handler's own step of reading keeps the types.
LEMMA HandlerType ==
  ASSUME TypeInv, NEW p \in Handlers,
         NEW g \in [at : {"idle", "begun", "fetched", "reopened"}, event : Events \cup {NoEvent},
                    snap : BooksType, seen : ShopType],
         Adds(g.snap), Runs(g), h' = [h EXCEPT ![p] = g], UNCHANGED <<store, shop, books>>,
         repeats' \in 0..MaxRepeats, overlapped' \in BOOLEAN, due' \subseteq Events,
         unsettled' \in BOOLEAN
  PROVE  TypeInv'
<1>1. h' \in [Handlers -> [at : {"idle", "begun", "fetched", "reopened"},
                           event : Events \cup {NoEvent}, snap : BooksType, seen : ShopType]]
  BY DEF TypeInv, TypeOK
<1>2. TypeOK'
  BY <1>1 DEF TypeInv, TypeOK
<1>3. \A q \in Handlers : h'[q] = IF q = p THEN g ELSE h[q]
  BY DEF TypeInv, TypeOK
<1>4. Adds(books)' /\ \A q \in Handlers : Adds(h'[q].snap) /\ Runs(h'[q])
  BY <1>3 DEF TypeInv
<1> QED BY <1>2, <1>4 DEF TypeInv

\* Shopify's side keeps its types: units stay a number a refund can be of.
LEMMA SellingType == ASSUME TypeInv, unsettled' \in BOOLEAN, Selling PROVE TypeInv'
<1>1. UNCHANGED <<store, books, h, repeats, overlapped>>
  BY DEF Selling, Pay, Ship, Refund, CancelFulfilment, Cancel, Raises
<1>2. shop' \in ShopType /\ due' \subseteq Events
  <2>0. shop \in ShopType /\ due \subseteq Events
    BY DEF TypeInv, TypeOK
  <2>1. CASE Pay
    BY <2>0, <2>1 DEF Pay, Raises, ShopType, Events
  <2>2. CASE Cancel
    BY <2>0, <2>2 DEF Cancel, Raises, ShopType, Events
  <2>3. ASSUME NEW f \in Fulfilments, Ship(f) \/ CancelFulfilment(f)
        PROVE  shop' \in ShopType /\ due' \subseteq Events
    <3>1. \A x \in {"shipped", "cancelled"} : [shop EXCEPT !.ful[f] = x] \in ShopType
      BY <2>0 DEF ShopType
    <3>2. CASE Ship(f)
      BY <2>0, <3>1, <3>2 DEF Ship, Raises, Events
    <3>3. CASE CancelFulfilment(f)
      BY <2>0, <3>1, <3>3 DEF CancelFulfilment
    <3> QED BY <2>3, <3>2, <3>3
  <2>4. ASSUME NEW r \in Refunds, NEW n \in 1..Qty, NEW kind \in Kinds, Refund(r, n, kind)
        PROVE  shop' \in ShopType /\ due' \subseteq Events
    <3>1. PICK x : x = [units |-> n, shipped |-> kind.shipped, restock |-> kind.restock,
                        postage |-> kind.postage]
      OBVIOUS
    <3>2. x \in [units : 0..Qty, shipped : BOOLEAN, restock : BOOLEAN, postage : BOOLEAN]
      BY <3>1, KindsAssumption, QtyAssumption
    <3>3. shop' = [shop EXCEPT !.refund[r] = x] /\ due' = due \cup {r}
      BY <2>4, <3>1 DEF Refund, Raises
    <3> QED BY <2>0, <3>2, <3>3 DEF ShopType, Events
  <2> QED BY <2>1, <2>2, <2>3, <2>4 DEF Selling
<1>3. TypeOK'
  BY <1>1, <1>2 DEF TypeInv, TypeOK
<1>4. Adds(books)' /\ \A q \in Handlers : Adds(h'[q].snap) /\ Runs(h'[q])
  BY <1>1 DEF TypeInv
<1> QED BY <1>3, <1>4 DEF TypeInv

\* Beginning, fetching and failing.
LEMMA ReadingType ==
  ASSUME TypeInv, unsettled' \in BOOLEAN, NEW p \in Handlers,
         (\E e \in Events : Begin(p, e)) \/ fetch_order(p) \/ HandlerFails(p)
  PROVE  TypeInv'
<1>0. /\ shop \in ShopType /\ books \in BooksType /\ due \subseteq Events
      /\ repeats \in 0..MaxRepeats /\ overlapped \in BOOLEAN
      /\ h[p] \in [at : {"idle", "begun", "fetched", "reopened"}, event : Events \cup {NoEvent},
                   snap : BooksType, seen : ShopType]
      /\ Adds(books) /\ Adds(h[p].snap) /\ Runs(h[p])
  BY DEF TypeInv, TypeOK
<1>n. NewOrder \in ShopType /\ NoBooks \in BooksType
  BY QtyAssumption DEF NewOrder, ShopType, NoRefund, NoBooks, BooksType, Docs
<1>1. ASSUME NEW e \in Events, Begin(p, e) PROVE TypeInv'
  <2> PICK g : g = [at |-> "begun", event |-> e, snap |-> books, seen |-> NewOrder]
    OBVIOUS
  <2>1. /\ h' = [h EXCEPT ![p] = g] /\ UNCHANGED <<store, shop, books>> /\ due' = due
        /\ repeats' \in 0..MaxRepeats
    BY <1>0, <1>1, QtyAssumption DEF Begin
  <2>2. overlapped' \in BOOLEAN
    BY <1>1 DEF Begin
  <2>3. g \in [at : {"idle", "begun", "fetched", "reopened"}, event : Events \cup {NoEvent},
               snap : BooksType, seen : ShopType]
    BY <1>0, <1>n
  <2>4. Adds(g.snap) /\ Runs(g)
    BY <1>0 DEF Runs
  <2> QED BY <1>0, <2>1, <2>2, <2>3, <2>4, HandlerType
<1>2. ASSUME fetch_order(p) PROVE TypeInv'
  <2> DEFINE g == [at |-> "fetched", event |-> h[p].event, snap |-> h[p].snap, seen |-> shop]
  <2>1. /\ h' = [h EXCEPT ![p] = g] /\ UNCHANGED <<store, shop, books>> /\ due' = due
        /\ repeats' = repeats /\ overlapped' = overlapped /\ h[p].at = "begun"
    <3> DEFINE g1 == [h[p] EXCEPT !.at = "fetched"]
    <3>1. h[p] = [at |-> h[p].at, event |-> h[p].event, snap |-> h[p].snap, seen |-> h[p].seen]
      BY <1>0
    <3>2. g1 = [at |-> "fetched", event |-> h[p].event, snap |-> h[p].snap, seen |-> h[p].seen]
      BY <3>1
    <3>3. h' = [h EXCEPT ![p] = [g1 EXCEPT !.seen = shop]]
      BY <1>2 DEF fetch_order
    <3> HIDE DEF g1
    <3>4. [g1 EXCEPT !.seen = shop] = g
      BY <3>2
    <3> QED BY <1>2, <3>3, <3>4 DEF fetch_order
  <2>3. g \in [at : {"idle", "begun", "fetched", "reopened"}, event : Events \cup {NoEvent},
               snap : BooksType, seen : ShopType]
    BY <1>0
  <2>4. Adds(g.snap) /\ Runs(g)
    BY <1>0, <2>1 DEF Runs
  <2> HIDE DEF g
  <2> QED BY <1>0, <2>1, <2>3, <2>4, HandlerType
<1>3. ASSUME HandlerFails(p) PROVE TypeInv'
  <2>1. /\ h' = [h EXCEPT ![p] = Idle] /\ UNCHANGED <<store, shop, books>>
        /\ due' = due \cup {h[p].event}
        /\ repeats' = repeats /\ overlapped' = overlapped
        /\ h[p].event \in Events
    BY <1>0, <1>3 DEF HandlerFails, Runs
  <2>3. Idle \in [at : {"idle", "begun", "fetched", "reopened"}, event : Events \cup {NoEvent},
                  snap : BooksType, seen : ShopType]
    BY <1>n DEF Idle
  <2>4. Adds(Idle.snap) /\ Runs(Idle)
    <3>1. Adds(NoBooks)
      BY <1>n, DeliveredType DEF Adds, NoBooks
    <3> QED BY <3>1 DEF Idle, Runs
  <2> QED BY <1>0, <2>1, <2>3, <2>4, HandlerType
<1> QED BY <1>1, <1>2, <1>3

\* What a handler's snapshot and what it fetched are, while it decides.
LEMMA SnapsType ==
  ASSUME TypeInv, NEW p \in Handlers
  PROVE  /\ books \in BooksType /\ h[p].snap \in BooksType /\ h[p].seen \in ShopType
         /\ shop \in ShopType /\ Adds(books) /\ Adds(h[p].snap)
BY DEF TypeInv, TypeOK

\* A status of a Sales Order.
Statuses == {"none", "open", "closed", "cancelled"}

\* Books of the right parts have the type.
LEMMA BooksTyped ==
  ASSUME NEW so \in Statuses, NEW inv \in Docs, NEW pay \in Docs,
         NEW notes \in [Fulfilments -> Nat], NEW back \in Nat, NEW credit \in [Refunds -> Nat],
         NEW torn \in SUBSET Refunds, NEW paidBack \in [Refunds -> Nat],
         NEW b, b = Books(so, inv, pay, notes, back, credit, torn, paidBack)
  PROVE  /\ b \in BooksType
         /\ b.so = so /\ b.inv = inv /\ b.pay = pay /\ b.notes = notes /\ b.back = back
         /\ b.credit = credit /\ b.torn = torn /\ b.paidBack = paidBack
BY DEF Books, BooksType, Statuses

\* The parts of typed books.
LEMMA BooksParts ==
  ASSUME NEW b \in BooksType
  PROVE  /\ b.so \in Statuses /\ b.inv \in Docs /\ b.pay \in Docs
         /\ b.notes \in [Fulfilments -> Nat] /\ b.back \in Nat /\ b.credit \in [Refunds -> Nat]
         /\ b.torn \in SUBSET Refunds /\ b.paidBack \in [Refunds -> Nat]
BY DEF BooksType, Statuses

\* Books with a new status.
LEMMA MarkedType ==
  ASSUME NEW x \in BooksType, Adds(x), NEW so \in Statuses, NEW inv \in Docs, NEW pay \in Docs,
         NEW b, b = Books(so, inv, pay, x.notes, x.back, x.credit, x.torn, x.paidBack)
  PROVE  b \in BooksType /\ Adds(b)
<1>1. b \in BooksType /\ b.notes = x.notes /\ b.back = x.back
  BY BooksParts, BooksTyped
<1> QED BY <1>1, DeliveredSame DEF Adds

\* What a return note brings back is a number of units.
LEMMA TakenType ==
  ASSUME TypeInv, NEW p \in Handlers, NEW r \in Refunds
  PROVE  Taken(p, r) \in Nat
<1>1. h[p].seen.refund[r].units \in Nat
  BY SnapsType, QtyAssumption DEF ShopType
<1>2. InHand(h[p].snap) \in Nat
  <2>1. Delivered(h[p].snap) \in Nat /\ h[p].snap.back \in Nat /\ h[p].snap.back <= Delivered(h[p].snap)
    BY SnapsType, DeliveredType, BooksParts DEF Adds
  <2> QED BY <2>1 DEF InHand
<1> QED BY <1>1, <1>2 DEF Taken, Restocked, Least

\* Books with a refund credited and some of what was delivered returned.
LEMMA WithCreditType ==
  ASSUME NEW x \in BooksType, Adds(x), NEW r \in Refunds, NEW taken \in Nat, taken <= InHand(x)
  PROVE  WithCredit(x, r, taken) \in BooksType /\ Adds(WithCredit(x, r, taken))
<1> PICK b : b = WithCredit(x, r, taken)
  OBVIOUS
<1>1. /\ x.back + taken \in Nat
      /\ [x.credit EXCEPT ![r] = @ + 1] \in [Refunds -> Nat]
      /\ [x.paidBack EXCEPT ![r] = @ + 1] \in [Refunds -> Nat]
  BY BooksParts
<1>2. b \in BooksType /\ b.notes = x.notes /\ b.back = x.back + taken
  <2> PICK credit : credit = [x.credit EXCEPT ![r] = @ + 1]
    OBVIOUS
  <2> PICK paidBack : paidBack = [x.paidBack EXCEPT ![r] = @ + 1]
    OBVIOUS
  <2>1. b = Books(x.so, x.inv, x.pay, x.notes, x.back + taken, credit, x.torn, paidBack)
    BY DEF WithCredit
  <2>2. /\ x.so \in Statuses /\ x.inv \in Docs /\ x.pay \in Docs
        /\ x.notes \in [Fulfilments -> Nat] /\ x.torn \in SUBSET Refunds
    BY BooksParts
  <2> QED BY <1>1, <2>1, <2>2, BooksTyped
<1>3. Delivered(b) = Delivered(x) /\ Delivered(x) \in Nat /\ x.back \in Nat
  BY <1>2, DeliveredSame, DeliveredType, BooksParts
<1> QED BY <1>2, <1>3 DEF Adds, InHand

\* Books closed.
LEMMA ClosedType ==
  ASSUME NEW x \in BooksType, Adds(x)
  PROVE  Closed(x) \in BooksType /\ Adds(Closed(x))
<1> PICK b : b = Closed(x)
  OBVIOUS
<1>1. b = Books(IF x.so = "open" THEN "closed" ELSE x.so, x.inv, x.pay, x.notes, x.back,
                x.credit, x.torn, x.paidBack)
  BY ClosedIs
<1>2. (IF x.so = "open" THEN "closed" ELSE x.so) \in Statuses /\ x.inv \in Docs /\ x.pay \in Docs
  BY BooksParts DEF Statuses
<1> QED BY <1>1, <1>2, MarkedType

\* Books torn down.
LEMMA TornType ==
  ASSUME NEW x \in BooksType
  PROVE  Torn(x) \in BooksType /\ Adds(Torn(x))
<1> PICK b : b = Torn(x)
  OBVIOUS
<1>1. /\ (IF x.so = "none" THEN "none" ELSE "cancelled") \in Statuses
      /\ (IF x.inv = "live" THEN "cancelled" ELSE x.inv) \in Docs
      /\ (IF x.pay = "live" THEN "cancelled" ELSE x.pay) \in Docs
      /\ [f \in Fulfilments |-> 0] \in [Fulfilments -> Nat]
      /\ [r \in Refunds |-> 0] \in [Refunds -> Nat]
      /\ x.torn \cup {r \in Refunds : x.credit[r] > 0} \in SUBSET Refunds
      /\ x.paidBack \in [Refunds -> Nat]
  BY BooksParts DEF Statuses, Docs
<1>2. b \in BooksType /\ b.back = 0
  BY <1>1, BooksTyped DEF Torn
<1> QED BY <1>2, DeliveredType DEF Adds

\* The four ways a handler that books or finds the order writes.
LEMMA WritingType ==
  ASSUME TypeInv, unsettled' \in BOOLEAN, NEW p \in Handlers,
         Creates(p) \/ Invoices(p) \/ \E f, made : Delivers(p, f, made)
  PROVE  TypeInv'
<1>0. Made(p) \in Statuses
  BY SnapsType, BooksParts DEF Made, Statuses
<1>1. CASE Creates(p)
  <2> PICK b : b = Books(Made(p), books.inv, books.pay, books.notes, books.back,
                         books.credit, books.torn, books.paidBack)
    OBVIOUS
  <2>1. b \in BooksType /\ Adds(b)
    BY <1>0, SnapsType, BooksParts, MarkedType
  <2> QED BY <1>1, <2>1, CommitsType DEF Creates
<1>2. CASE Invoices(p)
  <2> PICK b : b = Books(Made(p), "live", "live", books.notes, books.back,
                         books.credit, books.torn, books.paidBack)
    OBVIOUS
  <2>1. "live" \in Docs
    BY DEF Docs
  <2>2. b \in BooksType /\ Adds(b)
    BY <1>0, <2>1, SnapsType, MarkedType
  <2> QED BY <1>2, <2>2, CommitsType DEF Invoices
<1>3. ASSUME NEW f, NEW made, Delivers(p, f, made) PROVE TypeInv'
  <2> PICK b : b = Books(Made(p), books.inv, books.pay, WithNotes(made), books.back,
                         books.credit, books.torn, books.paidBack)
    OBVIOUS
  <2>1. WithNotes(made) \in [Fulfilments -> Nat] /\ \A g \in Fulfilments : books.notes[g] <= WithNotes(made)[g]
    BY SnapsType, BooksParts DEF WithNotes
  <2>2. b \in BooksType /\ b.notes = WithNotes(made) /\ b.back = books.back
    BY <1>0, <2>1, SnapsType, BooksParts, BooksTyped
  <2>3. books \in BooksType /\ Adds(books) /\ books.back \in Nat
    BY SnapsType, BooksParts
  <2>4. Delivered(books) <= Delivered(b) /\ Delivered(books) \in Nat /\ Delivered(b) \in Nat
    BY <2>1, <2>2, <2>3, DeliveredGrows, DeliveredType
  <2>5. Adds(b)
    BY <2>2, <2>3, <2>4 DEF Adds
  <2> QED BY <1>3, <2>2, <2>5, CommitsType DEF Delivers
<1> QED BY <1>1, <1>2, <1>3

\* A cancellation keeps the types, also when it only reopens the order.
LEMMA CancellingType ==
  ASSUME TypeInv, unsettled' \in BOOLEAN, NEW p \in Handlers, on_order_cancelled(p)
  PROVE  TypeInv'
<1>0. /\ books \in BooksType /\ Adds(books) /\ TypeOK /\ books.so \in Statuses
      /\ books.inv \in Docs /\ books.pay \in Docs
  BY SnapsType, BooksParts DEF TypeInv
<1>1. CASE Commits(p, books)
  BY <1>0, <1>1, CommitsType
<1>2. CASE Marks(p, IF books.so = "open" THEN "closed" ELSE books.so)
  <2> PICK b : b = Books(IF books.so = "open" THEN "closed" ELSE books.so, books.inv, books.pay,
                         books.notes, books.back, books.credit, books.torn, books.paidBack)
    OBVIOUS
  <2>1. (IF books.so = "open" THEN "closed" ELSE books.so) \in Statuses
    BY <1>0 DEF Statuses
  <2>2. b \in BooksType /\ Adds(b)
    BY <1>0, <2>1, MarkedType
  <2> QED BY <1>2, <2>2, CommitsType DEF Marks
<1>3. CASE Commits(p, Torn(books))
  BY <1>0, <1>3, TornType, CommitsType
<1>4. ASSUME Reopens(p), Deciding(p, "cancelled") PROVE TypeInv'
  <2> PICK b : b = Opened
    OBVIOUS
  <2>1. (IF books.so = "closed" THEN "open" ELSE books.so) \in Statuses
    BY <1>0 DEF Statuses
  <2>2. b \in BooksType /\ Adds(b)
    BY <1>0, <2>1, MarkedType DEF Opened
  <2> PICK g : g = [at |-> "reopened", event |-> h[p].event, snap |-> b, seen |-> h[p].seen]
    OBVIOUS
  <2>3. books' = b /\ h' = [h EXCEPT ![p] = g] /\ UNCHANGED <<store, shop, due, repeats, overlapped>>
    BY <1>0, <1>4, ReopensIs
  <2>4. h' \in [Handlers -> [at : {"idle", "begun", "fetched", "reopened"},
                             event : Events \cup {NoEvent}, snap : BooksType, seen : ShopType]]
    <3>1. h[p].event \in Events \cup {NoEvent} /\ h[p].seen \in ShopType
      BY DEF TypeInv, TypeOK
    <3>2. g \in [at : {"idle", "begun", "fetched", "reopened"},
                 event : Events \cup {NoEvent}, snap : BooksType, seen : ShopType]
      BY <2>2, <3>1
    <3> QED BY <2>3, <3>2 DEF TypeInv, TypeOK
  <2>5. TypeOK'
    BY <2>2, <2>3, <2>4 DEF TypeInv, TypeOK
  <2>6. Runs(g) /\ Adds(g.snap)
    BY <1>4, <2>2 DEF Runs, Deciding, Events
  <2>7. \A q \in Handlers : h'[q] = IF q = p THEN g ELSE h[q]
    BY <2>3 DEF TypeInv, TypeOK
  <2>8. Adds(books)' /\ \A q \in Handlers : Adds(h'[q].snap) /\ Runs(h'[q])
    BY <2>2, <2>3, <2>6, <2>7 DEF TypeInv
  <2> QED BY <2>5, <2>8 DEF TypeInv
<1> QED BY <1>0, <1>1, <1>2, <1>3, <1>4, on_order_cancelledIs

\* A refund keeps the types: no more comes back than is in hand.
LEMMA RefundingType ==
  ASSUME TypeInv, unsettled' \in BOOLEAN,
         NEW p \in Handlers, NEW r \in Refunds, on_refund_create(p, r)
  PROVE  TypeInv'
<1>0. books \in BooksType /\ Adds(books) /\ TypeOK
  BY SnapsType DEF TypeInv
<1>1. CASE Commits(p, books)
  BY <1>0, <1>1, CommitsType
<1>2. CASE Credits(p, r)
  <2> PICK b : b = WithCredit(books, r, Taken(p, r))
    OBVIOUS
  <2>1. b \in BooksType /\ Adds(b)
    BY <1>0, <1>2, TakenType, WithCreditType DEF Credits
  <2>2. Commits(p, b) \/ Commits(p, Closed(b))
    BY <1>2 DEF Credits
  <2> QED BY <2>1, <2>2, ClosedType, CommitsType
<1> QED BY <1>0, <1>1, <1>2, on_refund_createIs

\* Whether the last closing was refused is yes or no.
LEMMA UnsettledType == ASSUME TypeInv, [Next]_vars PROVE unsettled' \in BOOLEAN
<1>0. unsettled \in BOOLEAN
  BY DEF TypeInv, TypeOK
<1>1. CASE Selling
  BY <1>0, <1>1 DEF Selling, Pay, Ship, Refund, CancelFulfilment, Cancel, Raises
<1>2. ASSUME NEW p \in Handlers, Handling(p) PROVE unsettled' \in BOOLEAN
  <2>1. CASE (\E e \in Events : Begin(p, e)) \/ fetch_order(p) \/ HandlerFails(p)
    BY <1>0, <2>1 DEF Begin, fetch_order, HandlerFails
  <2>2. CASE on_order_create(p) \/ on_order_paid(p) \/ \E f \in Fulfilments : on_order_fulfilled(p, f)
    BY <1>0, <2>2 DEF on_order_create, on_order_paid, on_order_fulfilled
  <2>3. CASE on_order_cancelled(p)
    BY <1>0, <2>3 DEF on_order_cancelled, Settles, Reopens
  <2>4. CASE \E r \in Refunds : on_refund_create(p, r)
    BY <1>0, <2>4 DEF on_refund_create, create_credit_note
  <2> QED BY <1>2, <2>1, <2>2, <2>3, <2>4 DEF Handling
<1>3. CASE UNCHANGED vars
  BY <1>0, <1>3 DEF vars
<1> QED BY <1>1, <1>2, <1>3 DEF Next

\* Types are kept.
LEMMA NextTypeInv == TypeInv /\ [Next]_vars => TypeInv'
<1> SUFFICES ASSUME TypeInv, [Next]_vars PROVE TypeInv'
  OBVIOUS
<1>u. unsettled' \in BOOLEAN
  BY UnsettledType
<1>0. books \in BooksType /\ TypeOK
  BY DEF TypeInv, TypeOK
<1>1. CASE Selling
  BY <1>u, <1>1, SellingType
<1>2. ASSUME NEW p \in Handlers, Handling(p) PROVE TypeInv'
  <2>1. CASE (\E e \in Events : Begin(p, e)) \/ fetch_order(p) \/ HandlerFails(p)
    BY <1>u, <2>1, ReadingType
  <2>2. CASE on_order_create(p)
    BY <1>u, <1>0, <2>2, on_order_createIs, WritingType
  <2>3. CASE on_order_paid(p)
    BY <1>u, <1>0, <2>3, on_order_paidIs, WritingType, CommitsType DEF TypeInv
  <2>4. CASE \E f \in Fulfilments : on_order_fulfilled(p, f)
    BY <1>u, <1>0, <2>4, on_order_fulfilledIs, WritingType
  <2>5. CASE on_order_cancelled(p)
    BY <1>u, <2>5, CancellingType
  <2>6. CASE \E r \in Refunds : on_refund_create(p, r)
    BY <1>u, <2>6, RefundingType
  <2> QED BY <1>2, <2>1, <2>2, <2>3, <2>4, <2>5, <2>6 DEF Handling
<1>3. CASE UNCHANGED vars
  <2>1. TypeOK'
    BY <1>3 DEF vars, TypeInv, TypeOK
  <2>2. Adds(books)' /\ \A q \in Handlers : Adds(h'[q].snap) /\ Runs(h'[q])
    BY <1>3 DEF vars, TypeInv
  <2> QED BY <2>1, <2>2 DEF TypeInv
<1> QED BY <1>1, <1>2, <1>3 DEF Next

-----------------------------------------------------------------------------
(* Who steps *)

\* A handler that begins, fetches, fails or writes changes no other handler.
LEMMA OneHandler ==
  ASSUME TypeInv, NEW p \in Handlers, Handling(p)
  PROVE  UNCHANGED <<store, shop>> /\ \A q \in Handlers : q # p => h'[q] = h[q]
<1>1. ASSUME NEW b, Commits(p, b)
      PROVE  UNCHANGED <<store, shop>> /\ \A q \in Handlers : q # p => h'[q] = h[q]
  BY <1>1 DEF Commits, TypeInv, TypeOK
<1>2. ASSUME Reopens(p) PROVE UNCHANGED <<store, shop>> /\ \A q \in Handlers : q # p => h'[q] = h[q]
  BY <1>2, ReopensIs DEF TypeInv, TypeOK
<1>3. ASSUME (\E e \in Events : Begin(p, e)) \/ fetch_order(p) \/ HandlerFails(p)
      PROVE  UNCHANGED <<store, shop>> /\ \A q \in Handlers : q # p => h'[q] = h[q]
  BY <1>3 DEF Begin, fetch_order, HandlerFails, TypeInv, TypeOK
<1>4. books \in BooksType /\ TypeOK
  BY DEF TypeInv, TypeOK
<1>5. CASE on_order_create(p)
  BY <1>1, <1>4, <1>5, on_order_createIs DEF Creates
<1>6. CASE on_order_paid(p)
  BY <1>1, <1>4, <1>6, on_order_paidIs DEF Invoices
<1>7. CASE \E f \in Fulfilments : on_order_fulfilled(p, f)
  BY <1>1, <1>4, <1>7, on_order_fulfilledIs DEF Delivers
<1>8. CASE on_order_cancelled(p)
  BY <1>1, <1>2, <1>4, <1>8, on_order_cancelledIs DEF Marks
<1>9. CASE \E r \in Refunds : on_refund_create(p, r)
  BY <1>1, <1>4, <1>9, on_refund_createIs DEF Credits
<1> QED BY <1>3, <1>5, <1>6, <1>7, <1>8, <1>9 DEF Handling

\* The events have names of their own.
LEMMA EventsDiffer ==
  /\ \A r \in Refunds : r \notin {"create", "paid", "cancelled", NoEvent} /\ r \notin Fulfilments
  /\ \A f \in Fulfilments : f \notin {"create", "paid", "cancelled", NoEvent} /\ f \notin Refunds
  /\ NoEvent \notin Events
BY NamesAssumption DEF Events

\* The fields of books with a credit.
LEMMA WithCreditFields ==
  ASSUME NEW x, NEW r, NEW taken, NEW b, b = WithCredit(x, r, taken)
  PROVE  /\ b.so = x.so /\ b.inv = x.inv /\ b.pay = x.pay /\ b.notes = x.notes
         /\ b.back = x.back + taken /\ b.credit = [x.credit EXCEPT ![r] = @ + 1]
         /\ b.torn = x.torn
BY DEF WithCredit, Books

\* The units of an order still in the customer's hands.
LEMMA InHandType ==
  ASSUME NEW b \in BooksType, Adds(b)
  PROVE  InHand(b) \in Nat
<1>1. Delivered(b) \in Nat /\ b.back \in Nat
  BY DeliveredType, BooksParts
<1> QED BY <1>1 DEF InHand, Adds

\* Crediting an order that owes nothing closes it, or finds it delivered in full,
\* or the closing was refused.
LEMMA CreditReleases ==
  ASSUME TypeInv, NEW p \in Handlers, NEW r \in Refunds, Credits(p, r),
         h[p].snap = books, owed_by_item(h[p].seen) = 0
  PROVE  Reserved(books') = 0 \/ unsettled'
<1> PICK b : b = WithCredit(books, r, Taken(p, r))
  OBVIOUS
<1>1. b \in BooksType /\ Adds(b) /\ b.so = books.so
  <2>1. books \in BooksType /\ Adds(books) /\ Taken(p, r) \in Nat /\ Taken(p, r) <= InHand(books)
    BY SnapsType, TakenType DEF Credits
  <2>2. b \in BooksType /\ Adds(b)
    BY <2>1, WithCreditType
  <2> QED BY <2>2 DEF WithCredit, Books
<1>2. InHand(b) \in Nat
  BY <1>1, InHandType
<1>3. books' = IF settle_after_refund(b, h[p].seen) /\ ~unsettled' THEN Closed(b) ELSE b
  BY DEF Credits, Closes, Commits
<1>4. CASE settle_after_refund(b, h[p].seen) /\ ~unsettled'
  <2>1. b.so = "open" /\ books' = Closed(b)
    BY <1>3, <1>4 DEF settle_after_refund
  <2>2. Closed(b).so = "closed"
    BY <1>1, <2>1, ClosedIs DEF Books
  <2> QED BY <2>1, <2>2 DEF Reserved
<1>5. CASE ~settle_after_refund(b, h[p].seen)
  <2>1. books' = b
    BY <1>3, <1>5
  <2>2. b.so # "open" \/ InHand(b) >= Qty
    BY <1>5 DEF settle_after_refund, Completed
  <2> HIDE DEF Credits
  <2>3. Reserved(b) = 0
    BY <1>2, <2>2, QtyAssumption DEF Reserved
  <2> QED BY <2>1, <2>3
<1> QED BY <1>4, <1>5

\* Only the handler of a refund credits it.
LEMMA OwnHandlerCredits ==
  ASSUME TypeInv, NEW p \in Handlers, NEW r \in Refunds, Handling(p),
         books'.credit[r] > books.credit[r]
  PROVE  Credits(p, r)
<1>0. books \in BooksType /\ TypeOK
  BY DEF TypeInv, TypeOK
<1>1. ASSUME books' = books PROVE FALSE
  BY <1>0, <1>1, BooksParts
<1>2. ASSUME NEW b, b.credit = books.credit, books' = b PROVE FALSE
  BY <1>0, <1>2, BooksParts
<1>3. CASE (\E e \in Events : Begin(p, e)) \/ fetch_order(p) \/ HandlerFails(p)
  BY <1>1, <1>3 DEF Begin, fetch_order, HandlerFails
<1>4. ASSUME NEW so, NEW inv, NEW pay, NEW notes,
             Commits(p, Books(so, inv, pay, notes, books.back, books.credit, books.torn, books.paidBack))
      PROVE  FALSE
  BY <1>2, <1>4 DEF Commits, Books
<1>5. CASE on_order_create(p)
  BY <1>0, <1>4, <1>5, on_order_createIs DEF Creates
<1>6. CASE on_order_paid(p)
  BY <1>0, <1>1, <1>4, <1>6, on_order_paidIs DEF Invoices, Commits
<1>7. CASE \E f \in Fulfilments : on_order_fulfilled(p, f)
  BY <1>0, <1>4, <1>7, on_order_fulfilledIs DEF Delivers
<1>8. CASE on_order_cancelled(p)
  <2>1. CASE Commits(p, books)
    BY <1>1, <2>1 DEF Commits
  <2>2. CASE Marks(p, IF books.so = "open" THEN "closed" ELSE books.so)
    BY <1>4, <2>2 DEF Marks
  <2>3. CASE Reopens(p)
    BY <1>0, <1>2, <2>3, ReopensIs DEF Opened, Books
  <2>4. CASE Commits(p, Torn(books))
    <3>1. books'.credit[r] = 0 /\ books.credit[r] \in Nat
      BY <1>0, <2>4, BooksParts DEF Commits, Torn, Books
    <3> QED BY <3>1
  <2> QED BY <1>0, <1>8, <2>1, <2>2, <2>3, <2>4, on_order_cancelledIs
<1>9. ASSUME NEW s \in Refunds, on_refund_create(p, s) PROVE Credits(p, r)
  <2>1. Credits(p, s)
    BY <1>0, <1>1, <1>9, on_refund_createIs DEF Commits
  <2>2. s = r
    <3> SUFFICES ASSUME s # r PROVE FALSE
      OBVIOUS
    <3> PICK b : b = WithCredit(books, s, Taken(p, s))
      OBVIOUS
    <3>1. b \in BooksType /\ Adds(b) /\ b.credit = [books.credit EXCEPT ![s] = @ + 1]
      <4>1. /\ books \in BooksType /\ Adds(books) /\ Taken(p, s) \in Nat
            /\ Taken(p, s) <= InHand(books)
        BY <2>1, SnapsType, TakenType DEF Credits
      <4>2. b \in BooksType /\ Adds(b)
        BY <4>1, WithCreditType
      <4> QED BY <4>2 DEF WithCredit, Books
    <3>2. Closed(b).credit = b.credit
      BY <3>1, ClosedIs DEF Books
    <3>3. books' = b \/ books' = Closed(b)
      BY <2>1 DEF Credits, Commits
    <3>4. books'.credit[r] = books.credit[r] /\ books.credit[r] \in Nat
      BY <1>0, <3>1, <3>2, <3>3, BooksParts
    <3> QED BY <3>4
  <2> QED BY <2>1, <2>2
<1> QED BY <1>3, <1>5, <1>6, <1>7, <1>8, <1>9 DEF Handling

\* A step that credits a refund leaves nothing reserved of an order that owes
\* nothing, unless the closing was refused.
LEMMA CreditingStep ==
  ASSUME TypeInv, [Next]_vars, NEW r \in Refunds, NEW p \in Handlers,
         books'.credit[r] > books.credit[r], h[p].event = r, h'[p].at = "idle",
         h[p].snap = books, h[p].seen = shop,
         Least(CurrentQuantity(shop), UnfulfilledQuantity(shop)) = 0
  PROVE  Reserved(books') = 0 \/ unsettled'
<1>0. books \in BooksType /\ books.credit[r] \in Nat
  BY SnapsType, BooksParts
<1>1. h[p].at # "idle"
  BY EventsDiffer DEF TypeInv, Runs
<1>2. ~Selling /\ ~UNCHANGED vars
  <2>1. ASSUME books' = books PROVE FALSE
    BY <1>0, <2>1
  <2>2. Selling => books' = books
    BY DEF Selling, Pay, Ship, Refund, CancelFulfilment, Cancel, Raises
  <2> QED BY <2>1, <2>2 DEF vars
<1>3. PICK q \in Handlers : Handling(q)
  BY <1>2 DEF Next
<1>4. q = p
  BY <1>1, <1>3, OneHandler
<1>5. Credits(p, r)
  BY <1>3, <1>4, OwnHandlerCredits
<1> QED BY <1>5, CreditReleases DEF owed_by_item

-----------------------------------------------------------------------------
(* Shopify's counts *)

\* How many units each refund is of, and which are of shipped units or not.
UnitsOf(s) == [r \in Refunds |-> s.refund[r].units]
OfKind(s, k) == {r \in Refunds : s.refund[r].shipped = k}

\* Units refunded of one kind, as a sum.
LEMMA RefundedUnitsIs ==
  ASSUME NEW s, NEW k
  PROVE  RefundedUnits(s, k) = SumOf(UnitsOf(s), OfKind(s, k))
BY TotalIs DEF RefundedUnits, UnitsOf, OfKind

\* Units are numbers.
LEMMA UnitsType ==
  ASSUME NEW s \in ShopType
  PROVE  \A r \in Refunds : /\ UnitsOf(s)[r] = s.refund[r].units /\ UnitsOf(s)[r] \in Nat
                            /\ UnitsOf(s)[r] \in Int
BY QtyAssumption DEF ShopType, UnitsOf

\* Sets of refunds and of fulfilments are finite.
LEMMA FiniteKinds ==
  ASSUME NEW s, NEW k
  PROVE  IsFiniteSet(OfKind(s, k)) /\ IsFiniteSet(Shipped(s)) /\ Cardinality(Shipped(s)) \in Nat
<1>1. OfKind(s, k) \in SUBSET Refunds /\ Shipped(s) \in SUBSET Fulfilments
  BY DEF OfKind, Shipped
<1> QED BY <1>1, NamesAssumption, FS_Subset, FS_CardinalityType

\* Units refunded are a number.
LEMMA RefundedUnitsType ==
  ASSUME NEW s \in ShopType, NEW k
  PROVE  RefundedUnits(s, k) \in Nat
<1>1. \A r \in OfKind(s, k) : UnitsOf(s)[r] \in Nat
  BY UnitsType DEF OfKind
<1>2. SumOf(UnitsOf(s), OfKind(s, k)) \in Nat
  BY <1>1, FiniteKinds, SumNat
<1> QED BY <1>2, RefundedUnitsIs

\* A refund of n units counts among those of its own kind and no other.
LEMMA RefundCounts ==
  ASSUME NEW s \in ShopType, NEW t \in ShopType, NEW r \in Refunds, NEW k \in BOOLEAN,
         s.refund[r].units = 0, \A q \in Refunds : q # r => t.refund[q] = s.refund[q]
  PROVE  RefundedUnits(t, k) = RefundedUnits(s, k) + (IF t.refund[r].shipped = k
                                                      THEN t.refund[r].units ELSE 0)
<1> DEFINE S == OfKind(s, k)
           T == OfKind(t, k)
           u == UnitsOf(s)
           v == UnitsOf(t)
<1>1. IsFiniteSet(S) /\ IsFiniteSet(T) /\ S \ {r} = T \ {r} /\ IsFiniteSet(S \ {r})
  <2>1. S \ {r} = T \ {r}
    BY DEF OfKind
  <2>2. IsFiniteSet(S) /\ IsFiniteSet(T)
    BY FiniteKinds
  <2> HIDE DEF S, T
  <2> QED BY <2>1, <2>2, FS_RemoveElement
<1>2. r \in T <=> t.refund[r].shipped = k
  BY DEF OfKind
<1>3. /\ \A q \in Refunds : u[q] \in Int /\ v[q] \in Int
      /\ \A q \in Refunds : q # r => v[q] = u[q]
      /\ u[r] = 0 /\ v[r] = t.refund[r].units /\ v[r] \in Int /\ S \subseteq Refunds /\ T \subseteq Refunds
  BY UnitsType DEF OfKind
<1>4. RefundedUnits(s, k) = SumOf(u, S) /\ RefundedUnits(t, k) = SumOf(v, T)
  BY RefundedUnitsIs
<1> HIDE DEF S, T, u, v
<1>5. SumOf(v, S \ {r}) = SumOf(u, S \ {r}) /\ SumOf(u, S \ {r}) \in Int
  <2>1. \A q \in S \ {r} : v[q] \in Int /\ v[q] = u[q]
    BY <1>3
  <2>2. \A q \in S \ {r} : u[q] \in Int
    BY <1>3
  <2> QED BY <1>1, <2>1, <2>2, SumEqual, SumType
<1>6. SumOf(u, S) = SumOf(u, S \ {r})
  <2>1. CASE r \in S
    <3>1. SumOf(u, S) = u[r] + SumOf(u, S \ {r})
      <4>1. \A q \in S : u[q] \in Int
        BY <1>3
      <4> QED BY <1>1, <2>1, <4>1, SumRemove
    <3> QED BY <1>3, <1>5, <3>1
  <2>2. CASE r \notin S
    <3>1. S \ {r} = S
      BY <2>2
    <3> QED BY <3>1
  <2> QED BY <2>1, <2>2
<1>7. CASE r \in T
  <2>1. SumOf(v, T) = v[r] + SumOf(v, T \ {r})
    <3>1. \A q \in T : v[q] \in Int
      BY <1>3
    <3> QED BY <1>1, <1>7, <3>1, SumRemove
  <2>2. SumOf(v, T) = v[r] + SumOf(u, S)
    BY <1>1, <1>5, <1>6, <2>1
  <2>3. SumOf(u, S) \in Int
    BY <1>5, <1>6
  <2>4. t.refund[r].shipped = k
    BY <1>2, <1>7
  <2> QED BY <1>3, <1>4, <2>2, <2>3, <2>4
<1>8. CASE r \notin T
  <2>1. T \ {r} = T
    BY <1>8
  <2>2. SumOf(v, T) = SumOf(u, S) /\ SumOf(u, S) \in Int
    BY <1>1, <1>5, <1>6, <2>1
  <2>3. t.refund[r].shipped # k
    BY <1>2, <1>8
  <2> QED BY <1>4, <2>2, <2>3
<1> QED BY <1>7, <1>8

\* Counts depend on what was shipped and refunded only.
LEMMA CountsSame ==
  ASSUME NEW s, NEW t, s.ful = t.ful, s.refund = t.refund, Counts(s)
  PROVE  Counts(t)
BY DEF Counts, RefundedUnits, Shipped

\* Orders with the same refunds have the same units refunded.
LEMMA RefundedSame ==
  ASSUME NEW s, NEW t, s.refund = t.refund
  PROVE  Refunded(t) = Refunded(s) /\ \A k : RefundedUnits(t, k) = RefundedUnits(s, k)
BY DEF Refunded, RefundedUnits

\* Nothing is refunded of a new order.
LEMMA NewOrderUnits == ASSUME NEW k \in BOOLEAN PROVE RefundedUnits(NewOrder, k) = 0
<1> DEFINE u == UnitsOf(NewOrder)
           S == OfKind(NewOrder, k)
<1>1. \A r \in S : u[r] = 0
  BY DEF UnitsOf, OfKind, NewOrder, NoRefund
<1>2. IsFiniteSet(S) /\ RefundedUnits(NewOrder, k) = SumOf(u, S)
  BY FiniteKinds, RefundedUnitsIs
<1> HIDE DEF u, S
<1>3. {r \in S : u[r] = 1} = {} /\ \A r \in S : u[r] \in {0, 1}
  BY <1>1
<1>4. SumOf(u, S) = Cardinality({r \in S : u[r] = 1})
  BY <1>2, <1>3, SumOfOnes
<1> QED BY <1>2, <1>3, <1>4, FS_EmptySet

\* A new order has no count of anything.
LEMMA NewOrderCounts == Counts(NewOrder)
<1> DEFINE s == NewOrder
<1>1. Cardinality(Shipped(s)) = 0
  <2>1. Shipped(s) = {}
    BY DEF Shipped, NewOrder
  <2> QED BY <2>1, FS_EmptySet
<1>2. ASSUME NEW k \in BOOLEAN
      PROVE  /\ RefundedUnits(s, k) <= Cardinality(Shipped(s))
             /\ Cardinality(Shipped(s)) + RefundedUnits(s, k) <= Qty
  <2>1. RefundedUnits(s, k) = 0
    BY NewOrderUnits
  <2> QED BY <1>1, <2>1, QtyAssumption
<1>3. RefundedUnits(s, TRUE) <= Cardinality(Shipped(s))
  BY <1>2
<1>4. Cardinality(Shipped(s)) + RefundedUnits(s, FALSE) <= Qty
  BY <1>2
<1>5. \A r \in Refunds : s.refund[r].units = 0 => s.refund[r] = NoRefund
  BY DEF NewOrder
<1> HIDE DEF s
<1> QED BY <1>3, <1>4, <1>5 DEF Counts, s

\* Units refunded of what was shipped, and of what was not.
RefundedShipped(s) == RefundedUnits(s, TRUE)
RefundedUnshipped(s) == RefundedUnits(s, FALSE)

\* Shopify's counts are numbers, and what Counts says of them.
LEMMA CountsAre ==
  ASSUME NEW s \in ShopType
  PROVE  /\ RefundedShipped(s) \in Nat /\ RefundedUnshipped(s) \in Nat /\ Cardinality(Shipped(s)) \in Nat
         /\ Refunded(s) = RefundedShipped(s) + RefundedUnshipped(s)
         /\ UnfulfilledQuantity(s) = Qty - (Cardinality(Shipped(s)) + RefundedUnshipped(s))
         /\ Counts(s) <=> /\ RefundedShipped(s) <= Cardinality(Shipped(s))
                          /\ Cardinality(Shipped(s)) + RefundedUnshipped(s) <= Qty
                          /\ \A r \in Refunds : s.refund[r].units = 0 => s.refund[r] = NoRefund
<1>1. \A k : RefundedUnits(s, k) \in Nat /\ Cardinality(Shipped(s)) \in Nat
  BY RefundedUnitsType, FiniteKinds
<1>2. RefundedShipped(s) \in Nat /\ RefundedUnshipped(s) \in Nat
  BY <1>1 DEF RefundedShipped, RefundedUnshipped
<1>3. Cardinality(Shipped(s)) \in Nat
  BY <1>1
<1> QED BY <1>2, <1>3 DEF Refunded, UnfulfilledQuantity, Counts, RefundedShipped, RefundedUnshipped

\* What a refund adds to the counts.
LEMMA RefundAdds ==
  ASSUME NEW s \in ShopType, NEW t \in ShopType, NEW r \in Refunds,
         s.refund[r].units = 0, \A q \in Refunds : q # r => t.refund[q] = s.refund[q]
  PROVE  IF t.refund[r].shipped
         THEN /\ RefundedShipped(t) = RefundedShipped(s) + t.refund[r].units
              /\ RefundedUnshipped(t) = RefundedUnshipped(s)
         ELSE /\ RefundedUnshipped(t) = RefundedUnshipped(s) + t.refund[r].units
              /\ RefundedShipped(t) = RefundedShipped(s)
<1>1. ASSUME NEW k \in BOOLEAN
      PROVE  /\ t.refund[r].shipped = k => RefundedUnits(t, k) = RefundedUnits(s, k) + t.refund[r].units
             /\ t.refund[r].shipped # k => RefundedUnits(t, k) = RefundedUnits(s, k)
  <2>1. RefundedUnits(t, k) = RefundedUnits(s, k) + (IF t.refund[r].shipped = k
                                                     THEN t.refund[r].units ELSE 0)
    BY RefundCounts
  <2>2. RefundedUnits(s, k) \in Nat
    BY RefundedUnitsType
  <2> QED BY <2>1, <2>2
<1>2. t.refund[r].shipped \in BOOLEAN
  BY DEF ShopType
<1>3. /\ t.refund[r].shipped = TRUE => RefundedUnits(t, TRUE) = RefundedUnits(s, TRUE) + t.refund[r].units
      /\ t.refund[r].shipped # TRUE => RefundedUnits(t, TRUE) = RefundedUnits(s, TRUE)
  BY <1>1, Zenon
<1>4. /\ t.refund[r].shipped = FALSE => RefundedUnits(t, FALSE) = RefundedUnits(s, FALSE) + t.refund[r].units
      /\ t.refund[r].shipped # FALSE => RefundedUnits(t, FALSE) = RefundedUnits(s, FALSE)
  BY <1>1, Zenon
<1>5. CASE t.refund[r].shipped = TRUE
  BY <1>3, <1>4, <1>5 DEF RefundedShipped, RefundedUnshipped
<1>6. CASE t.refund[r].shipped = FALSE
  BY <1>3, <1>4, <1>6 DEF RefundedShipped, RefundedUnshipped
<1> QED BY <1>2, <1>5, <1>6

\* A refund books what it says.
LEMMA RefundIs ==
  ASSUME TypeInv, NEW r \in Refunds, NEW n \in 1..Qty, NEW kind \in Kinds, Refund(r, n, kind)
  PROVE  /\ shop.refund[r].units = 0
         /\ shop' \in ShopType /\ shop'.ful = shop.ful /\ shop'.paid = shop.paid
         /\ shop'.cancelled = shop.cancelled
         /\ shop'.refund[r].units = n /\ shop'.refund[r].shipped = kind.shipped
         /\ \A q \in Refunds : q # r => shop'.refund[q] = shop.refund[q]
         /\ due' = due \cup {r}
<1>0. shop \in ShopType
  BY DEF TypeInv, TypeOK
<1>1. PICK x : x = [units |-> n, shipped |-> kind.shipped, restock |-> kind.restock,
                    postage |-> kind.postage]
  OBVIOUS
<1>2. x \in [units : 0..Qty, shipped : BOOLEAN, restock : BOOLEAN, postage : BOOLEAN]
  BY <1>1, KindsAssumption, QtyAssumption
<1>3. shop' = [shop EXCEPT !.refund[r] = x] /\ due' = due \cup {r} /\ shop.refund[r].units = 0
  BY <1>1 DEF Refund, Raises
<1>4. x.units = n /\ x.shipped = kind.shipped
  BY <1>1
<1> QED BY <1>0, <1>2, <1>3, <1>4 DEF ShopType

\* Shopify refunds no more than was bought, and nothing twice.
LEMMA RefundKeepsCounts ==
  ASSUME TypeInv, Counts(shop), NEW r \in Refunds, NEW n \in 1..Qty, NEW kind \in Kinds, Refund(r, n, kind)
  PROVE  Counts(shop') /\ Refunded(shop') = Refunded(shop) + n /\ Refunded(shop') <= Qty
<1>0. /\ shop \in ShopType /\ shop' \in ShopType /\ shop'.ful = shop.ful
      /\ shop.refund[r].units = 0 /\ \A q \in Refunds : q # r => shop'.refund[q] = shop.refund[q]
      /\ shop'.refund[r].units = n /\ shop'.refund[r].shipped = kind.shipped /\ n \in Nat /\ n # 0
  BY RefundIs, QtyAssumption DEF TypeInv, TypeOK
<1>1. n <= IF kind.shipped THEN Cardinality(Shipped(shop)) - RefundedShipped(shop)
                           ELSE UnfulfilledQuantity(shop)
  BY DEF Refund, RefundedShipped
<1>2. Shipped(shop') = Shipped(shop)
  BY <1>0 DEF Shipped
<1> PICK s, t : s = shop /\ t = shop'
  OBVIOUS
<1>3. /\ RefundedShipped(s) \in Nat /\ RefundedUnshipped(s) \in Nat /\ Cardinality(Shipped(s)) \in Nat
      /\ Refunded(s) = RefundedShipped(s) + RefundedUnshipped(s)
      /\ UnfulfilledQuantity(s) = Qty - (Cardinality(Shipped(s)) + RefundedUnshipped(s))
      /\ RefundedShipped(s) <= Cardinality(Shipped(s))
      /\ Cardinality(Shipped(s)) + RefundedUnshipped(s) <= Qty
      /\ \A q \in Refunds : s.refund[q].units = 0 => s.refund[q] = NoRefund
  BY <1>0, CountsAre
<1>4. IF kind.shipped
      THEN /\ RefundedShipped(t) = RefundedShipped(s) + n
           /\ RefundedUnshipped(t) = RefundedUnshipped(s)
      ELSE /\ RefundedUnshipped(t) = RefundedUnshipped(s) + n
           /\ RefundedShipped(t) = RefundedShipped(s)
  BY <1>0, RefundAdds
<1>5. /\ RefundedShipped(t) \in Nat /\ RefundedUnshipped(t) \in Nat
      /\ Refunded(t) = RefundedShipped(t) + RefundedUnshipped(t)
  BY <1>0, CountsAre
<1>6. \A q \in Refunds : t.refund[q].units = 0 => t.refund[q] = NoRefund
  BY <1>0, <1>3
<1>7. /\ RefundedShipped(t) <= Cardinality(Shipped(t))
      /\ Cardinality(Shipped(t)) + RefundedUnshipped(t) <= Qty
      /\ Refunded(t) = Refunded(s) + n /\ Refunded(t) <= Qty
  BY <1>0, <1>1, <1>2, <1>3, <1>4, <1>5, QtyAssumption
<1>8. Counts(t)
  BY <1>0, <1>6, <1>7, CountsAre
<1> QED BY <1>7, <1>8

\* Shipping and taking a fulfilment back keep the counts.
LEMMA ShippingKeepsCounts ==
  ASSUME TypeInv, Counts(shop), NEW f \in Fulfilments, Ship(f) \/ CancelFulfilment(f)
  PROVE  /\ Counts(shop') /\ shop'.refund = shop.refund /\ shop'.paid = shop.paid
         /\ shop'.cancelled = shop.cancelled
         /\ \A g \in Fulfilments : g # f => shop'.ful[g] = shop.ful[g]
         /\ \/ shop.ful[f] = "none" /\ shop'.ful[f] = "shipped" /\ due' = due \cup {f}
            \/ shop.ful[f] = "shipped" /\ shop'.ful[f] = "cancelled" /\ due' = due
<1>0. shop \in ShopType /\ shop' \in ShopType /\ shop'.refund = shop.refund
      /\ shop'.paid = shop.paid /\ shop'.cancelled = shop.cancelled
      /\ \A g \in Fulfilments : g # f => shop'.ful[g] = shop.ful[g]
  <2>0. shop \in ShopType
    BY DEF TypeInv, TypeOK
  <2>1. PICK x \in {"shipped", "cancelled"} : shop' = [shop EXCEPT !.ful[f] = x]
    BY DEF Ship, CancelFulfilment
  <2>2. shop' \in ShopType
    BY <2>0, <2>1 DEF ShopType
  <2> QED BY <2>0, <2>1, <2>2 DEF ShopType
<1> PICK s, t : s = shop /\ t = shop'
  OBVIOUS
<1>1. /\ RefundedShipped(s) \in Nat /\ RefundedUnshipped(s) \in Nat /\ Cardinality(Shipped(s)) \in Nat
      /\ UnfulfilledQuantity(s) = Qty - (Cardinality(Shipped(s)) + RefundedUnshipped(s))
      /\ RefundedShipped(s) <= Cardinality(Shipped(s))
      /\ Cardinality(Shipped(s)) + RefundedUnshipped(s) <= Qty
      /\ \A q \in Refunds : s.refund[q].units = 0 => s.refund[q] = NoRefund
  BY <1>0, CountsAre
<1>2. RefundedShipped(t) = RefundedShipped(s) /\ RefundedUnshipped(t) = RefundedUnshipped(s)
  BY <1>0, RefundedSame DEF RefundedShipped, RefundedUnshipped
<1>3. IsFiniteSet(Shipped(s)) /\ Cardinality(Shipped(t)) \in Nat
  BY FiniteKinds
<1>4. CASE Ship(f)
  <2>1. shop.ful[f] = "none" /\ shop'.ful[f] = "shipped" /\ due' = due \cup {f}
        /\ UnfulfilledQuantity(shop) > 0
    BY <1>0, <1>4 DEF Ship, Raises, ShopType
  <2>2. Shipped(t) = Shipped(s) \cup {f} /\ f \notin Shipped(s)
    BY <1>0, <2>1 DEF Shipped
  <2>3. Cardinality(Shipped(t)) = Cardinality(Shipped(s)) + 1
    BY <1>3, <2>2, FS_AddElement
  <2>4. /\ RefundedShipped(t) <= Cardinality(Shipped(t))
        /\ Cardinality(Shipped(t)) + RefundedUnshipped(t) <= Qty
    BY <1>1, <1>2, <2>1, <2>3, QtyAssumption
  <2>5. Counts(t)
    BY <1>0, <1>1, <2>4, CountsAre
  <2> QED BY <1>0, <2>1, <2>5
<1>5. CASE CancelFulfilment(f)
  <2>1. /\ shop.ful[f] = "shipped" /\ shop'.ful[f] = "cancelled" /\ due' = due
        /\ Cardinality(Shipped(shop)) > RefundedShipped(shop)
    BY <1>0, <1>5 DEF CancelFulfilment, Shipped, ShopType, RefundedShipped
  <2>2. Shipped(t) = Shipped(s) \ {f} /\ f \in Shipped(s)
    BY <1>0, <2>1 DEF Shipped
  <2>3. Cardinality(Shipped(t)) = Cardinality(Shipped(s)) - 1
    BY <1>3, <2>2, FS_RemoveElement
  <2>4. /\ RefundedShipped(t) <= Cardinality(Shipped(t))
        /\ Cardinality(Shipped(t)) + RefundedUnshipped(t) <= Qty
    BY <1>1, <1>2, <2>1, <2>3, QtyAssumption
  <2>5. Counts(t)
    BY <1>0, <1>1, <2>4, CountsAre
  <2> QED BY <1>0, <2>1, <2>5
<1> QED BY <1>4, <1>5

\* What Shopify's side does, in one view.
LEMMA SellingIs ==
  ASSUME TypeInv, Counts(shop), Selling
  PROVE  /\ UNCHANGED <<store, books, h, repeats, overlapped, unsettled>>
         /\ Counts(shop') /\ shop \in ShopType /\ shop' \in ShopType
         /\ shop.paid => shop'.paid
         /\ shop.cancelled => shop'.cancelled
         /\ \A r \in Refunds : shop.refund[r].units # 0 => shop'.refund[r] = shop.refund[r]
         /\ \A f \in Fulfilments : /\ shop.ful[f] # "none" => shop'.ful[f] # "none"
                                   /\ shop.ful[f] = "cancelled" => shop'.ful[f] = "cancelled"
         /\ due \subseteq due' /\ \A e \in due' \ due : Raised(e)'
<1>0. shop \in ShopType /\ UNCHANGED <<store, books, h, repeats, overlapped, unsettled>>
  BY DEF TypeInv, TypeOK, Selling, Pay, Ship, Refund, CancelFulfilment, Cancel, Raises
<1> SUFFICES /\ Counts(shop') /\ shop' \in ShopType
             /\ shop.paid => shop'.paid
             /\ shop.cancelled => shop'.cancelled
             /\ \A r \in Refunds : shop.refund[r].units # 0 => shop'.refund[r] = shop.refund[r]
             /\ \A f \in Fulfilments : /\ shop.ful[f] # "none" => shop'.ful[f] # "none"
                                       /\ shop.ful[f] = "cancelled" => shop'.ful[f] = "cancelled"
             /\ due \subseteq due' /\ \A e \in due' \ due : Raised(e)'
  BY <1>0
<1>1. CASE Pay
  <2>1. /\ shop' \in ShopType /\ shop'.ful = shop.ful /\ shop'.refund = shop.refund
        /\ shop'.paid /\ shop'.cancelled = shop.cancelled /\ due' = due \cup {"paid"}
    BY <1>0, <1>1 DEF Pay, Raises, ShopType
  <2>2. Counts(shop')
    BY <2>1, CountsSame
  <2> QED BY <2>1, <2>2 DEF Raised
<1>2. CASE Cancel
  <2>1. /\ shop' \in ShopType /\ shop'.ful = shop.ful /\ shop'.refund = shop.refund
        /\ shop'.paid = shop.paid /\ shop'.cancelled /\ due' = due \cup {"cancelled"}
    BY <1>0, <1>2 DEF Cancel, Raises, ShopType
  <2>2. Counts(shop')
    BY <2>1, CountsSame
  <2> QED BY <2>1, <2>2 DEF Raised
<1>3. ASSUME NEW f \in Fulfilments, Ship(f) \/ CancelFulfilment(f)
      PROVE  /\ Counts(shop') /\ shop' \in ShopType
             /\ shop.paid => shop'.paid
             /\ shop.cancelled => shop'.cancelled
             /\ \A r \in Refunds : shop.refund[r].units # 0 => shop'.refund[r] = shop.refund[r]
             /\ \A g \in Fulfilments : /\ shop.ful[g] # "none" => shop'.ful[g] # "none"
                                       /\ shop.ful[g] = "cancelled" => shop'.ful[g] = "cancelled"
             /\ due \subseteq due' /\ \A e \in due' \ due : Raised(e)'
  <2>1. /\ Counts(shop') /\ shop'.refund = shop.refund /\ shop'.paid = shop.paid
        /\ shop'.cancelled = shop.cancelled
        /\ \A g \in Fulfilments : g # f => shop'.ful[g] = shop.ful[g]
        /\ \/ shop.ful[f] = "none" /\ shop'.ful[f] = "shipped" /\ due' = due \cup {f}
           \/ shop.ful[f] = "shipped" /\ shop'.ful[f] = "cancelled" /\ due' = due
    BY <1>3, ShippingKeepsCounts
  <2>2. shop' \in ShopType
    <3>1. PICK x \in {"shipped", "cancelled"} : shop' = [shop EXCEPT !.ful[f] = x]
      BY <1>3 DEF Ship, CancelFulfilment
    <3> QED BY <1>0, <3>1 DEF ShopType
  <2>3. \A e \in due' \ due : Raised(e)'
    BY <2>1 DEF Raised
  <2> QED BY <2>1, <2>2, <2>3
<1>4. ASSUME NEW r \in Refunds, NEW n \in 1..Qty, NEW kind \in Kinds, Refund(r, n, kind)
      PROVE  /\ Counts(shop') /\ shop' \in ShopType
             /\ shop.paid => shop'.paid
             /\ shop.cancelled => shop'.cancelled
             /\ \A q \in Refunds : shop.refund[q].units # 0 => shop'.refund[q] = shop.refund[q]
             /\ \A g \in Fulfilments : /\ shop.ful[g] # "none" => shop'.ful[g] # "none"
                                       /\ shop.ful[g] = "cancelled" => shop'.ful[g] = "cancelled"
             /\ due \subseteq due' /\ \A e \in due' \ due : Raised(e)'
  <2>1. /\ shop.refund[r].units = 0
        /\ shop' \in ShopType /\ shop'.ful = shop.ful /\ shop'.paid = shop.paid
        /\ shop'.cancelled = shop.cancelled /\ shop'.refund[r].units = n
        /\ \A q \in Refunds : q # r => shop'.refund[q] = shop.refund[q]
        /\ due' = due \cup {r}
    BY <1>4, RefundIs
  <2>2. Counts(shop')
    BY <1>4, RefundKeepsCounts
  <2>3. \A e \in due' \ due : Raised(e)'
    BY <2>1 DEF Raised
  <2> QED BY <2>1, <2>2, <2>3
<1> QED BY <1>1, <1>2, <1>3, <1>4 DEF Selling

\* What Shopify has raised stays raised.
LEMMA RaisedStays ==
  ASSUME TypeInv, Counts(shop), Selling, NEW e, Raised(e)
  PROVE  Raised(e)'
<1>1. /\ shop.paid => shop'.paid
      /\ shop.cancelled => shop'.cancelled
      /\ \A r \in Refunds : shop.refund[r].units # 0 => shop'.refund[r] = shop.refund[r]
      /\ \A f \in Fulfilments : shop.ful[f] # "none" => shop'.ful[f] # "none"
  BY SellingIs
<1>2. \A r \in Refunds : shop.refund[r].units > 0 => shop.refund[r].units # 0
  BY DEF TypeInv, TypeOK, ShopType
<1> QED BY <1>1, <1>2 DEF Raised

\* Only the handlers a step names change.
LEMMA BusyIs == ASSUME NEW p \in Handlers PROVE p \in Busy <=> h[p].at # "idle"
BY DEF Busy

\* Shopify's own step keeps what handlers have seen true of it.
LEMMA SellingShopInv == ASSUME TypeInv, ShopInv, Selling PROVE ShopInv'
<1>1. /\ UNCHANGED <<store, books, h, repeats, overlapped>>
      /\ Counts(shop')
      /\ \A r \in Refunds : shop.refund[r].units # 0 => shop'.refund[r] = shop.refund[r]
      /\ \A f \in Fulfilments : /\ shop.ful[f] # "none" => shop'.ful[f] # "none"
                                /\ shop.ful[f] = "cancelled" => shop'.ful[f] = "cancelled"
      /\ due \subseteq due' /\ \A e \in due' \ due : Raised(e)'
  BY SellingIs DEF ShopInv
<1>2. \A e : Raised(e) => Raised(e)'
  BY RaisedStays DEF ShopInv
<1>3. \A p \in Handlers : Counts(h'[p].seen)
  BY <1>1 DEF ShopInv
<1>4. \A p \in Handlers : SeesOrder(h[p])'
  BY <1>1 DEF ShopInv, SeesOrder
<1>5. (\A e \in due : Raised(e))'
  BY <1>1, <1>2 DEF ShopInv
<1>6. (\A p \in Busy : Raised(h[p].event))'
  <2>1. Busy' = Busy
    BY <1>1 DEF Busy
  <2> QED BY <1>1, <1>2, <2>1 DEF ShopInv
<1>7. (\A r \in Refunds : books.credit[r] > 0 => shop.refund[r].units > 0)'
  <2>1. \A r \in Refunds : shop.refund[r].units > 0 => shop.refund[r].units # 0
    BY DEF TypeInv, TypeOK, ShopType
  <2> QED BY <1>1, <2>1 DEF ShopInv
<1> QED BY <1>1, <1>3, <1>4, <1>5, <1>6, <1>7 DEF ShopInv

-----------------------------------------------------------------------------
(* The five kinds of step a handler takes, whatever it works on *)

Begins(p) == \E e \in Events :
  /\ Raised(e) /\ h[p].at = "idle"
  /\ h'[p] = [at |-> "begun", event |-> e, snap |-> books, seen |-> NewOrder]
  /\ UNCHANGED <<due, books, unsettled>> /\ overlapped' = (overlapped \/ Busy # {})

Fetches(p) ==
  /\ h[p].at = "begun"
  /\ h'[p] = [at |-> "fetched", event |-> h[p].event, snap |-> h[p].snap, seen |-> shop]
  /\ UNCHANGED <<due, books, overlapped, unsettled>>

Fails(p) ==
  /\ h[p].at # "idle" /\ h'[p] = Idle
  /\ due' = due \cup {h[p].event} /\ UNCHANGED <<books, overlapped, unsettled>>

Ends(p) ==
  /\ h[p].at \in {"fetched", "reopened"} /\ h'[p] = Idle
  /\ due' = due \ {h[p].event} /\ UNCHANGED overlapped

OpensAgain(p) ==
  /\ h[p].at = "fetched" /\ h[p].event = "cancelled" /\ h[p].snap.so = "closed"
  /\ h'[p] = [at |-> "reopened", event |-> h[p].event, snap |-> Opened, seen |-> h[p].seen]
  /\ books' = Opened /\ UNCHANGED <<due, overlapped>>

\* A handler that commits ends.
LEMMA CommitsEnds ==
  ASSUME TypeInv, NEW p \in Handlers, NEW b, Commits(p, b), h[p].at \in {"fetched", "reopened"}
  PROVE  Ends(p)
BY DEF Commits, Ends, TypeInv, TypeOK

\* Every step of a handler is of one of these kinds.
LEMMA KindsOfStep ==
  ASSUME TypeInv, NEW p \in Handlers, Handling(p)
  PROVE  Begins(p) \/ Fetches(p) \/ Fails(p) \/ Ends(p) \/ OpensAgain(p)
<1>0. books \in BooksType /\ TypeOK
  BY DEF TypeInv, TypeOK
<1>1. ASSUME NEW e \in Events, Begin(p, e) PROVE Begins(p)
  BY <1>1 DEF Begin, Begins, TypeInv, TypeOK
<1>2. CASE fetch_order(p)
  <2> DEFINE g == [at |-> "fetched", event |-> h[p].event, snap |-> h[p].snap, seen |-> shop]
             g1 == [h[p] EXCEPT !.at = "fetched"]
  <2>1. h[p] = [at |-> h[p].at, event |-> h[p].event, snap |-> h[p].snap, seen |-> h[p].seen]
    BY DEF TypeInv, TypeOK
  <2>2. g1 = [at |-> "fetched", event |-> h[p].event, snap |-> h[p].snap, seen |-> h[p].seen]
    BY <2>1
  <2>3. h' = [h EXCEPT ![p] = [g1 EXCEPT !.seen = shop]]
    BY <1>2 DEF fetch_order
  <2> HIDE DEF g1
  <2>4. [g1 EXCEPT !.seen = shop] = g
    BY <2>2
  <2>5. h'[p] = g
    BY <2>3, <2>4 DEF TypeInv, TypeOK
  <2> QED BY <1>2, <2>5 DEF fetch_order, Fetches
<1>3. CASE HandlerFails(p)
  BY <1>3 DEF HandlerFails, Fails, TypeInv, TypeOK
<1>4. ASSUME NEW b, NEW e, Commits(p, b), Deciding(p, e) PROVE Ends(p)
  BY <1>4, CommitsEnds DEF Deciding
<1>5. CASE on_order_create(p)
  BY <1>4, <1>5 DEF on_order_create
<1>6. CASE on_order_paid(p)
  BY <1>0, <1>4, <1>6, on_order_paidIs DEF Invoices
<1>7. CASE \E f \in Fulfilments : on_order_fulfilled(p, f)
  BY <1>0, <1>4, <1>7, on_order_fulfilledIs DEF Delivers
<1>8. CASE on_order_cancelled(p)
  <2>1. ASSUME Deciding(p, "cancelled"), h[p].snap.so = "closed", Reopens(p) PROVE OpensAgain(p)
    <3>1. h'[p] = [at |-> "reopened", event |-> h[p].event, snap |-> Opened, seen |-> h[p].seen]
          /\ books' = Opened /\ UNCHANGED <<due, overlapped>>
      BY <1>0, <2>1, ReopensIs DEF TypeOK
    <3> QED BY <2>1, <3>1 DEF OpensAgain, Deciding
  <2>2. ASSUME NEW b, Commits(p, b), h[p].at = "reopened" PROVE Ends(p)
    BY <2>2, CommitsEnds
  <2> QED BY <1>0, <1>4, <1>8, <2>1, <2>2, on_order_cancelledIs DEF Marks
<1>9. CASE \E r \in Refunds : on_refund_create(p, r)
  BY <1>0, <1>4, <1>9, on_refund_createIs DEF Credits
<1> QED BY <1>1, <1>2, <1>3, <1>5, <1>6, <1>7, <1>8, <1>9 DEF Handling

\* What a handler has after its step it has of Shopify.
LEMMA HandlerSees ==
  ASSUME TypeInv, ShopInv, NEW p \in Handlers, Handling(p)
  PROVE  /\ Counts(h'[p].seen) /\ SeesOrder(h'[p])
         /\ h'[p].at # "idle" => Raised(h'[p].event)
         /\ \A e \in due' : Raised(e)
<1>0. /\ Counts(h[p].seen) /\ SeesOrder(h[p]) /\ Counts(shop) /\ \A e \in due : Raised(e)
      /\ h[p].at # "idle" => Raised(h[p].event)
  BY BusyIs DEF ShopInv
<1>1. CASE Begins(p)
  <2>1. PICK e \in Events : /\ Raised(e) /\ due' = due
                            /\ h'[p] = [at |-> "begun", event |-> e, snap |-> books, seen |-> NewOrder]
    BY <1>1 DEF Begins
  <2>2. \A f \in Fulfilments : NewOrder.ful[f] = "none"
    BY DEF NewOrder
  <2>3. SeesOrder(h'[p])
    BY <2>1, <2>2 DEF SeesOrder
  <2> QED BY <1>0, <2>1, <2>3, NewOrderCounts
<1>2. CASE Fetches(p)
  <2>1. /\ h[p].at = "begun" /\ due' = due
        /\ h'[p] = [at |-> "fetched", event |-> h[p].event, snap |-> h[p].snap, seen |-> shop]
    BY <1>2 DEF Fetches
  <2>2. SeesOrder(h'[p])
    <3>1. ASSUME NEW f \in Fulfilments, h[p].event = f PROVE shop.ful[f] # "none"
      BY <1>0, <2>1, <3>1, EventsDiffer DEF Raised
    <3> QED BY <2>1, <3>1 DEF SeesOrder
  <2> QED BY <1>0, <2>1, <2>2
<1>3. CASE Fails(p) \/ Ends(p)
  <2>1. h'[p] = Idle /\ due' \subseteq due \cup {h[p].event} /\ h[p].at # "idle"
    BY <1>3 DEF Fails, Ends
  <2>2. \A f \in Fulfilments : NewOrder.ful[f] = "none"
    BY DEF NewOrder
  <2>3. SeesOrder(h'[p])
    BY <2>1, <2>2 DEF SeesOrder, Idle
  <2> QED BY <1>0, <2>1, <2>3, NewOrderCounts DEF Idle
<1>4. CASE OpensAgain(p)
  <2>1. /\ h[p].at = "fetched" /\ due' = due
        /\ h'[p] = [at |-> "reopened", event |-> h[p].event, snap |-> Opened, seen |-> h[p].seen]
    BY <1>4 DEF OpensAgain
  <2>2. SeesOrder(h'[p])
    BY <1>0, <2>1 DEF SeesOrder
  <2> QED BY <1>0, <2>1, <2>2
<1> QED BY <1>1, <1>2, <1>3, <1>4, KindsOfStep

\* A handler's step leaves it true of Shopify.
LEMMA HandlingShopInv ==
  ASSUME TypeInv, ShopInv, NEW p \in Handlers, Handling(p), TypeInv'
  PROVE  ShopInv'
<1>1. shop' = shop /\ \A q \in Handlers : q # p => h'[q] = h[q]
  BY OneHandler
<1>2. /\ Counts(h'[p].seen) /\ SeesOrder(h'[p])
      /\ h'[p].at # "idle" => Raised(h'[p].event)
      /\ \A e \in due' : Raised(e)
  BY HandlerSees
<1>3. \A e : Raised(e)' <=> Raised(e)
  BY <1>1 DEF Raised
<1>4. \A q \in Handlers : Counts(h'[q].seen)
  BY <1>1, <1>2 DEF ShopInv
<1>5. \A q \in Handlers : SeesOrder(h[q])'
  <2>1. \A q \in Handlers : SeesOrder(h'[q])
    BY <1>1, <1>2 DEF ShopInv
  <2> QED BY <1>1, <2>1 DEF SeesOrder
<1>6. (\A q \in Busy : Raised(h[q].event))'
  <2>1. ASSUME NEW q \in Handlers, h'[q].at # "idle" PROVE Raised(h'[q].event)
    BY <1>1, <1>2, <2>1, BusyIs DEF ShopInv
  <2> QED BY <1>3, <2>1 DEF Busy
<1>7. (\A r \in Refunds : books.credit[r] > 0 => shop.refund[r].units > 0)'
  <2> SUFFICES ASSUME NEW r \in Refunds, books'.credit[r] > 0 PROVE shop.refund[r].units > 0
    BY <1>1
  <2>1. books.credit[r] \in Nat /\ books'.credit[r] \in Nat
    BY DEF TypeInv, TypeOK, BooksType
  <2>2. CASE books'.credit[r] > books.credit[r]
    <3>1. h[p].event = r /\ h[p].at # "idle"
      BY <2>2, OwnHandlerCredits DEF Credits, Deciding
    <3>2. Raised(r)
      BY <3>1, BusyIs DEF ShopInv
    <3> QED BY <3>2, EventsDiffer DEF Raised
  <2>3. CASE ~(books'.credit[r] > books.credit[r])
    BY <2>1, <2>3 DEF ShopInv
  <2> QED BY <2>2, <2>3
<1>8. (\A e \in due : Raised(e))'
  BY <1>2, <1>3
<1>9. Counts(shop')
  BY <1>1 DEF ShopInv
<1> QED BY <1>4, <1>5, <1>6, <1>7, <1>8, <1>9 DEF ShopInv

\* At first nothing was raised but the order itself.
LEMMA InitShopInv == Init => ShopInv
<1> SUFFICES ASSUME Init PROVE ShopInv
  OBVIOUS
<1>1. \A p \in Handlers : h[p] = Idle
  BY DEF Init
<1>2. \A f \in Fulfilments : NewOrder.ful[f] = "none"
  BY DEF NewOrder
<1>3. \A p \in Handlers : Counts(h[p].seen) /\ SeesOrder(h[p])
  BY <1>1, <1>2, NewOrderCounts DEF Idle, SeesOrder
<1>4. Busy = {}
  BY <1>1 DEF Busy, Idle
<1> QED BY <1>3, <1>4, NewOrderCounts DEF Init, ShopInv, Raised, NoBooks

\* What is true of Shopify stays so.
LEMMA NextShopInv == ASSUME TypeInv, ShopInv, [Next]_vars PROVE ShopInv'
<1>0. TypeInv'
  BY NextTypeInv
<1>1. CASE Selling
  BY <1>1, SellingShopInv
<1>2. CASE \E p \in Handlers : Handling(p)
  BY <1>0, <1>2, HandlingShopInv
<1>3. CASE UNCHANGED vars
  <2>1. Counts(shop') /\ \A p \in Handlers : Counts(h'[p].seen)
    BY <1>3 DEF vars, ShopInv
  <2>2. \A e : Raised(e)' <=> Raised(e)
    BY <1>3 DEF vars, Raised
  <2>3. \A p \in Handlers : SeesOrder(h[p])'
    BY <1>3 DEF vars, ShopInv, SeesOrder
  <2>4. Busy' = Busy
    BY <1>3 DEF vars, Busy
  <2> QED BY <1>3, <2>1, <2>2, <2>3, <2>4 DEF vars, ShopInv
<1> QED BY <1>1, <1>2, <1>3 DEF Next

-----------------------------------------------------------------------------
(* Handlers that run one at a time *)

\* The parts of AloneInv but the first, of the order as Shopify has it.
Follow == RefundsFollow /\ (Undisturbed => Follows) /\ (Refunded(shop) = Qty => Released)

\* The handler that runs has the books in its snapshot; the others have nothing.
LEMMA AloneFacts ==
  ASSUME TypeInv, OneByOne, NEW p \in Handlers, h[p].at # "idle"
  PROVE  h[p].snap = books /\ \A q \in Handlers : q # p => h[q].at = "idle" /\ h[q].event = NoEvent
<1>1. h[p].snap = books /\ Busy = {p}
  BY BusyIs DEF OneByOne
<1>2. \A q \in Handlers : q # p => h[q].at = "idle"
  BY <1>1, BusyIs
<1> QED BY <1>1, <1>2 DEF TypeInv, Runs

\* Handlers begin one at a time, and the books change only under the one that runs.
LEMMA StaysOneByOne ==
  ASSUME TypeInv, NEW p \in Handlers, Handling(p), ~overlapped' , ~overlapped => OneByOne
  PROVE  OneByOne' /\ ~overlapped /\ (h[p].at = "idle" => Busy = {})
<1>0. \A q \in Handlers : q # p => h'[q] = h[q]
  BY OneHandler
<1>1. CASE Begins(p)
  <2>0. Busy = {} /\ ~overlapped
    <3>1. overlapped' = (overlapped \/ Busy # {})
      BY <1>1 DEF Begins
    <3> QED BY <3>1, Zenon
  <2>1. Busy = {} /\ ~overlapped /\ books' = books /\ h'[p].at = "begun" /\ h'[p].snap = books
    BY <1>1, <2>0 DEF Begins
  <2>2. Busy' = {p}
    BY <1>0, <2>1 DEF Busy
  <2> QED BY <2>1, <2>2 DEF OneByOne
<1>2. CASE Fetches(p) \/ OpensAgain(p)
  <2>1. /\ ~overlapped /\ h[p].at # "idle" /\ h'[p].at # "idle"
        /\ h[p].snap = books => h'[p].snap = books'
    BY <1>2 DEF Fetches, OpensAgain
  <2>2. h[p].snap = books /\ Busy = {p}
    BY <2>1, BusyIs DEF OneByOne
  <2>3. Busy' = {p}
    BY <1>0, <2>1, <2>2 DEF Busy
  <2> QED BY <2>1, <2>2, <2>3 DEF OneByOne
<1>3. CASE Fails(p) \/ Ends(p)
  <2>1. ~overlapped /\ h[p].at # "idle" /\ h'[p].at = "idle"
    BY <1>3 DEF Fails, Ends, Idle
  <2>2. Busy = {p}
    BY <2>1, BusyIs DEF OneByOne
  <2>3. Busy' = {}
    BY <1>0, <2>1, <2>2 DEF Busy
  <2> QED BY <2>1, <2>3 DEF OneByOne
<1> QED BY <1>1, <1>2, <1>3, KindsOfStep

\* An order refunded in full owes nothing, as any handler has fetched it.
LEMMA OwesNothing ==
  ASSUME NEW s \in ShopType, Counts(s), Refunded(s) = Qty
  PROVE  owed_by_item(s) = 0
<1>1. /\ RefundedShipped(s) \in Nat /\ RefundedUnshipped(s) \in Nat /\ Cardinality(Shipped(s)) \in Nat
      /\ UnfulfilledQuantity(s) = Qty - (Cardinality(Shipped(s)) + RefundedUnshipped(s))
      /\ Cardinality(Shipped(s)) + RefundedUnshipped(s) <= Qty
  BY CountsAre
<1>2. CurrentQuantity(s) = 0
  BY QtyAssumption DEF CurrentQuantity
<1>3. UnfulfilledQuantity(s) \in Int /\ UnfulfilledQuantity(s) >= 0
  BY <1>1, QtyAssumption
<1> QED BY <1>2, <1>3 DEF owed_by_item, Least

\* What is reserved depends on the status and on what is in hand.
LEMMA ReservedSame ==
  ASSUME NEW b, NEW c, b.so = c.so, b.notes = c.notes, b.back = c.back
  PROVE  Reserved(b) = Reserved(c)
BY DEF Reserved, InHand, Delivered

\* Steps that leave the books and raise nothing off the list of what is due.
LEMMA ReadingFollows ==
  ASSUME TypeInv, ShopInv, OneByOne, Follow, NEW p \in Handlers, Handling(p),
         Begins(p) \/ Fetches(p) \/ Fails(p)
  PROVE  Follow'
<1>0. shop' = shop /\ books' = books /\ due \subseteq due' /\ unsettled' = unsettled /\ \A q \in Handlers : q # p => h'[q] = h[q]
  BY OneHandler DEF Begins, Fetches, Fails
<1>1. RefundsFollow'
  BY <1>0 DEF Follow, RefundsFollow
<1>2. Undisturbed' => Follows'
  BY <1>0 DEF Follow, Undisturbed, Follows, Shipped
<1>3. ASSUME Refunded(shop)' = Qty PROVE Released'
  <2>0. Refunded(shop) = Qty
    BY <1>0, <1>3, RefundedSame
  <2>1. SeesAll(h'[p])
    <3>1. CASE Fetches(p)
      <4>1. h'[p].seen = shop
        BY <3>1 DEF Fetches
      <4> QED BY <2>0, <4>1 DEF SeesAll
    <3>2. CASE Begins(p) \/ Fails(p)
      <4>1. h'[p].at # "fetched"
        <5>1. Begins(p) => h'[p].at = "begun"
          BY DEF Begins
        <5>2. Fails(p) => h'[p].at = "idle"
          BY DEF Fails, Idle
        <5> QED BY <3>2, <5>1, <5>2
      <4> QED BY <4>1 DEF SeesAll
    <3> QED BY <3>1, <3>2
  <2>2. \A q \in Handlers : h'[q].event \in Refunds =>
           SeesAll(h'[q]) \/ (q # p /\ h'[q] = h[q])
    BY <1>0, <2>1
  <2>3. CASE \E r \in Refunds : /\ r \in due /\ books.credit[r] = 0
                                /\ \A q \in Handlers : h[q].event = r => SeesAll(h[q])
    <3>1. PICK r \in Refunds : /\ r \in due /\ books.credit[r] = 0
                               /\ \A q \in Handlers : h[q].event = r => SeesAll(h[q])
      BY <2>3
    <3>2. \A q \in Handlers : h'[q].event = r => SeesAll(h'[q])
      BY <2>2, <3>1
    <3>3. \A q \in Handlers : (h[q].event = r => SeesAll(h[q]))'
      BY <3>2 DEF SeesAll, Refunded, RefundedUnits
    <3> QED BY <1>0, <3>1, <3>3 DEF Released
  <2>4. CASE /\ books.so # "none"
             /\ \A q \in Handlers : h[q].event \in Refunds => SeesAll(h[q])
             /\ \/ Reserved(books) = 0
                \/ "cancelled" \in due
                \/ \E q \in Handlers : h[q].at = "reopened"
                \/ unsettled
    <3>1. \A q \in Handlers : h'[q].event \in Refunds => SeesAll(h'[q])
      BY <2>2, <2>4
    <3>2. \/ Reserved(books) = 0
          \/ "cancelled" \in due'
          \/ \E q \in Handlers : h'[q].at = "reopened"
          \/ unsettled'
      <4>1. ASSUME h[p].at = "reopened" PROVE "cancelled" \in due'
        BY <4>1 DEF Begins, Fetches, Fails, TypeInv, Runs
      <4> QED BY <1>0, <2>4, <4>1
    <3> QED BY <1>0, <2>4, <3>1, <3>2 DEF Released
  <2> QED BY <2>0, <2>3, <2>4 DEF Follow, Released
<1> QED BY <1>1, <1>2, <1>3 DEF Follow

\* A handler that ends took its event off the list, and no other is busy.
LEMMA EndsIs ==
  ASSUME TypeInv, OneByOne, NEW p \in Handlers, Handling(p), Ends(p)
  PROVE  /\ shop' = shop /\ due' = due \ {h[p].event} /\ h[p].snap = books
         /\ h[p].at \in {"fetched", "reopened"}
         /\ \A q \in Handlers : h'[q].event = NoEvent /\ h'[q].at = "idle"
<1>1. shop' = shop /\ \A q \in Handlers : q # p => h'[q] = h[q]
  BY OneHandler
<1>2. /\ h'[p].event = NoEvent /\ h'[p].at = "idle" /\ due' = due \ {h[p].event}
      /\ h[p].at \in {"fetched", "reopened"}
  BY DEF Ends, Idle
<1>3. h[p].at # "idle"
  BY <1>2
<1>4. h[p].snap = books /\ \A q \in Handlers : q # p => h[q].at = "idle" /\ h[q].event = NoEvent
  BY <1>3, AloneFacts
<1> QED BY <1>1, <1>2, <1>4

\* Afterwards an order refunded in full is released if nothing is reserved, or a
\* cancellation or a refund not credited yet is to come.
LEMMA EndsReleased ==
  ASSUME TypeInv, OneByOne, NEW p \in Handlers, Handling(p), Ends(p),
         \/ \E r \in Refunds : r \in due' /\ books'.credit[r] = 0
         \/ books'.so # "none" /\ (Reserved(books') = 0 \/ "cancelled" \in due' \/ unsettled')
  PROVE  Released'
<1>1. \A q \in Handlers : h'[q].event = NoEvent /\ h'[q].at = "idle"
  BY EndsIs
<1>2. \A q \in Handlers : SeesAll(h'[q])
  BY <1>1 DEF SeesAll
<1>3. \A q \in Handlers : SeesAll(h[q])'
  BY <1>2
<1> QED BY <1>3 DEF Released

\* What a handler found when it ends the run of an event.
LEMMA ReleasedBefore ==
  ASSUME TypeInv, OneByOne, NEW p \in Handlers, h[p].at \in {"fetched", "reopened"}, Released
  PROVE  \/ \E r \in Refunds : /\ r \in due /\ books.credit[r] = 0
                               /\ h[p].event = r => SeesAll(h[p])
         \/ /\ books.so # "none" /\ (h[p].event \in Refunds => SeesAll(h[p]))
            /\ Reserved(books) = 0 \/ "cancelled" \in due \/ h[p].event = "cancelled" \/ unsettled
<1>1. \A q \in Handlers : q # p => h[q].at = "idle"
  BY AloneFacts
<1>2. ASSUME NEW q \in Handlers, h[q].at = "reopened" PROVE h[p].event = "cancelled"
  BY <1>1, <1>2 DEF TypeInv, Runs
<1>3. CASE \E r \in Refunds : /\ r \in due /\ books.credit[r] = 0
                              /\ \A q \in Handlers : h[q].event = r => SeesAll(h[q])
  BY <1>3
<1>4. CASE /\ books.so # "none"
           /\ \A q \in Handlers : h[q].event \in Refunds => SeesAll(h[q])
           /\ \/ Reserved(books) = 0
              \/ "cancelled" \in due
              \/ \E q \in Handlers : h[q].at = "reopened"
              \/ unsettled
  BY <1>2, <1>4
<1> QED BY <1>3, <1>4 DEF Released

\* Booking an event that is neither a refund nor the cancellation: no credit
\* changes, a status stays unless there was none, no note is taken away.
LEMMA BookingReleased ==
  ASSUME TypeInv, OneByOne, NEW p \in Handlers, Handling(p), Ends(p), Released, TypeInv',
         h[p].event # "cancelled", h[p].event \notin Refunds,
         unsettled' = unsettled, books'.credit = books.credit, books.so # "none" => books'.so = books.so,
         books'.back = books.back, \A f \in Fulfilments : books.notes[f] <= books'.notes[f]
  PROVE  Released'
<1>0. h[p].at \in {"fetched", "reopened"} /\ due' = due \ {h[p].event}
  BY DEF Ends
<1>1. CASE \E r \in Refunds : r \in due /\ books.credit[r] = 0
  <2>1. \E r \in Refunds : r \in due' /\ books'.credit[r] = 0
    BY <1>0, <1>1
  <2> QED BY <2>1, EndsReleased
<1>2. CASE books.so # "none" /\ "cancelled" \in due
  BY <1>0, <1>2, EndsReleased
<1>3. CASE books.so # "none" /\ Reserved(books) = 0
  <2>1. books \in BooksType /\ books' \in BooksType /\ Adds(books) /\ Adds(books')
    BY DEF TypeInv, TypeOK
  <2>2. Delivered(books) <= Delivered(books') /\ Delivered(books) \in Nat /\ Delivered(books') \in Nat
    BY <2>1, DeliveredGrows, DeliveredType
  <2>3. books.back \in Nat
    BY <2>1, BooksParts
  <2>4. InHand(books) <= InHand(books') /\ InHand(books) \in Int /\ InHand(books') \in Int
    BY <2>2, <2>3 DEF InHand
  <2>5. Reserved(books') = 0
    BY <1>3, <2>4, QtyAssumption DEF Reserved
  <2> QED BY <1>3, <2>5, EndsReleased
<1>4. CASE books.so # "none" /\ unsettled
  BY <1>4, EndsReleased
<1> QED BY <1>0, <1>1, <1>2, <1>3, <1>4, ReleasedBefore

\* The orders that are not disturbed have no event but the order, its payment
\* and its fulfilments.
LEMMA UndisturbedEvent ==
  ASSUME TypeInv, ShopInv, NEW p \in Handlers, h[p].at # "idle", Undisturbed
  PROVE  h[p].event # "cancelled" /\ h[p].event \notin Refunds
<1>1. Raised(h[p].event)
  BY BusyIs DEF ShopInv
<1>2. ASSUME h[p].event \in Refunds PROVE FALSE
  BY <1>1, <1>2, EventsDiffer DEF Raised, Undisturbed
<1>3. ASSUME h[p].event = "cancelled" PROVE FALSE
  BY <1>1, <1>3, EventsDiffer DEF Raised, Undisturbed
<1> QED BY <1>2, <1>3

\* Follow after a step that leaves the order at Shopify as it is, part by part.
LEMMA FollowFrom ==
  ASSUME shop' = shop, RefundsFollow', Undisturbed => Follows', Refunded(shop) = Qty => Released'
  PROVE  Follow'
<1>1. Undisturbed' <=> Undisturbed
  BY DEF Undisturbed
<1>2. Refunded(shop)' = Refunded(shop)
  OBVIOUS
<1> QED BY <1>1, <1>2 DEF Follow

\* The state a handler that ends starts from.
LEMMA BeforeTheEnd ==
  ASSUME TypeInv
  PROVE  /\ books \in BooksType /\ TypeOK /\ shop \in ShopType
         /\ \A r \in Refunds : books.credit[r] \in Nat
         /\ \A f \in Fulfilments : books.notes[f] \in Nat
         /\ books.so \in Statuses /\ books.inv \in Docs
BY BooksParts DEF TypeInv, TypeOK

\* Booking the order.
LEMMA CreatingFollows ==
  ASSUME TypeInv, ShopInv, OneByOne, Follow, NEW p \in Handlers, Handling(p), TypeInv',
         on_order_create(p), Ends(p)
  PROVE  Follow'
<1>0. /\ shop' = shop /\ due' = due \ {"create"} /\ h[p].snap = books /\ h[p].event = "create"
  BY EndsIs DEF on_order_create, Deciding
<1>1. /\ books'.so = (IF books.so = "none" THEN "open" ELSE books.so)
      /\ books'.inv = books.inv /\ books'.pay = books.pay /\ books'.notes = books.notes
      /\ books'.back = books.back /\ books'.credit = books.credit
  <2>1. Creates(p)
    BY BeforeTheEnd, on_order_createIs
  <2>2. books' = Books(Made(p), books.inv, books.pay, books.notes, books.back,
                       books.credit, books.torn, books.paidBack)
    BY <2>1 DEF Creates, Commits
  <2> QED BY <1>0, <2>2 DEF Books, Made
<1>2. RefundsFollow'
  <2>1. \A r \in Refunds : r \in due => r \in due'
    BY <1>0, EventsDiffer
  <2> QED BY <1>0, <1>1, <2>1 DEF Follow, RefundsFollow
<1>3. Undisturbed => Follows'
  <2> SUFFICES ASSUME Undisturbed PROVE Follows'
    OBVIOUS
  <2>1. Follows
    BY DEF Follow
  <2>2. \A f \in Fulfilments : f \in due => f \in due'
    BY <1>0, EventsDiffer
  <2>3. Shipped(shop') = Shipped(shop) /\ Shipped(shop) \subseteq Fulfilments
    BY <1>0 DEF Shipped
  <2>4. books'.so = "open"
    BY <1>1, <2>1 DEF Follows
  <2> QED BY <1>0, <1>1, <2>1, <2>2, <2>3, <2>4 DEF Follows
<1>4. Refunded(shop) = Qty => Released'
  <2>1. h[p].event # "cancelled" /\ h[p].event \notin Refunds
    BY <1>0, EventsDiffer
  <2>2. \A f \in Fulfilments : books.notes[f] <= books'.notes[f]
    BY <1>1, BeforeTheEnd
  <2>3. unsettled' = unsettled
    BY DEF on_order_create
  <2> QED BY <1>1, <2>1, <2>2, <2>3, BookingReleased DEF Follow
<1> QED BY <1>0, <1>2, <1>3, <1>4, FollowFrom

\* Invoicing it.
LEMMA PayingFollows ==
  ASSUME TypeInv, ShopInv, OneByOne, Follow, NEW p \in Handlers, Handling(p), TypeInv',
         on_order_paid(p), Ends(p)
  PROVE  Follow'
<1>0. /\ shop' = shop /\ due' = due \ {"paid"} /\ h[p].snap = books /\ h[p].event = "paid"
      /\ h[p].at # "idle"
  BY EndsIs DEF on_order_paid, Deciding
<1>1. /\ books'.notes = books.notes /\ books'.inv = "live"
      /\ books'.back = books.back /\ books'.credit = books.credit
      /\ \/ books.inv = "live" /\ books' = books
         \/ /\ books.so \in {"none", "open"} /\ books'.so = "open"
            /\ books.inv # "live" /\ books'.pay = "live"
  <2>1. CASE Commits(p, books) /\ h[p].snap.inv = "live"
    BY <1>0, <2>1 DEF Commits
  <2>2. CASE Invoices(p)
    <3>1. books' = Books(Made(p), "live", "live", books.notes, books.back,
                         books.credit, books.torn, books.paidBack)
      BY <2>2 DEF Invoices, Commits
    <3>2. books.so \in {"none", "open"} /\ books.inv # "live"
      BY <1>0, <2>2, BeforeTheEnd DEF Invoices, Statuses
    <3> QED BY <1>0, <3>1, <3>2 DEF Books, Made
  <2> QED BY <2>1, <2>2, BeforeTheEnd, on_order_paidIs
<1>2. RefundsFollow'
  <2>1. \A r \in Refunds : r \in due => r \in due'
    BY <1>0, EventsDiffer
  <2> QED BY <1>0, <1>1, <2>1 DEF Follow, RefundsFollow
<1>3. Undisturbed => Follows'
  <2> SUFFICES ASSUME Undisturbed PROVE Follows'
    OBVIOUS
  <2>1. Follows
    BY DEF Follow
  <2>2. \A f \in Fulfilments : f \in due => f \in due'
    BY <1>0, EventsDiffer
  <2>3. Shipped(shop') = Shipped(shop) /\ Shipped(shop) \subseteq Fulfilments
    BY <1>0 DEF Shipped
  <2>4. shop.paid
    BY <1>0, BusyIs, EventsDiffer DEF ShopInv, Raised
  <2>5. "create" \in due => "create" \in due'
    BY <1>0
  <2>6. books'.pay = "live"
    BY <1>1, <2>1 DEF Follows
  <2>7. books'.so \in {"none", "open"} /\ ("create" \in due \/ books'.so = "open")
    BY <1>1, <2>1 DEF Follows
  <2> QED BY <1>0, <1>1, <2>1, <2>2, <2>3, <2>4, <2>5, <2>6, <2>7 DEF Follows
<1>4. Refunded(shop) = Qty => Released'
  <2>1. h[p].event # "cancelled" /\ h[p].event \notin Refunds
    BY <1>0, EventsDiffer
  <2>2. \A f \in Fulfilments : books.notes[f] <= books'.notes[f]
    BY <1>1, BeforeTheEnd
  <2>3. unsettled' = unsettled
    BY DEF on_order_paid
  <2> QED BY <1>1, <2>1, <2>2, <2>3, BookingReleased DEF Follow
<1> QED BY <1>0, <1>2, <1>3, <1>4, FollowFrom

\* All fulfilments without a note get one: the order has units left for each.
LEMMA AllDelivered ==
  ASSUME TypeInv, ShopInv, Follows, Undisturbed, NEW p \in Handlers, NEW f, NEW made,
         Delivers(p, f, made), h[p].snap = books, h[p].at = "fetched"
  PROVE  made = unrecorded(books, h[p].seen) /\ made \subseteq Shipped(shop)
<1> DEFINE new == unrecorded(books, h[p].seen)
           noted == {g \in Fulfilments : books.notes[g] = 1}
<1>1. new \subseteq Shipped(shop)
  BY DEF ShopInv, SeesOrder, Undisturbed, unrecorded, Shipped, TypeInv, TypeOK, ShopType
<1>2. noted \subseteq Shipped(shop) /\ new \cap noted = {}
  BY DEF Follows, unrecorded
<1>3. IsFiniteSet(Shipped(shop)) /\ Cardinality(Shipped(shop)) \in Nat /\ Cardinality(Shipped(shop)) <= Qty
  <2>1. shop \in ShopType /\ Counts(shop)
    BY DEF TypeInv, TypeOK, ShopInv
  <2>2. RefundedUnshipped(shop) \in Nat /\ Cardinality(Shipped(shop)) \in Nat
        /\ Cardinality(Shipped(shop)) + RefundedUnshipped(shop) <= Qty
    BY <2>1, CountsAre
  <2> QED BY <2>2, FiniteKinds, QtyAssumption
<1>4. InHand(books) = Cardinality(noted)
  <2>1. IsFiniteSet(Fulfilments) /\ \A g \in Fulfilments : books.notes[g] \in {0, 1}
    BY NamesAssumption DEF Follows
  <2>2. Delivered(books) = Cardinality(noted)
    BY <2>1, SumOfOnes, TotalIs DEF Delivered
  <2>3. books.back = 0 /\ Delivered(books) \in Nat
    BY DeliveredType DEF Follows, TypeInv, TypeOK
  <2> QED BY <2>2, <2>3 DEF InHand
<1>5. made \subseteq new /\ Cardinality(made) = Least(Cardinality(new), Qty - InHand(books))
  BY DEF Delivers
<1> HIDE DEF new, noted
<1>6. /\ IsFiniteSet(new) /\ IsFiniteSet(noted) /\ IsFiniteSet(made)
      /\ Cardinality(new) \in Nat /\ Cardinality(noted) \in Nat /\ Cardinality(made) \in Nat
  <2>1. IsFiniteSet(new) /\ IsFiniteSet(noted)
    BY <1>1, <1>2, <1>3, FS_Subset
  <2>2. IsFiniteSet(made)
    BY <1>5, <2>1, FS_Subset
  <2> QED BY <2>1, <2>2, FS_CardinalityType
<1>7. Cardinality(new) + Cardinality(noted) <= Qty
  <2>1. Cardinality(new \cup noted) = Cardinality(new) + Cardinality(noted) - Cardinality(new \cap noted)
    BY <1>6, FS_Union
  <2>2. Cardinality(new \cap noted) = 0
    BY <1>2, FS_EmptySet
  <2>3. new \cup noted \in SUBSET Shipped(shop)
    BY <1>1, <1>2
  <2>4. Cardinality(new \cup noted) <= Cardinality(Shipped(shop)) /\ IsFiniteSet(new \cup noted)
    BY <1>3, <2>3, FS_Subset
  <2>5. Cardinality(new \cup noted) \in Nat
    BY <2>4, FS_CardinalityType
  <2> QED BY <1>3, <1>6, <2>1, <2>2, <2>4, <2>5, QtyAssumption
<1>8. Cardinality(made) = Cardinality(new)
  BY <1>4, <1>5, <1>6, <1>7, QtyAssumption DEF Least
<1>9. made = new
  BY <1>5, <1>6, <1>8, FS_Subset
<1> QED BY <1>1, <1>9 DEF new

\* Delivering what shipped.
LEMMA DeliveringFollows ==
  ASSUME TypeInv, ShopInv, OneByOne, Follow, NEW p \in Handlers, Handling(p), TypeInv',
         NEW f \in Fulfilments, on_order_fulfilled(p, f), Ends(p)
  PROVE  Follow'
<1>0. /\ shop' = shop /\ due' = due \ {f} /\ h[p].snap = books /\ h[p].event = f
      /\ h[p].at = "fetched"
  BY EndsIs DEF on_order_fulfilled, Deciding
<1> PICK made : Delivers(p, f, made)
  BY BeforeTheEnd, on_order_fulfilledIs
<1>1. /\ books.so # "cancelled"
      /\ books'.so = (IF books.so = "none" THEN "open" ELSE books.so)
      /\ books'.inv = books.inv /\ books'.pay = books.pay /\ books'.notes = WithNotes(made)
      /\ books'.back = books.back /\ books'.credit = books.credit
  <2>2. books' = Books(Made(p), books.inv, books.pay, WithNotes(made), books.back,
                       books.credit, books.torn, books.paidBack)
    BY DEF Delivers, Commits
  <2> QED BY <1>0, <2>2 DEF Books, Made, Delivers
<1>2. RefundsFollow'
  <2>1. \A r \in Refunds : r \in due => r \in due'
    BY <1>0, EventsDiffer
  <2> QED BY <1>0, <1>1, <2>1 DEF Follow, RefundsFollow
<1>3. Undisturbed => Follows'
  <2> SUFFICES ASSUME Undisturbed PROVE Follows'
    OBVIOUS
  <2>1. Follows
    BY DEF Follow
  <2>2. made = unrecorded(books, h[p].seen) /\ made \subseteq Shipped(shop)
    BY <1>0, <2>1, AllDelivered
  <2>3. Shipped(shop') = Shipped(shop) /\ Shipped(shop) \subseteq Fulfilments
    BY <1>0 DEF Shipped
  <2>4. \A g \in Fulfilments : /\ g \in made => books.notes[g] = 0 /\ books'.notes[g] = 1
                               /\ g \notin made => books'.notes[g] = books.notes[g]
    BY <1>1, <2>2, BeforeTheEnd DEF WithNotes, unrecorded
  <2>5. books'.notes[f] = 1
    <3>1. f \in Shipped(h[p].seen)
      <4>1. h[p].seen \in ShopType /\ h[p].seen.ful[f] # "none" /\ h[p].seen.ful[f] # "cancelled"
        BY <1>0 DEF ShopInv, SeesOrder, Undisturbed, TypeInv, TypeOK
      <4> QED BY <4>1 DEF Shipped, ShopType
    <3>2. f \in made \/ books.notes[f] # 0
      BY <2>2, <3>1 DEF unrecorded
    <3> QED BY <2>1, <2>4, <3>2 DEF Follows
  <2>6. \A g \in Fulfilments : books'.notes[g] \in {0, 1} /\ (books'.notes[g] = 1 => g \in Shipped(shop))
    BY <2>1, <2>2, <2>4 DEF Follows
  <2>7. \A g \in Shipped(shop) : g \in due' \/ books'.notes[g] = 1
    BY <1>0, <2>1, <2>3, <2>4, <2>5 DEF Follows
  <2>8. books'.so = "open"
    BY <1>1, <2>1 DEF Follows
  <2>9. "paid" \in due => "paid" \in due'
    BY <1>0, EventsDiffer
  <2> QED BY <1>0, <1>1, <2>1, <2>3, <2>6, <2>7, <2>8, <2>9 DEF Follows
<1>4. Refunded(shop) = Qty => Released'
  <2>1. h[p].event # "cancelled" /\ h[p].event \notin Refunds
    BY <1>0, EventsDiffer
  <2>2. \A g \in Fulfilments : books.notes[g] <= books'.notes[g]
    BY <1>1, BeforeTheEnd DEF WithNotes
  <2>3. unsettled' = unsettled
    BY DEF on_order_fulfilled
  <2> QED BY <1>1, <2>1, <2>2, <2>3, BookingReleased DEF Follow
<1> QED BY <1>0, <1>2, <1>3, <1>4, FollowFrom

\* What a cancellation that ends has made of the order.
LEMMA CancelledIs ==
  ASSUME TypeInv, OneByOne, NEW p \in Handlers, Handling(p), on_order_cancelled(p), Ends(p)
  PROVE  /\ h[p].event = "cancelled"
         /\ \/ books' = books /\ (books.so \in {"none", "closed", "cancelled"} \/ Completed(books))
            \/ /\ books.so = "open" /\ books'.so = "closed" /\ books'.inv = books.inv
               /\ books'.credit = books.credit
            \/ books' = Torn(books)
<1>0. h[p].snap = books /\ (h[p].at = "reopened" => h[p].event = "cancelled") /\ books.so \in Statuses
  BY EndsIs, BeforeTheEnd DEF TypeInv, Runs
<1>1. h[p].event = "cancelled"
  BY <1>0 DEF on_order_cancelled, Deciding
<1>2. ASSUME Marks(p, IF books.so = "open" THEN "closed" ELSE books.so), books.so = "open"
      PROVE  books'.so = "closed" /\ books'.inv = books.inv /\ books'.credit = books.credit
  BY <1>2 DEF Marks, Commits, Books
<1>3. ASSUME Torn(books) = books, Commits(p, books)
      PROVE  books' = books /\ books.so \in {"none", "cancelled"}
  <2>1. Torn(books).so \in {"none", "cancelled"}
    BY DEF Torn, Books
  <2> QED BY <1>3, <2>1 DEF Commits
<1>4. ASSUME Commits(p, Torn(books)) PROVE books' = Torn(books)
  BY <1>4 DEF Commits
<1>5. ~Reopens(p)
  <2>1. Reopens(p) => h'[p].at = "reopened"
    BY ReopensIs, BeforeTheEnd DEF TypeOK
  <2> QED BY <2>1 DEF Ends, Idle
<1>6. ASSUME Commits(p, books), \/ books.so = "closed"
                                \/ books.so # "open" /\ keeps_its_invoice(books)
                                \/ books.so = "open" /\ Completed(books)
      PROVE  books' = books /\ (books.so \in {"none", "closed", "cancelled"} \/ Completed(books))
  BY <1>0, <1>6 DEF Commits, Statuses
<1> QED BY <1>0, <1>1, <1>2, <1>3, <1>4, <1>5, <1>6, BeforeTheEnd, on_order_cancelledIs

\* Cancelling it.
LEMMA CancellingFollows ==
  ASSUME TypeInv, ShopInv, OneByOne, Follow, NEW p \in Handlers, Handling(p), TypeInv',
         on_order_cancelled(p), Ends(p)
  PROVE  Follow'
<1>0. shop' = shop /\ due' = due \ {h[p].event} /\ h[p].at # "idle"
  BY EndsIs
<1>1. /\ h[p].event = "cancelled"
      /\ \/ books' = books /\ (books.so \in {"none", "closed", "cancelled"} \/ Completed(books))
         \/ /\ books.so = "open" /\ books'.so = "closed" /\ books'.inv = books.inv
            /\ books'.credit = books.credit
         \/ books' = Torn(books)
  BY CancelledIs
<1>2. \A r \in Refunds : r \in due => r \in due'
  BY <1>0, <1>1, EventsDiffer
<1>3. RefundsFollow'
  <2>0. RefundsFollow /\ books.inv \in Docs
    BY BeforeTheEnd DEF Follow
  <2>1. CASE books' = books
    BY <1>0, <1>2, <2>0, <2>1 DEF RefundsFollow
  <2>2. CASE /\ books.so = "open" /\ books'.so = "closed" /\ books'.inv = books.inv
             /\ books'.credit = books.credit
    BY <1>0, <1>2, <2>0, <2>2 DEF RefundsFollow
  <2>3. CASE books' = Torn(books)
    <3>1. /\ books'.so = (IF books.so = "none" THEN "none" ELSE "cancelled")
          /\ books'.inv = (IF books.inv = "live" THEN "cancelled" ELSE books.inv)
          /\ \A r \in Refunds : books'.credit[r] = 0
      BY <2>3 DEF Torn, Books
    <3> QED BY <1>0, <1>2, <2>0, <3>1 DEF RefundsFollow, Docs
  <2> QED BY <1>1, <2>1, <2>2, <2>3
<1>4. ~Undisturbed
  BY <1>0, <1>1, UndisturbedEvent
<1>5. ASSUME Refunded(shop) = Qty PROVE Released'
  <2>1. CASE \E r \in Refunds : r \in due /\ books.credit[r] = 0
    <3>1. PICK r \in Refunds : r \in due /\ books.credit[r] = 0
      BY <2>1
    <3>2. books'.credit[r] = 0
      <4>1. books' = Torn(books) => books'.credit[r] = 0
        BY DEF Torn, Books
      <4> QED BY <1>1, <3>1, <4>1
    <3> QED BY <1>2, <3>1, <3>2, EndsReleased
  <2>2. CASE books.so # "none"
    <3>1. books'.so # "none" /\ Reserved(books') = 0
      <4>1. CASE books' = books
        <5>1. InHand(books) \in Int
          BY InHandType DEF TypeInv, TypeOK
        <5>2. books.so # "open" \/ InHand(books) >= Qty
          BY <1>1, <2>2, <4>1 DEF Completed, Torn, Books
        <5> QED BY <2>2, <4>1, <5>1, <5>2, QtyAssumption DEF Reserved
      <4>2. CASE books'.so = "closed"
        BY <4>2 DEF Reserved
      <4>3. CASE books' = Torn(books)
        <5>1. books'.so = "cancelled"
          BY <2>2, <4>3 DEF Torn, Books
        <5> QED BY <5>1 DEF Reserved
      <4> QED BY <1>1, <4>1, <4>2, <4>3
    <3> QED BY <3>1, EndsReleased
  <2> QED BY <1>5, <2>1, <2>2, EndsIs, ReleasedBefore DEF Follow
<1> QED BY <1>0, <1>3, <1>4, <1>5, FollowFrom

\* What crediting a refund makes of the order.
LEMMA CreditsIs ==
  ASSUME TypeInv, NEW p \in Handlers, NEW r \in Refunds, Credits(p, r)
  PROVE  /\ books'.so = books.so \/ (books.so = "open" /\ books'.so = "closed")
         /\ books'.inv = books.inv /\ books'.credit = [books.credit EXCEPT ![r] = @ + 1]
         /\ books.credit[r] = 0
<1> PICK b : b = WithCredit(books, r, Taken(p, r))
  OBVIOUS
<1>1. b \in BooksType
  <2>1. books \in BooksType /\ Adds(books) /\ Taken(p, r) \in Nat /\ Taken(p, r) <= InHand(books)
    BY SnapsType, TakenType DEF Credits
  <2> QED BY <2>1, WithCreditType
<1>2. b.so = books.so /\ b.inv = books.inv /\ b.credit = [books.credit EXCEPT ![r] = @ + 1]
  BY DEF WithCredit, Books
<1>3. /\ Closed(b).so = (IF b.so = "open" THEN "closed" ELSE b.so) /\ Closed(b).inv = b.inv
      /\ Closed(b).credit = b.credit
  BY <1>1, ClosedIs DEF Books
<1>4. books' = b \/ books' = Closed(b)
  BY DEF Credits, Commits
<1>5. books.credit[r] = 0
  BY DEF Credits, CreditFree
<1> QED BY <1>2, <1>3, <1>4, <1>5

\* Crediting a refund of it.
LEMMA RefundingFollows ==
  ASSUME TypeInv, ShopInv, OneByOne, CreditInv, Follow, NEW p \in Handlers, Handling(p), TypeInv',
         NEW r \in Refunds, on_refund_create(p, r), Ends(p)
  PROVE  Follow'
<1>0. /\ shop' = shop /\ due' = due \ {r} /\ h[p].snap = books /\ h[p].event = r
      /\ h[p].at = "fetched"
  BY EndsIs DEF on_refund_create, Deciding
<1>n. RefundsFollow /\ books.inv \in Docs /\ \A q \in Refunds : books.credit[q] \in Nat
  BY BeforeTheEnd DEF Follow
<1>1. \/ books' = books /\ unsettled' = unsettled /\ books.credit[r] > 0
      \/ books' = books /\ unsettled' = unsettled /\ books.so = "cancelled"
      \/ Credits(p, r)
  <2>1. NothingToCredit(books) => books.so = "cancelled"
    BY <1>n DEF NothingToCredit, order_already_cancelled, RefundsFollow
  <2> QED BY <1>0, <2>1, BeforeTheEnd, on_refund_createIs DEF Commits
<1>2. ASSUME Credits(p, r)
      PROVE  /\ books'.so = books.so \/ (books.so = "open" /\ books'.so = "closed")
             /\ books'.inv = books.inv /\ books'.credit[r] = 1 /\ books.credit[r] = 0
             /\ \A q \in Refunds : q # r => books'.credit[q] = books.credit[q]
             /\ books.inv = "live" /\ books.so \notin {"none", "cancelled"}
  <2>1. books.inv = "live"
    BY <1>0, <1>2 DEF Credits
  <2>2. books.so \notin {"none", "cancelled"}
    BY <1>n, <2>1 DEF RefundsFollow
  <2>3. /\ books'.so = books.so \/ (books.so = "open" /\ books'.so = "closed")
        /\ books'.inv = books.inv /\ books'.credit = [books.credit EXCEPT ![r] = @ + 1]
        /\ books.credit[r] = 0
    BY <1>2, CreditsIs
  <2>4. books.credit \in [Refunds -> Nat]
    BY BeforeTheEnd, BooksParts
  <2> QED BY <2>1, <2>2, <2>3, <2>4
<1>3. RefundsFollow'
  <2>1. books.credit[r] > 0 => books.credit[r] = 1
    BY <1>n DEF CreditInv
  <2>2. CASE books' = books /\ (books.credit[r] > 0 \/ books.so = "cancelled")
    BY <1>0, <1>n, <2>1, <2>2 DEF RefundsFollow
  <2>3. CASE Credits(p, r)
    BY <1>0, <1>2, <1>n, <2>3 DEF RefundsFollow
  <2> QED BY <1>1, <2>2, <2>3
<1>4. ~Undisturbed
  BY <1>0, UndisturbedEvent
<1>5. ASSUME Refunded(shop) = Qty PROVE Released'
  <2>1. ASSUME NEW q \in Refunds, q \in due, books.credit[q] = 0, q # r PROVE Released'
    <3>1. q \in due' /\ books'.credit[q] = 0
      BY <1>0, <1>1, <1>2, <2>1
    <3> QED BY <3>1, EndsReleased
  <2>2. ASSUME SeesAll(h[p]), Credits(p, r) PROVE Released'
    <3>1. Refunded(h[p].seen) = Qty /\ h[p].seen \in ShopType /\ Counts(h[p].seen)
      BY <1>0, <2>2 DEF SeesAll, TypeInv, TypeOK, ShopInv
    <3>2. Reserved(books') = 0 \/ unsettled'
      BY <1>0, <2>2, <3>1, OwesNothing, CreditReleases
    <3>3. books'.so # "none"
      BY <1>2, <2>2
    <3> QED BY <3>2, <3>3, EndsReleased
  <2>3. CASE books.so = "cancelled" /\ books' = books
    <3>1. books'.so # "none" /\ Reserved(books') = 0
      BY <2>3 DEF Reserved
    <3> QED BY <3>1, EndsReleased
  <2>4. CASE r \in due /\ books.credit[r] = 0 /\ SeesAll(h[p])
    BY <1>1, <2>2, <2>3, <2>4
  <2>5. CASE /\ books.so # "none" /\ SeesAll(h[p]) /\ books' = books /\ unsettled' = unsettled
             /\ Reserved(books) = 0 \/ "cancelled" \in due \/ unsettled
    <3>1. "cancelled" \in due => "cancelled" \in due'
      BY <1>0, EventsDiffer
    <3> QED BY <2>5, <3>1, EndsReleased
  <2>6. h[p].event # "cancelled"
    BY <1>0, EventsDiffer
  <2> QED BY <1>0, <1>1, <1>5, <2>1, <2>2, <2>4, <2>5, <2>6, ReleasedBefore DEF Follow
<1> QED BY <1>0, <1>3, <1>4, <1>5, FollowFrom

\* Reopening the order to tear it down.
LEMMA OpeningFollows ==
  ASSUME TypeInv, ShopInv, OneByOne, Follow, NEW p \in Handlers, Handling(p), TypeInv', OpensAgain(p)
  PROVE  Follow'
<1>0. /\ shop' = shop /\ due' = due /\ h[p].at = "fetched" /\ h[p].event = "cancelled"
      /\ h'[p].at = "reopened" /\ h'[p].event = "cancelled" /\ h[p].snap.so = "closed"
      /\ \A q \in Handlers : q # p => h'[q] = h[q]
  BY OneHandler DEF OpensAgain
<1>1. h[p].snap = books /\ \A q \in Handlers : q # p => h[q].at = "idle" /\ h[q].event = NoEvent
  BY <1>0, AloneFacts
<1>2. books'.so = "open" /\ books'.inv = books.inv /\ books'.credit = books.credit /\ books.so = "closed"
  BY <1>0, <1>1 DEF OpensAgain, Opened, Books
<1>3. RefundsFollow'
  BY <1>0, <1>2 DEF Follow, RefundsFollow
<1>4. ~Undisturbed
  BY <1>0, UndisturbedEvent
<1>5. Released'
  <2>1. \A q \in Handlers : SeesAll(h'[q])
    BY <1>0, <1>1 DEF SeesAll
  <2>2. \A q \in Handlers : SeesAll(h[q])'
    BY <2>1
  <2> QED BY <1>0, <1>2, <2>2 DEF Released
<1> QED BY <1>0, <1>3, <1>4, <1>5, FollowFrom

\* A handler's step, while there is only one.
LEMMA HandlingFollows ==
  ASSUME TypeInv, ShopInv, OneByOne, CreditInv, Follow, NEW p \in Handlers, Handling(p), TypeInv'
  PROVE  Follow'
<1>1. CASE Begins(p) \/ Fetches(p) \/ Fails(p)
  BY <1>1, ReadingFollows
<1>2. CASE OpensAgain(p)
  BY <1>2, OpeningFollows
<1>3. CASE Ends(p) /\ ~Fails(p)
  <2>1. CASE (\E e \in Events : Begin(p, e)) \/ fetch_order(p) \/ HandlerFails(p)
    <3>1. HandlerFails(p) => Fails(p)
      BY DEF HandlerFails, Fails, TypeInv, TypeOK
    <3>2. fetch_order(p) => h[p].at = "begun"
      BY DEF fetch_order
    <3>3. \A e : Begin(p, e) => h[p].at = "idle"
      BY DEF Begin
    <3> QED BY <1>3, <2>1, <3>1, <3>2, <3>3 DEF Ends
  <2>2. CASE on_order_create(p)
    BY <1>3, <2>2, CreatingFollows
  <2>3. CASE on_order_paid(p)
    BY <1>3, <2>3, PayingFollows
  <2>4. CASE \E f \in Fulfilments : on_order_fulfilled(p, f)
    BY <1>3, <2>4, DeliveringFollows
  <2>5. CASE on_order_cancelled(p)
    BY <1>3, <2>5, CancellingFollows
  <2>6. CASE \E r \in Refunds : on_refund_create(p, r)
    BY <1>3, <2>6, RefundingFollows
  <2> QED BY <2>1, <2>2, <2>3, <2>4, <2>5, <2>6 DEF Handling
<1> QED BY <1>1, <1>2, <1>3, KindsOfStep

\* What Shopify does raises an event.
LEMMA SellingRaises ==
  ASSUME TypeInv, Counts(shop), Selling
  PROVE  /\ shop'.paid => shop.paid \/ "paid" \in due'
         /\ \A f \in Fulfilments : shop'.ful[f] = "shipped" => shop.ful[f] = "shipped" \/ f \in due'
         /\ \A r \in Refunds : shop'.refund[r] = shop.refund[r] \/ r \in due'
<1>0. shop \in ShopType
  BY DEF TypeInv, TypeOK
<1>1. CASE Pay
  BY <1>0, <1>1 DEF Pay, Raises, ShopType
<1>2. CASE Cancel
  BY <1>0, <1>2 DEF Cancel, Raises, ShopType
<1>3. ASSUME NEW f \in Fulfilments, Ship(f) \/ CancelFulfilment(f)
      PROVE  /\ shop'.paid => shop.paid \/ "paid" \in due'
             /\ \A g \in Fulfilments : shop'.ful[g] = "shipped" => shop.ful[g] = "shipped" \/ g \in due'
             /\ \A r \in Refunds : shop'.refund[r] = shop.refund[r] \/ r \in due'
  <2>1. /\ shop'.refund = shop.refund /\ shop'.paid = shop.paid
        /\ \A g \in Fulfilments : g # f => shop'.ful[g] = shop.ful[g]
        /\ \/ shop.ful[f] = "none" /\ shop'.ful[f] = "shipped" /\ due' = due \cup {f}
           \/ shop.ful[f] = "shipped" /\ shop'.ful[f] = "cancelled" /\ due' = due
    BY <1>3, ShippingKeepsCounts
  <2> QED BY <2>1
<1>4. ASSUME NEW r \in Refunds, NEW n \in 1..Qty, NEW kind \in Kinds, Refund(r, n, kind)
      PROVE  /\ shop'.paid => shop.paid \/ "paid" \in due'
             /\ \A g \in Fulfilments : shop'.ful[g] = "shipped" => shop.ful[g] = "shipped" \/ g \in due'
             /\ \A q \in Refunds : shop'.refund[q] = shop.refund[q] \/ q \in due'
  <2>1. /\ shop'.ful = shop.ful /\ shop'.paid = shop.paid
        /\ \A q \in Refunds : q # r => shop'.refund[q] = shop.refund[q]
        /\ due' = due \cup {r}
    BY <1>4, RefundIs
  <2> QED BY <2>1
<1> QED BY <1>1, <1>2, <1>3, <1>4 DEF Selling

\* The refund that makes the order refunded in full has its event to come, and
\* no handler has begun on it.
LEMMA LastRefund ==
  ASSUME TypeInv, ShopInv, Selling, Refunded(shop) # Qty, Refunded(shop') = Qty
  PROVE  \E r \in Refunds : /\ r \in due' /\ books.credit[r] = 0
                            /\ \A q \in Handlers : h[q].event # r
<1>1. ASSUME shop'.refund = shop.refund PROVE FALSE
  BY <1>1, RefundedSame
<1>2. ASSUME NEW r \in Refunds, NEW n \in 1..Qty, NEW kind \in Kinds, Refund(r, n, kind)
      PROVE  r \in due' /\ books.credit[r] = 0 /\ \A q \in Handlers : h[q].event # r
  <2>1. shop.refund[r].units = 0 /\ due' = due \cup {r}
    BY <1>2, RefundIs
  <2>2. books.credit[r] = 0
    <3>1. books.credit[r] \in Nat
      BY BeforeTheEnd
    <3>2. books.credit[r] > 0 => shop.refund[r].units > 0
      BY DEF ShopInv
    <3> QED BY <2>1, <3>1, <3>2
  <2>3. ASSUME NEW q \in Handlers, h[q].event = r PROVE FALSE
    <3>1. h[q].at # "idle"
      BY <2>3, EventsDiffer DEF TypeInv, Runs
    <3>2. Raised(r)
      BY <2>3, <3>1, BusyIs DEF ShopInv
    <3> QED BY <2>1, <3>2, EventsDiffer DEF Raised
  <2> QED BY <2>1, <2>2, <2>3
<1>3. Pay \/ Cancel \/ (\E f \in Fulfilments : Ship(f) \/ CancelFulfilment(f)) => shop'.refund = shop.refund
  BY DEF Pay, Cancel, Ship, CancelFulfilment, TypeInv, TypeOK, ShopType
<1> QED BY <1>1, <1>2, <1>3 DEF Selling

\* What happens at Shopify leaves the books behind until its event is handled.
LEMMA SellingFollows ==
  ASSUME TypeInv, ShopInv, OneByOne, Follow, Selling
  PROVE  OneByOne' /\ Follow'
<1>1. /\ UNCHANGED <<store, books, h, repeats, overlapped, unsettled>>
      /\ shop \in ShopType /\ shop' \in ShopType
      /\ shop.paid => shop'.paid
      /\ shop.cancelled => shop'.cancelled
      /\ \A r \in Refunds : shop.refund[r].units # 0 => shop'.refund[r] = shop.refund[r]
      /\ \A f \in Fulfilments : /\ shop.ful[f] # "none" => shop'.ful[f] # "none"
                                /\ shop.ful[f] = "cancelled" => shop'.ful[f] = "cancelled"
      /\ due \subseteq due'
  BY SellingIs DEF ShopInv
<1>2. /\ shop'.paid => shop.paid \/ "paid" \in due'
      /\ \A f \in Fulfilments : shop'.ful[f] = "shipped" => shop.ful[f] = "shipped" \/ f \in due'
      /\ \A r \in Refunds : shop'.refund[r] = shop.refund[r] \/ r \in due'
  BY SellingRaises DEF ShopInv
<1>3. OneByOne'
  BY <1>1 DEF OneByOne, Busy
<1>4. RefundsFollow'
  BY <1>1, <1>2 DEF Follow, RefundsFollow
<1>5. Undisturbed' => Follows'
  <2> SUFFICES ASSUME Undisturbed' PROVE Follows'
    OBVIOUS
  <2>1. Undisturbed
    <3>1. \A r \in Refunds : shop.refund[r].units = 0
      <4> SUFFICES ASSUME NEW r \in Refunds, shop.refund[r].units # 0 PROVE FALSE
        OBVIOUS
      <4>1. shop'.refund[r] = shop.refund[r]
        BY <1>1
      <4> QED BY <4>1 DEF Undisturbed
    <3>2. ~shop.cancelled /\ \A f \in Fulfilments : shop.ful[f] # "cancelled"
      BY <1>1 DEF Undisturbed
    <3> QED BY <3>1, <3>2 DEF Undisturbed
  <2>2. Follows
    BY <2>1 DEF Follow
  <2>3. \A f \in Fulfilments : f \in Shipped(shop) => f \in Shipped(shop')
    BY <1>1 DEF Undisturbed, Shipped, ShopType
  <2>4. \A f \in Fulfilments : f \in Shipped(shop') => f \in Shipped(shop) \/ f \in due'
    BY <1>2 DEF Shipped
  <2>5. Shipped(shop') \subseteq Fulfilments
    BY DEF Shipped
  <2> QED BY <1>1, <1>2, <2>2, <2>3, <2>4, <2>5 DEF Follows
<1>6. ASSUME Refunded(shop') = Qty PROVE Released'
  <2>1. CASE Refunded(shop) # Qty
    <3>1. PICK r \in Refunds : /\ r \in due' /\ books.credit[r] = 0
                               /\ \A q \in Handlers : h[q].event # r
      BY <1>6, <2>1, LastRefund
    <3>2. \A q \in Handlers : h'[q].event # r
      BY <1>1, <3>1
    <3>3. r \in due' /\ books'.credit[r] = 0
      BY <1>1, <3>1
    <3> QED BY <3>2, <3>3 DEF Released
  <2>2. CASE Refunded(shop) = Qty
    <3>1. Released
      BY <2>2 DEF Follow
    <3>2. \A q \in Handlers : SeesAll(h[q])' <=> SeesAll(h[q])
      BY <1>1 DEF SeesAll
    <3>3. CASE \E r \in Refunds : /\ r \in due /\ books.credit[r] = 0
                                  /\ \A q \in Handlers : h[q].event = r => SeesAll(h[q])
      BY <1>1, <3>2, <3>3 DEF Released
    <3>4. CASE /\ books.so # "none"
               /\ \A q \in Handlers : h[q].event \in Refunds => SeesAll(h[q])
               /\ \/ Reserved(books) = 0
                  \/ "cancelled" \in due
                  \/ \E q \in Handlers : h[q].at = "reopened"
                  \/ unsettled
      BY <1>1, <3>2, <3>4 DEF Released
    <3> QED BY <3>1, <3>3, <3>4 DEF Released
  <2> QED BY <2>1, <2>2
<1>7. Refunded(shop)' = Refunded(shop')
  OBVIOUS
<1> QED BY <1>3, <1>4, <1>5, <1>6, <1>7 DEF Follow

-----------------------------------------------------------------------------

\* AloneInv in the words of the lemmas above.
LEMMA AloneIs == AloneInv <=> (~overlapped => OneByOne /\ Follow)
BY DEF AloneInv, Follow

\* Nothing has happened yet.
LEMMA InitAloneInv == Init => AloneInv
<1> SUFFICES ASSUME Init PROVE OneByOne /\ Follow
  BY AloneIs
<1>1. Busy = {}
  BY DEF Init, Busy, Idle
<1>2. RefundsFollow
  BY DEF Init, RefundsFollow, NoBooks, NewOrder, NoRefund
<1>3. Follows
  BY DEF Init, Follows, NoBooks, NewOrder, Shipped
<1>4. Refunded(shop) # Qty
  <2>1. NewOrder \in ShopType
    BY QtyAssumption DEF NewOrder, ShopType, NoRefund
  <2>2. \A k \in BOOLEAN : RefundedUnits(NewOrder, k) = 0
    BY NewOrderUnits
  <2>3. RefundedUnits(NewOrder, TRUE) = 0
    BY <2>2, Zenon
  <2>4. RefundedUnits(NewOrder, FALSE) = 0
    BY <2>2, Zenon
  <2>5. RefundedShipped(NewOrder) = 0 /\ RefundedUnshipped(NewOrder) = 0
    BY <2>3, <2>4 DEF RefundedShipped, RefundedUnshipped
  <2>6. Refunded(NewOrder) = RefundedShipped(NewOrder) + RefundedUnshipped(NewOrder)
    BY <2>1, CountsAre
  <2>7. Refunded(NewOrder) # Qty
    BY <2>5, <2>6, QtyAssumption
  <2> QED BY <2>7 DEF Init
<1> QED BY <1>1, <1>2, <1>3, <1>4 DEF OneByOne, Follow

\* The order of which no two handlers have run at once.
LEMMA NextAloneInv ==
  ASSUME OInv, TypeInv, ShopInv, AloneInv, [Next]_vars
  PROVE  AloneInv'
<1>0. TypeInv' /\ CreditInv
  BY NextTypeInv DEF OInv
<1> SUFFICES ASSUME ~overlapped' PROVE OneByOne' /\ Follow'
  BY AloneIs, PTL
<1>1. CASE Selling
  <2>1. ~overlapped
    BY <1>1, SellingIs DEF ShopInv
  <2> QED BY <1>1, <2>1, AloneIs, SellingFollows
<1>2. ASSUME NEW p \in Handlers, Handling(p) PROVE OneByOne' /\ Follow'
  <2>1. OneByOne' /\ ~overlapped
    BY <1>2, AloneIs, StaysOneByOne
  <2> QED BY <1>0, <1>2, <2>1, AloneIs, HandlingFollows
<1>3. CASE UNCHANGED vars
  <2>1. ~overlapped /\ OneByOne /\ Follow
    BY <1>3, AloneIs DEF vars
  <2>2. OneByOne'
    BY <1>3, <2>1 DEF vars, OneByOne, Busy
  <2>3. shop' = shop /\ RefundsFollow'
    BY <1>3, <2>1 DEF vars, Follow, RefundsFollow
  <2>4. Undisturbed => Follows'
    BY <1>3, <2>1 DEF vars, Follow, Follows, Shipped
  <2>5. Refunded(shop) = Qty => Released'
    <3>1. \A q \in Handlers : SeesAll(h[q])' <=> SeesAll(h[q])
      BY <1>3 DEF vars, SeesAll
    <3>2. Reserved(books)' = Reserved(books)
      BY <1>3 DEF vars
    <3> QED BY <1>3, <2>1, <3>1, <3>2 DEF vars, Follow, Released
  <2> QED BY <2>2, <2>3, <2>4, <2>5, FollowFrom
<1> QED BY <1>1, <1>2, <1>3 DEF Next

\* The units refunded are those of all the refunds together.
LEMMA RefundedIs ==
  ASSUME NEW s \in ShopType
  PROVE  Refunded(s) = SumOf(UnitsOf(s), Refunds)
<1> DEFINE A == OfKind(s, TRUE)
           u == UnitsOf(s)
<1>1. OfKind(s, FALSE) = Refunds \ A /\ A \in SUBSET Refunds
  BY DEF OfKind, ShopType
<1>2. IsFiniteSet(Refunds) /\ \A r \in Refunds : u[r] \in Int
  BY UnitsType, NamesAssumption
<1>3. RefundedUnits(s, TRUE) = SumOf(u, A)
  BY RefundedUnitsIs, Zenon
<1>4. RefundedUnits(s, FALSE) = SumOf(u, OfKind(s, FALSE))
  BY RefundedUnitsIs, Zenon
<1>5. RefundedUnits(s, FALSE) = SumOf(u, Refunds \ A)
  BY <1>1, <1>4
<1> HIDE DEF A, u
<1>6. SumOf(u, Refunds) = SumOf(u, A) + SumOf(u, Refunds \ A)
  BY <1>1, <1>2, SumSplit
<1> QED BY <1>3, <1>5, <1>6 DEF Refunded, u

\* Nothing refunded, no refund.
LEMMA NothingRefunded ==
  ASSUME NEW s \in ShopType, Refunded(s) = 0
  PROVE  \A r \in Refunds : s.refund[r].units = 0
<1>1. IsFiniteSet(Refunds) /\ \A r \in Refunds : UnitsOf(s)[r] \in Nat
  BY UnitsType, NamesAssumption
<1>2. \A r \in Refunds : UnitsOf(s)[r] <= SumOf(UnitsOf(s), Refunds)
  BY <1>1, SumNat
<1>3. SumOf(UnitsOf(s), Refunds) = 0
  BY RefundedIs
<1>4. \A r \in Refunds : UnitsOf(s)[r] <= 0 /\ UnitsOf(s)[r] = s.refund[r].units
  BY <1>2, <1>3, UnitsType
<1> QED BY <1>1, <1>4

\* The inductive invariant of an order and its books.
THEOREM OrderInvariant == Spec => []OrderInd
<1>1. Init => OrderInd
  BY InitOInv, InitTypeInv, InitShopInv, InitAloneInv DEF OrderInd
<1>2. OrderInd /\ [Next]_vars => OrderInd'
  BY NextOInv, NextTypeInv, NextShopInv, NextAloneInv DEF OrderInd
<1> QED BY <1>1, <1>2, PTL DEF Spec

\* The order and its documents keep their shapes for any number of handlers: a
\* return note never takes back more than was delivered, so no count goes below zero.
THEOREM OrderIsTyped == Spec => []TypeOK
<1>1. OrderInd => TypeOK
  BY DEF OrderInd, TypeInv
<1> QED BY <1>1, OrderInvariant, PTL

\* order.py: handled one at a time, in any order, failed, retried and repeated, the
\* events of an order with nothing cancelled or refunded leave it in the books as at
\* Shopify: each note finds units left to deliver, because Shopify ships no more than
\* was ordered and a note follows only a fulfilment.
THEOREM BooksStayTrue == Spec => []BooksFollowShopify
<1>1. OrderInd => BooksFollowShopify
  <2> SUFFICES ASSUME OrderInd, Quiet, ~overlapped, ~shop.cancelled, Refunded(shop) = 0,
                      \A f \in Fulfilments : shop.ful[f] # "cancelled"
               PROVE  /\ books.so = "open"
                      /\ books.inv = (IF shop.paid THEN "live" ELSE "none") /\ books.pay = books.inv
                      /\ \A f \in Fulfilments : books.notes[f] = (IF f \in Shipped(shop) THEN 1 ELSE 0)
    BY DEF BooksFollowShopify
  <2>1. \A r \in Refunds : shop.refund[r].units = 0
    BY NothingRefunded DEF OrderInd, TypeInv, TypeOK
  <2>2. Follows
    BY <2>1 DEF OrderInd, AloneInv, Undisturbed
  <2> QED BY <2>2 DEF Quiet, Follows, Shipped
<1> QED BY <1>1, OrderInvariant, PTL

\* refund.py: a refund whose event is done is credited, or came to a cancelled
\* order, which stays one: no later event gives it an invoice.
THEOREM RefundsStay == Spec => []RefundsAreNotLost
<1>1. OrderInd => RefundsAreNotLost
  BY DEF OrderInd, AloneInv, RefundsFollow, RefundsAreNotLost
<1> QED BY <1>1, OrderInvariant, PTL

\* refund.py:188-289: crediting the refund that leaves Shopify owing nothing leaves
\* nothing reserved, the order is closed or is delivered in full, or ERPNext refused
\* the closing and the refund is booked without it.
THEOREM RefundReleases == Spec => RefundReleasesStock
<1>1. TypeInv /\ [Next]_vars =>
        [\A r \in Refunds, p \in Handlers :
         (/\ books'.credit[r] > books.credit[r] /\ h[p].event = r /\ h'[p].at = "idle"
          /\ h[p].snap = books /\ h[p].seen = shop
          /\ Least(CurrentQuantity(shop), UnfulfilledQuantity(shop)) = 0)
            => Reserved(books') = 0 \/ unsettled']_vars
  BY CreditingStep
<1>2. OrderInd => TypeInv
  BY DEF OrderInd
<1> QED BY <1>1, <1>2, OrderInvariant, PTL DEF Spec, RefundReleasesStock

\* tests/test_cancel_after_refund.py:9: cancelled and refunded in full, in either
\* order, the books are even: of the refunds the last to be raised sees all of
\* them, whenever it is handled, and releases what is left; where ERPNext refuses
\* that, the cancellation still does if it comes later, and nothing if it came before.
THEOREM EvenInTheEnd == Spec => []CancelledAndRefundedIsEven
<1>1. OrderInd => CancelledAndRefundedIsEven
  <2> SUFFICES ASSUME OrderInd, Quiet, ~overlapped, Refunded(shop) = Qty
               PROVE  /\ books.inv = "live" => /\ Credited(books) = Qty
                                               /\ PostageCredited(books) = PostageRefunded(shop)
                      /\ Reserved(books) = 0 \/ unsettled
    BY DEF CancelledAndRefundedIsEven
  <2>0. /\ shop \in ShopType /\ RefundsFollow /\ Released /\ due = {} /\ Busy = {}
        /\ \A r \in Refunds : books.credit[r] \in Nat /\ books.credit[r] <= 1
    <3>1. TypeInv /\ AloneInv /\ CreditInv
      BY DEF OrderInd, OInv
    <3>2. RefundsFollow /\ Released /\ due = {} /\ Busy = {}
      BY <3>1 DEF AloneInv, Quiet
    <3> QED BY <3>1, <3>2, BeforeTheEnd DEF CreditInv
  <2>1. Reserved(books) = 0 \/ unsettled
    <3>1. \A p \in Handlers : h[p].at # "reopened"
      BY <2>0, BusyIs
    <3> QED BY <2>0, <3>1 DEF Released
  <2>2. ASSUME books.inv = "live"
        PROVE  Credited(books) = Qty /\ PostageCredited(books) = PostageRefunded(shop)
    <3>1. books.so # "cancelled"
      BY <2>0, <2>2 DEF RefundsFollow
    <3>2. \A r \in Refunds : /\ shop.refund[r].units > 0 => books.credit[r] = 1
                             /\ shop.refund[r].units = 0 => /\ books.credit[r] = 0
                                                            /\ ~shop.refund[r].postage
      <4>1. \A r \in Refunds : shop.refund[r].units > 0 => books.credit[r] = 1
        BY <2>0, <3>1 DEF RefundsFollow
      <4>2. \A r \in Refunds : shop.refund[r].units = 0 => books.credit[r] = 0
        BY <2>0 DEF OrderInd, ShopInv
      <4>3. \A r \in Refunds : shop.refund[r].units = 0 => ~shop.refund[r].postage
        BY DEF OrderInd, ShopInv, Counts, NoRefund
      <4> QED BY <4>1, <4>2, <4>3
    <3>3. \A r \in Refunds : shop.refund[r].units \in Nat
      BY <2>0, QtyAssumption DEF ShopType
    <3> DEFINE w == [r \in Refunds |-> books.credit[r] * shop.refund[r].units]
    <3>4. \A r \in Refunds : w[r] \in Int /\ w[r] = UnitsOf(shop)[r]
      <4> SUFFICES ASSUME NEW r \in Refunds PROVE w[r] \in Int /\ w[r] = UnitsOf(shop)[r]
        OBVIOUS
      <4>1. CASE shop.refund[r].units = 0
        BY <3>2, <4>1 DEF UnitsOf
      <4>2. CASE shop.refund[r].units > 0
        BY <3>2, <3>3, <4>2 DEF UnitsOf
      <4> QED BY <3>3, <4>1, <4>2
    <3>5. Credited(books) = SumOf(w, Refunds)
      BY TotalIs DEF Credited
    <3> HIDE DEF w
    <3>6. SumOf(w, Refunds) = SumOf(UnitsOf(shop), Refunds)
      BY <3>4, NamesAssumption, SumEqual
    <3>7. Credited(books) = Qty
      BY <2>0, <3>5, <3>6, RefundedIs
    <3>8. PostageCredited(books) <=> PostageRefunded(shop)
      BY <3>2, <3>3 DEF PostageCredited, PostageRefunded
    <3>9. PostageCredited(books) \in BOOLEAN /\ PostageRefunded(shop) \in BOOLEAN
      BY DEF PostageCredited, PostageRefunded
    <3> QED BY <3>7, <3>8, <3>9
  <2> QED BY <2>1, <2>2
<1> QED BY <1>1, OrderInvariant, PTL
=============================================================================
