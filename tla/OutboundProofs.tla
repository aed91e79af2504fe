---------------------------- MODULE OutboundProofs ---------------------------
(***************************************************************************)
(* What the pushes to Shopify keep for every instance: shipments, media,   *)
(* stock levels and prices, and the throttle their calls share.  Each part *)
(* has an inductive invariant of its own, the lemma that its steps keep    *)
(* it, and what follows from it.                                           *)
(***************************************************************************)
EXTENDS Fulfilment, Media, Stock, Pricing, Throttle, SetFacts

------------------------------------------------------------------------------
(* Delivery notes and shipments.                                              *)

States == {"draft", "submitted", "cancelled"}
Gid == Nat \ {0}
Created == [gid : Gid, note : Notes, units : Nat, tracked : BOOLEAN]

\* What one fulfilment of a note may take of the fulfilment orders.
Takes(n) == {t \in [FulfillmentOrders -> 0..Units[n]] : Total(t) <= Units[n]}

Loads == {<<>>} \cup UNION {Takes(n) : n \in Notes}

\* A group at work: its rows, what of them is still to do, and the snapshot.
Parcels == [pc : {"next", "create"}, rows : SUBSET Notes, todo : SUBSET Notes,
            note : Notes \cup {NoFulfillment}, stamps : [Notes -> Gid \cup {NoFulfillment}],
            status : [Notes -> States], shipped : SUBSET Notes, tracked : {FALSE},
            take : Loads]

Work == parcel.pc # "idle"
Stamps == IF Work THEN parcel.stamps ELSE stamped
Tracked(n) == \A x \in fulfillments : x.note = n => x.tracked
Live(gid) == \E x \in fulfillments : x.gid = gid

FulfilmentTypes ==
    /\ docstatus \in [Notes -> States]
    /\ shipment \in SUBSET Notes /\ noteRows \in SUBSET Notes
    /\ stamped \in [Notes -> Gid \cup {NoFulfillment}]
    /\ owed \in [FulfillmentOrders -> Nat] /\ \A f \in FulfillmentOrders : owed[f] <= Owes[f]
    /\ given_up \in SUBSET Notes /\ unstamped \in SUBSET Notes
    /\ edits \in 0..MaxEdits /\ broken \in 0..MaxBroken
    /\ fulfillments \in SUBSET Created /\ IsFiniteSet(fulfillments)
    /\ parcel = NoParcel \/ parcel \in Parcels

\* What is created has a gid of its own, and every stamp names something created.
GidsInv ==
    /\ \A x \in fulfillments : x.gid <= Cardinality(fulfillments)
    /\ \A x, y \in fulfillments : x.gid = y.gid => x = y
    /\ \A n \in Notes : stamped[n] = NoFulfillment \/ Live(stamped[n])
    /\ Work => \A n \in Notes : parcel.stamps[n] = NoFulfillment \/ Live(parcel.stamps[n])

\* A group works on rows of its own, on notes it found submitted and unstamped
\* when it fulfils them.
ParcelInv == Work =>
    /\ parcel.todo \subseteq parcel.rows
    /\ \A n \in parcel.shipped : parcel.status[n] = "submitted"
    /\ parcel.pc = "create" => /\ parcel.note \in parcel.todo
                               /\ parcel.stamps[parcel.note] = NoFulfillment
                               /\ parcel.take \in Takes(parcel.note)

\* Whatever was made for a note bears the stamp of the note, for the group at
\* work if there is one, else for good -- unless its id was lost.
StampInv ==
    /\ \A x \in fulfillments : x.units <= Units[x.note]
    /\ \A x \in fulfillments : x.note \notin unstamped => Stamps[x.note] = x.gid

\* Tracking that is not there yet has a row, in the queue or in the group at
\* work: a Shipment the group does not know of has queued its note again.  Or its
\* row is Failed, or the fulfilment is one whose id was lost.
TrackInv ==
    /\ \A n \in shipment : docstatus[n] = "submitted"
    /\ \A n \in shipment \ (noteRows \cup parcel.rows \cup given_up \cup unstamped) : Tracked(n)
    /\ Work => /\ \A n \in (shipment \cap parcel.rows) \ noteRows : n \in parcel.shipped
               /\ \A n \in (parcel.shipped \cap (parcel.rows \ parcel.todo)) \ unstamped : Tracked(n)

FulfilmentInd == FulfilmentTypes /\ GidsInv /\ ParcelInv /\ StampInv /\ TrackInv

\* What a take takes, as a sum.
LEMMA TotalIs == \A t : Total(t) = SumOf(t, DOMAIN t)
BY DEF Total, SumOf

\* What a fulfilment may take is within the note's units.
LEMMA MayTake == FulfilmentTypes => \A n \in Notes : may_take(n) \subseteq Takes(n)
<1> SUFFICES ASSUME FulfilmentTypes, NEW n \in Notes, NEW t \in may_take(n) PROVE t \in Takes(n)
  OBVIOUS
<1>1. t \in [FulfillmentOrders -> 0..Units[n]] /\ Total(t) = Min({Units[n], Total(owed)})
  BY DEF may_take
<1>2. Total(owed) \in Nat
  <2>1. DOMAIN owed = FulfillmentOrders /\ \A f \in FulfillmentOrders : owed[f] \in Nat
    BY DEF FulfilmentTypes
  <2> QED BY <2>1, FulfilmentAssumption, TotalIs, SumNat
<1>3. Units[n] \in Int
  BY FulfilmentAssumption
<1>4. Min({Units[n], Total(owed)}) <= Units[n]
  <2>1. \A a, b \in Int : Min({a, b}) <= a
    BY MinOfTwo
  <2> QED BY <1>2, <1>3, <2>1
<1> QED BY <1>1, <1>4 DEF Takes

\* A take is of so many units.
LEMMA TakeIs == \A n \in Notes : \A t \in Takes(n) : t \in [FulfillmentOrders -> Nat] /\ Total(t) \in Nat
<1> SUFFICES ASSUME NEW n \in Notes, NEW t \in Takes(n)
             PROVE  t \in [FulfillmentOrders -> Nat] /\ Total(t) \in Nat
  OBVIOUS
<1>1. t \in [FulfillmentOrders -> Nat]
  BY FulfilmentAssumption DEF Takes
<1>2. DOMAIN t = FulfillmentOrders /\ \A f \in FulfillmentOrders : t[f] \in Nat
  BY <1>1
<1> QED BY <1>1, <1>2, FulfilmentAssumption, TotalIs, SumNat

\* A group at work has its record; otherwise its fields are empty.
LEMMA WorkIs == FulfilmentTypes => /\ Work => parcel \in Parcels
                                   /\ Work <=> parcel # NoParcel
<1>1. NoParcel.pc = "idle"
  BY DEF NoParcel
<1>2. \A p \in Parcels : p.pc # "idle"
  BY DEF Parcels
<1> QED BY <1>1, <1>2 DEF FulfilmentTypes, Work

\* The invariant holds at the start.
LEMMA FulfilmentStarts == FulfilmentInit => FulfilmentInd
<1> SUFFICES ASSUME FulfilmentInit PROVE FulfilmentInd
  OBVIOUS
<1> USE FulfilmentAssumption
<1>1. ~Work /\ fulfillments = {} /\ IsFiniteSet(fulfillments) /\ shipment = {}
  BY FS_EmptySet DEF FulfilmentInit, Work, NoParcel
<1>2. FulfilmentTypes
  <2>1. owed \in [FulfillmentOrders -> Nat] /\ \A f \in FulfillmentOrders : owed[f] <= Owes[f]
    BY DEF FulfilmentInit
  <2>2. 0 \in 0..MaxEdits /\ 0 \in 0..MaxBroken
    OBVIOUS
  <2> QED BY <1>1, <2>1, <2>2 DEF FulfilmentInit, FulfilmentTypes, States
<1>3. GidsInv /\ ParcelInv /\ StampInv /\ TrackInv
  BY <1>1 DEF FulfilmentInit, GidsInv, ParcelInv, StampInv, TrackInv, Live, Tracked
<1> QED BY <1>2, <1>3 DEF FulfilmentInd

\* What the invariant says of the types and of what ships.
LEMMA FulfilmentIs == FulfilmentInd => FulfilmentTypeOK /\ ANoteShipsOnce /\ TrackingArrives
<1> SUFFICES ASSUME FulfilmentInd PROVE FulfilmentTypeOK /\ ANoteShipsOnce /\ TrackingArrives
  OBVIOUS
<1>1. FulfilmentTypes /\ GidsInv /\ StampInv /\ TrackInv
  BY DEF FulfilmentInd
<1>2. FulfilmentTypeOK
  <2>1. parcel.pc \in {"idle", "next", "create"} /\ parcel.rows \subseteq Notes
    <3>1. NoParcel.pc = "idle" /\ NoParcel.rows = {}
      BY DEF NoParcel
    <3>2. \A p \in Parcels : p.pc \in {"next", "create"} /\ p.rows \subseteq Notes
      BY DEF Parcels
    <3> QED BY <1>1, <3>1, <3>2 DEF FulfilmentTypes
  <2>2. \A f \in FulfillmentOrders : owed[f] \in 0..Owes[f]
    BY <1>1, FulfilmentAssumption DEF FulfilmentTypes
  <2> QED BY <1>1, <2>1, <2>2 DEF FulfilmentTypeOK, FulfilmentTypes, GidsInv, Live, States
<1>3. ANoteShipsOnce
  <2> SUFFICES ASSUME NEW n \in Notes \ unstamped
               PROVE  LET mine == {x \in fulfillments : x.note = n}
                      IN  Cardinality(mine) <= 1 /\ \A x \in mine : x.units <= Units[n]
    BY DEF ANoteShipsOnce
  <2> DEFINE mine == {x \in fulfillments : x.note = n}
  <2>1. \A x, y \in mine : x = y
    BY <1>1 DEF StampInv, GidsInv
  <2>2. Cardinality(mine) <= 1
    BY <2>1, AtMostOne
  <2> QED BY <1>1, <2>2 DEF StampInv
<1>4. TrackingArrives
  BY <1>1 DEF TrackInv, TrackingArrives, Tracked
<1> QED BY <1>2, <1>3, <1>4

\* What moves neither the group at work nor anything on Shopify.
LEMMA GroupUntouched ==
  ASSUME FulfilmentInd, UNCHANGED <<stamped, parcel, fulfillments, unstamped>>
  PROVE  GidsInv' /\ ParcelInv' /\ StampInv'
BY DEF FulfilmentInd, GidsInv, ParcelInv, StampInv, Work, Stamps, Live

\* A note of the group is through.
LEMMA NoteThrough ==
  ASSUME FulfilmentInd, NEW n \in Notes, Take(n), Skip(n),
         UNCHANGED <<docstatus, shipment, stamped, noteRows, unstamped>>
  PROVE  /\ Work /\ Work' /\ parcel \in Parcels /\ parcel' \in Parcels /\ ParcelInv' /\ Stamps' = Stamps
         /\ parcel'.rows = parcel.rows /\ parcel'.shipped = parcel.shipped
         /\ parcel'.todo = parcel.todo \ {n} /\ parcel'.stamps = parcel.stamps
<1>1. Work /\ parcel \in Parcels
  BY WorkIs DEF FulfilmentInd, Take, Work
<1>2. /\ parcel' \in Parcels /\ parcel'.rows = parcel.rows /\ parcel'.shipped = parcel.shipped
      /\ parcel'.todo = parcel.todo \ {n} /\ parcel'.stamps = parcel.stamps
      /\ parcel'.status = parcel.status /\ parcel'.pc = "next"
  BY <1>1 DEF Parcels, Skip, Take
<1>3. Work' /\ Stamps' = Stamps
  BY <1>1, <1>2 DEF Work, Stamps
<1>4. ParcelInv'
  BY <1>1, <1>2 DEF ParcelInv, FulfilmentInd, Work
<1> QED BY <1>1, <1>2, <1>3, <1>4

\* A group that ends leaves nothing behind it.
LEMMA GroupOver ==
  ASSUME FulfilmentInd, parcel' = NoParcel
  PROVE  ~Work' /\ Stamps' = stamped' /\ ParcelInv'
BY DEF Work, Stamps, ParcelInv, NoParcel

\* The next gid is nobody's.
LEMMA NewGid ==
  ASSUME FulfilmentInd, NEW x \in Created, x.gid = next_gid,
         fulfillments' = fulfillments \cup {x}
  PROVE  /\ fulfillments' \in SUBSET Created /\ IsFiniteSet(fulfillments')
         /\ \A y \in fulfillments' : y.gid <= Cardinality(fulfillments')
         /\ \A y, z \in fulfillments' : y.gid = z.gid => y = z
         /\ \A gid : Live(gid) => Live(gid)'
         /\ \E y \in fulfillments' : y.gid = x.gid
<1>1. fulfillments \in SUBSET Created /\ IsFiniteSet(fulfillments) /\ Cardinality(fulfillments) \in Nat
  BY FS_CardinalityType DEF FulfilmentInd, FulfilmentTypes
<1>2. \A y \in fulfillments : y.gid <= Cardinality(fulfillments) /\ y.gid \in Nat
  BY <1>1 DEF FulfilmentInd, GidsInv, Created, Gid
<1>3. x \notin fulfillments /\ \A y \in fulfillments : y.gid # x.gid
  BY <1>1, <1>2 DEF next_gid
<1>4. IsFiniteSet(fulfillments') /\ Cardinality(fulfillments') = Cardinality(fulfillments) + 1
  BY <1>1, <1>3, FS_AddElement
<1>5. \A y \in fulfillments' : y.gid <= Cardinality(fulfillments')
  BY <1>1, <1>2, <1>4 DEF next_gid
<1>6. \A y, z \in fulfillments' : y.gid = z.gid => y = z
  BY <1>3 DEF FulfilmentInd, GidsInv
<1>7. \A gid : Live(gid) => Live(gid)'
  BY DEF Live
<1>8. \E y \in fulfillments' : y.gid = x.gid
  OBVIOUS
<1> QED BY <1>1, <1>4, <1>5, <1>6, <1>7, <1>8

\* What Shopify creates for the note in hand.
LEMMA Creates ==
  ASSUME FulfilmentInd, parcel.pc = "create", Accepts, Ship, Fulfilled(next_gid)
  PROVE  /\ Work /\ parcel \in Parcels /\ parcel.note \in Notes
         /\ owed' \in [FulfillmentOrders -> Nat]
         /\ \A f \in FulfillmentOrders : owed'[f] <= Owes[f]
         /\ \E x \in Created : /\ x.gid = next_gid /\ x.note = parcel.note
                               /\ x.units <= Units[x.note]
                               /\ x.tracked = (parcel.note \in parcel.shipped)
                               /\ fulfillments' = fulfillments \cup {x}
<1> USE FulfilmentAssumption
<1>1. FulfilmentTypes /\ ParcelInv /\ Work
  BY DEF FulfilmentInd, Work
<1>2. parcel \in Parcels /\ parcel.note \in parcel.todo /\ parcel.take \in Takes(parcel.note)
  BY <1>1, WorkIs DEF ParcelInv
<1>3. parcel.note \in Notes
  BY <1>2 DEF Parcels
<1>4. parcel.take \in [FulfillmentOrders -> Nat] /\ Total(parcel.take) \in Nat
      /\ Total(parcel.take) <= Units[parcel.note]
  BY <1>2, <1>3, TakeIs DEF Takes
<1>5. owed \in [FulfillmentOrders -> Nat] /\ \A f \in FulfillmentOrders : owed[f] <= Owes[f]
  BY <1>1 DEF FulfilmentTypes
<1>6. owed' \in [FulfillmentOrders -> Nat] /\ \A f \in FulfillmentOrders : owed'[f] <= Owes[f]
  BY <1>4, <1>5 DEF Accepts, Ship
<1> DEFINE x == [gid |-> next_gid, note |-> parcel.note, units |-> Total(parcel.take),
                 tracked |-> parcel.note \in parcel.shipped]
<1>7. next_gid \in Gid
  BY <1>1, FS_CardinalityType DEF FulfilmentTypes, next_gid, Gid
<1>8. x \in Created
  BY <1>3, <1>4, <1>7 DEF Created
<1>9. fulfillments' = fulfillments \cup {x}
  BY DEF Fulfilled
<1> QED BY <1>1, <1>2, <1>3, <1>4, <1>6, <1>8, <1>9

\* Tracking sent to one fulfilment leaves as many, each with its gid.
LEMMA TrackingSent ==
  ASSUME FulfilmentInd, NEW gid,
         fulfillments' = {IF x.gid = gid THEN [x EXCEPT !.tracked = TRUE] ELSE x : x \in fulfillments}
  PROVE  /\ fulfillments' \in SUBSET Created /\ IsFiniteSet(fulfillments')
         /\ Cardinality(fulfillments') = Cardinality(fulfillments)
         /\ \A y \in fulfillments' : \E x \in fulfillments :
               /\ y.gid = x.gid /\ y.note = x.note /\ y.units = x.units
               /\ y.tracked = (x.tracked \/ x.gid = gid)
         /\ \A y, z \in fulfillments' : y.gid = z.gid => y = z
         /\ \A g : Live(g) => Live(g)'
<1> DEFINE sent == [x \in fulfillments |-> IF x.gid = gid THEN [x EXCEPT !.tracked = TRUE] ELSE x]
<1>1. fulfillments \in SUBSET Created /\ IsFiniteSet(fulfillments)
  BY DEF FulfilmentInd, FulfilmentTypes
<1>2. fulfillments' = {sent[x] : x \in fulfillments}
  OBVIOUS
<1>3. \A x \in fulfillments :
        /\ sent[x] \in Created /\ sent[x].gid = x.gid /\ sent[x].note = x.note
        /\ sent[x].units = x.units /\ sent[x].tracked = (x.tracked \/ x.gid = gid)
  BY <1>1 DEF Created
<1>4. DOMAIN sent = fulfillments
  OBVIOUS
<1> HIDE DEF sent
<1>5. \A x, y \in fulfillments : x.gid = y.gid => x = y
  BY DEF FulfilmentInd, GidsInv
<1>6. \A x, y \in fulfillments : sent[x] = sent[y] => x = y
  BY <1>3, <1>5
<1>7. IsFiniteSet(fulfillments') /\ Cardinality(fulfillments') = Cardinality(fulfillments)
  BY <1>1, <1>2, <1>4, <1>6, ImageKeepsCount
<1>8. fulfillments' \in SUBSET Created
  BY <1>2, <1>3
<1>9. \A y \in fulfillments' : \E x \in fulfillments :
               /\ y.gid = x.gid /\ y.note = x.note /\ y.units = x.units
               /\ y.tracked = (x.tracked \/ x.gid = gid)
  BY <1>2, <1>3
<1>10. \A y, z \in fulfillments' : y.gid = z.gid => y = z
  BY <1>2, <1>3, <1>5
<1>11. \A g : Live(g) => Live(g)'
  BY <1>2, <1>3 DEF Live
<1> QED BY <1>7, <1>8, <1>9, <1>10, <1>11

\* Every step keeps the invariant.
LEMMA FulfilmentStep == FulfilmentInd /\ [FulfilmentNext]_fulfilmentVars => FulfilmentInd'
<1> SUFFICES ASSUME FulfilmentInd, [FulfilmentNext]_fulfilmentVars PROVE FulfilmentInd'
  OBVIOUS
<1> USE FulfilmentAssumption
<1>0. FulfilmentTypes /\ GidsInv /\ ParcelInv /\ StampInv /\ TrackInv
  BY DEF FulfilmentInd
<1>b. Work => parcel \in Parcels
  BY <1>0, WorkIs
<1>e. Edits => edits' \in 0..MaxEdits
  BY <1>0 DEF Edits, FulfilmentTypes
<1>k. Breaks => broken' \in 0..MaxBroken
  BY <1>0 DEF Breaks, FulfilmentTypes
<1>1. CASE UNCHANGED fulfilmentVars
  BY <1>0, <1>1 DEF fulfilmentVars, FulfilmentInd, FulfilmentTypes, GidsInv, ParcelInv, StampInv,
     TrackInv, Work, Stamps, Live, Tracked
<1>2. ASSUME NEW n \in Notes, on_delivery_note_submit(n) PROVE FulfilmentInd'
  <2>1. FulfilmentTypes'
    BY <1>0, <1>2 DEF on_delivery_note_submit, FulfilmentTypes, States
  <2>2. GidsInv' /\ ParcelInv' /\ StampInv'
    BY <1>2, GroupUntouched DEF on_delivery_note_submit
  <2>3. TrackInv'
    BY <1>0, <1>2 DEF on_delivery_note_submit, FulfilmentTypes, TrackInv, Work, Tracked
  <2> QED BY <2>1, <2>2, <2>3 DEF FulfilmentInd
<1>3. ASSUME NEW n \in Notes, on_shipment_submit(n) PROVE FulfilmentInd'
  <2>1. FulfilmentTypes'
    BY <1>0, <1>3 DEF on_shipment_submit, FulfilmentTypes
  <2>2. GidsInv' /\ ParcelInv' /\ StampInv'
    BY <1>3, GroupUntouched DEF on_shipment_submit
  <2>3. TrackInv'
    BY <1>0, <1>3 DEF on_shipment_submit, FulfilmentTypes, TrackInv, Work, Tracked
  <2> QED BY <2>1, <2>2, <2>3 DEF FulfilmentInd
<1>4. ASSUME NEW n \in Notes, CancelNote(n) PROVE FulfilmentInd'
  <2>1. FulfilmentTypes'
    BY <1>0, <1>4, <1>e DEF CancelNote, FulfilmentTypes, States
  <2>2. GidsInv' /\ ParcelInv' /\ StampInv'
    BY <1>4, GroupUntouched DEF CancelNote
  <2>3. TrackInv'
    BY <1>0, <1>4 DEF CancelNote, FulfilmentTypes, TrackInv, Work, Tracked
  <2> QED BY <2>1, <2>2, <2>3 DEF FulfilmentInd
<1>5. ASSUME NEW n \in Notes, nothing_to_push(n) PROVE FulfilmentInd'
  <2>1. /\ Take(n) /\ Skip(n) /\ UNCHANGED <<docstatus, shipment, stamped, noteRows, given_up, unstamped>>
        /\ UNCHANGED <<owed, fulfillments, edits, broken>>
        /\ (parcel.status[n] # "submitted" \/ (parcel.stamps[n] # NoFulfillment /\ n \notin parcel.shipped))
    BY <1>5 DEF nothing_to_push
  <2>2. /\ Work /\ Work' /\ parcel' \in Parcels /\ ParcelInv' /\ Stamps' = Stamps
        /\ parcel'.rows = parcel.rows /\ parcel'.shipped = parcel.shipped
        /\ parcel'.todo = parcel.todo \ {n} /\ parcel'.stamps = parcel.stamps
    BY <2>1, NoteThrough
  <2>3. FulfilmentTypes'
    BY <1>0, <2>1, <2>2 DEF FulfilmentTypes
  <2>4. GidsInv' /\ StampInv'
    BY <1>0, <2>1, <2>2 DEF GidsInv, StampInv, Live
  <2>5. n \notin parcel.shipped
    BY <1>0, <2>1, <2>2 DEF ParcelInv
  <2>6. TrackInv'
    BY <1>0, <2>1, <2>2, <2>5 DEF TrackInv, Tracked
  <2> QED BY <2>2, <2>3, <2>4, <2>6 DEF FulfilmentInd
<1>6. ASSUME NEW n \in Notes, line_items_to_fulfil(n) PROVE FulfilmentInd'
  <2>1. PICK take \in may_take(n) :
          IF Total(take) = 0 THEN Skip(n)
          ELSE parcel' = [parcel EXCEPT !.pc = "create", !.note = n, !.take = take]
    BY <1>6 DEF line_items_to_fulfil
  <2>2. /\ Take(n) /\ UNCHANGED <<docstatus, shipment, stamped, noteRows, given_up, unstamped>>
        /\ UNCHANGED <<owed, fulfillments, edits, broken>>
        /\ parcel.status[n] = "submitted" /\ parcel.stamps[n] = NoFulfillment
    BY <1>6 DEF line_items_to_fulfil
  <2>3. CASE Total(take) = 0
    <3>2. /\ Work /\ Work' /\ parcel \in Parcels /\ parcel' \in Parcels /\ ParcelInv' /\ Stamps' = Stamps
          /\ parcel'.rows = parcel.rows /\ parcel'.shipped = parcel.shipped
          /\ parcel'.todo = parcel.todo \ {n} /\ parcel'.stamps = parcel.stamps
      BY <2>1, <2>2, <2>3, NoteThrough
    <3>3. FulfilmentTypes'
      BY <1>0, <2>2, <3>2 DEF FulfilmentTypes
    <3>4. GidsInv' /\ StampInv'
      BY <1>0, <2>2, <3>2 DEF GidsInv, StampInv, Live
    <3>5. n \notin unstamped => Tracked(n)
      BY <1>0, <2>2, <3>2 DEF StampInv, Stamps, Tracked, FulfilmentTypes, Created, Gid
    <3>6. TrackInv'
      BY <1>0, <2>2, <3>2, <3>5 DEF TrackInv, Tracked
    <3> QED BY <3>2, <3>3, <3>4, <3>6 DEF FulfilmentInd
  <2>4. CASE Total(take) # 0
    <3>1. Work /\ parcel \in Parcels
      BY <1>b, <2>2 DEF Take, Work
    <3>2. take \in Takes(n) /\ take \in Loads
      BY <1>0, MayTake DEF Loads
    <3>3. parcel' = [parcel EXCEPT !.pc = "create", !.note = n, !.take = take]
      BY <2>1, <2>4
    <3>4. parcel' \in Parcels /\ parcel'.pc = "create" /\ parcel'.note = n /\ parcel'.take = take
          /\ parcel'.rows = parcel.rows /\ parcel'.shipped = parcel.shipped
          /\ parcel'.todo = parcel.todo /\ parcel'.stamps = parcel.stamps /\ parcel'.status = parcel.status
      BY <3>1, <3>2, <3>3 DEF Parcels
    <3>5. Work' /\ Stamps' = Stamps
      BY <3>1, <3>4 DEF Work, Stamps
    <3>6. FulfilmentTypes'
      BY <1>0, <2>2, <3>4 DEF FulfilmentTypes
    <3>7. GidsInv' /\ StampInv'
      BY <1>0, <2>2, <3>1, <3>4, <3>5 DEF GidsInv, StampInv, Live
    <3>8. ParcelInv'
      BY <1>0, <2>2, <3>1, <3>2, <3>4 DEF ParcelInv, Take
    <3>9. TrackInv'
      BY <1>0, <2>2, <3>1, <3>4, <3>5 DEF TrackInv, Tracked
    <3> QED BY <3>6, <3>7, <3>8, <3>9 DEF FulfilmentInd
  <2> QED BY <2>3, <2>4
<1>7. ASSUME NEW f \in FulfillmentOrders, MerchantFulfils(f) PROVE FulfilmentInd'
  <2>1. FulfilmentTypes'
    <3>1. owed \in [FulfillmentOrders -> Nat] /\ owed[f] > 0 /\ owed' = [owed EXCEPT ![f] = owed[f] - 1]
      BY <1>0, <1>7 DEF MerchantFulfils, FulfilmentTypes
    <3>2. owed' \in [FulfillmentOrders -> Nat] /\ \A g \in FulfillmentOrders : owed'[g] <= owed[g]
      BY <3>1
    <3>3. \A g \in FulfillmentOrders : owed'[g] <= Owes[g]
      BY <1>0, <3>1, <3>2 DEF FulfilmentTypes
    <3> QED BY <1>0, <1>7, <1>e, <3>2, <3>3 DEF MerchantFulfils, FulfilmentTypes
  <2>2. GidsInv' /\ ParcelInv' /\ StampInv'
    BY <1>7, GroupUntouched DEF MerchantFulfils
  <2>3. TrackInv'
    BY <1>0, <1>7 DEF MerchantFulfils, TrackInv, Work, Tracked
  <2> QED BY <2>1, <2>2, <2>3 DEF FulfilmentInd
<1>8. ASSUME NEW n \in Notes, update_tracking(n) PROVE FulfilmentInd'
  <2>1. /\ Take(n) /\ Skip(n) /\ UNCHANGED <<docstatus, shipment, stamped, noteRows, given_up, unstamped>>
        /\ UNCHANGED <<owed, edits, broken>>
        /\ parcel.stamps[n] # NoFulfillment /\ n \in parcel.shipped
        /\ fulfillments' = {IF x.gid = parcel.stamps[n] THEN [x EXCEPT !.tracked = TRUE] ELSE x :
                               x \in fulfillments}
    BY <1>8 DEF update_tracking
  <2>2. /\ Work /\ Work' /\ parcel' \in Parcels /\ ParcelInv' /\ Stamps' = Stamps
        /\ parcel'.rows = parcel.rows /\ parcel'.shipped = parcel.shipped
        /\ parcel'.todo = parcel.todo \ {n} /\ parcel'.stamps = parcel.stamps
    BY <2>1, NoteThrough
  <2>3. /\ fulfillments' \in SUBSET Created /\ IsFiniteSet(fulfillments')
        /\ Cardinality(fulfillments') = Cardinality(fulfillments)
        /\ \A y \in fulfillments' : \E x \in fulfillments :
              /\ y.gid = x.gid /\ y.note = x.note /\ y.units = x.units
              /\ y.tracked = (x.tracked \/ x.gid = parcel.stamps[n])
        /\ \A y, z \in fulfillments' : y.gid = z.gid => y = z
        /\ \A g : Live(g) => Live(g)'
    BY <2>1, TrackingSent
  <2>4. FulfilmentTypes'
    BY <1>0, <2>1, <2>2, <2>3 DEF FulfilmentTypes
  <2>5. GidsInv'
    <3>1. \A y \in fulfillments' : y.gid <= Cardinality(fulfillments')
      BY <1>0, <2>3 DEF GidsInv
    <3> QED BY <1>0, <2>1, <2>2, <2>3, <3>1 DEF GidsInv
  <2>6. StampInv'
    BY <1>0, <2>1, <2>2, <2>3 DEF StampInv
  <2>7. \A m : Tracked(m) => Tracked(m)'
    BY <2>3 DEF Tracked
  <2>8. n \notin unstamped => Tracked(n)'
    <3>1. Stamps = parcel.stamps
      BY <2>2 DEF Stamps
    <3>2. n \notin unstamped => \A x \in fulfillments : x.note = n => x.gid = parcel.stamps[n]
      BY <1>0, <3>1 DEF StampInv
    <3> QED BY <2>3, <3>2 DEF Tracked
  <2>9. TrackInv'
    <3>1. \A m \in shipment' : docstatus'[m] = "submitted"
      BY <1>0, <2>1 DEF TrackInv
    <3>2. ASSUME NEW m \in shipment' \ (noteRows' \cup parcel'.rows \cup given_up' \cup unstamped')
          PROVE  Tracked(m)'
      <4>1. Tracked(m)
        BY <1>0, <2>1, <2>2, <3>2 DEF TrackInv
      <4> QED BY <2>7, <4>1
    <3>3. \A m \in (shipment' \cap parcel'.rows) \ noteRows' : m \in parcel'.shipped
      BY <1>0, <2>1, <2>2 DEF TrackInv
    <3>4. ASSUME NEW m \in (parcel'.shipped \cap (parcel'.rows \ parcel'.todo)) \ unstamped'
          PROVE  Tracked(m)'
      <4>1. CASE m = n
        BY <2>1, <2>8, <3>4, <4>1
      <4>2. CASE m # n
        <5>1. Tracked(m)
          BY <1>0, <2>1, <2>2, <3>4, <4>2 DEF TrackInv
        <5> QED BY <2>7, <5>1
      <4> QED BY <4>1, <4>2
    <3> QED BY <3>1, <3>2, <3>3, <3>4 DEF TrackInv
  <2> QED BY <2>2, <2>4, <2>5, <2>6, <2>9 DEF FulfilmentInd
<1>9. ASSUME claim_notes PROVE FulfilmentInd'
  <2>1. PICK R \in SUBSET noteRows \ {{}} :
          /\ parcel' = [NoParcel EXCEPT !.pc = "next", !.rows = R, !.todo = R,
                           !.stamps = stamped, !.status = docstatus, !.shipped = shipment]
          /\ noteRows' = noteRows \ R
    BY <1>9 DEF claim_notes
  <2>2. ~Work /\ UNCHANGED <<docstatus, shipment, stamped, owed, fulfillments, given_up, unstamped, edits,
                                broken>>
        /\ parcel = NoParcel
    BY <1>9 DEF claim_notes, Work, NoParcel
  <2>3. /\ parcel'.pc = "next" /\ parcel'.rows = R /\ parcel'.todo = R /\ parcel'.stamps = stamped
        /\ parcel'.status = docstatus /\ parcel'.shipped = shipment
    BY <2>1 DEF NoParcel
  <2>4. parcel' \in Parcels
    <3>1. <<>> \in Loads
      BY DEF Loads
    <3>2. R \in SUBSET Notes /\ shipment \in SUBSET Notes /\ docstatus \in [Notes -> States]
          /\ stamped \in [Notes -> Gid \cup {NoFulfillment}]
      BY <1>0 DEF FulfilmentTypes
    <3> QED BY <2>1, <3>1, <3>2 DEF NoParcel, Parcels
  <2>5. Work' /\ Stamps' = Stamps
    BY <2>2, <2>3 DEF Work, Stamps
  <2>6. FulfilmentTypes'
    BY <1>0, <2>1, <2>2, <2>4 DEF FulfilmentTypes
  <2>7. GidsInv' /\ StampInv'
    BY <1>0, <2>2, <2>3, <2>5 DEF GidsInv, StampInv, Live
  <2>8. ParcelInv'
    BY <1>0, <2>3 DEF ParcelInv, TrackInv
  <2>9. NoParcel.rows = {}
    BY DEF NoParcel
  <2>10. TrackInv'
    BY <1>0, <2>1, <2>2, <2>3, <2>9 DEF TrackInv, Tracked
  <2> QED BY <2>6, <2>7, <2>8, <2>10 DEF FulfilmentInd
<1>10. ASSUME create_fulfilment PROVE FulfilmentInd'
  <2>1. /\ parcel.pc = "create" /\ Accepts /\ Ship /\ Fulfilled(next_gid)
        /\ UNCHANGED <<docstatus, shipment, stamped, noteRows, given_up, unstamped, edits, broken>>
        /\ parcel' = [parcel EXCEPT !.pc = "next", !.todo = @ \ {parcel.note},
                                !.stamps = [@ EXCEPT ![parcel.note] = next_gid]]
    BY <1>10 DEF create_fulfilment
  <2>2. /\ Work /\ parcel \in Parcels /\ parcel.note \in Notes
        /\ owed' \in [FulfillmentOrders -> Nat] /\ \A f \in FulfillmentOrders : owed'[f] <= Owes[f]
    BY <2>1, Creates
  <2>3. PICK x \in Created : /\ x.gid = next_gid /\ x.note = parcel.note
                             /\ x.units <= Units[x.note]
                             /\ x.tracked = (parcel.note \in parcel.shipped)
                             /\ fulfillments' = fulfillments \cup {x}
    BY <2>1, Creates
  <2>4. /\ fulfillments' \in SUBSET Created /\ IsFiniteSet(fulfillments')
        /\ \A y \in fulfillments' : y.gid <= Cardinality(fulfillments')
        /\ \A y, z \in fulfillments' : y.gid = z.gid => y = z
        /\ \A gid : Live(gid) => Live(gid)'
        /\ \E y \in fulfillments' : y.gid = x.gid
    BY <2>3, NewGid
  <2>5. x.gid \in Gid
    BY DEF Created
  <2>6. /\ parcel' \in Parcels /\ parcel'.pc = "next"
        /\ parcel'.rows = parcel.rows /\ parcel'.shipped = parcel.shipped /\ parcel'.status = parcel.status
        /\ parcel'.todo = parcel.todo \ {x.note} /\ parcel'.stamps = [parcel.stamps EXCEPT ![x.note] = x.gid]
    BY <2>1, <2>2, <2>3, <2>5 DEF Parcels
  <2>7. Work' /\ Stamps = parcel.stamps /\ Stamps' = parcel'.stamps /\ parcel.stamps \in [Notes -> Gid \cup {NoFulfillment}]
    BY <2>2, <2>6 DEF Work, Stamps, Parcels
  <2>8. FulfilmentTypes'
    BY <1>0, <2>1, <2>2, <2>4, <2>6 DEF FulfilmentTypes
  <2>9. GidsInv'
    <3>1. \A n \in Notes : stamped'[n] = NoFulfillment \/ Live(stamped[n])'
      BY <1>0, <2>1, <2>4 DEF GidsInv
    <3>2. ASSUME NEW n \in Notes PROVE parcel'.stamps[n] = NoFulfillment \/ Live(parcel.stamps[n])'
      <4>1. CASE n = x.note
        BY <2>4, <2>6, <2>7, <4>1 DEF Live
      <4>2. CASE n # x.note
        <5>1. parcel'.stamps[n] = parcel.stamps[n]
          BY <2>6, <2>7, <4>2
        <5>2. parcel.stamps[n] = NoFulfillment \/ Live(parcel.stamps[n])
          BY <1>0, <2>2 DEF GidsInv
        <5> QED BY <2>4, <5>1, <5>2 DEF Live
      <4> QED BY <4>1, <4>2
    <3> QED BY <2>4, <3>1, <3>2 DEF GidsInv
  <2>10. ParcelInv'
    BY <1>0, <2>2, <2>6 DEF ParcelInv
  <2>11. x.note \notin unstamped => \A y \in fulfillments : y.note # x.note
    BY <1>0, <2>1, <2>2, <2>3, <2>7 DEF StampInv, ParcelInv, FulfilmentTypes, Created, Gid
  <2>12. StampInv'
    <3>1. \A y \in fulfillments' : y.units <= Units[y.note]
      BY <1>0, <2>3 DEF StampInv
    <3>2. ASSUME NEW y \in fulfillments', y.note \notin unstamped' PROVE Stamps'[y.note] = y.gid
      <4>1. CASE y = x
        BY <2>2, <2>3, <2>6, <2>7, <4>1
      <4>2. CASE y # x
        <5>1. y \in fulfillments /\ y.note # x.note /\ Stamps[y.note] = y.gid
          BY <1>0, <2>1, <2>3, <2>11, <3>2, <4>2 DEF StampInv
        <5>2. y.note \in Notes
          BY <1>0, <5>1 DEF FulfilmentTypes, Created
        <5> QED BY <2>6, <2>7, <5>1, <5>2
      <4> QED BY <4>1, <4>2
    <3> QED BY <3>1, <3>2 DEF StampInv
  <2>13. \A m : m # x.note => (Tracked(m) => Tracked(m)')
    BY <2>3 DEF Tracked
  <2>14. x.note \notin unstamped /\ x.note \in parcel.shipped => Tracked(x.note)'
    BY <2>3, <2>11 DEF Tracked
  <2>15. TrackInv'
    <3>0. x.note \in parcel.rows
      BY <1>0, <2>1, <2>2, <2>3 DEF ParcelInv
    <3>1. \A m \in shipment' : docstatus'[m] = "submitted"
      BY <1>0, <2>1 DEF TrackInv
    <3>2. ASSUME NEW m \in shipment' \ (noteRows' \cup parcel'.rows \cup given_up' \cup unstamped')
          PROVE  Tracked(m)'
      <4>1. Tracked(m) /\ m # x.note
        BY <1>0, <2>1, <2>6, <3>0, <3>2 DEF TrackInv
      <4> QED BY <2>13, <4>1
    <3>3. \A m \in (shipment' \cap parcel'.rows) \ noteRows' : m \in parcel'.shipped
      BY <1>0, <2>1, <2>2, <2>6 DEF TrackInv
    <3>4. ASSUME NEW m \in (parcel'.shipped \cap (parcel'.rows \ parcel'.todo)) \ unstamped'
          PROVE  Tracked(m)'
      <4>1. CASE m = x.note
        BY <2>1, <2>6, <2>14, <3>4, <4>1
      <4>2. CASE m # x.note
        <5>1. Tracked(m)
          BY <1>0, <2>1, <2>2, <2>6, <3>4, <4>2 DEF TrackInv
        <5> QED BY <2>13, <4>2, <5>1
      <4> QED BY <4>1, <4>2
    <3> QED BY <3>1, <3>2, <3>3, <3>4 DEF TrackInv
  <2> QED BY <2>8, <2>9, <2>10, <2>12, <2>15 DEF FulfilmentInd
<1>11. ASSUME commit_stamps PROVE FulfilmentInd'
  <2>1. /\ parcel.pc = "next" /\ parcel.todo = {} /\ stamped' = parcel.stamps /\ parcel' = NoParcel
        /\ UNCHANGED <<docstatus, shipment, noteRows, owed, fulfillments, given_up, unstamped, edits,
                       broken>>
    BY <1>11 DEF commit_stamps
  <2>2. Work /\ parcel \in Parcels /\ ~Work' /\ Stamps' = Stamps /\ ParcelInv'
    BY <1>b, <2>1, GroupOver DEF Work, Stamps
  <2>3. parcel.stamps \in [Notes -> Gid \cup {NoFulfillment}] /\ parcel'.rows = {}
    BY <2>1, <2>2 DEF Parcels, NoParcel
  <2>4. FulfilmentTypes'
    BY <1>0, <2>1, <2>3 DEF FulfilmentTypes
  <2>5. GidsInv' /\ StampInv'
    BY <1>0, <2>1, <2>2 DEF GidsInv, StampInv, Live
  <2>6. TrackInv'
    BY <1>0, <2>1, <2>2, <2>3 DEF TrackInv, Tracked
  <2> QED BY <2>2, <2>4, <2>5, <2>6 DEF FulfilmentInd
<1>12. ASSUME reply_lost PROVE FulfilmentInd'
  <2>1. /\ parcel.pc = "create" /\ Accepts /\ Ship /\ Fulfilled(next_gid)
        /\ unstamped' = unstamped \cup {parcel.note}
        /\ UNCHANGED <<docstatus, shipment, stamped, noteRows, parcel, given_up, edits>>
    BY <1>12 DEF reply_lost
  <2>2. /\ Work /\ parcel \in Parcels /\ parcel.note \in Notes
        /\ owed' \in [FulfillmentOrders -> Nat] /\ \A f \in FulfillmentOrders : owed'[f] <= Owes[f]
    BY <2>1, Creates
  <2>3. PICK x \in Created : /\ x.gid = next_gid /\ x.note = parcel.note
                             /\ x.units <= Units[x.note]
                             /\ fulfillments' = fulfillments \cup {x}
    BY <2>1, Creates
  <2>4. /\ fulfillments' \in SUBSET Created /\ IsFiniteSet(fulfillments')
        /\ \A y \in fulfillments' : y.gid <= Cardinality(fulfillments')
        /\ \A y, z \in fulfillments' : y.gid = z.gid => y = z
        /\ \A gid : Live(gid) => Live(gid)'
    BY <2>3, NewGid
  <2>5. broken' \in 0..MaxBroken
    BY <1>0, <1>12, <1>k DEF reply_lost
  <2>6. FulfilmentTypes'
    BY <1>0, <2>1, <2>2, <2>4, <2>5 DEF FulfilmentTypes
  <2>7. Work' /\ Stamps' = Stamps
    BY <2>1, <2>2 DEF Work, Stamps
  <2>8. GidsInv'
    BY <1>0, <2>1, <2>2, <2>4 DEF GidsInv
  <2>9. ParcelInv'
    BY <1>0, <2>1, <2>2 DEF ParcelInv
  <2>10. StampInv'
    BY <1>0, <2>1, <2>3, <2>7 DEF StampInv
  <2>11. \A m : m # x.note => (Tracked(m) => Tracked(m)')
    BY <2>3 DEF Tracked
  <2>12. TrackInv'
    BY <1>0, <2>1, <2>2, <2>3, <2>11 DEF TrackInv
  <2> QED BY <2>6, <2>8, <2>9, <2>10, <2>12 DEF FulfilmentInd
<1>13. ASSUME push_fails PROVE FulfilmentInd'
  <2>1. PICK spent \in SUBSET parcel.rows :
          /\ Breaks \/ UNCHANGED broken
          /\ noteRows' = noteRows \cup (parcel.rows \ spent)
          /\ given_up' = (given_up \cup spent) \ noteRows'
    BY <1>13 DEF push_fails
  <2>2. /\ stamped' = parcel.stamps /\ parcel' = NoParcel
        /\ UNCHANGED <<docstatus, shipment, owed, fulfillments, unstamped, edits>>
    BY <1>13 DEF push_fails
  <2>3. Work /\ parcel \in Parcels
    <3>1. NoParcel.pc = "idle" /\ NoParcel.todo = {}
      BY DEF NoParcel
    <3>2. parcel # NoParcel
      BY <1>13, <3>1 DEF push_fails
    <3> QED BY <1>0, <3>2, WorkIs
  <2>4. ~Work' /\ Stamps' = Stamps /\ ParcelInv'
    BY <2>2, <2>3, GroupOver DEF Stamps
  <2>5. /\ parcel.stamps \in [Notes -> Gid \cup {NoFulfillment}] /\ parcel.rows \in SUBSET Notes
        /\ parcel'.rows = {}
    BY <2>2, <2>3 DEF Parcels, NoParcel
  <2>6. broken' \in 0..MaxBroken
    BY <1>0, <1>k, <2>1 DEF FulfilmentTypes
  <2>7. FulfilmentTypes'
    BY <1>0, <2>1, <2>2, <2>5, <2>6 DEF FulfilmentTypes
  <2>8. GidsInv' /\ StampInv'
    BY <1>0, <2>2, <2>3, <2>4 DEF GidsInv, StampInv, Live
  <2>9. TrackInv'
    BY <1>0, <2>1, <2>2, <2>3, <2>4, <2>5 DEF TrackInv, Tracked
  <2> QED BY <2>4, <2>7, <2>8, <2>9 DEF FulfilmentInd
<1>14. ASSUME push_dies PROVE FulfilmentInd'
  <2>1. /\ parcel # NoParcel /\ noteRows' = noteRows \cup parcel.rows /\ parcel' = NoParcel
        /\ unstamped' = unstamped \cup {n \in Notes : parcel.stamps[n] # stamped[n]}
        /\ UNCHANGED <<docstatus, shipment, stamped, owed, fulfillments, given_up, edits>>
    BY <1>14 DEF push_dies
  <2>2. Work /\ parcel \in Parcels /\ ~Work' /\ Stamps' = stamped /\ Stamps = parcel.stamps /\ ParcelInv'
    BY <1>0, <2>1, WorkIs, GroupOver DEF Stamps
  <2>3. parcel.rows \in SUBSET Notes /\ parcel'.rows = {}
    BY <2>1, <2>2 DEF Parcels, NoParcel
  <2>4. broken' \in 0..MaxBroken
    BY <1>14, <1>k DEF push_dies
  <2>5. FulfilmentTypes'
    BY <1>0, <2>1, <2>3, <2>4 DEF FulfilmentTypes
  <2>6. GidsInv'
    BY <1>0, <2>1, <2>2 DEF GidsInv, Live
  <2>7. StampInv'
    <3>1. \A x \in fulfillments : x.note \in Notes
      BY <1>0 DEF FulfilmentTypes, Created
    <3> QED BY <1>0, <2>1, <2>2, <3>1 DEF StampInv
  <2>8. TrackInv'
    BY <1>0, <2>1, <2>2, <2>3 DEF TrackInv, Tracked
  <2> QED BY <2>2, <2>5, <2>6, <2>7, <2>8 DEF FulfilmentInd
<1> QED BY <1>1, <1>2, <1>3, <1>4, <1>5, <1>6, <1>7, <1>8, <1>9, <1>10, <1>11, <1>12, <1>13, <1>14
    DEF FulfilmentNext

\* push_fulfillments, drained by any worker: however often a note is queued, the
\* customer is told of each Delivery Note once and of no more than it shipped,
\* unless the id of one of its fulfilments was lost, with a reply or a worker.
THEOREM NotesShipOnce == FulfilmentSpec => []ANoteShipsOnce
<1>1. FulfilmentInd => ANoteShipsOnce
  BY FulfilmentIs
<1> QED BY <1>1, FulfilmentStarts, FulfilmentStep, PTL DEF FulfilmentSpec

\* on_shipment_submit against push_fulfillments: the tracking number reaches
\* what was created for its note, also when the Shipment comes during the push or
\* its group fails, unless the row itself is Failed.
THEOREM TrackingReaches == FulfilmentSpec => []TrackingArrives
<1>1. FulfilmentInd => TrackingArrives
  BY FulfilmentIs
<1> QED BY <1>1, FulfilmentStarts, FulfilmentStep, PTL DEF FulfilmentSpec

------------------------------------------------------------------------------
(* Media.                                                                     *)

Makers == {"nobody", "app", "merchant"}
MediaStates == {"none", "hidden", "listed", "failed", "gone"}
Photographs == [file : Files \cup {NoMedia}, by : Makers, state : MediaStates]
Records == [Files -> MediaIds \cup {NoMedia}]
Syncs == [pc : {"idle", "delete", "create", "commit"}, wanted : SUBSET Files, shown : SUBSET MediaIds,
          record : Records, remove : SUBSET MediaIds, failed : SUBSET Files]

MediaTypes ==
    /\ files \in SUBSET Files /\ young \in SUBSET MediaIds
    /\ gallery \in [MediaIds -> Photographs]
    /\ owned \in Records /\ sync \in Syncs
    /\ held = <<>> \/ \E r \in Records : held = <<r>>
    /\ mediaRow \in BOOLEAN /\ torn \in BOOLEAN /\ stranded \in SUBSET MediaIds
    /\ changes \in 0..MaxChanges /\ faults \in 0..MaxFaults

\* What is not listed yet is young, and the app's own is being listed, listed or
\* found unusable.
GalleryInv ==
    \A m \in MediaIds : /\ gallery[m].state = "hidden" => m \in young
                        /\ gallery[m].by = "app" => gallery[m].state \in {"hidden", "listed", "failed"}

\* A record under which no file has media of the app that it does not name.
Covers(record) == \A f \in Files : Ours(f) \subseteq {record[f]}

\* The record of the link covers what the app made until a pass uploads more,
\* the record in hand does while the pass runs.
CoverInv == ~torn =>
    /\ sync.pc # "commit" \/ sync.failed = {} => Covers(owned)
    /\ sync.pc # "idle" => Covers(sync.record)

\* All that the app made and that is there, unusable or not.
Mine == {m \in MediaIds : gallery[m].by = "app"}

\* Either record names each of them, or a pass is about to ask for its deletion,
\* or has asked in vain.
RecordInv == ~torn =>
    /\ sync.pc # "commit" \/ sync.failed = {} => Mine \subseteq Holds(owned) \cup stranded
    /\ sync.pc = "delete" => Mine \subseteq Holds(sync.record) \cup stranded \cup sync.remove
    /\ sync.pc \in {"create", "commit"} => Mine \subseteq Holds(sync.record) \cup stranded

MediaInd == MediaTypes /\ GalleryInv /\ CoverInv /\ RecordInv /\ (sync.pc = "idle" => sync = NoSync)

\* Media that nobody made are nobody's.
LEMMA UnusedIs == /\ Unused \in Photographs /\ Unused.by = "nobody" /\ Unused.state = "none"
                  /\ Gone \in Photographs /\ Gone.by = "nobody" /\ Gone.state = "gone"
<1>1. /\ "nobody" \in Makers /\ {"none", "gone"} \subseteq MediaStates
      /\ NoMedia \in Files \cup {NoMedia}
  BY DEF Makers, MediaStates
<1>2. Unused \in Photographs /\ Unused.by = "nobody" /\ Unused.state = "none"
  BY <1>1 DEF Unused, Photographs
<1> QED BY <1>1, <1>2 DEF Gone, Photographs

\* Without a pass nothing is recorded or to be done.
LEMMA NoSyncIs == NoSync \in Syncs /\ NoSync.pc = "idle" /\ NoRecord \in Records
<1>1. NoRecord \in Records
  BY DEF NoRecord, Records
<1>2. {} \in SUBSET Files /\ {} \in SUBSET MediaIds /\ "idle" \in {"idle", "delete", "create", "commit"}
  OBVIOUS
<1> QED BY <1>1, <1>2 DEF NoSync, Syncs

\* The invariant holds at the start.
LEMMA MediaStarts == MediaInit => MediaInd
<1> SUFFICES ASSUME MediaInit PROVE MediaInd
  OBVIOUS
<1>1. \A m \in MediaIds : gallery[m] = Unused
  BY DEF MediaInit
<1>2. MediaTypes
  <2>1. gallery \in [MediaIds -> Photographs]
    BY UnusedIs DEF MediaInit
  <2>2. 0 \in 0..MaxChanges /\ 0 \in 0..MaxFaults
    BY MediaAssumption
  <2> QED BY <2>1, <2>2, NoSyncIs DEF MediaInit, MediaTypes
<1>3. GalleryInv
  BY <1>1, UnusedIs DEF GalleryInv
<1>4. \A f \in Files : Ours(f) = {}
  BY <1>1, UnusedIs DEF Ours
<1>5. Mine = {}
  BY <1>1, UnusedIs DEF Mine
<1>6. RecordInv
  BY <1>5, NoSyncIs DEF RecordInv, MediaInit
<1> QED BY <1>2, <1>3, <1>4, <1>6 DEF MediaInd, CoverInv, Covers, MediaInit

\* What the invariant says of the part's own properties.
LEMMA MediaIs == MediaInd => MediaTypeOK /\ OneCopyEach /\ OursAreRecorded
<1> SUFFICES ASSUME MediaInd PROVE MediaTypeOK /\ OneCopyEach /\ OursAreRecorded
  OBVIOUS
<1>1. MediaTypes /\ CoverInv
  BY DEF MediaInd
<1>2. MediaTypeOK
  <2>1. \A m \in MediaIds : gallery[m].by \in Makers /\ gallery[m].state \in MediaStates
    BY <1>1 DEF MediaTypes, Photographs
  <2>2. sync.pc \in {"idle", "delete", "create", "commit"} /\ sync.remove \subseteq MediaIds
        /\ sync.wanted \subseteq Files
    BY <1>1 DEF MediaTypes, Syncs
  <2> QED BY <1>1, <2>1, <2>2 DEF MediaTypes, MediaTypeOK, Records, Makers, MediaStates
<1>3. ~torn => Covers(owned) \/ Covers(sync.record)
  BY <1>1 DEF CoverInv
<1>4. OneCopyEach
  <2> SUFFICES ASSUME ~torn, NEW f \in Files PROVE Cardinality(Ours(f)) <= 1
    BY DEF OneCopyEach
  <2>1. \A x, y \in Ours(f) : x = y
    BY <1>3 DEF Covers
  <2> QED BY <2>1, AtMostOne
<1>5. OursAreRecorded
  <2>1. sync.pc \in {"idle", "delete", "create", "commit"}
    BY <1>1 DEF MediaTypes, Syncs
  <2>2. ~torn => Mine \subseteq Holds(owned) \cup Holds(sync.record) \cup stranded
    BY <2>1 DEF MediaInd, RecordInv
  <2> QED BY <2>2 DEF OursAreRecorded, Mine
<1> QED BY <1>2, <1>4, <1>5

\* Where no file gains media, what covered them does.
LEMMA StillCovers ==
  ASSUME \A f \in Files : Ours(f)' \subseteq Ours(f)
  PROVE  \A r : Covers(r) => Covers(r)'
BY DEF Covers

\* A step outside the pass, under which no file gains media.
LEMMA OutsideThePass ==
  ASSUME MediaInd, \A f \in Files : Ours(f)' \subseteq Ours(f), Mine' \subseteq Mine,
         UNCHANGED <<owned, sync, torn, stranded>>
  PROVE  CoverInv' /\ RecordInv' /\ (sync'.pc = "idle" => sync' = NoSync)
<1>1. CoverInv' /\ (sync'.pc = "idle" => sync' = NoSync)
  BY StillCovers DEF MediaInd, CoverInv
<1>2. RecordInv'
  BY DEF MediaInd, RecordInv, Holds
<1> QED BY <1>1, <1>2

\* One photograph changes, to one that is not the app's, or from one that was.
LEMMA OnePhotograph ==
  ASSUME MediaInd, NEW m \in MediaIds, NEW p \in Photographs, gallery' = [gallery EXCEPT ![m] = p],
         p.by = "app" => /\ gallery[m].by = "app" /\ p.file = gallery[m].file
                         /\ p.state \in {"listed", "failed"} /\ gallery[m].state # "failed",
         p.state # "hidden", UNCHANGED young
  PROVE  /\ gallery' \in [MediaIds -> Photographs] /\ GalleryInv'
         /\ \A f \in Files : Ours(f)' \subseteq Ours(f)
         /\ Mine' \subseteq Mine
<1>1. gallery \in [MediaIds -> Photographs] /\ GalleryInv
  BY DEF MediaInd, MediaTypes
<1>2. /\ gallery' \in [MediaIds -> Photographs] /\ gallery'[m] = p
      /\ \A k \in MediaIds \ {m} : gallery'[k] = gallery[k]
  BY <1>1
<1>3. GalleryInv'
  BY <1>1, <1>2 DEF GalleryInv
<1>4. p.by = "app" => gallery[m].state \in {"hidden", "listed"}
  BY <1>1 DEF GalleryInv
<1>5. \A f \in Files : Ours(f)' \subseteq Ours(f)
  BY <1>2, <1>4 DEF Ours
<1>6. Mine' \subseteq Mine
  BY <1>2 DEF Mine
<1> QED BY <1>2, <1>3, <1>5, <1>6

\* What a pass takes over from the link still covers what the app made: what it
\* drops is deleted, and what failed is nobody's copy and about to be deleted.
LEMMA PassTakesOver ==
  ASSUME MediaInd, start_sync
  PROVE  /\ sync' \in Syncs /\ sync'.pc = "delete"
         /\ Covers(owned) => Covers(sync'.record)
         /\ Mine \subseteq Holds(owned) \cup stranded
               => Mine \subseteq Holds(sync'.record) \cup stranded \cup sync'.remove
<1> DEFINE record == [f \in Files |-> IF owned[f] \notin Shown \cup young
                                     THEN NoMedia ELSE owned[f]]
           failed == {f \in Files : record[f] \in Shown /\ gallery[record[f]].state = "failed"}
           recorded == [f \in Files |-> IF f \in failed THEN NoMedia ELSE record[f]]
           theirs == Shown \ Holds(recorded)
           room == IF Cardinality(theirs) > Ceiling THEN 0 ELSE Ceiling - Cardinality(theirs)
           wanted == {f \in files : Cardinality({g \in files : g < f}) < room}
           remove == {recorded[f] : f \in {f \in Files \ wanted : recorded[f] \in Shown}}
                     \cup {record[f] : f \in failed}
<1>1. sync' = [pc |-> "delete", wanted |-> wanted, shown |-> Shown, record |-> recorded,
               failed |-> failed, remove |-> remove]
  BY DEF start_sync
<1>2. Shown \in SUBSET MediaIds /\ owned \in Records /\ wanted \in SUBSET Files
  BY DEF Shown, MediaInd, MediaTypes
<1>3. record \in Records /\ recorded \in Records /\ failed \in SUBSET Files
  BY <1>2 DEF Records
<1>4. remove \in SUBSET MediaIds
  BY <1>2
<1>5. \A f \in Files : \A m \in Ours(f) : m \in Shown \cup young /\ gallery[m].state # "failed"
  BY DEF Ours, Shown, MediaInd, GalleryInv
<1>6. \A f \in Files : recorded[f] = owned[f] \/ owned[f] \notin Shown \cup young
                                               \/ (owned[f] \in MediaIds /\ gallery[owned[f]].state = "failed")
  BY DEF Shown
<1>7. Covers(owned) => Covers(recorded)
  <2> SUFFICES ASSUME Covers(owned), NEW f \in Files, NEW m \in Ours(f) PROVE m = recorded[f]
    <3> HIDE DEF recorded
    <3> QED BY DEF Covers
  <2>1. m = owned[f]
    BY DEF Covers
  <2> HIDE DEF recorded
  <2> QED BY <1>5, <1>6, <2>1
<1>10. Mine \subseteq Holds(owned) \cup stranded => Mine \subseteq Holds(recorded) \cup stranded \cup remove
  <2> SUFFICES ASSUME NEW f \in Files, owned[f] \in Mine PROVE owned[f] \in Holds(recorded) \cup remove
    <3> HIDE DEF recorded, remove
    <3> QED BY DEF Holds
  <2>1. owned[f] \in MediaIds /\ owned[f] \in Shown \cup young
    BY DEF Mine, Shown, MediaInd, GalleryInv
  <2>2. record[f] = owned[f]
    BY <2>1
  <2>3. CASE f \in failed
    <3>1. record[f] \in remove
      BY <2>3
    <3> QED BY <2>2, <3>1
  <2>4. CASE f \notin failed
    <3>1. recorded[f] = owned[f] /\ owned[f] # NoMedia
      BY <2>1, <2>2, <2>4, MediaAssumption
    <3> HIDE DEF recorded
    <3> QED BY <3>1 DEF Holds
  <2> QED BY <2>3, <2>4
<1> HIDE DEF wanted, recorded, failed, remove
<1>8. sync' \in Syncs
  BY <1>1, <1>2, <1>3, <1>4 DEF Syncs
<1>9. sync'.record = recorded /\ sync'.pc = "delete" /\ sync'.remove = remove
  BY <1>1
<1> QED BY <1>7, <1>8, <1>9, <1>10

\* What a pass keeps of its record once the answer came covers what is left.
LEMMA PassDeletes ==
  ASSUME MediaInd, delete_media
  PROVE  /\ sync' \in Syncs /\ sync'.pc = "create"
         /\ gallery' \in [MediaIds -> Photographs] /\ GalleryInv' /\ faults' \in 0..MaxFaults
         /\ \A f \in Files : Ours(f)' \subseteq Ours(f)
         /\ Covers(sync.record) => \A f \in Files : Ours(f)' \subseteq {sync'.record[f]}
         /\ Mine' \subseteq Mine /\ stranded \subseteq stranded' /\ stranded' \in SUBSET MediaIds
         /\ Mine \subseteq Holds(sync.record) \cup stranded \cup sync.remove
               => Mine' \subseteq Holds(sync'.record) \cup stranded'
<1>0. /\ gallery \in [MediaIds -> Photographs] /\ GalleryInv /\ sync \in Syncs /\ young' = young
      /\ faults \in 0..MaxFaults
  BY DEF MediaInd, MediaTypes, delete_media
<1>1. PICK done \in {{}, {m \in sync.remove : There(m)}}, named \in {{}, {m \in sync.remove : There(m)}} :
        /\ named \subseteq done
        /\ gallery' = [m \in MediaIds |-> IF m \in done THEN Gone ELSE gallery[m]]
        /\ sync' = [sync EXCEPT !.pc = "create", !.record = forget(sync.record, named)]
        /\ stranded' = stranded \cup (({m \in sync.remove : There(m)} \ done) \ Holds(sync.record))
  BY DEF delete_media
<1>f. faults' \in 0..MaxFaults
  BY <1>0, MediaAssumption DEF delete_media, Faults
<1>2. gallery' \in [MediaIds -> Photographs]
  BY <1>0, <1>1, UnusedIs
<1>3. GalleryInv'
  BY <1>0, <1>1, UnusedIs DEF GalleryInv
<1>4. \A f \in Files : Ours(f)' \subseteq Ours(f) \ done
  BY <1>0, <1>1, UnusedIs DEF Ours
<1>5. sync.record \in Records /\ forget(sync.record, named) \in Records
  BY <1>0 DEF Syncs, forget, Records
<1>6. sync' \in Syncs /\ sync'.pc = "create" /\ sync'.record = forget(sync.record, named)
  BY <1>0, <1>1, <1>5 DEF Syncs
<1>7. \A f \in Files : forget(sync.record, named)[f] = sync.record[f] \/ sync.record[f] \in named
  BY DEF forget
<1>8. Covers(sync.record) => \A f \in Files : Ours(f)' \subseteq {sync'.record[f]}
  BY <1>1, <1>4, <1>6, <1>7 DEF Covers
<1>9. sync.remove \in SUBSET MediaIds /\ stranded \in SUBSET MediaIds
  BY DEF MediaInd, MediaTypes, Syncs
<1>10. stranded \subseteq stranded' /\ stranded' \in SUBSET MediaIds
  BY <1>1, <1>9
<1>11. Mine' \subseteq Mine \ done /\ \A m \in Mine : There(m)
  BY <1>0, <1>1, UnusedIs DEF Mine, There
<1>12. \A m \in Holds(sync.record) \ done : m \in Holds(sync'.record)
  BY <1>1, <1>6, <1>7 DEF Holds
<1>13. Mine \subseteq Holds(sync.record) \cup stranded \cup sync.remove
          => Mine' \subseteq Holds(sync'.record) \cup stranded'
  BY <1>1, <1>11, <1>12
<1> QED BY <1>2, <1>3, <1>4, <1>6, <1>8, <1>f, <1>10, <1>11, <1>13

\* The file an uploaded id is of, and the last id of a file.
FileOf(m, S, ids) == CHOOSE f \in S : Rank(f, S) = Rank(m, ids) % Cardinality(S)
LastOf(f, S, ids) ==
  CHOOSE m \in ids : FileOf(m, S, ids) = f /\ \A k \in ids : FileOf(k, S, ids) = f => k <= m

\* An upload asked for n times over gives every file n ids.
LEMMA UploadsAre ==
  ASSUME NEW S \in SUBSET Nat, IsFiniteSet(S), NEW ids \in SUBSET Nat, IsFiniteSet(ids),
         NEW n \in {1, 2}, Cardinality(ids) = n * Cardinality(S)
  PROVE  /\ \A m \in ids : FileOf(m, S, ids) \in S
         /\ \A f \in S : LastOf(f, S, ids) \in ids /\ FileOf(LastOf(f, S, ids), S, ids) = f
         /\ n = 1 => \A m, k \in ids : FileOf(m, S, ids) = FileOf(k, S, ids) => m = k
<1> DEFINE c == Cardinality(S)
<1>1. c \in Nat /\ Cardinality(ids) \in Nat /\ c <= Cardinality(ids)
      /\ (n = 1 => Cardinality(ids) = c) /\ (c = 0 => Cardinality(ids) = 0)
  <2>1. c \in Nat /\ Cardinality(ids) \in Nat
    BY FS_CardinalityType
  <2>2. CASE n = 1
    BY <2>1, <2>2
  <2>3. CASE n = 2
    BY <2>1, <2>3
  <2> QED BY <2>1, <2>2, <2>3
<1>2. /\ \A x \in S : Rank(x, S) \in 0..(c - 1)
      /\ \A x, y \in S : Rank(x, S) = Rank(y, S) => x = y
      /\ \A k \in 0..(c - 1) : \E x \in S : Rank(x, S) = k
  BY RanksAre
<1>3. /\ \A x \in ids : Rank(x, ids) \in 0..(Cardinality(ids) - 1)
      /\ \A x, y \in ids : Rank(x, ids) = Rank(y, ids) => x = y
      /\ \A k \in 0..(Cardinality(ids) - 1) : \E x \in ids : Rank(x, ids) = k
  BY RanksAre
<1>4. ASSUME NEW m \in ids
      PROVE  FileOf(m, S, ids) \in S /\ Rank(FileOf(m, S, ids), S) = Rank(m, ids) % c
  <2>1. Rank(m, ids) \in Nat /\ c > 0
    BY <1>1, <1>3
  <2>2. Rank(m, ids) % c \in 0..(c - 1)
    <3>1. \A r, d \in Nat : d > 0 => r % d \in 0..(d - 1)
      OBVIOUS
    <3> QED BY <1>1, <2>1, <3>1
  <2>3. \E f \in S : Rank(f, S) = Rank(m, ids) % c
    BY <1>2, <2>2
  <2> QED BY <2>3 DEF FileOf
<1>5. ASSUME NEW r \in 0..(c - 1) PROVE r % c = r
  BY <1>1
<1>6. ASSUME NEW f \in S
      PROVE  LastOf(f, S, ids) \in ids /\ FileOf(LastOf(f, S, ids), S, ids) = f
  <2> DEFINE of == {m \in ids : FileOf(m, S, ids) = f}
  <2>1. Rank(f, S) \in 0..(c - 1)
    BY <1>2
  <2>2. Rank(f, S) \in 0..(Cardinality(ids) - 1)
    BY <1>1, <2>1
  <2>3. PICK m \in ids : Rank(m, ids) = Rank(f, S)
    BY <1>3, <2>2
  <2>4. Rank(FileOf(m, S, ids), S) = Rank(f, S) /\ FileOf(m, S, ids) \in S
    BY <1>4, <1>5, <2>1, <2>3
  <2>5. FileOf(m, S, ids) = f
    BY <1>2, <2>4
  <2>6. of \in SUBSET Nat /\ of \in SUBSET ids /\ of # {}
    BY <2>5
  <2>7. IsFiniteSet(of)
    BY <2>6, FS_Subset
  <2>8. PICK x \in of : \A y \in of : y <= x
    <3> HIDE DEF of
    <3> QED BY <2>6, <2>7, LargestNatural
  <2>9. \E i \in ids : FileOf(i, S, ids) = f /\ \A k \in ids : FileOf(k, S, ids) = f => k <= i
    BY <2>8
  <2> QED BY <2>9 DEF LastOf
<1>7. ASSUME n = 1, NEW m \in ids, NEW k \in ids, FileOf(m, S, ids) = FileOf(k, S, ids)
      PROVE  m = k
  <2>1. Rank(m, ids) \in 0..(c - 1) /\ Rank(k, ids) \in 0..(c - 1)
    BY <1>1, <1>3, <1>7
  <2>2. Rank(m, ids) % c = Rank(k, ids) % c
    BY <1>4, <1>7
  <2>3. Rank(m, ids) = Rank(k, ids)
    BY <1>5, <2>1, <2>2
  <2> QED BY <1>3, <2>3
<1> QED BY <1>4, <1>6, <1>7

\* An upload leaves every file of it with the media that its record names, and
\* with no other unless it was made twice.
LEMMA PassUploads ==
  ASSUME MediaInd, NEW times \in {1, 2}, create_media(times)
  PROVE  /\ sync' \in Syncs /\ sync'.pc = "commit" /\ sync'.failed = sources
         /\ gallery' \in [MediaIds -> Photographs] /\ GalleryInv' /\ young' \in SUBSET MediaIds
         /\ Covers(sync.record) /\ times = 1 => \A f \in Files : Ours(f)' \subseteq {sync'.record[f]}
         /\ sources = {} => gallery' = gallery /\ sync'.record = sync.record
         /\ Mine \subseteq Holds(sync.record) \cup stranded /\ times = 1
               => Mine' \subseteq Holds(sync'.record) \cup stranded
<1> DEFINE S == sources
           ids == {m \in MediaIds : New(m, times * Cardinality(S))}
<1>0. gallery \in [MediaIds -> Photographs] /\ GalleryInv /\ sync \in Syncs /\ young \in SUBSET MediaIds
  BY DEF MediaInd, MediaTypes
<1>1. /\ Cardinality(ids) = times * Cardinality(S)
      /\ gallery' = [m \in MediaIds |-> IF m \in ids
                        THEN [file |-> FileOf(m, S, ids), by |-> "app", state |-> "hidden"]
                        ELSE gallery[m]]
      /\ sync' = [sync EXCEPT !.pc = "commit", !.failed = S,
                     !.record = [f \in Files |-> IF f \in S THEN LastOf(f, S, ids) ELSE sync.record[f]]]
      /\ young' = young \cup ids
  BY DEF create_media, FileOf, LastOf, Rank
<1>2. S \in SUBSET Files /\ S \in SUBSET Nat /\ ids \in SUBSET MediaIds /\ ids \in SUBSET Nat
  <2>1. S \in SUBSET Files
    BY <1>0 DEF sources, Syncs
  <2> QED BY <2>1, MediaAssumption
<1>3. IsFiniteSet(S) /\ IsFiniteSet(ids)
  BY <1>2, MediaAssumption, FS_Subset
<1>4. \A m \in ids : gallery[m] = Unused
  BY DEF New
<1>s. \A f \in S : sync.record[f] = NoMedia
  BY DEF sources
<1> HIDE DEF S, ids
<1>5. /\ \A m \in ids : FileOf(m, S, ids) \in S
      /\ \A f \in S : LastOf(f, S, ids) \in ids /\ FileOf(LastOf(f, S, ids), S, ids) = f
      /\ times = 1 => \A m, k \in ids : FileOf(m, S, ids) = FileOf(k, S, ids) => m = k
  BY <1>1, <1>2, <1>3, UploadsAre
<1> DEFINE made == [f \in Files |-> IF f \in S THEN LastOf(f, S, ids) ELSE sync.record[f]]
<1>6. sync.record \in Records /\ made \in Records
  BY <1>0, <1>2, <1>5 DEF Records, Syncs
<1>7. sync' \in Syncs /\ sync'.pc = "commit" /\ sync'.failed = S /\ sync'.record = made
  <2> HIDE DEF made
  <2>1. sync' = [sync EXCEPT !.pc = "commit", !.failed = S, !.record = made]
    BY <1>1 DEF made
  <2> QED BY <1>0, <1>2, <1>6, <2>1 DEF Syncs
<1>8. gallery' \in [MediaIds -> Photographs]
  <2>1. ASSUME NEW m \in ids
        PROVE  [file |-> FileOf(m, S, ids), by |-> "app", state |-> "hidden"] \in Photographs
    <3>1. FileOf(m, S, ids) \in Files \cup {NoMedia} /\ "app" \in Makers /\ "hidden" \in MediaStates
      BY <1>2, <1>5 DEF Makers, MediaStates
    <3> QED BY <3>1 DEF Photographs
  <2> QED BY <1>0, <1>1, <2>1
<1>9. /\ \A m \in ids : gallery'[m].by = "app" /\ gallery'[m].state = "hidden" /\ gallery'[m].file = FileOf(m, S, ids)
      /\ \A m \in MediaIds \ ids : gallery'[m] = gallery[m]
  BY <1>1, <1>2
<1>10. GalleryInv' /\ young' \in SUBSET MediaIds
  BY <1>0, <1>1, <1>2, <1>9 DEF GalleryInv
<1>11. \A f \in Files : \A m \in Ours(f) : m \notin ids
  BY <1>4, UnusedIs DEF Ours
<1>12. \A f \in Files : \A m \in Ours(f)' : m \in Ours(f) \/ (m \in ids /\ FileOf(m, S, ids) = f)
  BY <1>9 DEF Ours
<1>13. ASSUME Covers(sync.record), times = 1, NEW f \in Files, NEW m \in Ours(f)' PROVE m = made[f]
  <2>1. CASE m \in Ours(f)
    <3>1. m = sync.record[f] /\ m # NoMedia
      BY <1>13, <2>1, MediaAssumption DEF Covers, Ours
    <3>2. f \notin S
      BY <1>s, <3>1
    <3> QED BY <3>1, <3>2
  <2>2. CASE m \in ids /\ FileOf(m, S, ids) = f
    <3>1. f \in S /\ LastOf(f, S, ids) \in ids /\ FileOf(LastOf(f, S, ids), S, ids) = f
      BY <1>5, <2>2
    <3>2. m = LastOf(f, S, ids)
      BY <1>5, <1>13, <2>2, <3>1
    <3> QED BY <3>1, <3>2
  <2> QED BY <1>12, <2>1, <2>2
<1>14. ASSUME S = {} PROVE gallery' = gallery /\ sync'.record = sync.record
  <2>1. ids = {}
    <3>1. times * 0 = 0
      OBVIOUS
    <3>2. Cardinality(ids) = 0
      BY <1>1, <1>14, <3>1, FS_EmptySet
    <3> QED BY <1>3, <3>2, FS_EmptySet
  <2>2. gallery' = gallery
    BY <1>0, <1>1, <2>1
  <2>3. made = sync.record
    BY <1>6, <1>14 DEF Records
  <2> QED BY <1>7, <2>2, <2>3
<1>17. ASSUME times = 1, NEW m \in Mine', m \notin Mine PROVE m \in Holds(made)
  <2>1. m \in ids
    BY <1>9, <1>17 DEF Mine
  <2> DEFINE f == FileOf(m, S, ids)
  <2>2. f \in S /\ f \in Files
    BY <1>2, <1>5, <2>1
  <2>3. LastOf(f, S, ids) \in ids /\ FileOf(LastOf(f, S, ids), S, ids) = f
    BY <1>5, <2>2
  <2>4. m = LastOf(f, S, ids)
    BY <1>5, <1>17, <2>1, <2>3
  <2>5. made[f] = m /\ m # NoMedia
    BY <1>2, <2>1, <2>2, <2>4, MediaAssumption
  <2> HIDE DEF made, f
  <2> QED BY <2>2, <2>5 DEF Holds
<1>18. Holds(sync.record) \subseteq Holds(made)
  <2> SUFFICES ASSUME NEW f \in Files, sync.record[f] # NoMedia PROVE sync.record[f] \in Holds(made)
    <3> HIDE DEF made
    <3> QED BY DEF Holds
  <2>1. made[f] = sync.record[f]
    BY <1>s
  <2> HIDE DEF made
  <2> QED BY <2>1 DEF Holds
<1> HIDE DEF made
<1>19. Mine \subseteq Holds(sync.record) \cup stranded /\ times = 1
          => Mine' \subseteq Holds(sync'.record) \cup stranded
  BY <1>7, <1>17, <1>18
<1>15. sync'.failed = sources /\ (sources = {} => gallery' = gallery /\ sync'.record = sync.record)
  BY <1>7, <1>14 DEF S
<1>16. Covers(sync.record) /\ times = 1 => \A f \in Files : Ours(f)' \subseteq {sync'.record[f]}
  BY <1>7, <1>13
<1> QED BY <1>7, <1>8, <1>10, <1>15, <1>16, <1>19

\* Every step keeps the invariant.
LEMMA MediaStep == MediaInd /\ [MediaNext]_mediaVars => MediaInd'
<1> SUFFICES ASSUME MediaInd, [MediaNext]_mediaVars PROVE MediaInd'
  OBVIOUS
<1> USE MediaAssumption
<1>0. MediaTypes /\ GalleryInv /\ CoverInv /\ RecordInv /\ (sync.pc = "idle" => sync = NoSync)
  BY DEF MediaInd
<1>c. Changes => changes' \in 0..MaxChanges
  BY <1>0 DEF Changes, MediaTypes
<1>f. Faults => faults' \in 0..MaxFaults
  BY <1>0 DEF Faults, MediaTypes
<1>g. UNCHANGED gallery => Mine' = Mine /\ \A f \in Files : Ours(f)' = Ours(f)
  BY DEF Ours, Mine
<1>n. NoSync.pc = "idle" /\ NoSync \in Syncs
  BY NoSyncIs
<1>i. sync # NoSync => sync.pc # "idle"
  BY <1>0
<1>1. CASE UNCHANGED mediaVars
  <2>1. MediaTypes' /\ GalleryInv'
    BY <1>0, <1>1 DEF mediaVars, MediaTypes, GalleryInv
  <2> QED BY <1>0, <1>1, <1>g, <2>1, OutsideThePass DEF mediaVars, MediaInd
<1>2. ASSUME NEW F \in SUBSET Files, on_file_change(F) PROVE MediaInd'
  <2>1. MediaTypes' /\ GalleryInv'
    BY <1>0, <1>2, <1>c DEF on_file_change, MediaTypes, GalleryInv
  <2> QED BY <1>2, <1>g, <2>1, OutsideThePass DEF on_file_change, MediaInd
<1>3. ASSUME NEW m \in MediaIds, MerchantAdds(m) PROVE MediaInd'
  <2> DEFINE p == [file |-> NoMedia, by |-> "merchant", state |-> "listed"]
  <2>1. p \in Photographs /\ p.by # "app" /\ p.state # "hidden"
    BY DEF Photographs, Makers, MediaStates
  <2>2. gallery' = [gallery EXCEPT ![m] = p] /\ UNCHANGED <<files, owned, young, mediaRow, sync, held, torn, stranded, faults>>
        /\ changes' \in 0..MaxChanges
    BY <1>3, <1>c DEF MerchantAdds
  <2> HIDE DEF p
  <2>3. gallery' \in [MediaIds -> Photographs] /\ GalleryInv' /\ Mine' \subseteq Mine
        /\ \A f \in Files : Ours(f)' \subseteq Ours(f)
    BY <2>1, <2>2, OnePhotograph
  <2>4. MediaTypes'
    BY <1>0, <2>2, <2>3 DEF MediaTypes
  <2> QED BY <2>2, <2>3, <2>4, OutsideThePass DEF MediaInd
<1>4. ASSUME NEW m \in MediaIds, MerchantDeletes(m) PROVE MediaInd'
  <2>2. gallery' = [gallery EXCEPT ![m] = Gone] /\ UNCHANGED <<files, owned, young, mediaRow, sync, held, torn, stranded, faults>>
        /\ changes' \in 0..MaxChanges
    BY <1>4, <1>c DEF MerchantDeletes
  <2>3. gallery' \in [MediaIds -> Photographs] /\ GalleryInv' /\ Mine' \subseteq Mine
        /\ \A f \in Files : Ours(f)' \subseteq Ours(f)
    BY <2>2, UnusedIs, OnePhotograph
  <2>4. MediaTypes'
    BY <1>0, <2>2, <2>3 DEF MediaTypes
  <2> QED BY <2>2, <2>3, <2>4, OutsideThePass DEF MediaInd
<1>5. ASSUME NEW m \in MediaIds, Processing(m) PROVE MediaInd'
  <2>1. UNCHANGED <<files, owned, young, mediaRow, sync, held, torn, stranded, faults>>
    BY <1>5 DEF Processing
  <2>2. changes' \in 0..MaxChanges
    <3>1. gallery[m].state = "hidden" => changes' = changes
      BY <1>5 DEF Processing
    <3>2. gallery[m].state # "hidden" => Changes
      BY <1>5 DEF Processing
    <3> QED BY <1>0, <1>c, <3>1, <3>2 DEF MediaTypes
  <2>3. \E q \in {"listed", "failed"} :
          /\ gallery' = [gallery EXCEPT ![m].state = q]
          /\ gallery[m].state \in {"hidden", "listed"}
    BY <1>5 DEF Processing
  <2>4. PICK q \in {"listed", "failed"} : /\ gallery' = [gallery EXCEPT ![m].state = q]
                                         /\ gallery[m].state \in {"hidden", "listed"}
    BY <2>3
  <2> DEFINE p == [gallery[m] EXCEPT !.state = q]
  <2>5. gallery[m] \in Photographs
    BY <1>0 DEF MediaTypes
  <2>6. p \in Photographs /\ p.by = gallery[m].by /\ p.file = gallery[m].file /\ p.state = q
    BY <2>5 DEF Photographs, MediaStates
  <2>7. gallery' = [gallery EXCEPT ![m] = p]
    BY <2>4
  <2> HIDE DEF p
  <2>8. gallery' \in [MediaIds -> Photographs] /\ GalleryInv' /\ Mine' \subseteq Mine
        /\ \A f \in Files : Ours(f)' \subseteq Ours(f)
    BY <2>1, <2>4, <2>6, <2>7, OnePhotograph
  <2>9. MediaTypes'
    BY <1>0, <2>1, <2>2, <2>8 DEF MediaTypes
  <2> QED BY <2>1, <2>8, <2>9, OutsideThePass DEF MediaInd
<1>6. ASSUME NEW m \in MediaIds, Settles(m) PROVE MediaInd'
  <2>1. MediaTypes'
    BY <1>0, <1>6 DEF Settles, MediaTypes
  <2>2. GalleryInv'
    BY <1>0, <1>6 DEF Settles, GalleryInv
  <2> QED BY <1>6, <1>g, <2>1, <2>2, OutsideThePass DEF Settles, MediaInd
<1>7. ASSUME start_sync PROVE MediaInd'
  <2>1. /\ sync = NoSync /\ mediaRow' = FALSE
        /\ UNCHANGED <<files, gallery, owned, young, held, torn, stranded, changes, faults>>
    BY <1>7 DEF start_sync
  <2>2. /\ sync' \in Syncs /\ sync'.pc = "delete"
        /\ Covers(owned) => Covers(sync'.record)
        /\ Mine \subseteq Holds(owned) \cup stranded
              => Mine \subseteq Holds(sync'.record) \cup stranded \cup sync'.remove
    BY <1>7, PassTakesOver
  <2>3. MediaTypes' /\ GalleryInv'
    BY <1>0, <2>1, <2>2 DEF MediaTypes, GalleryInv
  <2>4. \A r : Covers(r) => Covers(r)'
    BY <1>g, <2>1 DEF Covers
  <2>5. CoverInv'
    <3>1. ~torn' => Covers(owned)
      BY <1>0, <1>n, <2>1 DEF CoverInv
    <3>2. ~torn' => \A f \in Files : Ours(f)' \subseteq {owned'[f]} /\ Ours(f)' \subseteq {sync'.record[f]}
      BY <1>g, <2>1, <2>2, <3>1 DEF Covers
    <3> QED BY <2>2, <3>2 DEF CoverInv, Covers
  <2>6. RecordInv'
    <3>1. ~torn' => Mine \subseteq Holds(owned) \cup stranded
      BY <1>0, <1>n, <2>1 DEF RecordInv
    <3> QED BY <1>g, <2>1, <2>2, <3>1 DEF RecordInv
  <2> QED BY <2>2, <2>3, <2>5, <2>6 DEF MediaInd
<1>8. ASSUME delete_media PROVE MediaInd'
  <2>1. sync.pc = "delete" /\ UNCHANGED <<files, owned, young, mediaRow, held, torn, changes>>
    BY <1>8 DEF delete_media
  <2>2. /\ sync' \in Syncs /\ sync'.pc = "create"
        /\ gallery' \in [MediaIds -> Photographs] /\ GalleryInv' /\ faults' \in 0..MaxFaults
        /\ \A f \in Files : Ours(f)' \subseteq Ours(f)
        /\ Covers(sync.record) => \A f \in Files : Ours(f)' \subseteq {sync'.record[f]}
        /\ Mine' \subseteq Mine /\ stranded \subseteq stranded' /\ stranded' \in SUBSET MediaIds
        /\ Mine \subseteq Holds(sync.record) \cup stranded \cup sync.remove
              => Mine' \subseteq Holds(sync'.record) \cup stranded'
    BY <1>8, PassDeletes
  <2>3. MediaTypes'
    BY <1>0, <2>1, <2>2 DEF MediaTypes
  <2>4. CoverInv'
    <3>1. ~torn' => Covers(owned) /\ Covers(sync.record)
      BY <1>0, <2>1 DEF CoverInv
    <3>2. ~torn' => \A f \in Files : Ours(f)' \subseteq {owned'[f]} /\ Ours(f)' \subseteq {sync'.record[f]}
      BY <2>1, <2>2, <3>1 DEF Covers
    <3> QED BY <3>2 DEF CoverInv, Covers
  <2>5. RecordInv'
    BY <1>0, <2>1, <2>2 DEF RecordInv
  <2> QED BY <2>2, <2>3, <2>4, <2>5 DEF MediaInd
<1>9. ASSUME NEW n \in {1, 2}, create_media(n) PROVE MediaInd'
  <2>1. sync.pc = "create" /\ UNCHANGED <<files, owned, mediaRow, held, stranded, changes>>
    BY <1>9 DEF create_media
  <2>2. IF n = 1 THEN UNCHANGED <<torn, faults>> ELSE Faults /\ torn' = TRUE
    BY <1>9 DEF create_media
  <2>3. /\ sync' \in Syncs /\ sync'.pc = "commit" /\ sync'.failed = sources
        /\ gallery' \in [MediaIds -> Photographs] /\ GalleryInv' /\ young' \in SUBSET MediaIds
        /\ Covers(sync.record) /\ n = 1 => \A f \in Files : Ours(f)' \subseteq {sync'.record[f]}
        /\ sources = {} => gallery' = gallery /\ sync'.record = sync.record
        /\ Mine \subseteq Holds(sync.record) \cup stranded /\ n = 1
              => Mine' \subseteq Holds(sync'.record) \cup stranded
    BY <1>9, PassUploads
  <2>4. MediaTypes'
    BY <1>0, <1>f, <2>1, <2>2, <2>3 DEF MediaTypes
  <2>5. CoverInv'
    <3>1. ~torn' => n = 1 /\ Covers(owned) /\ Covers(sync.record)
      BY <1>0, <2>1, <2>2 DEF CoverInv
    <3>2. ~torn' => \A f \in Files : Ours(f)' \subseteq {sync'.record[f]}
      BY <2>3, <3>1
    <3>3. ~torn' /\ sync'.failed = {} => \A f \in Files : Ours(f)' \subseteq {owned'[f]}
      BY <1>g, <2>1, <2>3, <3>1 DEF Covers
    <3> QED BY <2>3, <3>2, <3>3 DEF CoverInv, Covers
  <2>6. RecordInv'
    <3>1. ~torn' => n = 1 /\ Mine \subseteq Holds(owned) \cup stranded /\ Mine \subseteq Holds(sync.record) \cup stranded
      BY <1>0, <2>1, <2>2 DEF RecordInv
    <3>2. ~torn' => Mine' \subseteq Holds(sync'.record) \cup stranded
      BY <2>3, <3>1
    <3>3. ~torn' /\ sync'.failed = {} => Mine' \subseteq Holds(owned') \cup stranded
      BY <1>g, <2>1, <2>3, <3>1
    <3> QED BY <2>1, <2>3, <3>2, <3>3 DEF RecordInv
  <2> QED BY <2>3, <2>4, <2>5, <2>6 DEF MediaInd
<1>10. ASSUME record_owned PROVE MediaInd'
  <2>1. /\ sync.pc = "commit" /\ owned' = sync.record /\ mediaRow' \in {mediaRow, TRUE} /\ sync' = NoSync
        /\ UNCHANGED <<files, gallery, young, held, torn, stranded, changes, faults>>
    BY <1>10 DEF record_owned
  <2>2. owned' \in Records
    BY <1>0, <2>1 DEF MediaTypes, Syncs
  <2>3. MediaTypes' /\ GalleryInv'
    BY <1>0, <1>n, <2>1, <2>2 DEF MediaTypes, GalleryInv
  <2>4. CoverInv'
    BY <1>0, <1>g, <1>n, <2>1 DEF CoverInv, Covers
  <2>5. RecordInv'
    BY <1>0, <1>g, <1>n, <2>1 DEF RecordInv, Holds
  <2> QED BY <1>n, <2>1, <2>3, <2>4, <2>5 DEF MediaInd
<1>11. ASSUME sync_fails PROVE MediaInd'
  <2>1. /\ sync # NoSync /\ Faults /\ torn' = (torn \/ (sync.pc = "commit" /\ sync.failed # {}))
        /\ mediaRow' = TRUE /\ sync' = NoSync
        /\ UNCHANGED <<files, gallery, owned, young, held, stranded, changes>>
    BY <1>11 DEF sync_fails
  <2>2. MediaTypes' /\ GalleryInv'
    BY <1>0, <1>f, <1>n, <2>1 DEF MediaTypes, GalleryInv
  <2>3. CoverInv'
    BY <1>0, <1>g, <1>n, <2>1 DEF CoverInv, Covers
  <2>4. RecordInv'
    BY <1>0, <1>g, <1>n, <2>1 DEF RecordInv, Holds
  <2> QED BY <1>n, <2>1, <2>2, <2>3, <2>4 DEF MediaInd
<1>12. ASSUME link_loaded PROVE MediaInd'
  <2>1. MediaTypes' /\ GalleryInv'
    BY <1>0, <1>12, <1>c DEF link_loaded, MediaTypes, GalleryInv
  <2> QED BY <1>12, <1>g, <2>1, OutsideThePass DEF link_loaded, MediaInd
<1>13. ASSUME link_saved PROVE MediaInd'
  <2>1. /\ held # <<>> /\ owned' = held[1] /\ torn' = (torn \/ held[1] # owned) /\ held' = <<>>
        /\ UNCHANGED <<files, gallery, young, mediaRow, sync, stranded, changes, faults>>
    BY <1>13 DEF link_saved
  <2>2. held[1] \in Records
    BY <1>0, <2>1 DEF MediaTypes
  <2>3. MediaTypes' /\ GalleryInv'
    BY <1>0, <2>1, <2>2 DEF MediaTypes, GalleryInv
  <2>4. CoverInv'
    BY <1>0, <1>g, <2>1 DEF CoverInv, Covers
  <2>5. RecordInv'
    BY <1>0, <1>g, <2>1 DEF RecordInv, Holds
  <2> QED BY <1>0, <2>1, <2>3, <2>4, <2>5 DEF MediaInd
<1> QED BY <1>1, <1>2, <1>3, <1>4, <1>5, <1>6, <1>7, <1>8, <1>9, <1>10, <1>11, <1>12, <1>13 DEF MediaNext

\* _sync_media_unlocked: however late Shopify lists an upload and whatever the
\* merchant deletes, no file is on the product twice, unless an upload was torn
\* from its record.
THEOREM OneCopyOfEach == MediaSpec => []OneCopyEach
<1>1. MediaInd => OneCopyEach
  BY MediaIs
<1> QED BY <1>1, MediaStarts, MediaStep, PTL DEF MediaSpec

\* _record_owned and forget: media the app made stay in app_media until Shopify
\* says they are gone, but for those it could not process and would not delete.
THEOREM OursStayRecorded == MediaSpec => []OursAreRecorded
<1>1. MediaInd => OursAreRecorded
  BY MediaIs
<1> QED BY <1>1, MediaStarts, MediaStep, PTL DEF MediaSpec

------------------------------------------------------------------------------
(* Stock levels.                                                              *)

Sending == {"send", "read", "uncompared", "compared"}
Figures == UNION {[K -> Int] : K \in SUBSET Keys}
Seens == UNION {[K -> Int \cup {NoLevel}] : K \in SUBSET Keys}
Pushes == [pc : {"claimed"} \cup Sending, rows : SUBSET Keys, quantity : Figures, seen : Seens, again : BOOLEAN]
Looks == [pc : {"looking"}, key : Keys, queue : BOOLEAN]

StockTypes ==
    /\ actual \in [Shelves -> Int] /\ reserved \in [Shelves -> Nat]
    /\ off \subseteq Keys /\ mapped \subseteq Keys
    /\ level \in [Keys -> Int \cup {NoLevel}] /\ carts \in [Keys -> Nat]
    /\ pending \in [Keys -> {"none", "due", "held"}]
    /\ push = NoPush \/ push \in Pushes
    /\ told \subseteq Keys \X Int
    /\ look = NoLook \/ look \in Looks
    /\ verify \in BOOLEAN /\ unsaid \subseteq Keys /\ moves \in 0..MaxMoves

\* The keys a row has spoken for.
Spoken == mapped \ unsaid

\* Such a key stays unless it leaves with a row queued.
StillUnsaid == \A k \in Keys : k \in unsaid /\ pending'[k] = "none" => k \in unsaid'

PushInv ==
    /\ push.pc \in Sending => push.quantity \in [push.rows -> Int]
    /\ push.pc \in {"uncompared", "compared"} => push.seen \in [push.rows -> Int \cup {NoLevel}]

\* A figure in hand is the one of now, unless a row has been queued since.
QuantityInv ==
    push.pc \in Sending =>
        \A k \in Spoken \cap push.rows : pending[k] = "none" => push.quantity[k] = available_for_location(k)

\* What the push in hand still has to send.
Unsent == IF push.pc = "compared" THEN push.rows \ uncompared ELSE push.rows

Noticed(k) == \/ <<k, level[k]>> \in told
              \/ look.pc = "looking" /\ look.key = k /\ look.queue

LevelInv ==
    \A k \in Spoken \ Unsent :
        (pending[k] = "none" /\ carts[k] = 0) => (level[k] = available_for_location(k) \/ Noticed(k))

StockInd == StockTypes /\ PushInv /\ QuantityInv /\ LevelInv

\* What a key's shelves hold, as a sum.
LEMMA SumIsOf == \A f : Sum(f) = SumOf(f, DOMAIN f)
BY DEF Sum, SumOf

\* Rounding down.
LEMMA RoundedDown == \A x \in Int : x \div Parts \in Int /\ Parts * (x \div Parts) <= x
BY StockAssumption

\* What is available is a number.
LEMMA AvailableIs == StockTypes => \A k \in Keys : available_for_location(k) \in Int
<1> SUFFICES ASSUME StockTypes, NEW k \in Keys PROVE available_for_location(k) \in Int
  OBVIOUS
<1> DEFINE f == [s \in shelves_of(k) |-> available_quantity(s)]
<1>1. IsFiniteSet(shelves_of(k)) /\ shelves_of(k) \subseteq Shelves
  BY StockAssumption, FS_Subset DEF shelves_of
<1>2. \A s \in Shelves : actual[s] - reserved[s] \in Int
  BY DEF StockTypes
<1>3. \A s \in shelves_of(k) : f[s] \in Int
  BY <1>1, <1>2, RoundedDown DEF available_quantity
<1>4. DOMAIN f = shelves_of(k)
  OBVIOUS
<1>5. available_for_location(k) = IF k \in off THEN 0 ELSE Sum(f)
  BY DEF available_for_location
<1> HIDE DEF f
<1>6. Sum(f) \in Int
  BY <1>1, <1>3, <1>4, SumIsOf, SumType
<1> QED BY <1>5, <1>6

\* What is available for a key depends on its own shelves and its own Item.
LEMMA AvailableSame ==
  ASSUME NEW k \in Keys, (k \in off)' <=> k \in off,
         \A s \in shelves_of(k) : actual'[s] = actual[s] /\ reserved'[s] = reserved[s]
  PROVE  available_for_location(k)' = available_for_location(k)
<1> DEFINE f == [s \in shelves_of(k) |-> available_quantity(s)]
           g == [s \in shelves_of(k) |-> (actual'[s] - reserved'[s]) \div Parts]
<1>1. f = g
  BY DEF available_quantity
<1>2. available_for_location(k) = IF k \in off THEN 0 ELSE Sum(f)
  BY DEF available_for_location
<1>3. available_for_location(k)' = IF k \in off' THEN 0 ELSE Sum(g)
  BY DEF available_for_location, shelves_of, available_quantity
<1> QED BY <1>1, <1>2, <1>3

\* A push in hand has its record; otherwise its fields are empty.
LEMMA PushIs == StockTypes => /\ push # NoPush => push \in Pushes
                              /\ push.pc = "idle" <=> push = NoPush
                              /\ push.rows \subseteq Keys
                              /\ push.pc \in {"idle", "claimed", "send", "read", "uncompared", "compared"}
                              /\ uncompared \subseteq push.rows
<1>1. NoPush.pc = "idle" /\ NoPush.rows = {}
  BY DEF NoPush
<1>2. \A p \in Pushes : p.pc \in {"claimed", "send", "read", "uncompared", "compared"} /\ p.rows \subseteq Keys
  BY DEF Pushes, Sending
<1> QED BY <1>1, <1>2 DEF StockTypes, uncompared

\* So has a drift check.
LEMMA LookIs == StockTypes => /\ look.pc \in {"idle", "looking"}
                              /\ look.pc = "looking" => look \in Looks
<1>1. NoLook.pc = "idle" /\ \A l \in Looks : l.pc = "looking"
  BY DEF NoLook, Looks
<1> QED BY <1>1 DEF StockTypes

\* What the invariant says of the part's own properties.
LEMMA StockIs == StockInd => StockTypeOK /\ SettledIsEqual
<1> SUFFICES ASSUME StockInd PROVE StockTypeOK /\ SettledIsEqual
  OBVIOUS
<1>1. StockTypes
  BY DEF StockInd
<1>2. StockTypeOK
  BY <1>1, PushIs, LookIs DEF StockTypes, StockTypeOK
<1>3. ASSUME NEW k \in Keys, Settled(k) PROVE level[k] = available_for_location(k)
  <2>1. k \in Spoken \ Unsent /\ pending[k] = "none" /\ carts[k] = 0
    BY <1>3 DEF Settled, Unsent, Spoken
  <2>2. ~Noticed(k)
    <3>1. \A n : <<k, n>> \notin told
      <4> SUFFICES ASSUME NEW n, <<k, n>> \in told PROVE FALSE
        OBVIOUS
      <4>1. \A t \in told : t[1] # k
        BY <1>3 DEF Settled
      <4>2. <<k, n>>[1] # k
        BY <4>1
      <4> QED BY <4>2
    <3> QED BY <1>3, <3>1 DEF Settled, Noticed
  <2> QED BY <2>1, <2>2 DEF StockInd, LevelInv
<1> QED BY <1>2, <1>3 DEF SettledIsEqual

\* What is equal to what is available is on the shelves.
LEMMA EqualIsBacked == StockTypes /\ SettledIsEqual => NeverOversells
<1> SUFFICES ASSUME StockTypes, SettledIsEqual, NEW k \in Keys, Settled(k)
             PROVE  /\ k \in off => level[k] = 0
                    /\ k \notin off => Parts * level[k] <= Sum([s \in shelves_of(k) |-> actual[s] - reserved[s]])
  BY DEF NeverOversells
<1> DEFINE f == [s \in shelves_of(k) |-> available_quantity(s)]
           g == [s \in shelves_of(k) |-> actual[s] - reserved[s]]
           h == [s \in shelves_of(k) |-> Parts * f[s]]
<1>1. IsFiniteSet(shelves_of(k)) /\ shelves_of(k) \subseteq Shelves
  BY StockAssumption, FS_Subset DEF shelves_of
<1>2. level[k] = IF k \in off THEN 0 ELSE Sum(f)
  BY DEF SettledIsEqual, available_for_location
<1>3. \A s \in Shelves : actual[s] - reserved[s] \in Int
  BY DEF StockTypes
<1>4. \A s \in shelves_of(k) : /\ f[s] \in Int /\ g[s] \in Int /\ h[s] = Parts * f[s] /\ h[s] <= g[s]
  BY <1>1, <1>3, RoundedDown DEF available_quantity
<1>5. DOMAIN f = shelves_of(k) /\ DOMAIN g = shelves_of(k) /\ DOMAIN h = shelves_of(k)
  OBVIOUS
<1>6. Parts \in Int
  BY StockAssumption
<1> HIDE DEF f, g, h
<1>7. \A s \in shelves_of(k) : h[s] \in Int
  BY <1>4, <1>6
<1>8. Sum(h) = Parts * Sum(f)
  BY <1>1, <1>4, <1>5, <1>6, SumIsOf, SumTimes
<1>9. Sum(h) <= Sum(g)
  BY <1>1, <1>4, <1>5, <1>7, SumIsOf, SumOrder
<1>10. Sum([s \in shelves_of(k) |-> actual[s] - reserved[s]]) = Sum(g)
  BY DEF g
<1> QED BY <1>2, <1>8, <1>9, <1>10

\* The invariant holds at the start.
LEMMA StockStarts == StockInit => StockInd
<1> SUFFICES ASSUME StockInit PROVE StockInd
  OBVIOUS
<1>1. StockTypes
  <2>1. Parts \in Int /\ 0 \in 0..MaxMoves /\ Before \subseteq Int \cup {NoLevel}
    BY StockAssumption
  <2> QED BY <2>1 DEF StockInit, StockTypes
<1>2. push.pc = "idle" /\ Spoken = {}
  BY DEF StockInit, NoPush, Spoken
<1> QED BY <1>1, <1>2 DEF StockInd, PushInv, QuantityInv, LevelInv, Sending

\* What only queues rows, and queues one for every key whose stock it moves,
\* keeps what the figures and the levels promise.
LEMMA QueuesKeep ==
  ASSUME StockInd, StockTypes', UNCHANGED <<push, level, told, look>>,
         \A k \in Spoken' : pending'[k] = "none" =>
             /\ k \in Spoken /\ pending[k] = "none"
             /\ available_for_location(k)' = available_for_location(k)
             /\ carts'[k] = 0 => carts[k] = 0
  PROVE  StockInd'
<1> USE DEF StockInd
<1>1. PushInv'
  BY DEF PushInv
<1>2. QuantityInv'
  BY DEF QuantityInv
<1>3. Unsent' = Unsent
  BY DEF Unsent, uncompared
<1>4. \A k : Noticed(k)' <=> Noticed(k)
  BY DEF Noticed
<1>5. LevelInv'
  <2> SUFFICES ASSUME NEW k \in Spoken' \ Unsent', pending'[k] = "none", carts'[k] = 0
               PROVE  level'[k] = available_for_location(k)' \/ Noticed(k)'
    BY DEF LevelInv
  <2>1. k \in Spoken \ Unsent /\ pending[k] = "none" /\ carts[k] = 0
    BY <1>3
  <2>2. level[k] = available_for_location(k) \/ Noticed(k)
    BY <2>1 DEF LevelInv
  <2> QED BY <1>4, <2>2
<1> QED BY <1>1, <1>2, <1>5

\* What queueing a row leaves of it.
LEMMA QueuedIs ==
  ASSUME StockTypes, NEW K
  PROVE  /\ enqueue_sync(K) \in [Keys -> {"none", "due", "held"}]
         /\ \A k \in Keys : enqueue_sync(K)[k] = "none" => pending[k] = "none" /\ k \notin K
<1>1. \A k \in Keys : enqueue_sync(K)[k] = IF k \in K /\ pending[k] = "none" THEN "due" ELSE pending[k]
  BY DEF enqueue_sync
<1>2. pending \in [Keys -> {"none", "due", "held"}]
  BY DEF StockTypes
<1> QED BY <1>1, <1>2 DEF enqueue_sync

\* What is left unsaid by a step.
LEMMA LeftIs ==
  ASSUME StockTypes, NEW L \in SUBSET Keys, Left(L)
  PROVE  /\ StillUnsaid /\ unsaid' \subseteq Keys
         /\ \A k \in L : pending'[k] = "none" => k \in unsaid'
BY DEF StockTypes, Left, StillUnsaid

\* A key that nothing is queued for and that is spoken for was so before.
LEMMA SpokenWas ==
  ASSUME StockTypes, mapped' = mapped, StillUnsaid, NEW k \in Spoken', pending'[k] = "none"
  PROVE  k \in Spoken /\ k \in Keys
BY DEF StockTypes, Spoken, StillUnsaid

\* A change of a key's stock, if it is listed, is a row for it.
LEMMA MovesKeep ==
  ASSUME StockInd, NEW k \in Keys, enqueue_for_item(k), UNCHANGED <<mapped, level, push, told, look>>,
         actual' \in [Shelves -> Int], reserved' \in [Shelves -> Nat], off' \subseteq Keys,
         carts' \in [Keys -> Nat], verify' = verify, moves' \in 0..MaxMoves,
         \A s \in Shelves : Feeds[s] # k => actual'[s] = actual[s] /\ reserved'[s] = reserved[s],
         \A j \in Keys \ {k} : (j \in off' <=> j \in off) /\ carts'[j] = carts[j]
  PROVE  StockInd'
<1>0. StockTypes
  BY DEF StockInd
<1>1. pending' = enqueue_sync({k} \cap mapped) /\ Left({})
  BY DEF enqueue_for_item
<1>4. StillUnsaid /\ unsaid' \subseteq Keys
  BY <1>0, <1>1, LeftIs
<1>2. StockTypes'
  BY <1>0, <1>1, <1>4, QueuedIs DEF StockTypes
<1>3. ASSUME NEW j \in Spoken', pending'[j] = "none"
      PROVE  /\ j \in Spoken /\ pending[j] = "none"
             /\ available_for_location(j)' = available_for_location(j)
             /\ carts'[j] = 0 => carts[j] = 0
  <2>1. j \in Spoken /\ j \in mapped /\ j \in Keys
    BY <1>0, <1>3, <1>4, SpokenWas DEF Spoken
  <2>2. pending[j] = "none" /\ j # k
    BY <1>0, <1>1, <1>3, <2>1, QueuedIs
  <2>3. \A s \in shelves_of(j) : actual'[s] = actual[s] /\ reserved'[s] = reserved[s]
    BY <2>2 DEF shelves_of
  <2>4. available_for_location(j)' = available_for_location(j)
    BY <2>1, <2>2, <2>3, AvailableSame
  <2> QED BY <2>1, <2>2, <2>4
<1> QED BY <1>2, <1>3, QueuesKeep

\* The bound on the moves is kept.
LEMMA MovedIs == StockTypes /\ Moved => moves' \in 0..MaxMoves
<1>1. \A m \in 0..MaxMoves : m < MaxMoves => m + 1 \in 0..MaxMoves
  BY StockAssumption
<1> QED BY <1>1 DEF StockTypes, Moved

\* Stock moves on a shelf.
LEMMA StepMovement == ASSUME StockInd, NEW s \in Shelves, NEW d \in {-1, Parts}, on_stock_movement(s, d) PROVE StockInd'
<1>1. Feeds[s] \in Keys /\ d \in Int
  BY StockAssumption
<1>2. actual \in [Shelves -> Int] /\ reserved \in [Shelves -> Nat] /\ off \subseteq Keys /\ carts \in [Keys -> Nat]
  BY DEF StockInd, StockTypes
<1>3. actual' = [actual EXCEPT ![s] = @ + d] /\ enqueue_for_item(Feeds[s]) /\ moves' \in 0..MaxMoves
  BY MovedIs DEF StockInd, on_stock_movement
<1>4. UNCHANGED <<mapped, level, push, told, look, reserved, off, carts, verify>>
  BY DEF on_stock_movement
<1>5. actual' \in [Shelves -> Int]
  BY <1>1, <1>2, <1>3
<1>6. \A x \in Shelves : Feeds[x] # Feeds[s] => actual'[x] = actual[x] /\ reserved'[x] = reserved[x]
  BY <1>2, <1>3, <1>4
<1> QED BY <1>1, <1>2, <1>3, <1>4, <1>5, <1>6, MovesKeep

\* An order reserves or releases.
LEMMA StepReservation == ASSUME StockInd, NEW s \in Shelves, NEW d \in {-1, 1}, on_reservation_change(s, d) PROVE StockInd'
<1>1. Feeds[s] \in Keys /\ d \in Int
  BY StockAssumption
<1>2. actual \in [Shelves -> Int] /\ reserved \in [Shelves -> Nat] /\ off \subseteq Keys /\ carts \in [Keys -> Nat]
  BY DEF StockInd, StockTypes
<1>3. /\ reserved' = [reserved EXCEPT ![s] = @ + d] /\ reserved'[s] >= 0
      /\ enqueue_for_item(Feeds[s]) /\ moves' \in 0..MaxMoves
  BY MovedIs DEF StockInd, on_reservation_change
<1>4. UNCHANGED <<mapped, level, push, told, look, actual, off, carts, verify>>
  BY DEF on_reservation_change
<1>5. reserved' \in [Shelves -> Nat]
  <2>1. reserved'[s] = reserved[s] + d /\ reserved[s] \in Nat
    BY <1>2, <1>3
  <2>2. reserved'[s] \in Nat
    BY <1>1, <1>3, <2>1
  <2>3. reserved' = [reserved EXCEPT ![s] = reserved'[s]]
    BY <1>2, <1>3
  <2> QED BY <1>2, <2>2, <2>3
<1>6. \A x \in Shelves : Feeds[x] # Feeds[s] => actual'[x] = actual[x] /\ reserved'[x] = reserved[x]
  BY <1>2, <1>3, <1>4
<1> QED BY <1>1, <1>2, <1>3, <1>4, <1>5, <1>6, MovesKeep

\* A mapping is switched off.
LEMMA StepDisable == ASSUME StockInd, NEW k \in Keys, Disable(k) PROVE StockInd'
<1>1. actual \in [Shelves -> Int] /\ reserved \in [Shelves -> Nat] /\ off \subseteq Keys /\ carts \in [Keys -> Nat]
  BY DEF StockInd, StockTypes
<1>2. enqueue_for_item(k) /\ moves' \in 0..MaxMoves /\ off' = (off \ {k}) \cup ({k} \ off)
  BY MovedIs DEF StockInd, Disable
<1>3. UNCHANGED <<mapped, level, push, told, look, actual, reserved, carts, verify>>
  BY DEF Disable
<1> QED BY <1>1, <1>2, <1>3, MovesKeep

\* A mapping is made.
LEMMA StepImport == ASSUME StockInd, NEW k \in Keys, NEW s \in Shelves, Import(k, s) PROVE StockInd'
<1>1. actual \in [Shelves -> Int] /\ reserved \in [Shelves -> Nat] /\ off \subseteq Keys /\ carts \in [Keys -> Nat]
      /\ moves \in 0..MaxMoves
  BY DEF StockInd, StockTypes
<1>2. Parts \in Nat /\ Feeds[s] = k /\ carts[k] > 0
  BY StockAssumption DEF Import, shelves_of
<1>3. /\ carts' = [carts EXCEPT ![k] = @ - 1] /\ reserved' = [reserved EXCEPT ![s] = @ + Parts]
      /\ enqueue_for_item(k)
  BY DEF Import
<1>4. UNCHANGED <<mapped, level, push, told, look, actual, off, verify, moves>>
  BY DEF Import
<1>5. carts' \in [Keys -> Nat] /\ \A j \in Keys \ {k} : carts'[j] = carts[j]
  <2>1. carts[k] - 1 \in Nat
    BY <1>1, <1>2
  <2> QED BY <1>1, <1>3, <2>1
<1>6. reserved' \in [Shelves -> Nat]
  BY <1>1, <1>2, <1>3
<1>7. \A x \in Shelves : Feeds[x] # k => actual'[x] = actual[x] /\ reserved'[x] = reserved[x]
  BY <1>1, <1>2, <1>3, <1>4
<1> QED BY <1>1, <1>3, <1>4, <1>5, <1>6, <1>7, MovesKeep

\* What leaves stock and orders alone leaves what is available alone.
LEMMA StillAvailable ==
  ASSUME StockTypes, UNCHANGED <<actual, reserved, off>>
  PROVE  \A k \in Keys : available_for_location(k)' = available_for_location(k)
BY AvailableSame

\* Rows that are only added, brought forward or put back.
LEMMA RowsKeep ==
  ASSUME StockInd, UNCHANGED <<actual, reserved, off, carts, verify, push, level, told, look>>,
         moves' \in 0..MaxMoves, mapped' \subseteq Keys, pending' \in [Keys -> {"none", "due", "held"}],
         unsaid' \subseteq Keys, \A k \in Spoken' : pending'[k] = "none" => k \in Spoken /\ pending[k] = "none"
  PROVE  StockInd'
<1>1. StockTypes /\ StockTypes'
  BY DEF StockInd, StockTypes
<1>2. \A k \in Spoken' : k \in Keys /\ available_for_location(k)' = available_for_location(k)
  BY <1>1, StillAvailable DEF Spoken
<1> QED BY <1>1, <1>2, QueuesKeep

\* A product is linked: its key is spoken for only if a row is queued.
LEMMA StepOpen == ASSUME StockInd, NEW k \in Keys, Open(k) PROVE StockInd'
<1>1. StockTypes
  BY DEF StockInd
<1>2. mapped' = mapped \cup {k} /\ (pending' = enqueue_sync({k}) \/ pending' = pending) /\ Left({k})
  BY DEF Open
<1>3. mapped' \subseteq Keys /\ moves' \in 0..MaxMoves
  BY <1>1, <1>2 DEF StockTypes, Open
<1>4. pending' \in [Keys -> {"none", "due", "held"}]
      /\ \A j \in Keys : pending'[j] = "none" => pending[j] = "none"
  BY <1>1, <1>2, QueuedIs DEF StockTypes
<1>5. UNCHANGED <<actual, reserved, off, carts, verify, push, level, told, look>>
  BY DEF Open
<1>6. StillUnsaid /\ unsaid' \subseteq Keys /\ (pending'[k] = "none" => k \in unsaid')
  BY <1>1, <1>2, LeftIs
<1>7. \A j \in Spoken' : pending'[j] = "none" => j \in Spoken /\ pending[j] = "none"
  BY <1>2, <1>3, <1>4, <1>6 DEF Spoken, StillUnsaid
<1> QED BY <1>3, <1>4, <1>5, <1>6, <1>7, RowsKeep

\* A row's wait ends.
LEMMA StepDue == ASSUME StockInd, NEW k \in Keys, Due(k) PROVE StockInd'
<1>1. StockTypes
  BY DEF StockInd
<1>2. pending' \in [Keys -> {"none", "due", "held"}] /\ mapped' \subseteq Keys /\ moves' \in 0..MaxMoves
  BY <1>1 DEF StockTypes, Due
<1>3. unsaid' \subseteq Keys /\ \A j \in Spoken' : pending'[j] = "none" => j \in Spoken /\ pending[j] = "none"
  BY <1>1 DEF StockTypes, Due, Spoken
<1>4. UNCHANGED <<actual, reserved, off, carts, verify, push, level, told, look>>
  BY DEF Due
<1> QED BY <1>2, <1>3, <1>4, RowsKeep

\* The nightly pass queues what it finds.
LEMMA StepAudit == ASSUME StockInd, reconcile_opens \/ reconcile_inventory PROVE StockInd'
<1>1. StockTypes
  BY DEF StockInd
<1>2. UNCHANGED <<actual, reserved, off, carts, verify, push, level, told, look, mapped>>
  BY DEF reconcile_opens, reconcile_inventory
<1>3. mapped' \subseteq Keys
  BY <1>1, <1>2 DEF StockTypes
<1>4. moves' \in 0..MaxMoves
  BY <1>1, MovedIs DEF StockTypes, reconcile_opens, reconcile_inventory
<1>5. pending' \in [Keys -> {"none", "due", "held"}] /\ \A k \in Keys : pending'[k] = "none" => pending[k] = "none"
  <2>1. CASE reconcile_opens
    BY <1>1, <2>1 DEF StockTypes, reconcile_opens
  <2>2. CASE reconcile_inventory
    BY <1>1, <2>2, QueuedIs DEF reconcile_inventory
  <2> QED BY <2>1, <2>2
<1>6. StillUnsaid /\ unsaid' \subseteq Keys
  <2>1. CASE reconcile_opens
    BY <1>1, <2>1 DEF StockTypes, StillUnsaid, reconcile_opens
  <2>2. CASE reconcile_inventory
    BY <1>1, <2>2, LeftIs DEF reconcile_inventory
  <2> QED BY <2>1, <2>2
<1>7. \A k \in Spoken' : pending'[k] = "none" => k \in Spoken /\ pending[k] = "none"
  BY <1>1, <1>2, <1>5, <1>6, SpokenWas
<1> QED BY <1>2, <1>3, <1>4, <1>5, <1>6, <1>7, RowsKeep

\* What a push writes on Shopify.
LEMMA SetLevelsIs ==
  ASSUME StockTypes, NEW K \in SUBSET Keys, NEW new \in [K -> Int], SetLevels(new)
  PROVE  /\ level' \in [Keys -> Int \cup {NoLevel}] /\ told' \subseteq Keys \X Int /\ told \subseteq told'
         /\ \A k \in K : level'[k] = new[k]
         /\ \A k \in Keys \ K : level'[k] = level[k]
         /\ \A k \in Keys : level'[k] = level[k] \/ <<k, level'[k]>> \in told'
<1>1. DOMAIN new = K /\ \A k \in K : new[k] \in Int
  OBVIOUS
<1>2. level \in [Keys -> Int \cup {NoLevel}] /\ told \subseteq Keys \X Int
  BY DEF StockTypes
<1>3. \A k \in Keys : level'[k] = IF k \in K THEN new[k] ELSE level[k]
  BY <1>1 DEF SetLevels
<1>4. level' = [k \in Keys |-> IF k \in K THEN new[k] ELSE level[k]]
  BY <1>1 DEF SetLevels
<1>5. told' = told \cup {<<k, new[k]>> : k \in {k \in K : new[k] # level[k]}}
  BY <1>1 DEF SetLevels
<1>6. level' \in [Keys -> Int \cup {NoLevel}]
  BY <1>1, <1>2, <1>4
<1>7. told' \subseteq Keys \X Int
  BY <1>1, <1>2, <1>5
<1>8. ASSUME NEW k \in Keys, level'[k] # level[k] PROVE <<k, level'[k]>> \in told'
  <2>1. k \in K /\ level'[k] = new[k]
    BY <1>3, <1>8
  <2> QED BY <1>5, <1>8, <2>1
<1> QED BY <1>3, <1>5, <1>6, <1>7, <1>8

\* A level somebody else moves is told.
LEMMA TouchesKeep ==
  ASSUME StockInd, NEW k \in Keys, NEW n \in Int, SetLevels([x \in {k} |-> n]), Moved,
         UNCHANGED <<actual, reserved, off, mapped, pending, push, look, verify, unsaid>>,
         carts' \in [Keys -> Nat], \A j \in Keys : carts'[j] = 0 => carts[j] = 0
  PROVE  StockInd'
<1>0. StockTypes
  BY DEF StockInd
<1> DEFINE new == [x \in {k} |-> n]
<1>1. {k} \in SUBSET Keys /\ new \in [{k} -> Int] /\ SetLevels(new)
  OBVIOUS
<1> HIDE DEF new
<1>2. /\ level' \in [Keys -> Int \cup {NoLevel}] /\ told' \subseteq Keys \X Int /\ told \subseteq told'
      /\ \A j \in Keys : level'[j] = level[j] \/ <<j, level'[j]>> \in told'
  BY <1>0, <1>1, SetLevelsIs
<1>3. StockTypes'
  BY <1>0, <1>2, MovedIs DEF StockTypes
<1>4. PushInv'
  BY DEF StockInd, PushInv
<1>5. \A j \in Keys : available_for_location(j)' = available_for_location(j)
  BY <1>0, StillAvailable
<1>6. mapped \subseteq Keys
  BY <1>0 DEF StockTypes
<1>7. QuantityInv'
  BY <1>5, <1>6 DEF StockInd, QuantityInv, Spoken
<1>8. Unsent' = Unsent
  BY DEF Unsent, uncompared
<1>9. LevelInv'
  <2> SUFFICES ASSUME NEW j \in Spoken' \ Unsent', pending'[j] = "none", carts'[j] = 0
               PROVE  level'[j] = available_for_location(j)' \/ Noticed(j)'
    BY DEF LevelInv
  <2>1. j \in Spoken \ Unsent /\ j \in Keys /\ pending[j] = "none" /\ carts[j] = 0
    BY <1>6, <1>8 DEF Spoken
  <2>2. level[j] = available_for_location(j) \/ Noticed(j)
    BY <2>1 DEF StockInd, LevelInv
  <2>3. CASE level'[j] = level[j]
    <3>1. Noticed(j) => Noticed(j)'
      BY <1>2, <2>3 DEF Noticed
    <3> QED BY <1>5, <2>1, <2>2, <2>3, <3>1
  <2>4. CASE <<j, level'[j]>> \in told'
    BY <2>4 DEF Noticed
  <2> QED BY <1>2, <2>1, <2>3, <2>4
<1> QED BY <1>3, <1>4, <1>7, <1>9 DEF StockInd

\* A shopper's order takes of the level.
LEMMA StepCheckout == ASSUME StockInd, NEW k \in Keys, Checkout(k) PROVE StockInd'
<1>1. level \in [Keys -> Int \cup {NoLevel}] /\ carts \in [Keys -> Nat]
  BY DEF StockInd, StockTypes
<1> DEFINE n == level[k] - 1
<1>2. n \in Int
  BY <1>1 DEF Checkout
<1>3. [x \in {k} |-> level[x] - 1] = [x \in {k} |-> n]
  OBVIOUS
<1> HIDE DEF n
<1>4. SetLevels([x \in {k} |-> n]) /\ Moved
  BY <1>3 DEF Checkout
<1>5. carts' = [carts EXCEPT ![k] = @ + 1]
  BY DEF Checkout
<1>6. carts' \in [Keys -> Nat]
  BY <1>1, <1>5
<1>7. \A j \in Keys : carts'[j] = 0 => carts[j] = 0
  BY <1>1, <1>5
<1>8. UNCHANGED <<actual, reserved, off, mapped, pending, push, look, verify, unsaid>>
  BY DEF Checkout
<1> QED BY <1>2, <1>4, <1>6, <1>7, <1>8, TouchesKeep

\* The merchant edits the level.
LEMMA StepAdjust == ASSUME StockInd, NEW k \in Keys, AdjustLevel(k, 0) PROVE StockInd'
<1>1. carts' \in [Keys -> Nat] /\ \A j \in Keys : carts'[j] = 0 => carts[j] = 0
  BY DEF StockInd, StockTypes, AdjustLevel
<1>2. SetLevels([x \in {k} |-> 0]) /\ Moved
      /\ UNCHANGED <<actual, reserved, off, mapped, pending, push, look, verify, unsaid>>
  BY DEF AdjustLevel
<1>3. 0 \in Int
  OBVIOUS
<1> QED BY <1>1, <1>2, <1>3, TouchesKeep

\* The push that starts, or reads, changes nothing on either side.
LEMMA FiguresIs == \A K \in SUBSET Keys : /\ [K -> Int] \subseteq Figures
                                          /\ [K -> Int \cup {NoLevel}] \subseteq Seens
BY DEF Figures, Seens

\* A batch is claimed.
LEMMA StepClaim == ASSUME StockInd, Claim PROVE StockInd'
<1>0. StockTypes
  BY DEF StockInd
<1> DEFINE due == {k \in Keys : pending[k] = "due"}
<1>1. push = NoPush /\ push' = [NoPush EXCEPT !.pc = "claimed", !.rows = due]
  BY DEF Claim
<1>2. push' = [pc |-> "claimed", rows |-> due, quantity |-> <<>>, seen |-> <<>>, again |-> FALSE]
  BY <1>1 DEF NoPush
<1>3. UNCHANGED <<actual, reserved, off, mapped, level, carts, told, look, verify, unsaid, moves>>
  BY DEF Claim
<1>4. pending' = [k \in Keys |-> IF pending[k] = "due" THEN "none" ELSE pending[k]]
  BY DEF Claim
<1>5. push' \in Pushes
  <2>1. <<>> \in [{} -> Int] /\ <<>> \in [{} -> Int \cup {NoLevel}]
    OBVIOUS
  <2>2. <<>> \in Figures /\ <<>> \in Seens
    BY <2>1, FiguresIs
  <2> QED BY <1>2, <2>2 DEF Pushes
<1>6. pending' \in [Keys -> {"none", "due", "held"}]
  BY <1>0, <1>4 DEF StockTypes
<1>7. StockTypes'
  BY <1>0, <1>3, <1>5, <1>6 DEF StockTypes
<1>8. push'.pc = "claimed" /\ push'.rows = due
  BY <1>2
<1>9. PushInv' /\ QuantityInv'
  BY <1>8 DEF PushInv, QuantityInv, Sending
<1>10. LevelInv'
  <2> SUFFICES ASSUME NEW k \in Spoken' \ Unsent', pending'[k] = "none", carts'[k] = 0
               PROVE  level'[k] = available_for_location(k)' \/ Noticed(k)'
    BY DEF LevelInv
  <2>1. k \in Spoken /\ k \in Keys /\ k \notin due /\ carts[k] = 0
    BY <1>0, <1>3, <1>8 DEF StockTypes, Unsent, Spoken
  <2>2. pending[k] = "none"
    BY <1>4, <2>1
  <2>3. Unsent = {}
    BY <1>1 DEF Unsent, NoPush
  <2>4. level[k] = available_for_location(k) \/ Noticed(k)
    BY <2>1, <2>2, <2>3 DEF StockInd, LevelInv
  <2>5. available_for_location(k)' = available_for_location(k)
    BY <1>0, <1>3, <2>1, StillAvailable
  <2>6. Noticed(k)' <=> Noticed(k)
    BY <1>3 DEF Noticed
  <2> QED BY <1>3, <2>4, <2>5, <2>6
<1> QED BY <1>7, <1>9, <1>10 DEF StockInd

\* Its figures are computed.
LEMMA StepResolve == ASSUME StockInd, resolve_targets PROVE StockInd'
<1>0. StockTypes
  BY DEF StockInd
<1> DEFINE figure == [k \in push.rows |-> available_for_location(k)]
           pc == IF verify THEN "read" ELSE "send"
<1>1. push.pc = "claimed" /\ push' = [push EXCEPT !.pc = pc, !.quantity = figure]
  BY DEF resolve_targets
<1>2. UNCHANGED <<actual, reserved, off, mapped, level, carts, pending, told, look, verify, unsaid, moves>>
  BY DEF resolve_targets
<1>3. push \in Pushes /\ push.rows \subseteq Keys /\ mapped \subseteq Keys
  BY <1>0, <1>1, PushIs DEF StockTypes
<1>4. figure \in [push.rows -> Int]
  BY <1>0, <1>3, AvailableIs
<1>5. figure \in Figures /\ pc \in {"read", "send"}
  BY <1>3, <1>4, FiguresIs
<1> HIDE DEF figure, pc
<1>6. push' \in Pushes
  BY <1>1, <1>3, <1>5 DEF Pushes, Sending
<1>7. push'.pc = pc /\ push'.rows = push.rows /\ push'.quantity = figure
  BY <1>1, <1>3 DEF Pushes
<1>8. StockTypes'
  BY <1>0, <1>2, <1>6 DEF StockTypes
<1>9. PushInv'
  BY <1>4, <1>5, <1>7 DEF PushInv
<1>10. \A k \in Keys : available_for_location(k)' = available_for_location(k)
  BY <1>0, <1>2, StillAvailable
<1>11. QuantityInv'
  <2>1. \A k \in push.rows : figure[k] = available_for_location(k)
    BY DEF figure
  <2> QED BY <1>2, <1>3, <1>7, <1>10, <2>1 DEF QuantityInv, Spoken
<1>12. Unsent' = push.rows /\ Unsent = push.rows
  BY <1>1, <1>5, <1>7 DEF Unsent
<1>13. LevelInv'
  BY <1>2, <1>3, <1>10, <1>12 DEF StockInd, LevelInv, Noticed, Spoken
<1> QED BY <1>8, <1>9, <1>11, <1>13 DEF StockInd

\* The levels that it will compare with are read.
LEMMA StepCurrent == ASSUME StockInd, current_levels PROVE StockInd'
<1>0. StockTypes
  BY DEF StockInd
<1> DEFINE seen == [k \in push.rows |-> level[k]]
<1>1. push.pc = "read" /\ push' = [push EXCEPT !.pc = "uncompared", !.seen = seen]
  BY DEF current_levels
<1>2. UNCHANGED <<actual, reserved, off, mapped, level, carts, pending, told, look, verify, unsaid, moves>>
  BY DEF current_levels
<1>3. push \in Pushes /\ push.rows \subseteq Keys /\ mapped \subseteq Keys
  BY <1>0, <1>1, PushIs DEF StockTypes
<1>4. seen \in [push.rows -> Int \cup {NoLevel}]
  BY <1>0, <1>3 DEF StockTypes
<1>5. seen \in Seens
  BY <1>3, <1>4, FiguresIs
<1> HIDE DEF seen
<1>6. push' \in Pushes
  BY <1>1, <1>3, <1>5 DEF Pushes, Sending
<1>7. push'.pc = "uncompared" /\ push'.rows = push.rows /\ push'.quantity = push.quantity /\ push'.seen = seen
  BY <1>1, <1>3 DEF Pushes
<1>8. StockTypes'
  BY <1>0, <1>2, <1>6 DEF StockTypes
<1>9. PushInv'
  BY <1>1, <1>4, <1>7 DEF StockInd, PushInv, Sending
<1>10. \A k \in Keys : available_for_location(k)' = available_for_location(k)
  BY <1>0, <1>2, StillAvailable
<1>11. QuantityInv'
  BY <1>1, <1>2, <1>3, <1>7, <1>10 DEF StockInd, QuantityInv, Sending, Spoken
<1>12. Unsent' = push.rows /\ Unsent = push.rows
  BY <1>1, <1>7 DEF Unsent
<1>13. LevelInv'
  BY <1>2, <1>3, <1>10, <1>12 DEF StockInd, LevelInv, Noticed, Spoken
<1> QED BY <1>8, <1>9, <1>11, <1>13 DEF StockInd

\* A call that sets the levels of K, of those still to send, to the figures in
\* hand, and leaves at least the rest of the batch to send.
LEMMA SendsKeep ==
  ASSUME StockInd, push.pc \in Sending, NEW K \in SUBSET Unsent, SetLevels(pushed(K)),
         UNCHANGED <<actual, reserved, off, mapped, pending, carts, look, verify, unsaid>>,
         moves' \in 0..MaxMoves,
         push' = NoPush \/ push' \in Pushes, PushInv', QuantityInv', Unsent \ K \subseteq Unsent'
  PROVE  StockInd'
<1>0. StockTypes
  BY DEF StockInd
<1>1. K \in SUBSET push.rows /\ push.rows \subseteq Keys /\ mapped \subseteq Keys /\ K \in SUBSET Keys
  BY <1>0, PushIs DEF StockTypes, Unsent
<1>2. pushed(K) \in [K -> Int] /\ \A k \in K : pushed(K)[k] = push.quantity[k]
  BY <1>1 DEF StockInd, PushInv, pushed
<1>3. /\ level' \in [Keys -> Int \cup {NoLevel}] /\ told' \subseteq Keys \X Int /\ told \subseteq told'
      /\ \A k \in K : level'[k] = pushed(K)[k]
      /\ \A k \in Keys \ K : level'[k] = level[k]
  BY <1>0, <1>1, <1>2, SetLevelsIs
<1>4. StockTypes'
  BY <1>0, <1>3 DEF StockTypes
<1>5. \A k \in Keys : available_for_location(k)' = available_for_location(k)
  BY <1>0, StillAvailable
<1>6. LevelInv'
  <2> SUFFICES ASSUME NEW k \in Spoken' \ Unsent', pending'[k] = "none", carts'[k] = 0
               PROVE  level'[k] = available_for_location(k)' \/ Noticed(k)'
    BY DEF LevelInv
  <2>1. k \in Spoken /\ k \in Keys /\ pending[k] = "none" /\ carts[k] = 0 /\ (k \in K \/ k \notin Unsent)
    BY <1>1 DEF Spoken
  <2>2. CASE k \in K
    <3>1. push.quantity[k] = available_for_location(k)
      BY <1>1, <2>1, <2>2 DEF StockInd, QuantityInv
    <3> QED BY <1>2, <1>3, <1>5, <2>1, <2>2, <3>1
  <2>3. CASE k \notin K
    <3>1. level[k] = available_for_location(k) \/ Noticed(k)
      BY <2>1, <2>3 DEF StockInd, LevelInv
    <3>2. Noticed(k) => Noticed(k)'
      BY <1>3, <2>1, <2>3 DEF Noticed
    <3> QED BY <1>3, <1>5, <2>1, <2>3, <3>1, <3>2
  <2> QED BY <2>2, <2>3
<1> QED BY <1>4, <1>6 DEF StockInd

\* No push promises anything.
LEMMA NoPushIs == ASSUME push' = NoPush PROVE PushInv' /\ QuantityInv' /\ Unsent' = {}
<1>1. push'.pc = "idle" /\ push'.rows = {}
  BY DEF NoPush
<1> QED BY <1>1 DEF PushInv, QuantityInv, Unsent, Sending

\* A call answered ends the push, or one sent again leaves it as it was.
LEMMA RepliedIs ==
  ASSUME StockInd, NEW next, Replied(next)
  PROVE  (push' = next \/ push' = push) /\ moves' \in 0..MaxMoves
BY MovedIs DEF Replied, StockInd, StockTypes

\* A push that is left as it was promises what it did.
LEMMA SamePushIs ==
  ASSUME StockInd, UNCHANGED <<push, actual, reserved, off, mapped, pending, unsaid>>
  PROVE  /\ push' = NoPush \/ push' \in Pushes
         /\ PushInv' /\ QuantityInv' /\ Unsent' = Unsent
<1>1. StockTypes
  BY DEF StockInd
<1>2. (\A k \in Keys : available_for_location(k)' = available_for_location(k)) /\ mapped \subseteq Keys
  BY <1>1, StillAvailable DEF StockTypes
<1>3. PushInv' /\ Unsent' = Unsent
  BY DEF StockInd, PushInv, Unsent, uncompared
<1>4. QuantityInv'
  BY <1>2 DEF StockInd, QuantityInv, Spoken
<1> QED BY <1>1, <1>3, <1>4 DEF StockTypes

\* The batch is sent.
LEMMA StepSend == ASSUME StockInd, send PROVE StockInd'
<1>1. push.pc \in Sending /\ Unsent = push.rows /\ SetLevels(pushed(push.rows)) /\ Replied(NoPush)
      /\ UNCHANGED <<actual, reserved, off, mapped, pending, carts, look, verify, unsaid>>
  BY DEF send, Sending, Unsent
<1>2. (push' = NoPush \/ push' = push) /\ moves' \in 0..MaxMoves
  BY <1>1, RepliedIs
<1>3. push.rows \in SUBSET Unsent
  BY <1>1
<1>4. (push' = NoPush \/ push' \in Pushes) /\ PushInv' /\ QuantityInv' /\ Unsent \ push.rows \subseteq Unsent'
  <2>1. CASE push' = NoPush
    BY <1>1, <2>1, NoPushIs
  <2>2. CASE push' = push
    BY <1>1, <2>2, SamePushIs
  <2> QED BY <1>2, <2>1, <2>2
<1> QED BY <1>1, <1>2, <1>3, <1>4, SendsKeep

\* What could not be compared is sent unconditionally.
LEMMA StepUncompared == ASSUME StockInd, send_uncompared PROVE StockInd'
<1>0. StockTypes
  BY DEF StockInd
<1> DEFINE next == IF uncompared = push.rows THEN NoPush ELSE [push EXCEPT !.pc = "compared"]
<1>1. push.pc \in Sending /\ push.pc = "uncompared" /\ Unsent = push.rows /\ SetLevels(pushed(uncompared))
      /\ UNCHANGED <<actual, reserved, off, mapped, pending, carts, look, verify, unsaid>>
      /\ Replied(next)
  BY DEF send_uncompared, Sending, Unsent
<1>2. uncompared \in SUBSET Unsent /\ mapped \subseteq Keys
  BY <1>1 DEF uncompared, StockInd, StockTypes
<1>3. (push' = next \/ push' = push) /\ moves' \in 0..MaxMoves
  BY <1>1, RepliedIs
<1>4. (push' = NoPush \/ push' \in Pushes) /\ PushInv' /\ QuantityInv' /\ Unsent \ uncompared \subseteq Unsent'
  <2>1. CASE push' = push
    BY <1>1, <2>1, SamePushIs
  <2>2. CASE push' = next /\ uncompared = push.rows
    BY <1>1, <2>2, NoPushIs
  <2>3. CASE push' = next /\ uncompared # push.rows
    <3>1. push' = [push EXCEPT !.pc = "compared"]
      BY <2>3
    <3>2. push \in Pushes
      BY <1>0, <1>1, PushIs
    <3>3. push' \in Pushes
      BY <3>1, <3>2 DEF Pushes, Sending
    <3>4. push'.pc = "compared" /\ push'.rows = push.rows /\ push'.quantity = push.quantity /\ push'.seen = push.seen
      BY <3>1, <3>2 DEF Pushes
    <3>5. PushInv'
      BY <1>1, <3>4 DEF StockInd, PushInv, Sending
    <3>6. \A k \in Keys : available_for_location(k)' = available_for_location(k)
      BY <1>0, <1>1, StillAvailable
    <3>7. QuantityInv'
      BY <1>1, <1>2, <3>4, <3>6 DEF StockInd, QuantityInv, Spoken
    <3>8. Unsent' = Unsent \ uncompared
      BY <1>1, <3>4 DEF Unsent, uncompared
    <3> QED BY <3>3, <3>5, <3>7, <3>8
  <2> QED BY <1>3, <2>1, <2>2, <2>3
<1> QED BY <1>1, <1>2, <1>3, <1>4, SendsKeep

\* Every row of a batch that is over without an answer waits its turn again, or
\* is Failed and leaves its key unsaid.
LEMMA BacksOff ==
  ASSUME StockInd, moves' \in 0..MaxMoves, NEW spent \in SUBSET push.rows, RowsReturn(spent),
         UNCHANGED <<actual, reserved, off, mapped, level, carts, told, look, verify>>
  PROVE  StockInd'
<1>0. StockTypes
  BY DEF StockInd
<1>1. /\ pending' = [k \in Keys |-> IF k \in push.rows \ spent /\ pending[k] = "none" THEN "held" ELSE pending[k]]
      /\ push' = NoPush /\ Left(spent)
  BY DEF RowsReturn
<1>2. spent \in SUBSET Keys
  BY <1>0, PushIs
<1>3. StillUnsaid /\ unsaid' \subseteq Keys /\ \A k \in spent : pending'[k] = "none" => k \in unsaid'
  BY <1>0, <1>1, <1>2, LeftIs
<1>4. pending' \in [Keys -> {"none", "due", "held"}]
  BY <1>0, <1>1 DEF StockTypes
<1>5. StockTypes'
  BY <1>0, <1>1, <1>3, <1>4 DEF StockTypes
<1>6. PushInv' /\ QuantityInv' /\ Unsent' = {}
  BY <1>1, NoPushIs
<1>7. LevelInv'
  <2> SUFFICES ASSUME NEW k \in Spoken', pending'[k] = "none", carts'[k] = 0
               PROVE  level'[k] = available_for_location(k)' \/ Noticed(k)'
    BY DEF LevelInv
  <2>1. k \in Spoken /\ k \in Keys /\ carts[k] = 0
    BY <1>0, <1>3, SpokenWas
  <2>2. pending[k] = "none" /\ k \notin push.rows
    BY <1>1, <1>3, <2>1 DEF Spoken
  <2>3. k \notin Unsent
    BY <2>2 DEF Unsent
  <2>4. level[k] = available_for_location(k) \/ Noticed(k)
    BY <2>1, <2>2, <2>3 DEF StockInd, LevelInv
  <2>5. available_for_location(k)' = available_for_location(k)
    BY <1>0, <2>1, StillAvailable
  <2>6. Noticed(k)' <=> Noticed(k)
    BY DEF Noticed
  <2> QED BY <2>4, <2>5, <2>6
<1> QED BY <1>5, <1>6, <1>7 DEF StockInd

\* The batch is refused as a whole, or its worker dies.
LEMMA StepPushFails == ASSUME StockInd, PushFails PROVE StockInd'
<1>1. moves' \in 0..MaxMoves
  BY MovedIs DEF StockInd, PushFails
<1>2. PICK spent \in SUBSET push.rows : RowsReturn(spent)
  BY DEF PushFails
<1>3. UNCHANGED <<actual, reserved, off, mapped, level, carts, told, look, verify>>
  BY DEF PushFails
<1> QED BY <1>1, <1>2, <1>3, BacksOff

\* What is unchanged since it was read is set.
LEMMA StepCompared == ASSUME StockInd, send_compared PROVE StockInd'
<1>0. StockTypes
  BY DEF StockInd
<1> DEFINE compared == push.rows \ uncompared
<1>1. push.pc \in Sending /\ push.pc = "compared" /\ Unsent = compared
      /\ UNCHANGED <<actual, reserved, off, mapped, carts, look, verify>>
  BY DEF send_compared, Sending, Unsent
<1>2. moves \in 0..MaxMoves /\ mapped \subseteq Keys
  BY <1>0 DEF StockTypes
<1>3. CASE \A k \in compared : level[k] = push.seen[k]
  <2>1. SetLevels(pushed(compared)) /\ Replied(NoPush) /\ UNCHANGED <<pending, unsaid>>
    BY <1>3 DEF send_compared
  <2>2. (push' = NoPush \/ push' = push) /\ moves' \in 0..MaxMoves
    BY <2>1, RepliedIs
  <2>3. compared \in SUBSET Unsent
    BY <1>1
  <2>4. (push' = NoPush \/ push' \in Pushes) /\ PushInv' /\ QuantityInv' /\ Unsent \ compared \subseteq Unsent'
    <3>1. CASE push' = NoPush
      BY <1>1, <3>1, NoPushIs
    <3>2. CASE push' = push
      BY <1>1, <2>1, <3>2, SamePushIs
    <3> QED BY <2>2, <3>1, <3>2
  <2> QED BY <1>1, <2>1, <2>2, <2>3, <2>4, SendsKeep
<1>4. CASE (\E k \in compared : level[k] # push.seen[k]) /\ push.again
  <2>1. (\E spent \in SUBSET push.rows : RowsReturn(spent)) /\ UNCHANGED <<level, told, moves>>
    BY <1>4 DEF send_compared
  <2>2. PICK spent \in SUBSET push.rows : RowsReturn(spent)
    BY <2>1
  <2> QED BY <1>1, <1>2, <2>1, <2>2, BacksOff
<1>5. CASE (\E k \in compared : level[k] # push.seen[k]) /\ ~push.again
  <2>1. push' = [push EXCEPT !.pc = "read", !.again = TRUE] /\ UNCHANGED <<pending, unsaid, level, told, moves>>
    BY <1>5 DEF send_compared
  <2>2. push \in Pushes
    BY <1>0, <1>1, PushIs
  <2>3. push' \in Pushes
    BY <2>1, <2>2 DEF Pushes, Sending
  <2>4. push'.pc = "read" /\ push'.rows = push.rows /\ push'.quantity = push.quantity
    BY <2>1, <2>2 DEF Pushes
  <2>5. StockTypes'
    BY <1>0, <1>1, <2>1, <2>3 DEF StockTypes
  <2>6. PushInv'
    BY <1>1, <2>4 DEF StockInd, PushInv, Sending
  <2>7. \A k \in Keys : available_for_location(k)' = available_for_location(k)
    BY <1>0, <1>1, StillAvailable
  <2>8. QuantityInv'
    BY <1>1, <1>2, <2>1, <2>4, <2>7 DEF StockInd, QuantityInv, Spoken
  <2>9. Unsent' = push.rows /\ Unsent \subseteq push.rows
    BY <1>1, <2>4 DEF Unsent
  <2>10. LevelInv'
    BY <1>1, <1>2, <2>1, <2>7, <2>9 DEF StockInd, LevelInv, Noticed, Spoken
  <2> QED BY <2>5, <2>6, <2>8, <2>10 DEF StockInd
<1> QED BY <1>3, <1>4, <1>5

\* A level that came back is compared with what is available.
LEMMA StepDetect == ASSUME StockInd, NEW t \in told, detect_drift(t[1], t[2]) PROVE StockInd'
<1>0. StockTypes
  BY DEF StockInd
<1>1. PICK k \in Keys, n \in Int : t = <<k, n>>
  BY <1>0 DEF StockTypes
<1> DEFINE q == k \in mapped /\ n # available_for_location(k) /\ ~push_already_pending(k)
<1>2. /\ look = NoLook /\ told' = told \ {<<k, n>>}
      /\ look' = [pc |-> "looking", key |-> k, queue |-> q]
      /\ UNCHANGED <<actual, reserved, off, mapped, level, carts, pending, push, verify, unsaid, moves>>
  BY <1>1 DEF detect_drift
<1>3. q \in BOOLEAN
  OBVIOUS
<1>4. q <=> k \in mapped /\ n # available_for_location(k) /\ pending[k] = "none"
  BY DEF push_already_pending
<1> HIDE DEF q
<1>5. look' \in Looks
  BY <1>2, <1>3 DEF Looks
<1>6. look'.pc = "looking" /\ look'.key = k /\ look'.queue = q /\ look.pc = "idle"
  BY <1>2 DEF NoLook
<1>7. StockTypes'
  BY <1>0, <1>2, <1>5 DEF StockTypes
<1>8. PushInv'
  BY <1>2 DEF StockInd, PushInv
<1>9. (\A j \in Keys : available_for_location(j)' = available_for_location(j)) /\ mapped \subseteq Keys
  BY <1>0, <1>2, StillAvailable DEF StockTypes
<1>10. QuantityInv'
  BY <1>2, <1>9 DEF StockInd, QuantityInv, Spoken
<1>11. Unsent' = Unsent
  BY <1>2 DEF Unsent, uncompared
<1>12. LevelInv'
  <2> SUFFICES ASSUME NEW j \in Spoken' \ Unsent', pending'[j] = "none", carts'[j] = 0,
                      level'[j] # available_for_location(j)'
               PROVE  Noticed(j)'
    BY DEF LevelInv
  <2>1. j \in Spoken \ Unsent /\ j \in Keys /\ pending[j] = "none" /\ carts[j] = 0 /\ level'[j] = level[j]
    BY <1>2, <1>9, <1>11 DEF Spoken
  <2>2. level[j] # available_for_location(j)
    BY <1>9, <2>1
  <2>3. Noticed(j)
    BY <2>1, <2>2 DEF StockInd, LevelInv
  <2>4. <<j, level[j]>> \in told
    BY <1>6, <2>3 DEF Noticed
  <2>5. CASE <<j, level[j]>> = <<k, n>>
    <3>1. j = k /\ n = level[j]
      BY <2>5
    <3>2. q
      BY <1>4, <2>1, <2>2, <3>1 DEF Spoken
    <3> QED BY <1>6, <3>1, <3>2 DEF Noticed
  <2>6. CASE <<j, level[j]>> # <<k, n>>
    <3>1. <<j, level'[j]>> \in told'
      BY <1>2, <2>1, <2>4, <2>6
    <3> QED BY <3>1 DEF Noticed
  <2> QED BY <2>5, <2>6
<1> QED BY <1>7, <1>8, <1>10, <1>12 DEF StockInd

\* A drift that was found is queued.
LEMMA StepCorrect == ASSUME StockInd, correct_drift PROVE StockInd'
<1>0. StockTypes
  BY DEF StockInd
<1>1. look.pc = "looking" /\ look' = NoLook
      /\ UNCHANGED <<actual, reserved, off, mapped, level, carts, push, told, verify, moves>>
  BY DEF correct_drift
<1>2. look.key \in Keys
  BY <1>0, <1>1, LookIs DEF Looks
<1>3. pending \in [Keys -> {"none", "due", "held"}]
  BY <1>0 DEF StockTypes
<1>4. /\ pending' \in [Keys -> {"none", "due", "held"}]
      /\ \A k \in Keys : pending'[k] = "none" => pending[k] = "none" /\ ~(k = look.key /\ look.queue)
  <2>1. CASE look.queue /\ pending[look.key] = "none"
    <3>1. pending' = [pending EXCEPT ![look.key] = "held"]
      BY <2>1 DEF correct_drift
    <3> QED BY <1>2, <1>3, <3>1
  <2>2. CASE ~(look.queue /\ pending[look.key] = "none")
    <3>1. pending' = pending
      BY <2>2 DEF correct_drift
    <3> QED BY <1>3, <2>2, <3>1
  <2> QED BY <2>1, <2>2
<1>11. StillUnsaid /\ unsaid' \subseteq Keys
  BY <1>0, LeftIs DEF correct_drift
<1>5. StockTypes'
  BY <1>0, <1>1, <1>4, <1>11 DEF StockTypes
<1>6. PushInv'
  BY <1>1 DEF StockInd, PushInv
<1>7. (\A j \in Keys : available_for_location(j)' = available_for_location(j)) /\ mapped \subseteq Keys
  BY <1>0, <1>1, StillAvailable DEF StockTypes
<1>8. QuantityInv'
  BY <1>0, <1>1, <1>4, <1>7, <1>11, SpokenWas DEF StockInd, QuantityInv, Spoken
<1>9. Unsent' = Unsent
  BY <1>1 DEF Unsent, uncompared
<1>10. LevelInv'
  <2> SUFFICES ASSUME NEW j \in Spoken' \ Unsent', pending'[j] = "none", carts'[j] = 0
               PROVE  level'[j] = available_for_location(j)' \/ Noticed(j)'
    BY DEF LevelInv
  <2>1. j \in Spoken \ Unsent /\ j \in Keys /\ carts[j] = 0 /\ level'[j] = level[j]
    BY <1>0, <1>1, <1>9, <1>11, SpokenWas
  <2>2. pending[j] = "none" /\ ~(j = look.key /\ look.queue)
    BY <1>4, <2>1
  <2>3. level[j] = available_for_location(j) \/ Noticed(j)
    BY <2>1, <2>2 DEF StockInd, LevelInv
  <2>4. Noticed(j) => Noticed(j)'
    BY <1>1, <2>2 DEF Noticed
  <2> QED BY <1>7, <2>1, <2>3, <2>4
<1> QED BY <1>5, <1>6, <1>8, <1>10 DEF StockInd

\* Every step keeps the invariant.
LEMMA StockStep == StockInd /\ [StockNext]_stockVars => StockInd'
<1> SUFFICES ASSUME StockInd, [StockNext]_stockVars PROVE StockInd'
  OBVIOUS
<1>1. ASSUME NEW s \in Shelves, NEW d \in {-1, Parts}, on_stock_movement(s, d) PROVE StockInd'
  BY <1>1, StepMovement
<1>2. ASSUME NEW s \in Shelves, NEW d \in {-1, 1}, on_reservation_change(s, d) PROVE StockInd'
  BY <1>2, StepReservation
<1>3. ASSUME NEW k \in Keys, Disable(k) \/ Open(k) \/ Checkout(k) \/ AdjustLevel(k, 0) \/ Due(k) PROVE StockInd'
  BY <1>3, StepDisable, StepOpen, StepCheckout, StepAdjust, StepDue
<1>4. ASSUME NEW k \in Keys, NEW s \in Shelves, Import(k, s) PROVE StockInd'
  BY <1>4, StepImport
<1>5. CASE Pushing
  BY <1>5, StepClaim, StepResolve, StepSend, StepCurrent, StepUncompared, StepCompared DEF Pushing
<1>6. CASE PushFails
  BY <1>6, StepPushFails
<1>7. CASE Checking
  BY <1>7, StepCorrect, StepAudit DEF Checking
<1>8. ASSUME NEW t \in told, detect_drift(t[1], t[2]) PROVE StockInd'
  BY <1>8, StepDetect
<1>9. CASE UNCHANGED stockVars
  <2>1. UNCHANGED <<actual, reserved, off, carts, verify, push, level, told, look, mapped, pending, unsaid, moves>>
    BY <1>9 DEF stockVars
  <2>2. mapped' \subseteq Keys /\ pending' \in [Keys -> {"none", "due", "held"}] /\ moves' \in 0..MaxMoves
        /\ unsaid' \subseteq Keys
    BY <2>1 DEF StockInd, StockTypes
  <2>3. Spoken' = Spoken
    BY <2>1 DEF Spoken
  <2> QED BY <2>1, <2>2, <2>3, RowsKeep
<1> QED BY <1>1, <1>2, <1>3, <1>4, <1>5, <1>6, <1>7, <1>8, <1>9 DEF StockNext

\* Once every queued push, drift check and order import of a key is over, what
\* Shopify has available is what ERPNext has: push_inventory, the drift check
\* of inventory_levels/update and the nightly reconcile_inventory leave no
\* difference that nobody will correct.
THEOREM SettledStaysEqual == StockSpec => []SettledIsEqual
<1>1. StockInit => StockInd
  BY StockStarts
<1>2. StockInd /\ [StockNext]_stockVars => StockInd'
  BY StockStep
<1>3. StockInd => SettledIsEqual
  BY StockIs
<1> QED BY <1>1, <1>2, <1>3, PTL DEF StockSpec

\* What Shopify is left offering is on the shelves and unreserved: the floor
\* that available_quantity takes of each Bin never adds up to more than there is.
THEOREM OffersAreBacked == StockSpec => []NeverOversells
<1>1. StockInit => StockInd
  BY StockStarts
<1>2. StockInd /\ [StockNext]_stockVars => StockInd'
  BY StockStep
<1>3. StockInd => NeverOversells
  BY StockIs, EqualIsBacked DEF StockInd
<1> QED BY <1>1, <1>2, <1>3, PTL DEF StockSpec

------------------------------------------------------------------------------
(* Prices and tax collections.                                                *)

Prices == Rates \cup {NoRate}
Batches == UNION {[R -> Prices] : R \in SUBSET Pieces}
Decisions == [pc : {"decided"}, row : Pieces \cup {Template}, want : SUBSET Mapped, leave : BOOLEAN]

PricingTypes ==
    /\ listed \in [Pieces -> Prices] /\ standard \in [Pieces -> Prices]
    /\ delisted \subseteq Pieces /\ rules \in Rules
    /\ priceRows \subseteq Pieces /\ taxRows \subseteq Pieces \cup {Template}
    /\ recheck \in {"none", "queued", "running"}
    /\ selling \in [Pieces -> Prices] /\ member \subseteq Mapped \cup {Own} /\ Own \in member
    /\ pricePush \in Batches
    /\ taxPush = NoDecision \/ taxPush \in Decisions
    /\ nightly = NoDecision \/ nightly \in Decisions
    /\ saves \in 0..MaxSaves

\* A price without a row is on Shopify, or in the batch being sent.
PriceInv ==
    \A p \in Pieces \ priceRows : <<"price", p>> \notin silent =>
        IF p \in DOMAIN pricePush THEN pricePush[p] = current_price(p)
        ELSE current_price(p) # NoRate => selling[p] = current_price(p)

Bands == {tax_template(p) : p \in Pieces}
Agreed == Cardinality(Bands) = 1 /\ delisted # Pieces

\* Every change of a band that a row could know of has one.
Aware == taxRows = {} /\ recheck = "none" /\ \A k \in Pieces \cup {Subject} : <<"tax", k>> \notin silent

\* Then the decision being written is the one to write, and without one the
\* product is where it belongs.
TaxInv ==
    Aware /\ Agreed =>
        IF taxPush # NoDecision THEN ~taxPush.leave /\ taxPush.want = Bands \cap Mapped
        ELSE ~overtaken => member \cap Mapped = Bands \cap Mapped

PricingInd == PricingTypes /\ PriceInv /\ TaxInv

\* A price is one.
LEMMA PriceIs == PricingTypes => \A p \in Pieces : current_price(p) \in Prices
BY DEF PricingTypes, current_price

\* A piece with siblings is sold under its template.
LEMMA SubjectIs == Subject \in Pieces \cup {Template}
BY PricingAssumption DEF Subject

\* No decision decides nothing.
LEMMA NoDecisionIs == /\ NoDecision.pc = "idle" /\ NoDecision \notin Decisions
                      /\ \A d \in Decisions : d.pc = "decided" /\ d # NoDecision
                                              /\ d.row \in Pieces \cup {Template} /\ d.want \subseteq Mapped
<1>1. NoDecision.pc = "idle"
  BY DEF NoDecision
<1>2. \A d \in Decisions : d.pc = "decided" /\ d.row \in Pieces \cup {Template} /\ d.want \subseteq Mapped
  BY DEF Decisions
<1> QED BY <1>1, <1>2

\* A decision is one, and when every piece has the same band it is that band.
LEMMA TargetIs == \A k \in Pieces \cup {Template} : target_collection(k) \in Decisions
<1> SUFFICES ASSUME NEW k \in Pieces \cup {Template} PROVE target_collection(k) \in Decisions
  OBVIOUS
<1> DEFINE b == bands_of(k)  leave == Cardinality(b) > 1  want == b \cap Mapped
<1>1. target_collection(k) = [pc |-> "decided", row |-> k, want |-> want, leave |-> leave]
  BY DEF target_collection
<1>2. want \in SUBSET Mapped /\ leave \in BOOLEAN
  OBVIOUS
<1> HIDE DEF want, leave
<1> QED BY <1>1, <1>2 DEF Decisions

\* Pieces that agree have one band.
LEMMA BandsAre == Agreed => \E t : Bands = {t} /\ \A p \in Pieces : tax_template(p) = t
<1> SUFFICES ASSUME Agreed PROVE \E t : Bands = {t} /\ \A p \in Pieces : tax_template(p) = t
  OBVIOUS
<1> DEFINE f == [p \in Pieces |-> tax_template(p)]
<1>1. Bands = {f[p] : p \in Pieces}
  BY DEF Bands
<1>2. IsFiniteSet({f[p] : p \in Pieces})
  <2>1. DOMAIN f = Pieces
    OBVIOUS
  <2> HIDE DEF f
  <2> QED BY <2>1, PricingAssumption, ImageIsFinite
<1> HIDE DEF f
<1>3. IsFiniteSet(Bands) /\ Cardinality(Bands) <= 1
  BY <1>1, <1>2 DEF Agreed
<1>4. \A x, y \in Bands : x = y
  BY <1>3, OneAtMost
<1>5. PICK p \in Pieces : TRUE
  BY PricingAssumption
<1>6. Bands = {tax_template(p)} /\ \A q \in Pieces : tax_template(q) = tax_template(p)
  BY <1>4 DEF Bands
<1> QED BY <1>6

\* Where the pieces agree, every row decides for their band.
LEMMA TargetRight ==
  ASSUME PricingTypes, Agreed, NEW k \in Pieces \cup {Template}
  PROVE  ~target_collection(k).leave /\ target_collection(k).want = Bands \cap Mapped
<1>1. PICK t : Bands = {t} /\ \A p \in Pieces : tax_template(p) = t
  BY BandsAre
<1>2. bands_of(k) = {t} \ {NoTax}
  <2>1. CASE k = Template
    <3>1. _variants(k) = Pieces \ delisted /\ _variants(k) # {} /\ _variants(k) \subseteq Pieces
      BY <2>1 DEF _variants, PricingTypes, Agreed
    <3>2. {tax_template(p) : p \in _variants(k)} = {t}
      BY <1>1, <3>1
    <3> QED BY <3>1, <3>2 DEF bands_of
  <2>2. CASE k # Template
    <3>1. _variants(k) = {} /\ tax_template(k) = t
      BY <1>1, <2>2 DEF _variants
    <3> QED BY <3>1 DEF bands_of
  <2> QED BY <2>1, <2>2
<1>3. bands_of(k) \cap Mapped = Bands \cap Mapped
  BY <1>1, <1>2, PricingAssumption
<1>4. ~(Cardinality(bands_of(k)) > 1)
  <2>1. \A x, y \in bands_of(k) : x = y
    BY <1>2
  <2>2. IsFiniteSet(bands_of(k)) /\ Cardinality(bands_of(k)) <= 1
    BY <2>1, AtMostOne
  <2>3. Cardinality(bands_of(k)) \in Nat
    BY <2>2, FS_CardinalityType
  <2> QED BY <2>2, <2>3
<1>5. /\ target_collection(k).leave = (Cardinality(bands_of(k)) > 1)
      /\ target_collection(k).want = bands_of(k) \cap Mapped
  BY DEF target_collection
<1> QED BY <1>3, <1>4, <1>5

\* What the invariant says of the part's own properties.
LEMMA PricingIs == PricingInd => PricingTypeOK /\ ShopChargesAsBooked
<1> SUFFICES ASSUME PricingInd PROVE PricingTypeOK /\ ShopChargesAsBooked
  OBVIOUS
<1>1. PricingTypes
  BY DEF PricingInd
<1>2. PricingTypeOK
  <2>1. taxPush.pc \in {"idle", "decided"} /\ nightly.pc \in {"idle", "decided"}
    BY <1>1, NoDecisionIs DEF PricingTypes
  <2> QED BY <1>1, <2>1 DEF PricingTypes, PricingTypeOK, Prices
<1>3. ASSUME NEW p \in Pieces \ (priceRows \cup DOMAIN pricePush), <<"price", p>> \notin silent, current_price(p) # NoRate
      PROVE  selling[p] = current_price(p)
  BY <1>3 DEF PricingInd, PriceInv
<1>4. ASSUME taxRows = {}, taxPush = NoDecision, recheck = "none", ~overtaken,
             \A k \in Pieces \cup {Subject} : <<"tax", k>> \notin silent, Cardinality({tax_template(p) : p \in Pieces}) = 1, delisted # Pieces
      PROVE  member \cap Mapped = {tax_template(p) : p \in Pieces} \cap Mapped
  BY <1>4 DEF PricingInd, TaxInv, Aware, Agreed, Bands
<1> QED BY <1>1, <1>2, <1>3, <1>4 DEF ShopChargesAsBooked, PricingTypes

\* The invariant holds at the start.
LEMMA PricingStarts == PricingInit => PricingInd
<1> SUFFICES ASSUME PricingInit PROVE PricingInd
  OBVIOUS
<1>1. pricePush \in Batches
  <2>1. <<>> \in [{} -> Prices] /\ {} \in SUBSET Pieces
    OBVIOUS
  <2> QED BY <2>1 DEF PricingInit, NoPricePush, Batches
<1>2. taxRows = {Subject} /\ priceRows = Pieces
  BY DEF PricingInit
<1>3. 0 \in 0..MaxSaves
  BY PricingAssumption
<1>4. PricingTypes
  BY <1>1, <1>2, <1>3, SubjectIs DEF PricingInit, PricingTypes, Prices
<1>5. ~Aware
  BY <1>2 DEF Aware
<1> QED BY <1>2, <1>4, <1>5 DEF PricingInd, PriceInv, TaxInv

\* The bound on the saves is kept.
LEMMA SavesIs == PricingTypes /\ Saves => saves' \in 0..MaxSaves
<1>1. \A m \in 0..MaxSaves : m < MaxSaves => m + 1 \in 0..MaxSaves
  BY PricingAssumption
<1> QED BY <1>1 DEF PricingTypes, Saves

\* What is booked depends on the books alone.
LEMMA BookedSame ==
  ASSUME UNCHANGED <<listed, standard, rules, delisted>>
  PROVE  /\ Bands' = Bands /\ (Agreed' <=> Agreed)
         /\ \A p \in Pieces : current_price(p)' = current_price(p)
BY DEF Bands, Agreed, tax_template, current_price

\* And a change that can be known is known by its row.
LEMMA NoticedSame ==
  ASSUME UNCHANGED <<taxRows, recheck, silent>>
  PROVE  Aware' <=> Aware
BY DEF Aware

\* A save queues the price of its piece and its own row of the collection.
LEMMA QueueKeeps ==
  ASSUME PricingInd, NEW p \in Pieces, Queue(p), Saves,
         listed' \in [Pieces -> Prices], standard' \in [Pieces -> Prices], delisted' \subseteq Pieces,
         \A q \in Pieces \ {p} : listed'[q] = listed[q] /\ standard'[q] = standard[q],
         UNCHANGED <<rules, recheck, selling, member, pricePush, taxPush, nightly, overtaken>>
  PROVE  PricingInd'
<1>0. PricingTypes
  BY DEF PricingInd
<1>1. /\ priceRows' = priceRows \cup {p} /\ p \in taxRows' /\ taxRows' \subseteq Pieces \cup {Template}
      /\ silent' = silent \ ({<<"price", p>>} \cup {<<"tax", k>> : k \in tax_rows(p)})
  BY <1>0 DEF Queue, price_row, tax_rows, PricingTypes
<1>2. PricingTypes'
  BY <1>0, <1>1, SavesIs DEF PricingTypes
<1>3. ~Aware'
  BY <1>1 DEF Aware
<1>4. PriceInv'
  <2> SUFFICES ASSUME NEW q \in Pieces \ priceRows', <<"price", q>> \notin silent'
               PROVE  IF q \in DOMAIN pricePush THEN pricePush[q] = current_price(q)'
                      ELSE current_price(q)' # NoRate => selling[q] = current_price(q)'
    BY DEF PriceInv
  <2>1. q # p /\ q \in Pieces \ priceRows
    BY <1>1
  <2>2. <<"price", q>> \notin silent
    <3>1. <<"price", q>> # <<"price", p>> /\ \A k : <<"price", q>> # <<"tax", k>>
      BY <2>1
    <3> QED BY <1>1, <3>1
  <2>3. current_price(q)' = current_price(q)
    BY <2>1 DEF current_price
  <2> QED BY <2>1, <2>2, <2>3 DEF PricingInd, PriceInv
<1> QED BY <1>2, <1>3, <1>4 DEF PricingInd, TaxInv

\* A price is saved.
LEMMA StepPrice == ASSUME PricingInd, NEW p \in Pieces, NEW r \in Prices, on_price_change(p, r) PROVE PricingInd'
<1>1. listed \in [Pieces -> Prices] /\ standard \in [Pieces -> Prices] /\ delisted \subseteq Pieces
  BY DEF PricingInd, PricingTypes
<1>2. listed' = [listed EXCEPT ![p] = r] /\ Queue(p) /\ Saves
      /\ UNCHANGED <<standard, delisted, rules, recheck, selling, member, pricePush, taxPush, nightly, overtaken>>
  BY DEF on_price_change
<1>3. listed' \in [Pieces -> Prices] /\ \A q \in Pieces \ {p} : listed'[q] = listed[q]
  BY <1>1, <1>2
<1> QED BY <1>1, <1>2, <1>3, QueueKeeps

\* An Item is saved.
LEMMA StepItem == ASSUME PricingInd, NEW p \in Pieces, NEW r \in Prices, NEW d \in BOOLEAN, price_on_item_change(p, r, d)
                  PROVE  PricingInd'
<1>1. listed \in [Pieces -> Prices] /\ standard \in [Pieces -> Prices] /\ delisted \subseteq Pieces
  BY DEF PricingInd, PricingTypes
<1>2. standard' = [standard EXCEPT ![p] = r] /\ Queue(p) /\ Saves
      /\ UNCHANGED <<listed, rules, recheck, selling, member, pricePush, taxPush, nightly, overtaken>>
  BY DEF price_on_item_change
<1>3. standard' \in [Pieces -> Prices] /\ \A q \in Pieces \ {p} : standard'[q] = standard[q]
  BY <1>1, <1>2
<1>4. delisted' \subseteq Pieces
  BY <1>1 DEF price_on_item_change
<1> QED BY <1>1, <1>2, <1>3, <1>4, QueueKeeps

\* A webhook archives the product, or brings it back: where that changes what a
\* row would decide, the silence says so.
LEMMA StepWebhook == ASSUME PricingInd, NEW d \in BOOLEAN, disabled_by_webhook(d) PROVE PricingInd'
<1>0. PricingTypes
  BY DEF PricingInd
<1>1. /\ delisted' = IF d THEN Pieces ELSE {}
      /\ silent' = IF Pieces \subseteq delisted /\ ~d THEN silent \cup {<<"tax", Subject>>} ELSE silent
      /\ UNCHANGED <<listed, standard, rules, priceRows, taxRows, recheck, selling, member,
                     pricePush, taxPush, nightly, overtaken>>
  BY DEF disabled_by_webhook
<1>2. PricingTypes'
  BY <1>0, <1>1, SavesIs DEF PricingTypes, disabled_by_webhook
<1>3. PriceInv'
  <2> SUFFICES ASSUME NEW q \in Pieces \ priceRows, <<"price", q>> \notin silent'
               PROVE  IF q \in DOMAIN pricePush THEN pricePush[q] = current_price(q)
                      ELSE current_price(q) # NoRate => selling[q] = current_price(q)
    BY <1>1 DEF PriceInv, current_price
  <2> QED BY <1>1 DEF PricingInd, PriceInv
<1>4. TaxInv'
  <2>1. CASE d
    BY <1>1, <2>1 DEF TaxInv, Agreed
  <2>2. CASE ~d /\ Pieces \subseteq delisted
    BY <1>1, <2>2 DEF TaxInv, Aware
  <2>3. CASE ~d /\ ~(Pieces \subseteq delisted)
    <3>1. Bands' = Bands /\ (Agreed' => Agreed)
      BY <1>1, <2>3 DEF Bands, Agreed, tax_template, current_price
    <3>2. silent' = silent
      BY <1>1, <2>3
    <3>3. Aware' <=> Aware
      BY <1>1, <3>2, NoticedSame
    <3> QED BY <1>1, <3>1, <3>3 DEF PricingInd, TaxInv
  <2> QED BY <2>1, <2>2, <2>3
<1> QED BY <1>2, <1>3, <1>4 DEF PricingInd

\* A price lapses, and nobody is told.
LEMMA StepLapse == ASSUME PricingInd, NEW p \in Pieces, Lapse(p) PROVE PricingInd'
<1>0. PricingTypes
  BY DEF PricingInd
<1>1. /\ listed' = [listed EXCEPT ![p] = NoRate]
      /\ silent' = silent \cup {<<"price", p>>} \cup {<<"tax", k>> : k \in tax_rows(p)}
      /\ UNCHANGED <<standard, delisted, rules, priceRows, taxRows, recheck, selling, member,
                     pricePush, taxPush, nightly, overtaken>>
  BY DEF Lapse
<1>2. listed' \in [Pieces -> Prices] /\ \A q \in Pieces \ {p} : listed'[q] = listed[q]
  BY <1>0, <1>1 DEF PricingTypes, Prices
<1>3. PricingTypes'
  BY <1>0, <1>1, <1>2, SavesIs DEF PricingTypes, Lapse
<1>4. <<"tax", p>> \in silent' /\ <<"price", p>> \in silent' /\ silent \subseteq silent'
  BY <1>1 DEF tax_rows
<1>5. ~Aware'
  BY <1>4 DEF Aware
<1>6. PriceInv'
  <2> SUFFICES ASSUME NEW q \in Pieces \ priceRows', <<"price", q>> \notin silent'
               PROVE  IF q \in DOMAIN pricePush THEN pricePush[q] = current_price(q)'
                      ELSE current_price(q)' # NoRate => selling[q] = current_price(q)'
    BY <1>1 DEF PriceInv
  <2>1. q # p /\ q \in Pieces \ priceRows /\ <<"price", q>> \notin silent
    BY <1>1, <1>4
  <2>2. current_price(q)' = current_price(q)
    BY <1>1, <1>2, <2>1 DEF current_price
  <2> QED BY <2>1, <2>2 DEF PricingInd, PriceInv
<1> QED BY <1>3, <1>5, <1>6 DEF PricingInd, TaxInv

\* What leaves the books and the prices alone.
LEMMA PricesKeep ==
  ASSUME PricingInd, UNCHANGED <<listed, standard, priceRows, pricePush, selling, silent>>
  PROVE  PriceInv'
BY DEF PricingInd, PriceInv, current_price

\* The group's tax rules are saved.
LEMMA StepRules == ASSUME PricingInd, NEW r \in Rules, on_item_group_change(r) PROVE PricingInd'
<1>0. PricingTypes
  BY DEF PricingInd
<1>1. rules' = r /\ recheck' = IF recheck = "none" THEN "queued" ELSE recheck
  BY DEF on_item_group_change
<1>2. UNCHANGED <<listed, standard, delisted, priceRows, taxRows, selling, member, pricePush,
                  taxPush, nightly, silent, overtaken>>
  BY DEF on_item_group_change
<1>3. PricingTypes'
  BY <1>0, <1>1, <1>2, SavesIs DEF PricingTypes, on_item_group_change
<1>4. ~Aware'
  BY <1>1 DEF Aware
<1>5. PriceInv'
  BY <1>2, PricesKeep
<1> QED BY <1>3, <1>4, <1>5 DEF PricingInd, TaxInv

\* The group's Items are looked at again.
LEMMA StepRecheck == ASSUME PricingInd, start_recheck \/ recheck_item_group PROVE PricingInd'
<1>0. PricingTypes
  BY DEF PricingInd
<1>1. UNCHANGED <<listed, standard, delisted, rules, priceRows, selling, member, pricePush, taxPush, nightly,
                  silent, overtaken, saves>>
  BY DEF start_recheck, recheck_item_group
<1>2. PriceInv'
  BY <1>1, PricesKeep
<1>3. CASE start_recheck
  <2>1. recheck' = "running" /\ taxRows' = taxRows
    BY <1>3 DEF start_recheck
  <2>2. PricingTypes'
    BY <1>0, <1>1, <2>1 DEF PricingTypes
  <2>3. ~Aware'
    BY <2>1 DEF Aware
  <2> QED BY <1>2, <2>2, <2>3 DEF PricingInd, TaxInv
<1>4. CASE recheck_item_group
  <2>1. recheck' = "none" /\ taxRows' = IF Pieces \subseteq delisted THEN taxRows ELSE taxRows \cup {Subject}
    BY <1>4 DEF recheck_item_group
  <2>2. PricingTypes'
    BY <1>0, <1>1, <2>1, SubjectIs DEF PricingTypes
  <2>3. ~(Aware' /\ Agreed')
    <3>1. CASE Pieces \subseteq delisted
      BY <1>0, <1>1, <3>1 DEF Agreed, PricingTypes
    <3>2. CASE ~(Pieces \subseteq delisted)
      BY <2>1, <3>2 DEF Aware
    <3> QED BY <3>1, <3>2
  <2> QED BY <1>2, <2>2, <2>3 DEF PricingInd, TaxInv
<1> QED BY <1>3, <1>4

\* What leaves the bands and the collections alone.
LEMMA TaxesKeep ==
  ASSUME PricingInd, UNCHANGED <<listed, standard, rules, delisted, taxRows, recheck, silent, taxPush, member, overtaken>>
  PROVE  TaxInv'
<1>1. Bands' = Bands /\ (Agreed' <=> Agreed) /\ (Aware' <=> Aware)
  BY BookedSame, NoticedSame
<1> QED BY <1>1 DEF PricingInd, TaxInv

\* The rows of prices are claimed.
LEMMA StepClaimPrices == ASSUME PricingInd, claim_prices PROVE PricingInd'
<1>0. PricingTypes
  BY DEF PricingInd
<1>1. PICK R \in SUBSET priceRows : /\ pricePush' = [p \in R |-> current_price(p)]
                                    /\ priceRows' = priceRows \ R
  BY DEF claim_prices
<1>2. UNCHANGED <<listed, standard, delisted, rules, taxRows, recheck, selling, member,
                  taxPush, nightly, silent, overtaken, saves>>
  BY DEF claim_prices
<1>3. R \in SUBSET Pieces
  BY <1>0 DEF PricingTypes
<1>4. pricePush' \in [R -> Prices]
  BY <1>0, <1>1, <1>3, PriceIs
<1>5. pricePush' \in Batches
  BY <1>3, <1>4 DEF Batches
<1>6. PricingTypes'
  BY <1>0, <1>1, <1>2, <1>5 DEF PricingTypes
<1>7. PriceInv'
  <2> SUFFICES ASSUME NEW q \in Pieces \ priceRows', <<"price", q>> \notin silent'
               PROVE  IF q \in DOMAIN pricePush' THEN pricePush'[q] = current_price(q)'
                      ELSE current_price(q)' # NoRate => selling'[q] = current_price(q)'
    BY DEF PriceInv
  <2>1. current_price(q)' = current_price(q)
    BY <1>2, BookedSame
  <2>2. CASE q \in R
    BY <1>1, <2>1, <2>2
  <2>3. CASE q \notin R
    <3>1. q \in Pieces \ priceRows /\ <<"price", q>> \notin silent /\ q \notin DOMAIN pricePush'
      BY <1>1, <1>2, <2>3
    <3>2. q \notin DOMAIN pricePush
      BY DEF claim_prices, NoPricePush
    <3> QED BY <1>2, <2>1, <3>1, <3>2 DEF PricingInd, PriceInv
  <2> QED BY <2>2, <2>3
<1> QED BY <1>2, <1>6, <1>7, TaxesKeep DEF PricingInd

\* Their batch is sent.
LEMMA StepPushPrices == ASSUME PricingInd, push_prices PROVE PricingInd'
<1>0. PricingTypes
  BY DEF PricingInd
<1>1. pricePush' = NoPricePush
      /\ UNCHANGED <<listed, standard, delisted, rules, taxRows, recheck, member, taxPush, nightly, silent, overtaken>>
  BY DEF push_prices
<1>2. pricePush' \in Batches /\ DOMAIN pricePush' = {}
  <2>1. <<>> \in [{} -> Prices] /\ {} \in SUBSET Pieces /\ DOMAIN <<>> = {}
    OBVIOUS
  <2> QED BY <1>1, <2>1 DEF NoPricePush, Batches
<1>3. PICK B \in SUBSET Pieces : pricePush \in [B -> Prices]
  BY <1>0 DEF PricingTypes, Batches
<1>4. \A p \in Pieces : current_price(p)' = current_price(p)
  BY <1>1, BookedSame
<1>5. /\ selling' \in [Pieces -> Prices] /\ priceRows' \subseteq Pieces /\ saves' \in 0..MaxSaves
      /\ PriceInv'
  <2>1. CASE /\ selling' = [p \in Pieces |-> IF p \in DOMAIN pricePush /\ pricePush[p] # NoRate
                                             THEN pricePush[p] ELSE selling[p]]
             /\ UNCHANGED <<priceRows, saves>>
    <3>1. selling' \in [Pieces -> Prices]
      BY <1>0, <1>3, <2>1 DEF PricingTypes
    <3>2. PriceInv'
      <4> SUFFICES ASSUME NEW q \in Pieces \ priceRows', <<"price", q>> \notin silent', current_price(q)' # NoRate
                   PROVE  selling'[q] = current_price(q)'
        BY <1>2 DEF PriceInv
      <4>1. q \in Pieces \ priceRows /\ <<"price", q>> \notin silent /\ current_price(q)' = current_price(q)
        BY <1>1, <1>4, <2>1
      <4>2. IF q \in DOMAIN pricePush THEN pricePush[q] = current_price(q) ELSE selling[q] = current_price(q)
        BY <4>1 DEF PricingInd, PriceInv
      <4> QED BY <2>1, <4>1, <4>2
    <3> QED BY <1>0, <2>1, <3>1, <3>2 DEF PricingTypes
  <2>2. CASE Saves /\ priceRows' = priceRows \cup DOMAIN pricePush /\ UNCHANGED selling
    <3>1. priceRows' \subseteq Pieces
      BY <1>0, <1>3, <2>2 DEF PricingTypes
    <3>2. PriceInv'
      <4> SUFFICES ASSUME NEW q \in Pieces \ priceRows', <<"price", q>> \notin silent', current_price(q)' # NoRate
                   PROVE  selling'[q] = current_price(q)'
        BY <1>2 DEF PriceInv
      <4>1. q \in Pieces \ priceRows /\ <<"price", q>> \notin silent /\ q \notin DOMAIN pricePush
        BY <1>1, <2>2
      <4> QED BY <1>4, <2>2, <4>1 DEF PricingInd, PriceInv
    <3> QED BY <1>0, <2>2, <3>1, <3>2, SavesIs DEF PricingTypes
  <2> QED BY <2>1, <2>2 DEF push_prices
<1>6. PricingTypes'
  BY <1>0, <1>1, <1>2, <1>5 DEF PricingTypes
<1> QED BY <1>1, <1>5, <1>6, TaxesKeep DEF PricingInd

\* A row of a collection is claimed.
LEMMA StepClaimTax == ASSUME PricingInd, NEW k \in taxRows, claim_collection(k) PROVE PricingInd'
<1>0. PricingTypes
  BY DEF PricingInd
<1>1. /\ taxRows' = taxRows \ {k} /\ taxPush' = target_collection(k)
      /\ UNCHANGED <<listed, standard, delisted, rules, priceRows, recheck, selling, member,
                     pricePush, nightly, silent, overtaken, saves>>
  BY DEF claim_collection
<1>2. k \in Pieces \cup {Template}
  BY <1>0 DEF PricingTypes
<1>3. taxPush' \in Decisions
  BY <1>1, <1>2, TargetIs
<1>4. PricingTypes'
  BY <1>0, <1>1, <1>3 DEF PricingTypes
<1>5. PriceInv'
  BY <1>1, PricesKeep
<1>6. TaxInv'
  <2>1. Bands' = Bands /\ (Agreed' <=> Agreed)
    BY <1>1, BookedSame
  <2>2. Agreed => ~taxPush'.leave /\ taxPush'.want = Bands \cap Mapped
    BY <1>0, <1>1, <1>2, TargetRight
  <2>3. taxPush' # NoDecision
    BY <1>3, NoDecisionIs
  <2> QED BY <2>1, <2>2, <2>3 DEF TaxInv
<1> QED BY <1>4, <1>5, <1>6 DEF PricingInd

\* Writing a decision touches the mapped collections only.
LEMMA ApplyIs ==
  ASSUME PricingTypes, NEW d \in Decisions, Apply(d)
  PROVE  /\ member' \subseteq Mapped \cup {Own} /\ Own \in member'
         /\ ~d.leave => member' \cap Mapped = d.want
<1>1. d.want \subseteq Mapped /\ Own \notin Mapped
  BY NoDecisionIs, PricingAssumption
<1>2. member \subseteq Mapped \cup {Own} /\ Own \in member
  BY DEF PricingTypes
<1>3. member' = IF d.leave THEN member ELSE (member \ Mapped) \cup d.want
  BY DEF Apply, memberships
<1> QED BY <1>1, <1>2, <1>3

\* What it decided is written.
LEMMA StepSyncTax == ASSUME PricingInd, sync_item_collections PROVE PricingInd'
<1>0. PricingTypes
  BY DEF PricingInd
<1>1. /\ taxPush \in Decisions /\ taxPush' = NoDecision /\ taxPush # NoDecision
      /\ UNCHANGED <<listed, standard, delisted, rules, priceRows, recheck, selling, pricePush, nightly, silent, overtaken>>
  BY <1>0 DEF sync_item_collections, PricingTypes
<1>2. PriceInv'
  BY <1>1, PricesKeep
<1>3. Bands' = Bands /\ (Agreed' <=> Agreed)
  BY <1>1, BookedSame
<1>4. CASE Apply(taxPush) /\ UNCHANGED <<taxRows, saves>>
  <2>1. /\ member' \subseteq Mapped \cup {Own} /\ Own \in member'
        /\ ~taxPush.leave => member' \cap Mapped = taxPush.want
    BY <1>0, <1>1, <1>4, ApplyIs
  <2>2. PricingTypes'
    BY <1>0, <1>1, <1>4, <2>1 DEF PricingTypes
  <2>3. Aware' <=> Aware
    BY <1>1, <1>4, NoticedSame
  <2>4. TaxInv'
    BY <1>1, <1>3, <2>1, <2>3 DEF PricingInd, TaxInv
  <2> QED BY <1>2, <2>2, <2>4 DEF PricingInd
<1>5. CASE Saves /\ taxRows' = taxRows \cup {taxPush.row} /\ UNCHANGED member
  <2>1. taxPush.row \in Pieces \cup {Template}
    BY <1>1, NoDecisionIs
  <2>2. PricingTypes'
    BY <1>0, <1>1, <1>5, <2>1, SavesIs DEF PricingTypes
  <2>3. ~Aware'
    BY <1>5 DEF Aware
  <2> QED BY <1>2, <2>2, <2>3 DEF PricingInd, TaxInv
<1> QED BY <1>4, <1>5 DEF sync_item_collections

\* The nightly pass decides.
LEMMA StepNightlyOpens == ASSUME PricingInd, nightly_opens PROVE PricingInd'
<1>0. PricingTypes
  BY DEF PricingInd
<1>1. nightly' = target_collection(Subject) /\ saves' \in 0..MaxSaves
      /\ UNCHANGED <<listed, standard, delisted, rules, priceRows, taxRows, recheck, selling,
                     member, pricePush, taxPush, silent, overtaken>>
  BY <1>0, SavesIs DEF nightly_opens
<1>2. nightly' \in Decisions
  BY <1>1, SubjectIs, TargetIs
<1>3. PricingTypes'
  BY <1>0, <1>1, <1>2 DEF PricingTypes
<1> QED BY <1>1, <1>3, PricesKeep, TaxesKeep DEF PricingInd

\* And writes.
LEMMA StepNightly == ASSUME PricingInd, reconcile_collections PROVE PricingInd'
<1>0. PricingTypes
  BY DEF PricingInd
<1>1. /\ nightly \in Decisions /\ Apply(nightly) /\ nightly' = NoDecision
      /\ overtaken' = (nightly # target_collection(Subject))
      /\ UNCHANGED <<listed, standard, delisted, rules, priceRows, taxRows, recheck, selling, pricePush, taxPush, silent, saves>>
  BY <1>0 DEF reconcile_collections, PricingTypes
<1>2. /\ member' \subseteq Mapped \cup {Own} /\ Own \in member'
      /\ ~nightly.leave => member' \cap Mapped = nightly.want
  BY <1>0, <1>1, ApplyIs
<1>3. PricingTypes'
  BY <1>0, <1>1, <1>2 DEF PricingTypes
<1>4. PriceInv'
  BY <1>1, PricesKeep
<1>5. Bands' = Bands /\ (Agreed' <=> Agreed) /\ (Aware' <=> Aware)
  BY <1>1, BookedSame, NoticedSame
<1>6. Agreed /\ ~overtaken' => member' \cap Mapped = Bands \cap Mapped
  <2>1. Agreed => ~target_collection(Subject).leave /\ target_collection(Subject).want = Bands \cap Mapped
    BY <1>0, SubjectIs, TargetRight
  <2> QED BY <1>1, <1>2, <2>1
<1>7. TaxInv'
  BY <1>1, <1>5, <1>6 DEF PricingInd, TaxInv
<1> QED BY <1>3, <1>4, <1>7 DEF PricingInd

\* Every step keeps the invariant.
LEMMA PricingStep == PricingInd /\ [PricingNext]_pricingVars => PricingInd'
<1> SUFFICES ASSUME PricingInd, [PricingNext]_pricingVars PROVE PricingInd'
  OBVIOUS
<1>1. ASSUME NEW p \in Pieces, NEW r \in Prices, on_price_change(p, r) \/ price_on_item_change(p, r, p \in delisted)
      PROVE  PricingInd'
  <2>1. (p \in delisted) \in BOOLEAN
    OBVIOUS
  <2> QED BY <1>1, <2>1, StepPrice, StepItem
<1>2. ASSUME NEW p \in Pieces, price_on_item_change(p, standard[p], p \notin delisted) PROVE PricingInd'
  <2>1. standard[p] \in Prices /\ (p \notin delisted) \in BOOLEAN
    BY DEF PricingInd, PricingTypes
  <2> QED BY <1>2, <2>1, StepItem
<1>3. ASSUME NEW p \in Pieces, Lapse(p) PROVE PricingInd'
  BY <1>3, StepLapse
<1>4. ASSUME NEW r \in Rules, on_item_group_change(r) PROVE PricingInd'
  BY <1>4, StepRules
<1>5. ASSUME start_recheck \/ recheck_item_group \/ claim_prices \/ push_prices PROVE PricingInd'
  BY <1>5, StepRecheck, StepClaimPrices, StepPushPrices
<1>6. ASSUME NEW k \in taxRows, claim_collection(k) PROVE PricingInd'
  BY <1>6, StepClaimTax
<1>7. ASSUME sync_item_collections \/ nightly_opens \/ reconcile_collections PROVE PricingInd'
  BY <1>7, StepSyncTax, StepNightlyOpens, StepNightly
<1>9. ASSUME NEW d \in BOOLEAN, disabled_by_webhook(d) PROVE PricingInd'
  BY <1>9, StepWebhook
<1>8. CASE UNCHANGED pricingVars
  <2>1. UNCHANGED <<listed, standard, rules, delisted, taxRows, recheck, silent, taxPush, member, overtaken,
                    priceRows, pricePush, selling, nightly, saves>>
    BY <1>8 DEF pricingVars
  <2>2. PricingTypes'
    BY <2>1 DEF PricingInd, PricingTypes
  <2> QED BY <2>1, <2>2, PricesKeep, TaxesKeep DEF PricingInd
<1> QED BY <1>1, <1>2, <1>3, <1>4, <1>5, <1>6, <1>7, <1>8, <1>9 DEF PricingNext, Prices

\* Once what a save queued has been pushed, the shop charges the price and the
\* tax of the books: price.py and collections.py read what they send when the
\* rows are claimed, and a save in between has rows of its own.
THEOREM ChargesAsBooked == PricingSpec => []ShopChargesAsBooked
<1>1. PricingInit => PricingInd
  BY PricingStarts
<1>2. PricingInd /\ [PricingNext]_pricingVars => PricingInd'
  BY PricingStep
<1>3. PricingInd => ShopChargesAsBooked
  BY PricingIs
<1> QED BY <1>1, <1>2, <1>3, PTL DEF PricingSpec

------------------------------------------------------------------------------
(* The throttle.                                                              *)

Pcs == {"idle", "look", "nap", "reserve", "expire", "post", "backoff", "release", "clamp",
        "interpret", "dead"}

\* What a worker keeps of its call; a dead one keeps the step it died in.
Calls == [pc : Pcs, attempt : 0..MaxAttempts, waited : 0..MaxWait,
          outcome : Pcs \cup {"none", "answered", "throttled", "failed", "refused"},
          told : (0..Maximum) \cup {NoKey}]

\* A worker naps only while there is time left to wait, and has counted its
\* attempt as long as it is at work on one.
CallInv == \A w \in Workers : /\ At(w, "nap") => call[w].waited < MaxWait
                              /\ ~At(w, "dead") => call[w].outcome \notin Pcs

ThrottleInd ==
    /\ clock \in 0..MaxTime /\ bucket \in 0..Maximum
    /\ snapshot = NoKey \/ snapshot \in [available : 0..Maximum, at : Nat]
    /\ in_flight \in Int \cup {NoKey} /\ expires \in Nat \cup {NoKey}
    /\ call \in [Workers -> Calls]
    /\ CallInv

\* The invariant holds at the start.
LEMMA ThrottleStarts == ThrottleInit => ThrottleInd /\ ThrottleTypeOK /\ NeverOvercounted
<1> SUFFICES ASSUME ThrottleInit PROVE ThrottleInd /\ ThrottleTypeOK /\ NeverOvercounted
  OBVIOUS
<1> USE ThrottleAssumption
<1>1. Idle \in Calls
  BY DEF Idle, Calls, Pcs
<1>2. ThrottleInd
  BY <1>1 DEF ThrottleInit, ThrottleInd, CallInv, At, Idle, Pcs
<1>3. ThrottleTypeOK
  BY DEF ThrottleInit, ThrottleTypeOK, Idle
<1>4. Holding = {}
  BY DEF Holding, Steps, At, ThrottleInit, Idle
<1>5. NeverOvercounted
  BY <1>4, FS_EmptySet DEF NeverOvercounted, read_in_flight, ThrottleInit
<1> QED BY <1>2, <1>3, <1>5

\* It contains the type invariant.
LEMMA ThrottleTypes == ThrottleInd => ThrottleTypeOK
BY DEF ThrottleInd, ThrottleTypeOK, Calls

\* The step a call is in, or died in, and whether points are reserved there.
StepOf(c) == IF c.pc = "dead" THEN c.outcome ELSE c.pc
Reserves(c) == StepOf(c) \in {"expire", "post", "backoff", "release"}

\* The calls a worker starts with, retries with and dies with.
LEMMA CallValues ==
  /\ Idle \in Calls /\ Idle.pc = "idle" /\ Idle.outcome = "none"
  /\ \A n \in 1..MaxAttempts :
       LET c == [Idle EXCEPT !.pc = "look", !.attempt = n]
       IN  c \in Calls /\ c.pc = "look" /\ c.outcome = "none"
  /\ \A p \in Pcs :
       LET c == [Idle EXCEPT !.pc = "dead", !.outcome = p]
       IN  c \in Calls /\ c.pc = "dead" /\ c.outcome = p
<1>1. "idle" \in Pcs /\ "look" \in Pcs /\ "dead" \in Pcs /\ 0 \in 0..MaxAttempts /\ 0 \in 0..MaxWait
      /\ \A n \in 1..MaxAttempts : n \in 0..MaxAttempts
  BY ThrottleAssumption DEF Pcs
<1>2. Idle \in Calls /\ Idle.pc = "idle" /\ Idle.outcome = "none"
  BY <1>1 DEF Idle, Calls
<1>3. ASSUME NEW n \in 1..MaxAttempts
      PROVE  LET c == [Idle EXCEPT !.pc = "look", !.attempt = n]
             IN  c \in Calls /\ c.pc = "look" /\ c.outcome = "none"
  BY <1>1, <1>2 DEF Calls
<1>4. ASSUME NEW p \in Pcs
      PROVE  LET c == [Idle EXCEPT !.pc = "dead", !.outcome = p]
             IN  c \in Calls /\ c.pc = "dead" /\ c.outcome = p
  BY <1>1, <1>2 DEF Calls
<1> QED BY <1>2, <1>3, <1>4

\* The calls that hold points are those whose step reserves them.
LEMMA HoldingReserves == Holding = {w \in Workers : Reserves(call[w])}
BY DEF Holding, Steps, At, Reserves, StepOf

\* What a step leaves of the type invariant when it moves one worker.
LEMMA OneCallMoves ==
  ASSUME ThrottleInd, NEW w \in Workers, NEW c \in Calls,
         call' = [call EXCEPT ![w] = c],
         c.pc = "nap" => c.waited < MaxWait,
         c.pc # "dead" => c.outcome \notin Pcs
  PROVE  call' \in [Workers -> Calls] /\ CallInv'
BY DEF ThrottleInd, CallInv, At, Calls

\* Who holds points after a step that moves w.
LEMMA HoldingMoves ==
  ASSUME ThrottleInd, NEW w \in Workers, NEW c, call' = [call EXCEPT ![w] = c]
  PROVE  /\ Reserves(c) => Holding' = Holding \cup {w}
         /\ ~Reserves(c) => Holding' = Holding \ {w}
<1>1. call'[w] = c /\ \A v \in Workers \ {w} : call'[v] = call[v]
  BY DEF ThrottleInd
<1>2. Holding' = {v \in Workers : Reserves(call'[v])}
  BY DEF Holding, Steps, At, Reserves, StepOf
<1> QED BY <1>1, <1>2, HoldingReserves

\* They can be counted.
LEMMA HoldingIsFinite ==
  /\ IsFiniteSet(Holding) /\ Cardinality(Holding) \in Nat
  /\ Cost * Cardinality(Holding) \in Nat
  /\ \A w \in Holding : Cardinality(Holding) > 0 /\ Cardinality(Holding \ {w}) = Cardinality(Holding) - 1
  /\ \A w : w \notin Holding => Cardinality(Holding \cup {w}) = Cardinality(Holding) + 1
<1>1. IsFiniteSet(Holding) /\ Cardinality(Holding) \in Nat
  BY ThrottleAssumption, FS_Subset, FS_CardinalityType DEF Holding
<1>2. \A w \in Holding : Cardinality(Holding \ {w}) = Cardinality(Holding) - 1
  BY <1>1, FS_RemoveElement
<1>3. \A w \in Holding : Cardinality(Holding) > 0
  BY <1>1, FS_EmptySet
<1>4. \A w : w \notin Holding => Cardinality(Holding \cup {w}) = Cardinality(Holding) + 1
  BY <1>1, FS_AddElement
<1> QED BY <1>1, <1>2, <1>3, <1>4, ThrottleAssumption

\* Points of one call more, and of one less.
LEMMA CostOfOne ==
  \A n \in Nat : /\ Cost * (n + 1) = Cost * n + Cost /\ Cost * n >= 0
                 /\ n > 0 => Cost * (n - 1) = Cost * n - Cost
BY ThrottleAssumption

\* Every step keeps the type, and the points counted within what is held.
LEMMA ThrottleStep ==
  ThrottleInd /\ NeverOvercounted /\ [ThrottleNext]_throttleVars => ThrottleInd' /\ NeverOvercounted'
<1> SUFFICES ASSUME ThrottleInd, NeverOvercounted, [ThrottleNext]_throttleVars
             PROVE  ThrottleInd' /\ NeverOvercounted'
  OBVIOUS
<1> USE ThrottleAssumption
<1> DEFINE n == Cardinality(Holding)
<1>a. 1 \in 1..MaxAttempts
  OBVIOUS
<1>n. n \in Nat /\ n' \in Nat
  <2>1. IsFiniteSet(Holding')
    BY FS_Subset DEF Holding
  <2> QED BY <2>1, HoldingIsFinite, FS_CardinalityType
<1>held. ASSUME Holding' = Holding, in_flight' = in_flight PROVE NeverOvercounted'
  BY <1>held DEF NeverOvercounted, read_in_flight, Greater
\* A step that moves w to c, between two steps that both hold points or neither do.
<1>step. ASSUME NEW w \in Workers, NEW c \in Calls, call' = [call EXCEPT ![w] = c],
                c.pc = "nap" => c.waited < MaxWait, c.pc # "dead" => c.outcome \notin Pcs,
                Reserves(c) <=> w \in Holding,
                in_flight' = in_flight
         PROVE  call' \in [Workers -> Calls] /\ CallInv' /\ NeverOvercounted'
  <2>1. call' \in [Workers -> Calls] /\ CallInv'
    BY <1>step, OneCallMoves
  <2>2. Holding' = Holding
    <3> w \in Holding => Holding \cup {w} = Holding
      OBVIOUS
    <3> w \notin Holding => Holding \ {w} = Holding
      OBVIOUS
    <3>1. CASE Reserves(c)
      BY <3>1, <1>step, HoldingMoves
    <3>2. CASE ~Reserves(c)
      BY <3>2, <1>step, HoldingMoves
    <3> QED BY <3>1, <3>2
  <2> QED BY <2>1, <2>2, <1>step, <1>held
<1>1. CASE UNCHANGED throttleVars
  <2>1. Holding' = Holding
    BY <1>1 DEF throttleVars, Holding, Steps, At
  <2> QED BY <1>1, <2>1, <1>held DEF throttleVars, ThrottleInd, CallInv, At
<1>2. CASE Tick
  <2>1. \A w \in Workers : call'[w] = IF At(w, "nap") THEN [call[w] EXCEPT !.pc = "look", !.waited = @ + 1]
                                      ELSE call[w]
    BY <1>2 DEF Tick
  <2>2. ASSUME NEW w \in Workers
        PROVE  /\ call'[w] \in Calls /\ (Reserves(call'[w]) <=> Reserves(call[w]))
               /\ call'[w].pc # "nap"
               /\ call'[w].pc # "dead" => call'[w].outcome \notin Pcs
    <3>1. call[w] \in Calls /\ (At(w, "nap") => call[w].waited < MaxWait)
          /\ (~At(w, "dead") => call[w].outcome \notin Pcs)
      BY DEF ThrottleInd, CallInv
    <3>2. CASE At(w, "nap")
      <4>1. call'[w] = [call[w] EXCEPT !.pc = "look", !.waited = @ + 1]
        BY <2>1, <3>2
      <4>2. "look" \in Pcs /\ call[w].waited + 1 \in 0..MaxWait
        BY <3>1, <3>2 DEF Calls, Pcs
      <4>3. call'[w] \in Calls /\ call'[w].pc = "look" /\ call'[w].outcome = call[w].outcome
        BY <3>1, <4>1, <4>2 DEF Calls
      <4> QED BY <3>1, <3>2, <4>3 DEF At, Reserves, StepOf
    <3>3. CASE ~At(w, "nap")
      BY <2>1, <3>1, <3>3 DEF At
    <3> QED BY <3>2, <3>3
  <2>3. call' \in [Workers -> Calls] /\ CallInv'
    BY <1>2, <2>2 DEF Tick, CallInv, At
  <2>4. Holding' = Holding
    BY <2>2, HoldingReserves DEF Holding, Steps, At, Reserves, StepOf
  <2>a. in_flight' \in {in_flight, NoKey} /\ expires' \in {expires, NoKey}
    BY <1>2 DEF Tick
  <2>b. read_in_flight' <= read_in_flight
    <3>1. in_flight \in Int \cup {NoKey} /\ NoKey \notin Int
      BY ThrottleAssumption DEF ThrottleInd
    <3>2. read_in_flight \in Nat
      BY <3>1 DEF read_in_flight, Greater
    <3>3. in_flight' = NoKey => read_in_flight' = 0
      BY DEF read_in_flight
    <3>4. in_flight' = in_flight => read_in_flight' = read_in_flight
      BY DEF read_in_flight
    <3> QED BY <2>a, <3>2, <3>3, <3>4
  <2>c. ThrottleInd'
    <3>1. clock < MaxTime /\ clock' = clock + 1 /\ bucket' = Lesser(Maximum, bucket + 1)
          /\ snapshot' = snapshot
      BY <1>2 DEF Tick
    <3>2. clock' \in 0..MaxTime
      BY <3>1 DEF ThrottleInd
    <3>3. bucket' \in 0..Maximum
      BY <3>1 DEF ThrottleInd, Lesser
    <3> QED BY <3>1, <3>2, <3>3, <2>a, <2>3 DEF ThrottleInd
  <2>5. read_in_flight \in Nat /\ read_in_flight' \in Nat
    BY <2>c DEF ThrottleInd, read_in_flight, Greater
  <2> QED BY <2>b, <2>c, <2>4, <2>5, HoldingIsFinite DEF NeverOvercounted
<1> SUFFICES ASSUME NEW w \in Workers,
                    \/ execute(w) \/ look_at_headroom(w) \/ reserve(w) \/ expire(w)
                    \/ Answered(w) \/ Throttled(w) \/ Lost(w) \/ Refused(w)
                    \/ backoff(w) \/ release(w) \/ clamp(w) \/ interpret(w) \/ Dies(w)
             PROVE  ThrottleInd' /\ NeverOvercounted'
  BY <1>1, <1>2 DEF ThrottleNext
<1>w. /\ call[w] \in Calls /\ ThrottleInd
      /\ call[w].pc # "dead" => call[w].outcome \notin Pcs
      /\ w \in Holding <=> Reserves(call[w])
  BY HoldingReserves DEF ThrottleInd, CallInv, At
<1>3. CASE execute(w)
  <2> DEFINE c == [Idle EXCEPT !.pc = "look", !.attempt = 1]
  <2>1. c \in Calls /\ ~Reserves(c) /\ c.pc = "look" /\ c.outcome = "none"
    BY CallValues, <1>a DEF Reserves, StepOf
  <2>2. w \notin Holding
    BY <1>3, <1>w DEF execute, At, Reserves, StepOf
  <2>4. call' \in [Workers -> Calls] /\ CallInv' /\ NeverOvercounted'
    BY <1>3, <1>step, <2>1, <2>2 DEF execute, Pcs
  <2> QED BY <1>3, <2>4 DEF execute, ThrottleInd
\* A worker that only goes on to its next step.
<1>goto. ASSUME NEW pc \in Pcs \ {"dead"}, Goto(w, pc), call[w].pc # "dead",
                pc = "nap" => call[w].waited < MaxWait,
                pc \in {"expire", "post", "backoff", "release"} <=>
                   call[w].pc \in {"expire", "post", "backoff", "release"},
                in_flight' = in_flight
         PROVE  call' \in [Workers -> Calls] /\ CallInv' /\ NeverOvercounted'
  <2> DEFINE c == [call[w] EXCEPT !.pc = pc]
  <2>1. c \in Calls /\ c.pc = pc /\ c.outcome = call[w].outcome /\ c.waited = call[w].waited
    BY <1>w DEF Calls
  <2>2. call' = [call EXCEPT ![w] = c]
    BY <1>goto DEF Goto
  <2>3. Reserves(c) <=> w \in Holding
    BY <1>goto, <1>w, <2>1 DEF Reserves, StepOf
  <2> HIDE DEF c
  <2> QED BY <1>goto, <1>step, <1>w, <2>1, <2>2, <2>3
<1>pcs. {"look", "nap", "reserve", "expire", "post", "backoff", "release", "clamp", "interpret"}
          \subseteq Pcs \ {"dead"}
  BY DEF Pcs
<1>4. CASE look_at_headroom(w)
  <2> DEFINE pc == IF call[w].waited >= MaxWait \/ headroom >= Cost THEN "reserve" ELSE "nap"
  <2>1. pc \in Pcs \ {"dead"} /\ Goto(w, pc) /\ call[w].pc = "look" /\ in_flight' = in_flight
    BY <1>4, <1>pcs DEF look_at_headroom, At
  <2>2. pc = "nap" => call[w].waited < MaxWait
    BY <1>w DEF Calls
  <2>3. pc \notin {"expire", "post", "backoff", "release"}
    OBVIOUS
  <2> HIDE DEF pc
  <2>4. call' \in [Workers -> Calls] /\ CallInv' /\ NeverOvercounted'
    BY <1>goto, <2>1, <2>2, <2>3
  <2> QED BY <1>4, <2>4 DEF look_at_headroom, ThrottleInd
<1>5. CASE expire(w)
  <2>1. call' \in [Workers -> Calls] /\ CallInv' /\ NeverOvercounted'
    BY <1>5, <1>goto, <1>pcs DEF expire, At
  <2>2. expires' \in Nat \cup {NoKey}
    BY <1>5 DEF expire, ThrottleInd
  <2> QED BY <1>5, <2>1, <2>2 DEF expire, ThrottleInd
<1>6. CASE backoff(w)
  <2>1. call' \in [Workers -> Calls] /\ CallInv' /\ NeverOvercounted'
    BY <1>6, <1>goto, <1>pcs DEF backoff, At
  <2> QED BY <1>6, <2>1 DEF backoff, ThrottleInd
\* clamp writes zero, which is never too much.
<1>7. CASE clamp(w)
  <2> DEFINE c == [call[w] EXCEPT !.pc = "interpret"]
  <2>1. c \in Calls /\ c.pc = "interpret" /\ c.outcome = call[w].outcome
    BY <1>w, <1>pcs DEF Calls
  <2>2. call' = [call EXCEPT ![w] = c] /\ At(w, "clamp")
    BY <1>7 DEF clamp, Goto
  <2> HIDE DEF c
  <2>3. call' \in [Workers -> Calls] /\ CallInv'
    BY <1>w, <2>1, <2>2, OneCallMoves DEF At
  <2>4. ThrottleInd'
    BY <1>7, <2>3 DEF clamp, ThrottleInd
  <2>5. read_in_flight' = 0 /\ Cost * n' >= 0
    BY <1>7, <1>n, CostOfOne DEF clamp, read_in_flight, Greater
  <2> QED BY <2>4, <2>5 DEF NeverOvercounted
\* reserve counts one more call, and there is one more that holds points.
<1>8. CASE reserve(w)
  <2> DEFINE c == [call[w] EXCEPT !.pc = "expire"]
  <2>1. c \in Calls /\ c.pc = "expire" /\ c.outcome = call[w].outcome
    BY <1>w, <1>pcs DEF Calls
  <2>2. call' = [call EXCEPT ![w] = c] /\ call[w].pc = "reserve"
    BY <1>8 DEF reserve, Goto, At
  <2> HIDE DEF c
  <2>3. call' \in [Workers -> Calls] /\ CallInv'
    BY <1>w, <2>1, <2>2, OneCallMoves
  <2>4. in_flight' = (IF in_flight = NoKey THEN 0 ELSE in_flight) + Cost
    BY <1>8 DEF reserve, incrbyfloat
  <2>5. in_flight' \in Int
    BY <2>4 DEF ThrottleInd
  <2>6. w \notin Holding /\ Holding' = Holding \cup {w}
    BY <1>w, <2>1, <2>2, HoldingMoves DEF Reserves, StepOf
  <2>7. n' = n + 1
    BY <2>6, HoldingIsFinite
  <2>8. read_in_flight <= Cost * n
    BY DEF NeverOvercounted
  <2>9. read_in_flight' <= read_in_flight + Cost
    BY <2>4, <2>5 DEF read_in_flight, Greater, ThrottleInd
  <2>10. read_in_flight \in Nat /\ read_in_flight' \in Nat
    BY <2>5 DEF ThrottleInd, read_in_flight, Greater
  <2>11. Cost * n \in Nat /\ Cost * n' = Cost * n + Cost
    BY <1>n, <2>7, CostOfOne
  <2>12. NeverOvercounted'
    BY <2>8, <2>9, <2>10, <2>11 DEF NeverOvercounted
  <2> QED BY <1>8, <2>3, <2>5, <2>12 DEF reserve, ThrottleInd
\* release takes back what w counted, or as much of it as is still counted.
<1>9. CASE release(w)
  <2> DEFINE c == [call[w] EXCEPT !.pc = IF incrbyfloat(-Cost) < 0 THEN "clamp" ELSE "interpret"]
  <2>1. c \in Calls /\ c.pc \in {"clamp", "interpret"} /\ c.outcome = call[w].outcome
    BY <1>w, <1>pcs DEF Calls
  <2>2. call' = [call EXCEPT ![w] = c] /\ call[w].pc = "release"
    BY <1>9 DEF release, Goto, At
  <2> HIDE DEF c
  <2>3. call' \in [Workers -> Calls] /\ CallInv'
    BY <1>w, <2>1, <2>2, OneCallMoves
  <2>4. in_flight' = (IF in_flight = NoKey THEN 0 ELSE in_flight) - Cost
    BY <1>9 DEF release, incrbyfloat, ThrottleInd
  <2>5. in_flight' \in Int
    BY <2>4 DEF ThrottleInd
  <2>6. w \in Holding /\ Holding' = Holding \ {w}
    BY <1>w, <2>1, <2>2, HoldingMoves DEF Reserves, StepOf
  <2>7. n > 0 /\ n' = n - 1
    BY <2>6, HoldingIsFinite
  <2>8. read_in_flight <= Cost * n
    BY DEF NeverOvercounted
  <2>9. read_in_flight' = 0 \/ read_in_flight' <= read_in_flight - Cost
    BY <2>4, <2>5 DEF read_in_flight, Greater, ThrottleInd
  <2>10. read_in_flight \in Nat /\ read_in_flight' \in Nat
    BY <2>5 DEF ThrottleInd, read_in_flight, Greater
  <2>11. Cost * n \in Nat /\ Cost * n' = Cost * n - Cost /\ Cost * n' >= 0
    BY <1>n, <2>7, CostOfOne
  <2>12. NeverOvercounted'
    BY <2>8, <2>9, <2>10, <2>11 DEF NeverOvercounted
  <2> QED BY <1>9, <2>3, <2>5, <2>12 DEF release, ThrottleInd
\* However the round trip ends, w holds its points until it releases them.
<1>ends. ASSUME NEW outcome \in {"answered", "throttled", "failed", "refused"},
                NEW available \in (0..Maximum) \cup {NoKey},
                At(w, "post"), Ends(w, outcome, available), in_flight' = in_flight
         PROVE  call' \in [Workers -> Calls] /\ CallInv' /\ NeverOvercounted'
  <2> DEFINE c == [call[w] EXCEPT !.pc = IF outcome = "failed" /\ may_retry(w)
                                         THEN "backoff" ELSE "release",
                                  !.outcome = outcome, !.told = available]
  <2>1. c \in Calls /\ c.pc \in {"backoff", "release"} /\ c.outcome = outcome
    BY <1>w, <1>pcs DEF Calls
  <2>2. call' = [call EXCEPT ![w] = c]
    BY <1>ends DEF Ends
  <2>3. outcome \notin Pcs
    BY DEF Pcs
  <2> HIDE DEF c
  <2>4. Reserves(c) /\ w \in Holding
    BY <1>ends, <1>w, <2>1 DEF Reserves, StepOf, At
  <2> QED BY <1>ends, <1>step, <2>1, <2>2, <2>3, <2>4
<1>10. CASE Answered(w)
  <2>1. bucket - Cost \in 0..Maximum /\ bucket' = bucket - Cost
    BY <1>10 DEF Answered, ThrottleInd
  <2>2. call' \in [Workers -> Calls] /\ CallInv' /\ NeverOvercounted'
    BY <1>10, <1>ends, <2>1 DEF Answered
  <2> QED BY <1>10, <2>1, <2>2 DEF Answered, ThrottleInd
<1>11. CASE Throttled(w)
  <2>1. bucket \in 0..Maximum
    BY DEF ThrottleInd
  <2>2. call' \in [Workers -> Calls] /\ CallInv' /\ NeverOvercounted'
    BY <1>11, <1>ends, <2>1 DEF Throttled
  <2>3. snapshot' = NoKey \/ snapshot' \in [available : 0..Maximum, at : Nat]
    BY <1>11 DEF Throttled, ThrottleInd
  <2> QED BY <1>11, <2>2, <2>3 DEF Throttled, ThrottleInd
<1>12. CASE Lost(w)
  <2>1. bucket' \in 0..Maximum
    BY <1>12 DEF Lost, ThrottleInd
  <2>2. call' \in [Workers -> Calls] /\ CallInv' /\ NeverOvercounted'
    BY <1>12, <1>ends DEF Lost
  <2> QED BY <1>12, <2>1, <2>2 DEF Lost, ThrottleInd
<1>13. CASE Refused(w)
  <2>1. call' \in [Workers -> Calls] /\ CallInv' /\ NeverOvercounted'
    BY <1>13, <1>ends DEF Refused
  <2> QED BY <1>13, <2>1 DEF Refused, ThrottleInd
<1>14. CASE interpret(w)
  <2> DEFINE c == IF call[w].outcome \in {"throttled", "failed"} /\ may_retry(w)
                  THEN [Idle EXCEPT !.pc = "look", !.attempt = @ + call[w].attempt + 1]
                  ELSE Idle
  <2>1. call' = [call EXCEPT ![w] = c] /\ At(w, "interpret") /\ in_flight' = in_flight
    BY <1>14 DEF interpret
  <2>2. Idle.attempt + call[w].attempt + 1 = call[w].attempt + 1
    BY <1>w DEF Idle, Calls
  <2>3. may_retry(w) => call[w].attempt + 1 \in 1..MaxAttempts
    BY <1>w DEF may_retry, Calls
  <2>4. c \in Calls /\ c.pc \in {"idle", "look"} /\ c.outcome = "none"
    BY <2>2, <2>3, CallValues
  <2> HIDE DEF c
  <2>5. ~Reserves(c) /\ w \notin Holding
    BY <1>w, <2>1, <2>4 DEF Reserves, StepOf, At
  <2>6. "none" \notin Pcs
    BY DEF Pcs
  <2>7. call' \in [Workers -> Calls] /\ CallInv' /\ NeverOvercounted'
    BY <1>step, <2>1, <2>4, <2>5, <2>6
  <2>8. call[w].told = NoKey \/ call[w].told \in 0..Maximum
    BY <1>w DEF Calls
  <2>9. snapshot' = NoKey \/ snapshot' \in [available : 0..Maximum, at : Nat]
    BY <1>14, <2>8 DEF interpret, ThrottleInd
  <2> QED BY <1>14, <2>7, <2>9 DEF interpret, ThrottleInd
\* A worker that dies keeps what it held.
<1>15. CASE Dies(w)
  <2> DEFINE c == [Idle EXCEPT !.pc = "dead", !.outcome = call[w].pc]
  <2>1. call' = [call EXCEPT ![w] = c] /\ call[w].pc # "dead" /\ in_flight' = in_flight
    BY <1>15 DEF Dies
  <2>2. c \in Calls /\ c.pc = "dead" /\ c.outcome = call[w].pc
    BY <1>w, CallValues DEF Calls
  <2> HIDE DEF c
  <2>3. Reserves(c) <=> w \in Holding
    BY <1>w, <2>1, <2>2 DEF Reserves, StepOf
  <2>4. call' \in [Workers -> Calls] /\ CallInv' /\ NeverOvercounted'
    BY <1>step, <2>1, <2>2, <2>3
  <2> QED BY <1>15, <2>4 DEF Dies, ThrottleInd
<1> QED BY <1>3, <1>4, <1>5, <1>6, <1>7, <1>8, <1>9, <1>10, <1>11, <1>12, <1>13, <1>14, <1>15

\* api/throttle.py's acquire and release: whatever fails, dies, expires or comes
\* late, the points counted in Redis are never more than those of the calls that
\* still hold them.
THEOREM PointsCounted == ThrottleSpec => []NeverOvercounted
<1>1. ThrottleInit => ThrottleInd /\ NeverOvercounted
  BY ThrottleStarts
<1>2. ThrottleInd /\ NeverOvercounted /\ [ThrottleNext]_throttleVars => ThrottleInd' /\ NeverOvercounted'
  BY ThrottleStep
<1> QED BY <1>1, <1>2, PTL DEF ThrottleSpec
==============================================================================
