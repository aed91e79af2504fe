------------------------------- MODULE Stock -------------------------------
(***************************************************************************)
(* Stock: outbound/inventory.py tells Shopify what may be sold,            *)
(* inbound/inventory.py and the nightly reconcile_inventory look for       *)
(* disagreement.  ERPNext is the master; Shopify is corrected, always.     *)
(*                                                                         *)
(* A key is what a dedupe key names, an item at a Shopify location; the    *)
(* shelves are the leaf warehouses that feed it.  A queue row carries no   *)
(* quantity, so it is one of three states; what the engine does with rows  *)
(* is SyncQueue's.  Stock on a shelf is counted in 1/Parts of a unit.      *)
(***************************************************************************)
EXTENDS Integers, FiniteSetsExt

CONSTANTS
    Keys, Shelves,
    Feeds,        \* warehouses_for_location, turned round: the key of a shelf
    Parts,        \* the smallest quantity ERPNext keeps is a unit / Parts
    Before,       \* what Shopify may have of an item before it is linked
    MaxMoves,     \* bound: things that happen to the stock, on either side, and
                  \* calls that fail or whose reply is lost
    NoLevel       \* Shopify has never stocked the item at the location

ASSUME StockAssumption ==
    /\ Feeds \in [Shelves -> Keys] /\ IsFiniteSet(Shelves)
    /\ Parts \in Nat \ {0} /\ MaxMoves \in Nat /\ NoLevel \notin Int
    /\ Before \subseteq Int \cup {NoLevel}

VARIABLES
    actual, reserved,  \* Bin.actual_qty and Bin.reserved_qty
    off,          \* keys whose Item is disabled
    mapped,       \* keys whose Item Link has an inventory item
    level,        \* what Shopify has available
    carts,        \* units sold on Shopify, not yet a Sales Order
    pending,      \* the key's Pending row: "none", "due" or "held"
    push,         \* the drain's push_inventory
    told,         \* inventory_levels/update on their way
    look,         \* the drift check of one of them
    audit,        \* availability as the nightly run's snapshot has it
    verify,       \* Store.verify_stock_before_write
    unsaid,       \* keys that no row speaks for: linked while ERPNext held
                  \* nothing, or their last row Failed, and none queued since
    moves

stockVars == <<actual, reserved, off, mapped, level, carts, pending, push, told,
               look, audit, verify, unsaid, moves>>

NoPush == [pc |-> "idle", rows |-> {}, quantity |-> <<>>, seen |-> <<>>, again |-> FALSE]
NoLook == [pc |-> "idle"]
NoAudit == <<>>

StockInit ==
    /\ actual = [s \in Shelves |-> Parts] /\ reserved = [s \in Shelves |-> 0]
    /\ off = {} /\ mapped = {} /\ level \in [Keys -> Before]
    /\ carts = [k \in Keys |-> 0] /\ pending = [k \in Keys |-> "none"]
    /\ push = NoPush /\ told = {} /\ look = NoLook /\ audit = NoAudit
    /\ verify \in BOOLEAN /\ unsaid = {} /\ moves = 0

shelves_of(k) == {s \in Shelves : Feeds[s] = k}

\* Variant: what is there and what is reserved are rounded each on its own.
floored_apart(s) == (actual[s] \div Parts) - (reserved[s] \div Parts)

\* floor(actual_qty - reserved_qty); not clamped at zero.
available_quantity(s) == (actual[s] - reserved[s]) \div Parts

Sum(f) == MapThenSumSet(LAMBDA s : f[s], DOMAIN f)

available_for_location(k) ==
    IF k \in off THEN 0 ELSE Sum([s \in shelves_of(k) |-> available_quantity(s)])

-----------------------------------------------------------------------------
(* What queues a push.  An Item that is not linked costs one read.          *)

\* enqueue_sync: a row for the key unless one is Pending, which then keeps
\* its own next_attempt_at.
enqueue_sync(K) ==
    [k \in Keys |-> IF k \in K /\ pending[k] = "none" THEN "due" ELSE pending[k]]

\* What no row speaks for, with L added: a row that is queued speaks for its key.
Left(L) == unsaid' = {k \in unsaid \cup L : pending'[k] = "none"}

enqueue_for_item(k) == pending' = enqueue_sync({k} \cap mapped) /\ Left({})

Moved == moves < MaxMoves /\ moves' = moves + 1

\* A Stock Ledger Entry: d parts in or out of a shelf.
on_stock_movement(s, d) ==
    /\ Moved
    /\ actual' = [actual EXCEPT ![s] = @ + d]
    /\ enqueue_for_item(Feeds[s])
    /\ UNCHANGED <<reserved, off, mapped, level, carts, push, told, look, audit, verify>>

\* A Sales Order submitted, cancelled, closed or edited: d parts reserved.
on_reservation_change(s, d) ==
    /\ Moved
    /\ reserved' = [reserved EXCEPT ![s] = @ + d] /\ reserved'[s] >= 0
    /\ enqueue_for_item(Feeds[s])
    /\ UNCHANGED <<actual, off, mapped, level, carts, push, told, look, audit, verify>>

\* The Item is disabled or enabled: enqueue_for_all_locations, one shelf at a
\* time.
Disable(k) ==
    /\ Moved
    /\ off' = (off \ {k}) \cup ({k} \ off)
    /\ enqueue_for_item(k)
    /\ UNCHANGED <<actual, reserved, mapped, level, carts, push, told, look, audit, verify>>

\* The product is linked, and its opening push queued (Listing) if ERPNext holds
\* any: a zero is not sent over what the merchant may have there
\* (_erpnext_holds_stock).  An Item also counts as held for what it has at
\* another location.
Open(k) ==
    /\ k \notin mapped
    /\ mapped' = mapped \cup {k}
    /\ \E held \in IF available_for_location(k) # 0 THEN {TRUE} ELSE BOOLEAN :
           pending' = IF held THEN enqueue_sync({k}) ELSE pending
    /\ Left({k})
    /\ UNCHANGED <<actual, reserved, off, level, carts, push, told, look, audit, verify, moves>>

-----------------------------------------------------------------------------
(* Shopify's side.  Every change of a level is told, in any order.          *)

SetLevels(new) ==
    /\ level' = [k \in Keys |-> IF k \in DOMAIN new THEN new[k] ELSE level[k]]
    /\ told' = told \cup {<<k, new[k]>> : k \in {k \in DOMAIN new : new[k] # level[k]}}

Checkout(k) ==
    /\ Moved
    /\ level[k] # NoLevel /\ level[k] > 0
    /\ SetLevels([x \in {k} |-> level[x] - 1])
    /\ carts' = [carts EXCEPT ![k] = @ + 1]
    /\ UNCHANGED <<actual, reserved, off, mapped, pending, push, look, audit, verify, unsaid>>

\* The order is imported: its Sales Order reserves the unit.
Import(k, s) ==
    /\ carts[k] > 0 /\ s \in shelves_of(k)
    /\ carts' = [carts EXCEPT ![k] = @ - 1]
    /\ reserved' = [reserved EXCEPT ![s] = @ + Parts]
    /\ enqueue_for_item(k)
    /\ UNCHANGED <<actual, off, mapped, level, push, told, look, audit, verify, moves>>

\* Staff or another app sets a level in the Shopify admin.
AdjustLevel(k, n) ==
    /\ Moved /\ level[k] \notin {NoLevel, n}
    /\ SetLevels([x \in {k} |-> n])
    /\ UNCHANGED <<actual, reserved, off, mapped, carts, pending, push, look, audit, verify,
                   unsaid>>

-----------------------------------------------------------------------------
(* push_inventory: what is due is claimed, then read, then sent.            *)

Claim ==
    /\ push = NoPush
    /\ \E k \in Keys : pending[k] = "due"
    /\ push' = [NoPush EXCEPT !.pc = "claimed", !.rows = {k \in Keys : pending[k] = "due"}]
    /\ pending' = [k \in Keys |-> IF pending[k] = "due" THEN "none" ELSE pending[k]]
    /\ UNCHANGED <<actual, reserved, off, mapped, level, carts, told, look, audit, verify, unsaid,
                   moves>>

\* _resolve_targets: the quantities are read now, and only now.
resolve_targets ==
    /\ push.pc = "claimed"
    /\ push' = [push EXCEPT !.pc = IF verify THEN "read" ELSE "send",
                            !.quantity = [k \in push.rows |-> available_for_location(k)]]
    /\ UNCHANGED <<actual, reserved, off, mapped, level, carts, pending, told, look, audit,
                   verify, unsaid, moves>>

pushed(K) == [k \in K |-> push.quantity[k]]

\* A call's reply arrives; or it is lost, and the client sends the call again.
Replied(next) == \/ push' = next /\ UNCHANGED moves
                 \/ Moved /\ UNCHANGED push

\* The default: one call, ignoring what Shopify has.
send ==
    /\ push.pc = "send"
    /\ SetLevels(pushed(push.rows))
    /\ Replied(NoPush)
    /\ UNCHANGED <<actual, reserved, off, mapped, carts, pending, look, audit, verify, unsaid>>

\* _current_levels.
current_levels ==
    /\ push.pc = "read"
    /\ push' = [push EXCEPT !.pc = "uncompared", !.seen = [k \in push.rows |-> level[k]]]
    /\ UNCHANGED <<actual, reserved, off, mapped, level, carts, pending, told, look, audit,
                   verify, unsaid, moves>>

uncompared == {k \in push.rows : push.seen[k] = NoLevel}

\* What has no level to compare with goes in a call of its own, unconditionally.
send_uncompared ==
    /\ push.pc = "uncompared"
    /\ SetLevels(pushed(uncompared))
    /\ Replied(IF uncompared = push.rows THEN NoPush ELSE [push EXCEPT !.pc = "compared"])
    /\ UNCHANGED <<actual, reserved, off, mapped, carts, pending, look, audit, verify, unsaid>>

\* The push is over without having said its figures: the rows `spent` are
\* Failed, at once after a refusal or at the end of their attempts, and the
\* others are Pending again later, unless the key has a newer row.
RowsReturn(spent) ==
    /\ pending' = [k \in Keys |-> IF k \in push.rows \ spent /\ pending[k] = "none"
                                  THEN "held" ELSE pending[k]]
    /\ push' = NoPush
    /\ Left(spent)

\* The rest, all or nothing.  On a mismatch the same batch goes round once
\* more; then it is ShopifyInventoryConflict, and every row backs off.
send_compared ==
    /\ push.pc = "compared"
    /\ LET compared == push.rows \ uncompared
       IN  \/ /\ \A k \in compared : level[k] = push.seen[k]
              /\ SetLevels(pushed(compared))
              /\ Replied(NoPush)
              /\ UNCHANGED <<pending, unsaid>>
           \/ /\ \E k \in compared : level[k] # push.seen[k]
              /\ IF push.again
                 THEN \E spent \in SUBSET push.rows : RowsReturn(spent)
                 ELSE /\ push' = [push EXCEPT !.pc = "read", !.again = TRUE]
                      /\ UNCHANGED <<pending, unsaid>>
              /\ UNCHANGED <<level, told, moves>>
    /\ UNCHANGED <<actual, reserved, off, mapped, carts, look, audit, verify>>

\* The call fails, or the worker dies and the janitor finds the rows.
PushFails ==
    /\ Moved
    /\ push # NoPush
    /\ \E spent \in SUBSET push.rows : RowsReturn(spent)
    /\ UNCHANGED <<actual, reserved, off, mapped, level, carts, told, look, audit, verify>>

\* next_attempt_at arrives.
Due(k) ==
    /\ pending[k] = "held"
    /\ pending' = [pending EXCEPT ![k] = "due"]
    /\ UNCHANGED <<actual, reserved, off, mapped, level, carts, push, told, look, audit, verify,
                   unsaid, moves>>

-----------------------------------------------------------------------------
(* Disagreement.  Both checks decide on a snapshot.                         *)

\* Variant: a push that has read its quantities counts as still to come.
push_in_flight(k) == pending[k] # "none" \/ k \in push.rows

push_already_pending(k) == pending[k] # "none"

\* detect_drift opens its snapshot.
detect_drift(k, n) ==
    /\ look = NoLook /\ <<k, n>> \in told
    /\ told' = told \ {<<k, n>>}
    /\ look' = [pc |-> "looking", key |-> k, queue |-> k \in mapped
                   /\ n # available_for_location(k) /\ ~push_already_pending(k)]
    /\ UNCHANGED <<actual, reserved, off, mapped, level, carts, pending, push, audit, verify,
                   unsaid, moves>>

\* A row of its own waits DRIFT_SETTLE_SECONDS; one that got there first is
\* left as it is.
correct_drift ==
    /\ look.pc = "looking"
    /\ pending' = IF look.queue /\ pending[look.key] = "none"
                  THEN [pending EXCEPT ![look.key] = "held"] ELSE pending
    /\ Left({})
    /\ look' = NoLook
    /\ UNCHANGED <<actual, reserved, off, mapped, level, carts, push, told, audit, verify, moves>>

\* reconcile_inventory reads the links, and with them opens its snapshot ...
reconcile_opens ==
    /\ Moved /\ audit = NoAudit
    /\ audit' = [k \in mapped |-> available_for_location(k)]
    /\ UNCHANGED <<actual, reserved, off, mapped, level, carts, pending, push, told, look, verify,
                   unsaid>>

\* ... then asks Shopify, and queues what differs, at once.
reconcile_inventory ==
    /\ audit # NoAudit
    /\ pending' = enqueue_sync({k \in DOMAIN audit : level[k] \notin {NoLevel, audit[k]}})
    /\ Left({})
    /\ audit' = NoAudit
    /\ UNCHANGED <<actual, reserved, off, mapped, level, carts, push, told, look, verify, moves>>

Pushing == \/ Claim \/ resolve_targets \/ send \/ current_levels
           \/ send_uncompared \/ send_compared
Checking == correct_drift \/ reconcile_opens \/ reconcile_inventory

StockNext ==
    \/ \E s \in Shelves : \/ \E d \in {-1, Parts} : on_stock_movement(s, d)
                          \/ \E d \in {-1, 1} : on_reservation_change(s, d)
    \/ \E k \in Keys : \/ Disable(k) \/ Open(k) \/ Checkout(k) \/ AdjustLevel(k, 0)
                       \/ Due(k) \/ \E s \in Shelves : Import(k, s)
    \/ Pushing \/ PushFails \/ Checking
    \/ \E t \in told : detect_drift(t[1], t[2])

StockSpec == StockInit /\ [][StockNext]_stockVars

-----------------------------------------------------------------------------

StockTypeOK ==
    /\ actual \in [Shelves -> Int] /\ reserved \in [Shelves -> Nat]
    /\ off \subseteq Keys /\ mapped \subseteq Keys
    /\ level \in [Keys -> Int \cup {NoLevel}] /\ carts \in [Keys -> Nat]
    /\ pending \in [Keys -> {"none", "due", "held"}]
    /\ push.pc \in {"idle", "claimed", "send", "read", "uncompared", "compared"}
    /\ push.rows \subseteq Keys
    /\ \A t \in told : t[1] \in Keys /\ t[2] \in Int
    /\ look.pc \in {"idle", "looking"}
    /\ verify \in BOOLEAN /\ unsaid \subseteq Keys /\ moves \in 0..MaxMoves

\* Nothing about the key is queued, in hand or on its way, and its last row, if
\* it needed one, got through.
Settled(k) ==
    /\ k \in mapped \ unsaid /\ pending[k] = "none" /\ k \notin push.rows /\ carts[k] = 0
    /\ \A t \in told : t[1] # k
    /\ look.pc = "looking" => look.key # k

\* Once every queued push, drift check and order import of a key is over, the
\* two sides agree: no sale, edit in the admin, lost compare, call sent twice or
\* stale snapshot leaves Shopify with a figure nobody will correct.  A key no row
\* speaks for -- one linked while ERPNext held nothing, one whose last row Failed
\* -- is left as it is until something queues it again (push_initial_state,
\* _handle_error).
SettledIsEqual == \A k \in Keys : Settled(k) => level[k] = available_for_location(k)

\* What Shopify is left offering is on the shelves and unreserved: no fraction
\* is rounded up, shelf by shelf or in total, and a disabled Item offers none,
\* also one that Shopify had stocked before it was linked.
NeverOversells ==
    \A k \in Keys : Settled(k) =>
        /\ k \in off => level[k] = 0
        /\ k \notin off =>
              Parts * level[k] <= Sum([s \in shelves_of(k) |-> actual[s] - reserved[s]])
=============================================================================
