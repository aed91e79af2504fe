------------------------------- MODULE Pricing -------------------------------
(***************************************************************************)
(* What a published product costs on Shopify and which tax it is charged:  *)
(* outbound/price.py sends each variant's price, outbound/collections.py   *)
(* keeps the product in the collection of its tax band, and                *)
(* reconcile_collections checks that every night.                          *)
(*                                                                         *)
(* A product is a plain Item or a template's variants, all linked.  The    *)
(* Item Group's rules give a tax template for a price; a collection stands *)
(* for the tax template it is mapped to.                                   *)
(***************************************************************************)
EXTENDS Naturals, FiniteSets

CONSTANTS
    Pieces,       \* the Items with a price: the variants, or the plain Item
    Template,     \* their template; there is one when there are several
    Rates,
    Rules,        \* rules the group may have, from a price to a tax template
    Mapped,       \* tax templates with a collection (tax_collection_map)
    Own,          \* a collection of the merchant's
    MaxSaves,     \* bound: saves, nightly runs and pushes that fail
    NoRate, NoTax

ASSUME PricingAssumption ==
    /\ IsFiniteSet(Pieces) /\ Pieces # {} /\ Template \notin Pieces
    /\ NoRate \notin Rates /\ Own \notin Mapped /\ NoTax \notin Mapped
    /\ \A r \in Rules : DOMAIN r = Rates \cup {NoRate}
    /\ MaxSaves \in Nat

VARIABLES
    listed,       \* the valid retail Item Price on the store's list
    standard,     \* Item.standard_rate
    delisted,     \* disabled Items
    rules,        \* the Item Group's taxes
    priceRows, taxRows,  \* Items with a Pending price or collection row
    recheck,      \* the job recheck_item_group
    selling,      \* Shopify: the price of a variant
    member,       \* Shopify: the product's collections
    pricePush, taxPush,  \* rows being pushed
    nightly,      \* reconcile_collections
    silent,       \* rows a change would have needed and nobody queued; and whether
    overtaken,    \* a nightly run wrote what was no longer so (not in the code)
    saves

pricingVars == <<listed, standard, delisted, rules, priceRows, taxRows, recheck, selling,
                 member, pricePush, taxPush, nightly, silent, overtaken, saves>>

NoPricePush == <<>>
NoDecision == [pc |-> "idle", row |-> NoTax, want |-> {}, leave |-> FALSE]

Templated == Cardinality(Pieces) > 1
Subject == IF Templated THEN Template ELSE CHOOSE p \in Pieces : TRUE

current_price(p) == IF listed[p] # NoRate THEN listed[p] ELSE standard[p]
tax_template(p) == rules[IF p = Template THEN NoRate ELSE current_price(p)]

PricingInit ==
    /\ listed = [p \in Pieces |-> NoRate]
    /\ \E r \in Rates : standard = [p \in Pieces |-> r]
    /\ delisted = {} /\ rules \in Rules
    /\ priceRows = Pieces /\ taxRows = {Subject} /\ recheck = "none"
    /\ selling = [p \in Pieces |-> NoRate] /\ member = {Own}
    /\ pricePush = NoPricePush /\ taxPush = NoDecision /\ nightly = NoDecision
    /\ silent = {} /\ overtaken = FALSE /\ saves = 0

Saves == saves < MaxSaves /\ saves' = saves + 1

-----------------------------------------------------------------------------
(* What queues a push.                                                      *)

\* collections._enqueue_for_stores: the Item's own row, and its template's.
tax_rows(p) == {p} \cup (IF Templated THEN {Template} ELSE {})

price_row(p) == {p}

Queue(p) ==
    /\ priceRows' = priceRows \cup price_row(p)
    /\ taxRows' = taxRows \cup tax_rows(p)
    /\ silent' = silent \ ({<<"price", p>>} \cup {<<"tax", k>> : k \in tax_rows(p)})

\* An Item Price of the list is saved, or deleted.
on_price_change(p, r) ==
    /\ Saves
    /\ listed' = [listed EXCEPT ![p] = r]
    /\ Queue(p)
    /\ UNCHANGED <<standard, delisted, rules, recheck, selling, member, pricePush, taxPush,
                   nightly, overtaken>>

\* A user saves the Item: its standard rate, or whether it is disabled.
price_on_item_change(p, r, d) ==
    /\ Saves
    /\ standard' = [standard EXCEPT ![p] = r]
    /\ delisted' = IF d THEN delisted \cup {p} ELSE delisted \ {p}
    /\ Queue(p)
    /\ UNCHANGED <<listed, rules, recheck, selling, member, pricePush, taxPush, nightly,
                   overtaken>>

\* products/update archives the product or brings it back: its Items are disabled,
\* or not, in a save both hooks take for an echo.  Nothing is queued, although
\* what was decided while all were disabled was decided without them, and a rule
\* that changed in the meantime left no row.
disabled_by_webhook(archived) ==
    /\ Saves
    /\ delisted' = IF archived THEN Pieces ELSE {}
    /\ silent' = IF Pieces \subseteq delisted /\ ~archived THEN silent \cup {<<"tax", Subject>>}
                 ELSE silent
    /\ UNCHANGED <<listed, standard, rules, priceRows, taxRows, recheck, selling, member,
                   pricePush, taxPush, nightly, overtaken>>

\* valid_upto passes: nobody saves anything.
Lapse(p) ==
    /\ Saves
    /\ listed[p] # NoRate /\ listed' = [listed EXCEPT ![p] = NoRate]
    /\ silent' = silent \cup {<<"price", p>>} \cup {<<"tax", k>> : k \in tax_rows(p)}
    /\ UNCHANGED <<standard, delisted, rules, priceRows, taxRows, recheck, selling, member,
                   pricePush, taxPush, nightly, overtaken>>

\* The group's taxes changed: one job, unless one is queued or running.
on_item_group_change(r) ==
    /\ Saves
    /\ r # rules /\ rules' = r
    /\ recheck' = IF recheck = "none" THEN "queued" ELSE recheck
    /\ UNCHANGED <<listed, standard, delisted, priceRows, taxRows, selling, member, pricePush,
                   taxPush, nightly, silent, overtaken>>

start_recheck ==
    /\ recheck = "queued" /\ recheck' = "running"
    /\ UNCHANGED <<listed, standard, delisted, rules, priceRows, taxRows, selling, member,
                   pricePush, taxPush, nightly, silent, overtaken, saves>>

\* One row per published product with an enabled Item, all committed at its end.
recheck_item_group ==
    /\ recheck = "running" /\ recheck' = "none"
    /\ taxRows' = IF Pieces \subseteq delisted THEN taxRows ELSE taxRows \cup {Subject}
    /\ UNCHANGED <<listed, standard, delisted, rules, priceRows, selling, member, pricePush,
                   taxPush, nightly, silent, overtaken, saves>>

-----------------------------------------------------------------------------
(* Prices are read when the rows are claimed; a row without one is skipped. *)

claim_prices ==
    /\ pricePush = NoPricePush /\ priceRows # {}
    /\ \E R \in SUBSET priceRows \ {{}} :
          /\ pricePush' = [p \in R |-> current_price(p)]
          /\ priceRows' = priceRows \ R
    /\ UNCHANGED <<listed, standard, delisted, rules, taxRows, recheck, selling, member,
                   taxPush, nightly, silent, overtaken, saves>>

\* productVariantsBulkUpdate, all of the product's or none.
push_prices ==
    /\ pricePush # NoPricePush
    /\ \/ /\ selling' = [p \in Pieces |-> IF p \in DOMAIN pricePush /\ pricePush[p] # NoRate
                                          THEN pricePush[p] ELSE selling[p]]
          /\ UNCHANGED <<priceRows, saves>>
       \/ Saves /\ priceRows' = priceRows \cup DOMAIN pricePush /\ UNCHANGED selling
    /\ pricePush' = NoPricePush
    /\ UNCHANGED <<listed, standard, delisted, rules, taxRows, recheck, member, taxPush,
                   nightly, silent, overtaken>>

-----------------------------------------------------------------------------
(* The collection: decided on a snapshot, written against what is there.    *)

\* A template has the band all its enabled variants share.  Without an enabled
\* one it is asked for its own, without a price.
_variants(k) == IF k = Template THEN Pieces \ delisted ELSE {}

bands_of(k) ==
    IF _variants(k) = {} THEN {tax_template(k)} \ {NoTax}
    ELSE {tax_template(p) : p \in _variants(k)} \ {NoTax}

target_collection(k) ==
    [pc |-> "decided", row |-> k, want |-> bands_of(k) \cap Mapped,
     leave |-> Cardinality(bands_of(k)) > 1]

\* Variant: the merchant's collections are replaced with the rest.
memberships_all(want) == want

\* The merchant's other collections are no concern of this.
memberships(want) == (member \ Mapped) \cup want

Apply(decision) == member' = IF decision.leave THEN member ELSE memberships(decision.want)

claim_collection(k) ==
    /\ taxPush = NoDecision /\ k \in taxRows
    /\ taxRows' = taxRows \ {k}
    /\ taxPush' = target_collection(k)
    /\ UNCHANGED <<listed, standard, delisted, rules, priceRows, recheck, selling, member,
                   pricePush, nightly, silent, overtaken, saves>>

sync_item_collections ==
    /\ taxPush # NoDecision
    /\ \/ Apply(taxPush) /\ UNCHANGED <<taxRows, saves>>
       \/ Saves /\ taxRows' = taxRows \cup {taxPush.row} /\ UNCHANGED member
    /\ taxPush' = NoDecision
    /\ UNCHANGED <<listed, standard, delisted, rules, priceRows, recheck, selling, pricePush,
                   nightly, silent, overtaken>>

\* The nightly run decides on the snapshot it opens with, for every product ...
nightly_opens ==
    /\ Saves
    /\ nightly = NoDecision /\ nightly' = target_collection(Subject)
    /\ UNCHANGED <<listed, standard, delisted, rules, priceRows, taxRows, recheck, selling,
                   member, pricePush, taxPush, silent, overtaken>>

\* ... and writes beside the drain.
reconcile_collections ==
    /\ nightly # NoDecision
    /\ Apply(nightly)
    /\ nightly' = NoDecision
    /\ overtaken' = (nightly # target_collection(Subject))
    /\ UNCHANGED <<listed, standard, delisted, rules, priceRows, taxRows, recheck, selling,
                   pricePush, taxPush, silent, saves>>

PricingNext ==
    \/ \E p \in Pieces :
          \/ \E r \in Rates \cup {NoRate} :
                \/ on_price_change(p, r) \/ price_on_item_change(p, r, p \in delisted)
          \/ price_on_item_change(p, standard[p], p \notin delisted)
          \/ Lapse(p)
    \/ \E archived \in BOOLEAN : disabled_by_webhook(archived)
    \/ \E r \in Rules : on_item_group_change(r)
    \/ start_recheck \/ recheck_item_group \/ claim_prices \/ push_prices
    \/ \E k \in taxRows : claim_collection(k)
    \/ sync_item_collections \/ nightly_opens \/ reconcile_collections

PricingSpec == PricingInit /\ [][PricingNext]_pricingVars

-----------------------------------------------------------------------------

PricingTypeOK ==
    /\ listed \in [Pieces -> Rates \cup {NoRate}] /\ standard \in [Pieces -> Rates \cup {NoRate}]
    /\ delisted \subseteq Pieces /\ rules \in Rules
    /\ priceRows \subseteq Pieces /\ taxRows \subseteq Pieces \cup {Template}
    /\ recheck \in {"none", "queued", "running"}
    /\ selling \in [Pieces -> Rates \cup {NoRate}] /\ member \subseteq Mapped \cup {Own}
    /\ taxPush.pc \in {"idle", "decided"} /\ nightly.pc \in {"idle", "decided"}
    /\ saves \in 0..MaxSaves

\* Once what a save queued has been pushed, Shopify charges the price ERPNext
\* would, and the tax: the product is in the collection of its band and in no
\* other mapped one, while the merchant's own stay.  Not covered, and not true: a
\* price that lapses, a nightly run overtaken by a save, a product whose Items were
\* all disabled until a webhook brought it back, and variants that differ in their
\* band -- there the last variant's own row decides for all of them.
ShopChargesAsBooked ==
    /\ Own \in member
    /\ \A p \in Pieces \ (priceRows \cup DOMAIN pricePush) :
          <<"price", p>> \notin silent /\ current_price(p) # NoRate => selling[p] = current_price(p)
    /\ LET settled == /\ taxRows = {} /\ taxPush = NoDecision /\ nightly = NoDecision
                      /\ recheck = "none" /\ ~overtaken
                      /\ \A k \in Pieces \cup {Subject} : <<"tax", k>> \notin silent
           agreed == Cardinality({tax_template(p) : p \in Pieces}) = 1
       IN  settled /\ agreed /\ delisted # Pieces =>
              member \cap Mapped = {tax_template(p) : p \in Pieces} \cap Mapped
=============================================================================
