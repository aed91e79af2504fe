------------------------------ MODULE Listing ------------------------------
(***************************************************************************)
(* One ERPNext Item and its listing on Shopify: outbound/product.py makes  *)
(* and updates the product, catalogue/mapping.py writes back what the      *)
(* products/* webhooks say, Shopify Item Link joins the two.               *)
(*                                                                         *)
(* The Item is a plain one or a template with variants.  One drain works   *)
(* for a store at a time (the drain lock); the webhook handlers run beside *)
(* it on other workers, each reading through the snapshot its transaction  *)
(* opened with.  Item codes stand for Shopify variants too: the variant of *)
(* size s carries the SKU s, and Ghost is the one productCreate leaves.    *)
(***************************************************************************)
EXTENDS Naturals, FiniteSets

CONSTANTS
    Article,          \* the Item published: a template, or a plain item
    Sizes,          \* the variant Items of the template
    Handle,         \* the code an import gives a template it does not know
    Ghost,          \* SHOPIFY-<variant id>: the code it gives a variant without SKU
    Gids,           \* Shopify's product ids
    Handlers,       \* workers that run product webhooks
    WriteAttempts,  \* WRITE_ATTEMPTS
    MaxSends,       \* max_attempts of the client
    MaxEvents,      \* bound: saves of an Item, edits in the Shopify admin, drains
                    \* that stop half way and publishes sent again, together
    Born,           \* sizes that may be there when the template is published
    NoCode, NoGid

Codes == {Article, Handle, Ghost} \cup Sizes
Variants == {Ghost} \cup Sizes

ASSUME ListingAssumption ==
    /\ Cardinality(Codes) = Cardinality(Sizes) + 3 /\ IsFiniteSet(Sizes)
    /\ NoCode \notin Codes /\ NoGid \notin Gids /\ Gids \subseteq Nat
    /\ WriteAttempts \in Nat \ {0} /\ MaxSends \in Nat \ {0}
    /\ MaxEvents \in Nat /\ Born \subseteq Sizes

VARIABLES
    templated,   \* has_variants of the Item
    ticked,      \* publish_to_shopify of the Item
    marked,      \* Items whose link was made out as the app's own since there is one
    released,    \* Items that once had neither the tick nor such a link; nobody
                 \* reads these two, they remember (not in the code)
    items,       \* Items in ERPNext
    disabled,
    priced,      \* Items with a selling price; it does not change
    renamed,     \* Items whose name and description were taken from Shopify
    links,       \* the committed Shopify Item Links, by item code
    rows,        \* Items with a Pending product row
    asked,       \* Items whose stock was ever to be queued (what ERPNext has none
                 \* of is not: Stock); rows of other kinds are left to their modules
    shop,        \* the products on Shopify
    mail,        \* webhooks on their way, <<topic, product>>
    drain,       \* the product row being pushed
    handler,     \* the webhooks being handled
    cut,         \* whether a publish left a product without a link: its drain
                 \* stopped, the product was deleted under it, or a reply was
                 \* lost and productCreate sent again (not in the code)
    events

listingVars == <<templated, ticked, marked, released, items, disabled, priced, renamed, links,
                 rows, asked, shop, mail, drain, handler, cut, events>>

NoDigest == [status |-> "none", variants |-> {}, filled |-> FALSE, title |-> 0]
NoLink == [gid |-> NoGid, variant |-> NoCode, template |-> NoCode,
           ours |-> FALSE, decided |-> FALSE, opened |-> FALSE, digest |-> NoDigest]
NoProduct == [live |-> FALSE, status |-> "none", variants |-> {}, filled |-> FALSE,
              free |-> {}, listed |-> FALSE, title |-> 0]
IdleDrain == [pc |-> "idle", item |-> NoCode, gid |-> NoGid, kids |-> {}, new |-> FALSE,
              view |-> <<>>, stale |-> {}]
IdleHandler == [pc |-> "idle", gid |-> NoGid, seen |-> NoProduct, view |-> <<>>,
                off |-> {}, tick |-> FALSE, stale |-> {}, tries |-> 0]

ListingInit ==
    /\ templated \in BOOLEAN /\ ticked = TRUE
    /\ items \in {{Article}} \cup (IF templated THEN {{Article} \cup Born} ELSE {})
    /\ disabled = {} /\ renamed = {} /\ marked = {} /\ released = {}
    /\ priced \in {{}, {Article} \cup Born}
    /\ links = [c \in Codes |-> NoLink]
    /\ rows = {Article}                     \* ticked Publish to Shopify and saved
    /\ asked = {} /\ mail = {}
    /\ shop = [g \in Gids |-> NoProduct]
    /\ drain = IdleDrain
    /\ handler = [h \in Handlers |-> IdleHandler]
    /\ cut = FALSE /\ events = 0

Linked(L, c) == L[c] # NoLink
Made(g) == shop[g] # NoProduct
Our == {Article} \cup Sizes

\* The SKU of variant v of product p: the item code the app sent, or none yet.
SkuOf(p, v) == IF v # Ghost THEN v ELSE IF p.filled THEN Article ELSE NoCode

\* product_digest: the mapped fields only -- no price, no stock, no updated_at.
product_digest(p) ==
    [status |-> p.status, variants |-> p.variants, filled |-> p.filled, title |-> p.title]

-----------------------------------------------------------------------------
(* Items.  Saving one runs the doc_event on_item_change in the same         *)
(* transaction; an inbound write is marked, and is_echo stops it there.     *)

\* Variant: only the variants' links are asked, not the item's own.
product_link_for_template(L, c) ==
    {L[s].gid : s \in {s \in Codes : L[s].template = c}} \ {NoGid}

\* The products an item's own link, or its variants' links, name.
product_link_for(L, c) ==
    IF Linked(L, c) /\ L[c].gid # NoGid THEN {L[c].gid}
    ELSE {L[s].gid : s \in {s \in Codes : L[s].template = c}} \ {NoGid}

variant_of(c) == IF c \in Sizes THEN Article ELSE IF c = Ghost THEN Handle ELSE NoCode

InRange(L) == {s \in Codes : L[s].template = Article /\ L[s].gid # NoGid}

\* _stores_for: the item is on the store, or joins a range that is, or is for it;
\* tick is what the template, or the plain item, says now.
stores_for(c, tick) ==
    \/ Linked(links, c)
    \/ variant_of(c) = Article /\ InRange(links) # {}
    \/ c = Article /\ tick

\* A template that is not ticked stops here.
on_item_change(c, tick) ==
    (IF stores_for(c, tick) /\ (c = Article /\ templated => tick) THEN {c} ELSE {})
    \cup (IF variant_of(c) = Article /\ InRange(links) = {} /\ tick THEN {Article} ELSE {})

\* What was saved under a transaction that is still open: its own save of the
\* same document ends in a TimestampMismatchError.
Outdated(what, C) ==
    [h \in Handlers |-> IF handler[h].pc = "idle" THEN IdleHandler
                        ELSE [handler[h] EXCEPT !.stale = @ \cup {<<what, c>> : c \in C}]]

Happens == events < MaxEvents /\ events' = events + 1

\* A user saves Item c, new or not, enabled or not, with the tick or without: a
\* size has none of its own.  A flip of disabled also queues the inventory of an
\* item that has a link.
SaveItem(c, off, tick) ==
    /\ Happens
    /\ c \in Our /\ (c \in Sizes => templated /\ tick = ticked)
    /\ items' = items \cup {c}
    /\ disabled' = IF off THEN disabled \cup {c} ELSE disabled \ {c}
    /\ ticked' = tick
    /\ rows' = rows \cup on_item_change(c, tick)
    /\ asked' = asked \cup (IF /\ c \in items /\ (c \in disabled) # off /\ Linked(links, c)
                               /\ ~(templated /\ c = Article)
                            THEN {c} ELSE {})
    /\ handler' = Outdated("item", {c})
    /\ UNCHANGED <<templated, priced, renamed, links, shop, mail, drain, cut>>

-----------------------------------------------------------------------------
(* Links.  upsert_link(store, item_code, product, variant) looks for the    *)
(* row by variant, then by item code, through the snapshot `view`; what it  *)
(* cannot see but the unique index rejects, it settles with an UPDATE.      *)

target(L, view, g, v, i) ==
    LET Of(M) == {c \in Codes : M[c].gid = g /\ M[c].variant = v}
        how(h, c) == [how |-> h, row |-> c]
    IN  IF Of(view) # {} THEN how("save", CHOOSE c \in Of(view) : TRUE)
        ELSE IF Linked(view, i) THEN how("save", i)
        ELSE IF Linked(L, i) THEN how("settle", i)
        ELSE IF Of(L) # {} THEN how("settle", CHOOSE c \in Of(L) : TRUE)
        ELSE how("insert", i)

\* The item a variant's row ends at; settling leaves the winner's item code.
at(L, view, g, v, i) ==
    LET t == target(L, view, g, v, i) IN IF t.how = "settle" THEN t.row ELSE i

\* The row as it stands after the upsert: saving writes every field of the
\* document that was loaded, settling the identifiers only.
written(L, view, g, v, i, tpl, ours) ==
    LET t == target(L, view, g, v, i)
        old == IF t.how = "save" THEN view[t.row] ELSE IF t.how = "settle" THEN L[t.row] ELSE NoLink
    IN  [old EXCEPT !.gid = g, !.variant = v, !.template = tpl,
                    !.ours = @ \/ (ours /\ t.how # "settle")]

\* Variant: stock is queued for links this app wrote, not for those a webhook wrote first.
opening_if_ours(i, row) == IF row.opened \/ ~row.ours \/ i \notin Our THEN {} ELSE {i}

\* push_initial_state ran for the row: what ERPNext holds is queued, once per link.
opening(i, row) == IF row.opened \/ i \notin Our THEN {} ELSE {i}

\* All variants V of product g at once: code gives each its item.
upsert_link(L, view, g, V, code, tpl, ours) ==
    LET At(v) == at(L, view, g, v, code[v])
        from == {target(L, view, g, v, code[v]).row : v \in V}
    IN  [c \in Codes |->
            IF \E v \in V : At(v) = c
            THEN LET v == CHOOSE v \in V : At(v) = c
                     r == written(L, view, g, v, code[v], tpl, ours)
                 IN  [r EXCEPT !.opened = @ \/ code[v] = c]
            ELSE IF c \in from THEN NoLink ELSE L[c]]

opened_by(L, view, g, V, code, tpl, ours) ==
    UNION {IF at(L, view, g, v, code[v]) # code[v] THEN {}
           ELSE opening(code[v], written(L, view, g, v, code[v], tpl, ours)) : v \in V}

\* The rows the upserts save as documents, where a later save can be lost.
saved_by(L, view, g, V, code) ==
    UNION {LET t == target(L, view, g, v, code[v])
           IN  IF t.how = "settle" THEN {} ELSE {t.row, code[v]} : v \in V}

\* A row found by its variant cannot take an item code another row has.
clash(L, view, g, V, code) ==
    \E v \in V : LET t == target(L, view, g, v, code[v])
                 IN  t.how = "save" /\ t.row # code[v] /\ Linked(L, code[v])

-----------------------------------------------------------------------------
(* The drain pushes one product row at a time (push_products).              *)

kids_of == {s \in Sizes \cap items : s \notin disabled}

product_is_dead(c) ==
    \/ c \in disabled
    \/ templated /\ c = Article /\ Sizes \cap items # {} /\ kids_of = {}

sellable_variants(K) == IF K \cap priced = {} THEN K ELSE K \cap priced

\* The drain takes a Pending row, reads through a fresh snapshot and makes its
\* first call.
Known(c) == product_link_for(links, c)
Parents == {links[s].gid : s \in InRange(links)}
Claimed(c) == drain.pc = "idle" /\ c \in rows
Busy(c, pc, g, kids, new) ==
    drain' = [pc |-> pc, item |-> c, gid |-> g, kids |-> kids, new |-> new,
              view |-> links, stale |-> {}]

\* A linked item: its product's status is sent, and a product nobody decided
\* about is put on the Online Store when this makes it ACTIVE.
PushUpdate(c) ==
    /\ Claimed(c) /\ rows' = rows \ {c}
    /\ \E g \in Known(c) :
         LET dead == product_is_dead(IF variant_of(c) = NoCode THEN c ELSE variant_of(c))
             mine == {x \in Codes : links[x].gid = g}
             pending == ~dead /\ \A x \in mine : ~links[x].decided
             was == shop[g].status
         IN  /\ shop[g].live
             /\ shop' = [shop EXCEPT ![g].status = IF dead THEN "ARCHIVED" ELSE "ACTIVE",
                                     ![g].listed = @ \/ (pending /\ was \in {"DRAFT", "ARCHIVED"})]
             /\ links' = [x \in Codes |-> IF pending /\ x \in mine
                                          THEN [links[x] EXCEPT !.decided = TRUE] ELSE links[x]]
             /\ mail' = mail \cup {<<"update", g>>}
    /\ UNCHANGED <<templated, ticked, items, disabled, priced, renamed, asked, drain, handler,
                   events, cut>>

\* A size of a range that is on Shopify gets its variant there.
AttachVariant(c) ==
    /\ Claimed(c) /\ rows' = rows \ {c}
    /\ Known(c) = {} /\ c \in kids_of
    /\ \E g \in Parents :
         /\ shop[g].live /\ c \notin shop[g].variants
         /\ shop' = [shop EXCEPT ![g].variants = @ \cup {c}, ![g].free = @ \cup ({c} \ priced)]
         /\ mail' = mail \cup {<<"update", g>>}
         /\ Busy(c, "link", g, {c}, FALSE)
    /\ UNCHANGED <<templated, ticked, items, disabled, priced, renamed, links, asked, handler,
                   events, cut>>

\* Nothing to do: a size that is off or belongs to no published range, an item
\* that is not to be published any more, or a template without sizes.
PushNothing(c) ==
    /\ Claimed(c) /\ rows' = rows \ {c}
    /\ Known(c) = {}
    /\ \/ c \in Sizes /\ (Parents = {} \/ c \notin kids_of)
       \/ c = Article /\ (~ticked \/ (templated /\ kids_of = {}))
    /\ UNCHANGED <<templated, ticked, items, disabled, priced, renamed, links, asked, shop, mail,
                   drain, handler, events, cut>>

\* The product ids Shopify gives next, up to g.
NextIds(g) == {f \in Gids : ~Made(f) /\ f <= g}

\* productCreate: a product with one variant, ACTIVE only if something is priced.
\* The client sends a call again whose reply is lost, and Shopify makes another
\* product each time: the row goes on with the last one, g.
CreateProduct ==
    /\ Claimed(Article) /\ rows' = rows \ {Article}
    /\ Known(Article) = {} /\ ticked
    /\ templated => kids_of # {}
    /\ LET kids == IF templated THEN sellable_variants(kids_of) ELSE {}
           has_price == IF templated THEN kids \cap priced # {} ELSE Article \in priced
       IN \E g \in Gids :
            /\ ~Made(g) /\ Cardinality(NextIds(g)) <= MaxSends
            /\ shop' = [f \in Gids |-> IF f \in NextIds(g) THEN
                  [NoProduct EXCEPT !.live = TRUE, !.variants = {Ghost}, !.free = {Ghost},
                      !.status = IF Article \in disabled THEN "ARCHIVED"
                                 ELSE IF has_price THEN "ACTIVE" ELSE "DRAFT"] ELSE shop[f]]
            /\ mail' = mail \cup {<<"update", f>> : f \in NextIds(g)}
            /\ IF NextIds(g) = {g} THEN UNCHANGED <<cut, events>> ELSE Happens /\ cut' = TRUE
            /\ Busy(Article, IF templated THEN "template" ELSE "fill", g, kids, TRUE)
    /\ UNCHANGED <<templated, ticked, items, disabled, priced, renamed, links, asked, handler>>

\* The template's own row, committed at once.
link_template ==
    /\ drain.pc = "template"
    /\ links' = [links EXCEPT ![Article] = [@ EXCEPT !.gid = drain.gid, !.ours = TRUE]]
    /\ drain' = [drain EXCEPT !.pc = "vary", !.view = links', !.stale = {}]
    /\ UNCHANGED <<templated, ticked, items, disabled, priced, renamed, rows, asked, shop, mail,
                   handler, events, cut>>

Changed(V, F) ==
    /\ shop[drain.gid].live
    /\ shop' = [shop EXCEPT ![drain.gid] = [@ EXCEPT !.variants = V, !.free = F,
                                                     !.filled = ~templated]]
    /\ mail' = mail \cup {<<"update", drain.gid>>}
    /\ drain' = [drain EXCEPT !.pc = "link"]
    /\ UNCHANGED <<templated, ticked, items, disabled, priced, renamed, links, rows, asked,
                   handler, events, cut>>

\* productVariantsBulkCreate takes the placeholder's place; a plain item's one
\* variant is given its SKU and price.
create_variants == drain.pc = "vary" /\ Changed(drain.kids, drain.kids \ priced)
fill_variant == drain.pc = "fill" /\ Changed({Ghost}, IF Article \in priced THEN {} ELSE {Ghost})

\* What the link step upserts: the rows of the variants it made.
Join ==
    LET V == IF templated THEN drain.kids ELSE {Ghost}
        code == [v \in V |-> IF templated THEN v ELSE Article]
        tpl == IF templated THEN Article ELSE NoCode
        g == drain.gid
    IN  [joined |-> upsert_link(links, drain.view, g, V, code, tpl, TRUE),
         opened |-> opened_by(links, drain.view, g, V, code, tpl, TRUE),
         saved |-> saved_by(links, drain.view, g, V, code),
         clash |-> clash(links, drain.view, g, V, code)]

CanJoin(j) ==
    shop[drain.gid].live /\ ~j.clash /\ \A c \in j.saved : <<"link", c>> \notin drain.stale

\* The product is re-read, put on the Online Store if it went out ACTIVE, and
\* its variants linked; a new product gets a second row for what needs a link.
LinkProduct(j) ==
    LET g == drain.gid
        live == drain.new /\ shop[g].status = "ACTIVE"
    IN  /\ CanJoin(j)
        /\ links' = [c \in Codes |-> IF live /\ j.joined[c].gid = g
                                     THEN [j.joined[c] EXCEPT !.decided = TRUE] ELSE j.joined[c]]
        /\ shop' = [shop EXCEPT ![g].listed = @ \/ live]
        /\ asked' = asked \cup j.opened
        /\ rows' = IF drain.new THEN rows \cup {Article} ELSE rows
        /\ handler' = Outdated("link", j.saved)
        /\ drain' = IdleDrain
        /\ UNCHANGED <<templated, ticked, items, disabled, priced, renamed, mail, events, cut>>

\* A row fails and comes back, or is spent: the product is gone, the variant
\* is there already, or a document was saved meanwhile.
RowRefused(c) ==
    /\ Claimed(c)
    /\ \/ \E g \in Known(c) : ~shop[g].live
       \/ /\ Known(c) = {} /\ c \in kids_of
          /\ \E g \in Parents : ~shop[g].live \/ c \in shop[g].variants
    /\ rows' \in {rows, rows \ {c}}
    /\ UNCHANGED <<templated, ticked, items, disabled, priced, renamed, links, asked, shop, mail,
                   drain, handler, events, cut>>

RowFails ==
    /\ rows' \in {rows, rows \cup {drain.item}}
    /\ drain' = IdleDrain
    /\ UNCHANGED <<templated, ticked, items, disabled, priced, renamed, links, asked, shop, mail,
                   handler, events, cut>>

ProductGone == drain.pc \in {"fill", "vary"} /\ ~shop[drain.gid].live /\ RowFails

LinkStep == /\ drain.pc = "link"
            /\ LET j == Join IN LinkProduct(j) \/ (~CanJoin(j) /\ RowFails)

\* A call fails or the worker dies: the row is pushed again from the start, or
\* is Failed, as by a refusal or by the last of its attempts.
DrainStops ==
    /\ Happens /\ cut' = TRUE
    /\ drain.pc # "idle"
    /\ rows' \in {rows, rows \cup {drain.item}}
    /\ drain' = IdleDrain
    /\ UNCHANGED <<templated, ticked, items, disabled, priced, renamed, links, asked, shop, mail,
                   handler>>

-----------------------------------------------------------------------------
(* The webhooks.  products/create and products/update refetch the product   *)
(* and map it; products/delete unlinks.                                     *)

\* Variant: the content is the app's once the link says so, not before.
owns_linked_content(view, tick, c) == view[c].ours

\* erpnext_owns_content: published by this app, or about to be.  A size has the
\* tick of its template; an Item an import made has none.
erpnext_owns_content(view, tick, c) == view[c].ours \/ (c \in Our /\ tick)

\* The handler starts: its snapshot opens, and the product is fetched.  One
\* that carries nothing new, or is gone, is dropped here.
HookFetch(h, g) ==
    /\ handler[h].pc = "idle" /\ <<"update", g>> \in mail
    /\ mail' = mail \ {<<"update", g>>}
    /\ LET mine == {c \in Codes : links[c].gid = g}
       IN \E stored \in IF mine = {} THEN {NoDigest} ELSE {links[c].digest : c \in mine} :
            handler' = IF ~shop[g].live \/ stored = product_digest(shop[g]) THEN handler
                       ELSE [handler EXCEPT ![h] =
                               [IdleHandler EXCEPT !.pc = "write", !.gid = g, !.seen = shop[g],
                                   !.view = links, !.off = disabled, !.tick = ticked, !.tries = 1]]
    /\ UNCHANGED <<templated, ticked, items, disabled, priced, renamed, links, rows, asked, shop,
                   drain, events, cut>>

resolve_item_code(view, g, p, v) ==
    LET of == {c \in Codes : view[c].gid = g /\ view[c].variant = v}
    IN  IF of # {} THEN CHOOSE c \in of : TRUE
        ELSE IF SkuOf(p, v) # NoCode THEN SkuOf(p, v) ELSE Ghost

\* Variant: a SKU counts only once its item has a link.
linked_skus(p) == {c \in Codes : Linked(links, c) /\ \E v \in p.variants : SkuOf(p, v) = c}

skus(p) == {SkuOf(p, v) : v \in p.variants} \ {NoCode}

\* _template_already_linked: by the product, by the links of its SKUs, and by
\* the Items behind them; NoCode when none of them, or more than one, answers.
template_already_linked(view, g, p) ==
    LET byGid == {view[c].template : c \in {c \in Codes : view[c].gid = g}} \ {NoCode}
        byLinks == {view[c].template : c \in skus(p)} \ {NoCode}
        parents == {variant_of(c) : c \in skus(p)} \ {NoCode}
    IN  IF byGid # {} THEN byGid
        ELSE IF byLinks # {} THEN (IF Cardinality(byLinks) = 1 THEN byLinks ELSE {NoCode})
        ELSE IF Cardinality(parents) = 1 THEN parents ELSE {NoCode}

\* What the webhook's product becomes: its Items, its template and its links.
Mapping(h, found) ==
    LET g == handler[h].gid
        p == handler[h].seen
        view == handler[h].view
        V == p.variants
        code == [v \in V |-> resolve_item_code(view, g, p, v)]
        tpl == IF ~templated THEN NoCode ELSE IF found = NoCode THEN Handle ELSE found
        touched == {code[v] : v \in V} \cup ({tpl} \ {NoCode})
    IN  [g |-> g, p |-> p, V |-> V, code |-> code, tpl |-> tpl, touched |-> touched,
         joined |-> upsert_link(links, view, g, V, code, tpl, FALSE),
         opened |-> opened_by(links, view, g, V, code, tpl, FALSE),
         saved |-> saved_by(links, view, g, V, code),
         clash |-> clash(links, view, g, V, code),
         \* the Items whose content differs from what the handler loaded
         changed |-> {c \in touched : \/ c \notin items
                                      \/ (c \in handler[h].off) # (p.status = "ARCHIVED")
                                      \/ ~erpnext_owns_content(view, handler[h].tick, c)}]

Founds(h) ==
    IF templated THEN template_already_linked(handler[h].view, handler[h].gid, handler[h].seen)
    ELSE {NoCode}

Mismatch(h, m) ==
    \/ \E c \in m.changed : <<"item", c>> \in handler[h].stale
    \/ \E c \in m.saved : <<"link", c>> \in handler[h].stale

\* _refuse_to_twin: a range nobody recognised carries SKUs this shop sells.
Twin(m) == m.tpl = Handle /\ skus(m.p) \cap items # {}

Written(h, m) ==
    /\ items' = items \cup m.touched
    /\ disabled' = IF m.p.status = "ARCHIVED" THEN disabled \cup m.changed ELSE disabled \ m.changed
    /\ renamed' = renamed \cup {c \in m.touched \cap Our :
                                   ~erpnext_owns_content(handler[h].view, handler[h].tick, c)}
    /\ links' = [c \in Codes |-> IF m.joined[c].gid = m.g
                                 THEN [m.joined[c] EXCEPT !.digest = product_digest(m.p)]
                                 ELSE m.joined[c]]
    /\ asked' = asked \cup m.opened
    /\ drain' = IF drain.pc = "idle" THEN drain
                ELSE [drain EXCEPT !.stale = @ \cup {<<"link", c>> : c \in m.saved}]
    /\ handler' = [Outdated("link", m.saved) EXCEPT ![h] = IdleHandler]

HookWrite(h, found, m) ==
    /\ ~Mismatch(h, m) /\ ~m.clash /\ ~(found = NoCode /\ Twin(m))
    /\ Written(h, m)
    /\ UNCHANGED <<templated, ticked, priced, rows, shop, mail, events, cut>>

\* The webhook fails for good: a range that would be twinned, a row that
\* cannot move.
HookRefused(h, found, m) ==
    /\ m.clash \/ (found = NoCode /\ templated /\ Twin(m))
    /\ handler' = [handler EXCEPT ![h] = IdleHandler]
    /\ UNCHANGED <<templated, ticked, items, disabled, priced, renamed, links, rows, asked, shop,
                   mail, drain, events, cut>>

\* _write_with_retry: somebody saved one of the documents; read them again and
\* map the same product.  After WRITE_ATTEMPTS the event is an error, and the
\* sweep runs it from the start.
HookRetry(h, m) ==
    /\ Mismatch(h, m)
    /\ IF handler[h].tries < WriteAttempts
       THEN /\ handler' = [handler EXCEPT ![h] =
                    [@ EXCEPT !.view = links, !.off = disabled, !.tick = ticked, !.stale = {},
                              !.tries = handler[h].tries + 1]]
            /\ mail' = mail
       ELSE /\ handler' = [handler EXCEPT ![h] = IdleHandler]
            /\ mail' = mail \cup {<<"update", handler[h].gid>>}
    /\ UNCHANGED <<templated, ticked, items, disabled, priced, renamed, links, rows, asked, shop,
                   drain, events, cut>>

HookMaps(h) ==
    /\ handler[h].pc = "write"
    /\ \E found \in Founds(h) :
         LET m == Mapping(h, found)
         IN  HookWrite(h, found, m) \/ HookRefused(h, found, m) \/ HookRetry(h, m)

\* products/delete: the links go, the Items stay.
on_product_delete(g) ==
    LET gone == {c \in Codes : links[c].gid = g}
    IN  /\ <<"delete", g>> \in mail
        /\ mail' = mail \ {<<"delete", g>>}
        /\ links' = [c \in Codes |-> IF c \in gone THEN NoLink ELSE links[c]]
        /\ handler' = Outdated("link", gone)
        /\ drain' = IF drain.pc = "idle" THEN drain
                    ELSE [drain EXCEPT !.stale = @ \cup {<<"link", c>> : c \in gone}]
        /\ UNCHANGED <<templated, ticked, items, disabled, priced, renamed, rows, asked, shop,
                       events, cut>>

\* The merchant in the Shopify admin: another title, or the product deleted.
EditOnShopify(g) ==
    /\ Happens
    /\ shop[g].live
    /\ \/ /\ shop' = [shop EXCEPT ![g].title = @ + 1]
          /\ mail' = mail \cup {<<"update", g>>}
          /\ cut' = cut
       \/ /\ shop' = [shop EXCEPT ![g].live = FALSE]
          /\ mail' = mail \cup {<<"delete", g>>}
          /\ cut' = (cut \/ drain.gid = g)
    /\ UNCHANGED <<templated, ticked, items, disabled, priced, renamed, links, rows, asked, drain,
                   handler>>

-----------------------------------------------------------------------------
Draining ==
    \/ \E c \in Our : PushUpdate(c) \/ AttachVariant(c) \/ PushNothing(c) \/ RowRefused(c)
    \/ CreateProduct \/ link_template
    \/ create_variants \/ fill_variant \/ LinkStep \/ ProductGone

Hooks ==
    \/ \E h \in Handlers, g \in Gids : HookFetch(h, g)
    \/ \E h \in Handlers : HookMaps(h)
    \/ \E g \in Gids : on_product_delete(g)

ListingSteps ==
    \/ Draining \/ Hooks \/ DrainStops
    \/ \E c \in Our, off, tick \in BOOLEAN : SaveItem(c, off, tick)
    \/ \E g \in Gids : EditOnShopify(g)

\* Whose content an Item is, in the documents as they are committed.
Remember ==
    /\ marked' = {c \in Our : Linked(links', c) /\ (c \in marked \/ links'[c].ours)}
    /\ released' = released \cup (IF ticked' THEN {} ELSE Our \ marked')

ListingNext == ListingSteps /\ Remember

ListingSpec == ListingInit /\ [][ListingNext]_listingVars

-----------------------------------------------------------------------------
ListingTypeOK ==
    /\ templated \in BOOLEAN /\ ticked \in BOOLEAN /\ cut \in BOOLEAN
    /\ items \subseteq Codes /\ disabled \subseteq Codes
    /\ priced \subseteq Our /\ renamed \subseteq Our /\ asked \subseteq Our /\ rows \subseteq Our
    /\ marked \subseteq Our /\ released \subseteq Our
    /\ \A c \in Codes : /\ links[c].gid \in Gids \cup {NoGid}
                        /\ links[c].variant \in Variants \cup {NoCode}
                        /\ links[c].template \in {Article, Handle, NoCode}
    /\ \A g \in Gids : /\ shop[g].variants \subseteq Variants /\ shop[g].free \subseteq shop[g].variants
                       /\ shop[g].status \in {"none", "ACTIVE", "DRAFT", "ARCHIVED"}
    /\ mail \subseteq {"update", "delete"} \X Gids
    /\ drain.pc \in {"idle", "template", "vary", "fill", "link"}
    /\ \A h \in Handlers : handler[h].pc \in {"idle", "write"} /\ handler[h].tries \in 0..WriteAttempts
    /\ events \in 0..MaxEvents

Twinned == items \cap {Handle, Ghost} # {}

\* However the echo of a publish interleaves with it, an import invents an
\* Item only for a product it fetched before its variants carried a SKU: from
\* then on the SKUs lead to the range, linked or not (_template_already_linked).
NoTwinWithSkus ==
    [][\A c \in {Handle, Ghost} : c \notin items /\ c \in items' =>
         \E h \in Handlers : /\ handler[h].pc = "write" /\ handler'[h].pc = "idle"
                             /\ handler[h].seen.variants = {Ghost} /\ ~handler[h].seen.filled]_listingVars

\* One Item has one listing, whatever rows, retries and echoes there are --
\* unless a publish left a product behind, cut short between productCreate and
\* the link or sent again after a lost reply, or the echo was imported as a twin:
\* the ways the code leaves open (_create_product, ShopifyClient.execute).
OneListing ==
    ~cut /\ ~Twinned => \A f, g \in Gids : shop[f].live /\ shop[g].live => f = g

\* Whoever writes an Item's link first, the drain or the webhook that echoes
\* it, its opening push has been asked for by then: nothing ERPNext holds stays
\* at the zero Shopify starts it with (push_initial_state).
OpeningPushQueued ==
    \A c \in Our : links[c].variant # NoCode => c \in asked

\* An Item this app publishes keeps its name and description: a webhook takes
\* them over only if at some moment the Item had neither the tick nor a link that
\* was the app's own.  So neither an echo imported before there is a link, nor
\* one mapped through a snapshot while the drain links the product, takes them,
\* and no webhook that writes the link back loses whose it is: the tick may then
\* go, the content stays (erpnext_owns_content, upsert_link).
ContentIsOurs == renamed \subseteq released

\* docs/prerequisites.md: an item without a price is published as a draft
\* rather than active; a free saree in a live shop is worse.
NothingFreeOnSale ==
    \A g \in Gids : shop[g].live /\ shop[g].listed /\ shop[g].status = "ACTIVE" =>
        \A v \in shop[g].free : v = Ghost /\ Article \in priced

=============================================================================
