---------------------------- MODULE ListingProofs ----------------------------
(***************************************************************************)
(* What the publishing of an Item and the webhooks that echo it keep, for  *)
(* every range, number of handlers and bound: one listing for one Item,    *)
(* its stock queued with its first link, its content its own, and no twin  *)
(* once its variants carry SKUs.                                           *)
(*                                                                         *)
(* The invariant says of every view of the links that somebody may still   *)
(* write through what it says of the committed links (Filed): upsert_link  *)
(* reads one and writes the other.                                         *)
(***************************************************************************)
EXTENDS Listing, SetFacts

Standings == {"none", "ACTIVE", "DRAFT", "ARCHIVED"}
Digests == [status : Standings, variants : SUBSET Variants, filled : BOOLEAN, title : Nat]
Links == [gid : Gids \cup {NoGid}, variant : Variants \cup {NoCode}, template : {Article, Handle, NoCode},
          ours : BOOLEAN, decided : BOOLEAN, opened : BOOLEAN, digest : Digests]
Ledgers == [Codes -> Links]
Listings == [live : BOOLEAN, status : Standings, variants : SUBSET Variants, filled : BOOLEAN,
             free : SUBSET Variants, listed : BOOLEAN, title : Nat]
Stales == SUBSET ({"item", "link"} \X Codes)
Publishing == {"template", "vary", "fill", "link"}
Drains == [pc : Publishing, item : Our, gid : Gids, kids : SUBSET Sizes, new : BOOLEAN,
           view : Ledgers, stale : Stales]
Mappings == [pc : {"write"}, gid : Gids, seen : Listings, view : Ledgers, off : SUBSET Codes,
             tick : BOOLEAN, stale : Stales, tries : 1..WriteAttempts]

ListingTypes ==
    /\ templated \in BOOLEAN /\ ticked \in BOOLEAN /\ cut \in BOOLEAN
    /\ items \subseteq Codes /\ disabled \subseteq Codes
    /\ priced \subseteq Our /\ asked \subseteq Our /\ rows \subseteq Our
    /\ links \in Ledgers
    /\ shop \in [Gids -> Listings] /\ \A g \in Gids : shop[g].free \subseteq shop[g].variants
    /\ mail \subseteq {"update", "delete"} \X Gids
    /\ drain = IdleDrain \/ drain \in Drains
    /\ handler \in [Handlers -> {IdleHandler} \cup Mappings]
    /\ events \in 0..MaxEvents

\* A product of the app has its placeholder, or variants of the sizes there are.
Sound(p, I, t) ==
    /\ p.variants # {}
    /\ Ghost \in p.variants => p.variants = {Ghost}
    /\ p.variants \cap Sizes \subseteq I
    /\ t => ~p.filled
    /\ ~t => p.variants = {Ghost}

\* A link, at any time at which somebody may have read it: it is the link of its
\* own variant, its stock was queued if it says so, its Items are there.
Filed(M, I, A, S, t) ==
    \A c \in Codes :
        /\ M[c].variant \in Sizes => c = M[c].variant
        /\ M[c].variant = Ghost => c = Ghost \/ (c = Article /\ ~t)
        /\ M[c].variant = NoCode => M[c].template = NoCode
        /\ M[c].template # NoCode => t
        /\ c \in Our /\ M[c].opened => c \in A
        /\ c \in {Handle, Ghost} /\ M[c] # NoLink => c \in I
        /\ M[c].template = Handle => Handle \in I
        /\ M[c].gid # NoGid => S[M[c].gid].variants # {}
        /\ M[c].gid # NoGid /\ M[c].template = Article => Ghost \notin S[M[c].gid].variants

Draws == drain.pc # "idle"
Writes(h) == handler[h].pc = "write"

\* The products are the app's own, a deletion on its way is of one that was, and
\* a plain item has no sizes.
ShopInv ==
    /\ \A g \in Gids : shop[g] = NoProduct \/ Sound(shop[g], items, templated)
    /\ \A g \in Gids : <<"delete", g>> \in mail => shop[g] # NoProduct /\ ~shop[g].live
    /\ ~templated => items \cap Sizes = {}

\* The links are filed, and so is every reading of them.
LedgerInv ==
    /\ Filed(links, items, asked, shop, templated)
    /\ Draws => Filed(drain.view, items, asked, shop, templated)
    /\ \A h \in Handlers : Writes(h) => Filed(handler[h].view, items, asked, shop, templated)

\* The product the drain has in hand is there, with something to link to it.
DrainInv == Draws =>
    /\ shop[drain.gid].variants # {}
    /\ drain.kids \subseteq items
    /\ drain.pc \in {"template", "vary"} => templated
    /\ drain.pc = "fill" => ~templated
    /\ templated => drain.kids # {}
    /\ drain.pc = "link" /\ templated => Ghost \notin shop[drain.gid].variants
    /\ ~templated => drain.new /\ \A c \in Codes : drain.view[c].gid # drain.gid

\* The product a webhook fetched was sound, and has only gained SKUs since.
SeenInv == \A h \in Handlers : Writes(h) =>
    /\ Sound(handler[h].seen, items, templated)
    /\ shop[handler[h].gid].variants # {}
    /\ Ghost \in shop[handler[h].gid].variants => Ghost \in handler[h].seen.variants

\* A product that is there, or whose end the app has not heard of.
Present(g) == shop[g].live \/ <<"delete", g>> \in mail

\* The Article has a listing as far as its links tell.
InLinks == \/ links[Article].gid # NoGid
           \/ \E s \in Codes : links[s].template = Article /\ links[s].gid # NoGid

\* Unless a publish was cut short or twinned there is one product, and from its
\* creation on either the links or the drain know of it.
OneInv == ~cut /\ ~Twinned =>
    /\ \A f, g \in Gids : Present(f) /\ Present(g) => f = g
    /\ Draws => shop[drain.gid].live
    /\ (\E g \in Gids : Present(g)) => InLinks \/ (Draws /\ drain.new)
    /\ Draws /\ templated /\ drain.new /\ drain.pc \in {"vary", "link"} => links[Article].gid # NoGid
    /\ Draws /\ ~templated => \A c \in Codes : <<"link", c>> \in drain.stale => links[c].gid # NoGid

ListingInd == /\ ListingTypes /\ ShopInv /\ LedgerInv /\ DrainInv /\ SeenInv /\ OneInv
              /\ OpeningPushQueued

\* The four kinds of Item codes are told apart.
LEMMA CodesApart == /\ Article \notin Sizes /\ Handle \notin Sizes /\ Ghost \notin Sizes
                    /\ Article # Handle /\ Article # Ghost /\ Handle # Ghost
                    /\ NoCode \notin Codes /\ NoGid \notin Gids
<1> USE ListingAssumption
<1>1. IsFiniteSet(Sizes) /\ Cardinality(Sizes) \in Nat
  BY FS_CardinalityType
<1>2. ASSUME NEW a, NEW b, Codes \subseteq Sizes \cup {a, b}
      PROVE  FALSE
  <2>1. /\ IsFiniteSet(Sizes \cup {a}) /\ Cardinality(Sizes \cup {a}) \in Nat
        /\ Cardinality(Sizes \cup {a}) <= Cardinality(Sizes) + 1
    <3>1. /\ IsFiniteSet(Sizes \cup {a})
          /\ Cardinality(Sizes \cup {a}) = IF a \in Sizes THEN Cardinality(Sizes) ELSE Cardinality(Sizes) + 1
      BY <1>1, FS_AddElement, Zenon
    <3> QED BY <3>1, <1>1
  <2>2. /\ IsFiniteSet((Sizes \cup {a}) \cup {b}) /\ Cardinality((Sizes \cup {a}) \cup {b}) \in Nat
        /\ Cardinality((Sizes \cup {a}) \cup {b}) <= Cardinality(Sizes \cup {a}) + 1
    <3> DEFINE S == Sizes \cup {a}
    <3>1. /\ IsFiniteSet(S \cup {b})
          /\ Cardinality(S \cup {b}) = IF b \in S THEN Cardinality(S) ELSE Cardinality(S) + 1
      BY <2>1, FS_AddElement, Zenon
    <3> HIDE DEF S
    <3>2. Cardinality(S) \in Nat
      BY <2>1 DEF S
    <3>3. Cardinality(S \cup {b}) \in Nat /\ Cardinality(S \cup {b}) <= Cardinality(S) + 1
      BY <3>1, <3>2
    <3> QED BY <3>1, <3>3 DEF S
  <2>3. Cardinality(Codes) <= Cardinality((Sizes \cup {a}) \cup {b})
    <3>1. Codes \subseteq (Sizes \cup {a}) \cup {b}
      BY <1>2
    <3> QED BY <3>1, <2>2, FS_Subset
  <2> QED BY <1>1, <2>1, <2>2, <2>3
<1>3. Codes = {Article, Handle, Ghost} \cup Sizes
  BY DEF Codes
<1>4. Article \notin Sizes /\ Article # Handle
  BY <1>2, <1>3
<1>5. Handle \notin Sizes /\ Handle # Ghost
  BY <1>2, <1>3
<1>6. Ghost \notin Sizes /\ Article # Ghost
  BY <1>2, <1>3
<1> QED BY <1>4, <1>5, <1>6

\* What there is none of is of its type.
LEMMA NoneIs == /\ NoDigest \in Digests /\ NoLink \in Links /\ NoProduct \in Listings
                /\ NoLink.gid = NoGid /\ NoLink.variant = NoCode /\ NoLink.template = NoCode
                /\ ~NoLink.opened
                /\ ~NoProduct.live /\ NoProduct.variants = {} /\ NoProduct.free = {}
<1>1. "none" \in Standings
  BY DEF Standings
<1>2. NoDigest \in Digests
  BY <1>1 DEF NoDigest, Digests
<1>3. NoLink \in Links
  BY <1>2 DEF NoLink, Links
<1>4. NoProduct \in Listings
  BY <1>1 DEF NoProduct, Listings
<1> QED BY <1>2, <1>3, <1>4 DEF NoLink, NoProduct

\* A link keeps what it says of the products while those only gain variants of
\* their own, and of the Items and the queue while those only grow.
Grows(S, T) ==
    \A g \in Gids : S[g].variants # {} =>
        /\ T[g].variants # {}
        /\ Ghost \notin S[g].variants => Ghost \notin T[g].variants

\* Then it is filed as it was.
LEMMA FiledKeeps ==
  ASSUME NEW M \in Ledgers, NEW I, NEW J, NEW A, NEW B, NEW S, NEW T, NEW t,
         Filed(M, I, A, S, t), I \subseteq J, A \subseteq B, Grows(S, T)
  PROVE  Filed(M, J, B, T, t)
<1>1. \A c \in Codes : M[c].gid \in Gids \cup {NoGid}
  BY DEF Ledgers, Links
<1>2. \A c \in Codes : M[c].gid # NoGid =>
          /\ T[M[c].gid].variants # {}
          /\ M[c].template = Article => Ghost \notin T[M[c].gid].variants
  <2> SUFFICES ASSUME NEW c \in Codes, M[c].gid # NoGid
               PROVE  /\ T[M[c].gid].variants # {}
                      /\ M[c].template = Article => Ghost \notin T[M[c].gid].variants
    OBVIOUS
  <2>1. /\ S[M[c].gid].variants # {}
        /\ M[c].template = Article => Ghost \notin S[M[c].gid].variants
    BY DEF Filed
  <2>2. M[c].gid \in Gids
    BY <1>1
  <2> QED BY <2>1, <2>2 DEF Grows
<1>3. \A c \in Codes :
          /\ M[c].variant \in Sizes => c = M[c].variant
          /\ M[c].variant = Ghost => c = Ghost \/ (c = Article /\ ~t)
          /\ M[c].variant = NoCode => M[c].template = NoCode
          /\ M[c].template # NoCode => t
          /\ c \in Our /\ M[c].opened => c \in B
          /\ c \in {Handle, Ghost} /\ M[c] # NoLink => c \in J
          /\ M[c].template = Handle => Handle \in J
  BY DEF Filed
<1> QED BY <1>2, <1>3 DEF Filed

\* And so does one whose other fields change.
LEMMA FiledSame ==
  ASSUME NEW M \in Ledgers, NEW N \in Ledgers, NEW I, NEW A, NEW S, NEW t, Filed(M, I, A, S, t),
         \A c \in Codes :
             \/ N[c] = M[c]
             \/ /\ M[c].gid # NoGid
                /\ N[c].gid = M[c].gid /\ N[c].variant = M[c].variant
                /\ N[c].template = M[c].template /\ N[c].opened = M[c].opened
  PROVE  Filed(N, I, A, S, t)
<1>1. NoLink.gid = NoGid
  BY NoneIs
<1> QED BY <1>1 DEF Filed

------------------------------------------------------------------------------
(* upsert_link                                                              *)

\* The variants whose row the caller read are given the Item of that row.
Recognised(view, g, V, code) ==
    \A v \in V :
        LET Of == {c \in Codes : view[c].gid = g /\ view[c].variant = v}
        IN  Of # {} => (CHOOSE c \in Of : TRUE) = code[v]

\* Then the row of a variant is that of its Item, or one that already was the
\* variant's when somebody else wrote it first.
LEMMA UpsertAt ==
  ASSUME NEW L \in Ledgers, NEW view \in Ledgers, NEW g \in Gids, NEW V \in SUBSET Variants,
         NEW code \in [V -> Codes], Recognised(view, g, V, code), NEW v \in V
  PROVE  LET t == target(L, view, g, v, code[v])
         IN  /\ t.row \in Codes /\ t.row = at(L, view, g, v, code[v])
             /\ t.how \in {"save", "settle", "insert"}
             /\ t.how # "settle" => t.row = code[v]
             /\ \/ t.row = code[v]
                \/ L[t.row] # NoLink /\ L[t.row].gid = g /\ L[t.row].variant = v
<1> DEFINE i == code[v]
           Seen == {c \in Codes : view[c].gid = g /\ view[c].variant = v}
           There == {c \in Codes : L[c].gid = g /\ L[c].variant = v}
           t == target(L, view, g, v, i)
<1>1. i \in Codes
  OBVIOUS
<1>2. t = IF Seen # {} THEN [how |-> "save", row |-> CHOOSE c \in Seen : TRUE]
          ELSE IF Linked(view, i) THEN [how |-> "save", row |-> i]
          ELSE IF Linked(L, i) THEN [how |-> "settle", row |-> i]
          ELSE IF There # {} THEN [how |-> "settle", row |-> CHOOSE c \in There : TRUE]
          ELSE [how |-> "insert", row |-> i]
  BY DEF target
<1>3. Seen # {} => (CHOOSE c \in Seen : TRUE) = i
  BY DEF Recognised
<1>4. There # {} => (CHOOSE c \in There : TRUE) \in There
  OBVIOUS
<1>5. g # NoGid /\ NoLink.gid = NoGid
  BY CodesApart, NoneIs
<1>6. at(L, view, g, v, i) = IF t.how = "settle" THEN t.row ELSE i
  BY DEF at
<1>7. /\ t.row \in Codes /\ t.how \in {"save", "settle", "insert"}
      /\ t.how # "settle" => t.row = i
      /\ \/ t.row = i
         \/ L[t.row] # NoLink /\ L[t.row].gid = g /\ L[t.row].variant = v
  <2> HIDE DEF i, t
  <2>1. ASSUME Seen # {} PROVE t.row = i /\ t.how = "save"
    BY <2>1, <1>2, <1>3
  <2>2. ASSUME Seen = {}, There = {} PROVE t.row = i /\ t.how \in {"save", "settle", "insert"}
    <3> HIDE DEF Seen, There
    <3> QED BY <2>2, <1>2
  <2>3. ASSUME Seen = {}, There # {}
        PROVE  \/ t.row = i /\ t.how \in {"save", "settle"}
               \/ t.row \in There /\ t.how = "settle"
    <3> HIDE DEF Seen, There
    <3> QED BY <2>3, <1>2, <1>4
  <2>4. \A c \in There : c \in Codes /\ L[c] # NoLink /\ L[c].gid = g /\ L[c].variant = v
    BY <1>5
  <2> QED BY <2>1, <2>2, <2>3, <2>4, <1>1
<1> QED BY <1>6, <1>7

\* The row as it is written.
LEMMA WrittenIs ==
  ASSUME NEW L \in Ledgers, NEW view \in Ledgers, NEW g \in Gids, NEW V \in SUBSET Variants,
         NEW code \in [V -> Codes], Recognised(view, g, V, code), NEW v \in V,
         NEW tpl \in {Article, Handle, NoCode}, NEW ours \in BOOLEAN
  PROVE  LET r == written(L, view, g, v, code[v], tpl, ours)
             c == at(L, view, g, v, code[v])
         IN  /\ r \in Links /\ r.gid = g /\ r.variant = v /\ r.template = tpl
             /\ r.opened => view[c].opened \/ L[c].opened
             /\ r.opened /\ c # code[v] => L[c].opened
<1> DEFINE i == code[v]
           t == target(L, view, g, v, i)
           c == at(L, view, g, v, i)
           old == IF t.how = "save" THEN view[t.row] ELSE IF t.how = "settle" THEN L[t.row] ELSE NoLink
           r == written(L, view, g, v, i, tpl, ours)
<1>1. /\ t.row \in Codes /\ t.row = c /\ t.how \in {"save", "settle", "insert"}
      /\ t.how # "settle" => t.row = i
  BY UpsertAt
<1>2. r = [old EXCEPT !.gid = g, !.variant = v, !.template = tpl, !.ours = @ \/ (ours /\ t.how # "settle")]
  BY DEF written
<1>3. v \in Variants
  OBVIOUS
<1>4. /\ old \in Links
      /\ old.opened => view[c].opened \/ L[c].opened
      /\ old.opened /\ c # i => L[c].opened
  <2> HIDE DEF t, c, i
  <2>1. NoLink \in Links /\ ~NoLink.opened
    BY NoneIs
  <2> QED BY <1>1, <2>1 DEF Ledgers
<1>5. /\ r \in Links /\ r.gid = g /\ r.variant = v /\ r.template = tpl /\ r.opened = old.opened
  <2> HIDE DEF old, t, r, i
  <2>1. (old.ours \/ (ours /\ t.how # "settle")) \in BOOLEAN
    OBVIOUS
  <2> QED BY <1>2, <1>3, <1>4, <2>1 DEF Links
<1> QED BY <1>4, <1>5

\* Row c of M, after the upserts, is the link of variant v.
Joins(M, L, view, queued, code, g, tpl, c, v) ==
    /\ M[c].gid = g /\ M[c].variant = v /\ M[c].template = tpl
    /\ code[v] = c \/ (L[c] # NoLink /\ L[c].gid = g /\ L[c].variant = v)
    /\ M[c].opened /\ code[v] # c => L[c].opened
    /\ code[v] = c /\ c \in Our => c \in queued \/ view[c].opened \/ L[c].opened

\* Row c of M is variant v's: that of its Item, or the one it had.
Sits(M, L, code, g, tpl, c, v) ==
    /\ c \in Codes /\ M[c].gid = g /\ M[c].template = tpl
    /\ code[v] = c \/ (L[c] # NoLink /\ L[c].gid = g /\ L[c].variant = v)

AllJoin(M, L, view, queued, V, code, g, tpl) ==
    \A c \in Codes : M[c] = L[c] \/ \E v \in V : Joins(M, L, view, queued, code, g, tpl, c, v)

AllEnd(M, L, view, V, code, g, tpl) ==
    \A v \in V : Sits(M, L, code, g, tpl, at(L, view, g, v, code[v]), v)

\* What the upserts leave in a row: what was there, or the link of one of the
\* variants; and every variant has its row.
LEMMA UpsertIs ==
  ASSUME NEW L \in Ledgers, NEW view \in Ledgers, NEW g \in Gids, NEW V \in SUBSET Variants,
         NEW code \in [V -> Codes], Recognised(view, g, V, code),
         NEW tpl \in {Article, Handle, NoCode}, NEW ours \in BOOLEAN
  PROVE  /\ upsert_link(L, view, g, V, code, tpl, ours) \in Ledgers
         /\ AllJoin(upsert_link(L, view, g, V, code, tpl, ours), L, view,
                    opened_by(L, view, g, V, code, tpl, ours), V, code, g, tpl)
         /\ AllEnd(upsert_link(L, view, g, V, code, tpl, ours), L, view, V, code, g, tpl)
<1> DEFINE At(v) == at(L, view, g, v, code[v])
           W(v) == written(L, view, g, v, code[v], tpl, ours)
           From == {target(L, view, g, v, code[v]).row : v \in V}
           Of(c) == CHOOSE v \in V : At(v) = c
           Row(c) == [W(Of(c)) EXCEPT !.opened = @ \/ code[Of(c)] = c]
           M == upsert_link(L, view, g, V, code, tpl, ours)
           Queued == opened_by(L, view, g, V, code, tpl, ours)
<1>1. M = [c \in Codes |-> IF \E v \in V : At(v) = c THEN Row(c)
                           ELSE IF c \in From THEN NoLink ELSE L[c]]
  BY DEF upsert_link
<1>2. \A v \in V : /\ At(v) \in Codes /\ target(L, view, g, v, code[v]).row = At(v)
                   /\ \/ code[v] = At(v)
                      \/ L[At(v)] # NoLink /\ L[At(v)].gid = g /\ L[At(v)].variant = v
  <2> TAKE v \in V
  <2> QED BY UpsertAt
<1>3. \A v \in V : /\ W(v) \in Links /\ W(v).gid = g /\ W(v).variant = v /\ W(v).template = tpl
                   /\ W(v).opened => view[At(v)].opened \/ L[At(v)].opened
                   /\ W(v).opened /\ At(v) # code[v] => L[At(v)].opened
  <2> TAKE v \in V
  <2> QED BY WrittenIs
<1>4. \A c \in Codes : (\E v \in V : At(v) = c) => Of(c) \in V /\ At(Of(c)) = c
  OBVIOUS
<1>5. Queued = UNION {IF At(v) # code[v] THEN {} ELSE opening(code[v], W(v)) : v \in V}
  BY DEF opened_by
<1>6. \A v \in V : At(v) = code[v] => opening(code[v], W(v)) \subseteq Queued
  BY <1>5
<1> HIDE DEF At, W, M, Queued, Of
<1>7. \A c \in Codes : \/ M[c] = L[c] /\ ~\E v \in V : At(v) = c
                       \/ (\E v \in V : At(v) = c) /\ M[c] = Row(c)
  <2>1. \A c \in From : \E v \in V : At(v) = c
    BY <1>2
  <2> HIDE DEF Row
  <2> QED BY <1>1, <2>1
<1>8. ASSUME NEW c \in Codes, NEW w \in V, At(w) = c, M[c] = Row(c), w = Of(c)
      PROVE  /\ M[c] \in Links /\ M[c].gid = g /\ M[c].variant = w /\ M[c].template = tpl
             /\ M[c].opened <=> (W(w).opened \/ code[w] = c)
  <2>1. M[c] = [W(w) EXCEPT !.opened = @ \/ code[w] = c]
    BY <1>8
  <2>2. /\ W(w) \in Links /\ W(w).gid = g /\ W(w).variant = w /\ W(w).template = tpl
    BY <1>3, <1>8
  <2>3. (W(w).opened \/ code[w] = c) \in BOOLEAN
    OBVIOUS
  <2>4. DOMAIN W(w) = {"gid", "variant", "template", "ours", "decided", "opened", "digest"}
    BY <2>2 DEF Links
  <2>5. /\ M[c].gid = W(w).gid /\ M[c].variant = W(w).variant /\ M[c].template = W(w).template
        /\ M[c].opened = (W(w).opened \/ code[w] = c)
    BY <2>1, <2>4
  <2>6. M[c] \in Links
    BY <2>1, <2>2, <2>3 DEF Links
  <2> QED BY <2>2, <2>5, <2>6
<1>9. ASSUME NEW c \in Codes, NEW w \in V, At(w) = c, M[c] = Row(c), w = Of(c)
      PROVE  /\ M[c].opened /\ code[w] # c => L[c].opened
             /\ code[w] = c /\ c \in Our =>
                   c \in Queued \/ view[c].opened \/ L[c].opened
  <2>1. /\ W(w).opened => view[c].opened \/ L[c].opened
        /\ W(w).opened /\ c # code[w] => L[c].opened
    BY <1>3, <1>9
  <2>3. code[w] = c /\ c \in Our => c \in Queued \/ W(w).opened
    BY <1>6, <1>9 DEF opening
  <2>4. M[c].opened <=> (W(w).opened \/ code[w] = c)
    BY <1>8, <1>9
  <2>5. M[c].opened /\ code[w] # c => L[c].opened
    BY <2>1, <2>4
  <2>6. code[w] = c /\ c \in Our => c \in Queued \/ view[c].opened \/ L[c].opened
    BY <2>1, <2>3
  <2> QED BY <2>5, <2>6, Zenon
<1>10. ASSUME NEW c \in Codes PROVE M[c] \in Links
  <2>1. CASE M[c] = L[c]
    BY <2>1 DEF Ledgers
  <2>2. CASE M[c] = Row(c) /\ \E v \in V : At(v) = c
    BY <2>2, <1>4, <1>8
  <2> QED BY <2>1, <2>2, <1>7
<1>11. M \in Ledgers
  <2>1. M = [c \in Codes |-> M[c]]
    BY <1>1
  <2> QED BY <2>1, <1>10 DEF Ledgers
<1>12. \A c \in Codes : M[c] = L[c] \/ \E v \in V : Joins(M, L, view, Queued, code, g, tpl, c, v)
  <2> SUFFICES ASSUME NEW c \in Codes, M[c] # L[c]
               PROVE  \E v \in V : Joins(M, L, view, Queued, code, g, tpl, c, v)
    OBVIOUS
  <2>1. M[c] = Row(c) /\ Of(c) \in V /\ At(Of(c)) = c
    BY <1>4, <1>7
  <2>3. /\ M[c].gid = g /\ M[c].variant = Of(c) /\ M[c].template = tpl
    BY <2>1, <1>8
  <2>4. \/ code[Of(c)] = c
        \/ L[c] # NoLink /\ L[c].gid = g /\ L[c].variant = Of(c)
    BY <2>1, <1>2
  <2>5. /\ M[c].opened /\ code[Of(c)] # c => L[c].opened
        /\ code[Of(c)] = c /\ c \in Our => c \in Queued \/ view[c].opened \/ L[c].opened
    BY <2>1, <1>9
  <2> QED BY <2>1, <2>3, <2>4, <2>5 DEF Joins
<1>13. \A v \in V : Sits(M, L, code, g, tpl, At(v), v)
  <2> TAKE v \in V
  <2>1. At(v) \in Codes /\ M[At(v)] = Row(At(v)) /\ Of(At(v)) \in V /\ At(Of(At(v))) = At(v)
    BY <1>2, <1>4, <1>7
  <2>2. M[At(v)].gid = g /\ M[At(v)].template = tpl
    BY <2>1, <1>8
  <2> QED BY <2>1, <2>2, <1>2 DEF Sits
<1>14. AllJoin(M, L, view, Queued, V, code, g, tpl)
  BY <1>12 DEF AllJoin
<1>15. AllEnd(M, L, view, V, code, g, tpl)
  BY <1>13 DEF AllEnd, At
<1> QED BY <1>11, <1>14, <1>15 DEF M, Queued

\* Only rows of the variants' own Items are saved as documents, and none has
\* to take the place of another.
LEMMA SavedIs ==
  ASSUME NEW L \in Ledgers, NEW view \in Ledgers, NEW g \in Gids, NEW V \in SUBSET Variants,
         NEW code \in [V -> Codes], Recognised(view, g, V, code)
  PROVE  /\ \A c \in saved_by(L, view, g, V, code) :
               \E v \in V : c = code[v] /\ c = at(L, view, g, v, code[v])
         /\ ~clash(L, view, g, V, code)
<1>1. \A v \in V : LET t == target(L, view, g, v, code[v])
                   IN  /\ t.row = at(L, view, g, v, code[v]) /\ t.how \in {"save", "settle", "insert"}
                       /\ t.how # "settle" => t.row = code[v]
  <2> TAKE v \in V
  <2> QED BY UpsertAt
<1>2. ~clash(L, view, g, V, code)
  BY <1>1 DEF clash
<1>3. ASSUME NEW c \in saved_by(L, view, g, V, code)
      PROVE  \E v \in V : c = code[v] /\ c = at(L, view, g, v, code[v])
  <2>1. PICK v \in V : /\ target(L, view, g, v, code[v]).how # "settle"
                       /\ c \in {target(L, view, g, v, code[v]).row, code[v]}
    BY DEF saved_by
  <2> QED BY <2>1, <1>1
<1> QED BY <1>2, <1>3

\* The Items that a product's variants end at: a size's own; for a placeholder
\* the Item of the plain product, or one that stands for it.
Coded(V, code, J, t) ==
    \A v \in V : /\ v \in Sizes => code[v] = v
                 /\ v = Ghost => code[v] = Ghost \/ (code[v] = Article /\ ~t)
                 /\ code[v] \in {Handle, Ghost} => code[v] \in J

\* The Items with a linked variant have their stock in A.
OpensAll(M, A) == \A c \in Our : M[c].variant # NoCode => c \in A
Stands(M, I, A, S, t) == Filed(M, I, A, S, t) /\ OpensAll(M, A)

\* The links that upserts write are filed as the others are.
LEMMA UpsertFiled ==
  ASSUME NEW L \in Ledgers, NEW view \in Ledgers, NEW g \in Gids, NEW V \in SUBSET Variants,
         NEW code \in [V -> Codes], Recognised(view, g, V, code),
         NEW tpl \in {Article, Handle, NoCode}, NEW ours \in BOOLEAN,
         NEW I, NEW J, NEW A, NEW B, NEW S, NEW t,
         Filed(L, I, A, S, t), Filed(view, I, A, S, t), OpensAll(L, A), I \subseteq J, A \subseteq B,
         opened_by(L, view, g, V, code, tpl, ours) \subseteq B,
         S[g].variants # {}, Coded(V, code, J, t), tpl # NoCode => t, tpl = Handle => Handle \in J,
         tpl = Article => Ghost \notin S[g].variants
  PROVE  Stands(upsert_link(L, view, g, V, code, tpl, ours), J, B, S, t)
<1> DEFINE M == upsert_link(L, view, g, V, code, tpl, ours)
           Queued == opened_by(L, view, g, V, code, tpl, ours)
           \* What FiledKeeps says of the rows that stay.
           Stays(c) ==
               /\ M[c].variant \in Sizes => c = M[c].variant
               /\ M[c].variant = Ghost => c = Ghost \/ (c = Article /\ ~t)
               /\ M[c].variant = NoCode => M[c].template = NoCode
               /\ M[c].template # NoCode => t
               /\ c \in Our /\ M[c].opened => c \in B
               /\ c \in {Handle, Ghost} /\ M[c] # NoLink => c \in J
               /\ M[c].template = Handle => Handle \in J
               /\ M[c].gid # NoGid => S[M[c].gid].variants # {}
               /\ M[c].gid # NoGid /\ M[c].template = Article => Ghost \notin S[M[c].gid].variants
<1>1. \A c \in Codes : M[c] = L[c] \/ \E v \in V : Joins(M, L, view, Queued, code, g, tpl, c, v)
  <2>1. AllJoin(M, L, view, Queued, V, code, g, tpl)
    BY UpsertIs
  <2> QED BY <2>1 DEF AllJoin
<1>2. Filed(L, J, B, S, t)
  BY FiledKeeps DEF Grows
<1>3. \A c \in Codes : c \in Our /\ (view[c].opened \/ L[c].opened) => c \in B
  BY DEF Filed
<1>4. \A v \in V : v \in Sizes \/ v = Ghost
  BY DEF Variants
<1>5. Ghost \notin Sizes /\ NoCode \notin Sizes /\ NoCode # Ghost /\ Article \notin Sizes
      /\ Article # Ghost /\ Our \subseteq Codes
  BY CodesApart DEF Codes, Our
<1> HIDE DEF M, Queued
<1>6. ASSUME NEW c \in Codes, NEW v \in V, Joins(M, L, view, Queued, code, g, tpl, c, v)
      PROVE  Stays(c)
  <2>0. /\ M[c].gid = g /\ M[c].variant = v /\ M[c].template = tpl
        /\ code[v] = c \/ (L[c] # NoLink /\ L[c].variant = v)
        /\ M[c].opened /\ code[v] # c => L[c].opened
        /\ code[v] = c /\ c \in Our => c \in Queued \/ view[c].opened \/ L[c].opened
    BY <1>6 DEF Joins
  <2>1. /\ v \in Sizes => c = v
        /\ v = Ghost => c = Ghost \/ (c = Article /\ ~t)
    BY <2>0, <1>2, <1>5 DEF Coded, Filed
  <2>2. c \in Our /\ M[c].opened => c \in B
    <3>1. Queued \subseteq B
      BY DEF Queued
    <3> QED BY <3>1, <1>3, <2>0
  <2>3. c \in {Handle, Ghost} => c \in J
    BY <1>2, <2>0 DEF Coded, Filed
  <2>4. v # NoCode
    BY <1>4, <1>5
  <2> QED BY <2>0, <2>1, <2>2, <2>3, <2>4
<1>7. \A c \in Codes : Stays(c)
  <2> SUFFICES ASSUME NEW c \in Codes PROVE Stays(c)
    OBVIOUS
  <2>1. CASE M[c] = L[c]
    BY <2>1, <1>2 DEF Filed
  <2> HIDE DEF Stays
  <2> QED BY <2>1, <1>1, <1>6
<1>8. Filed(M, J, B, S, t)
  BY <1>7 DEF Filed
<1>9. ASSUME NEW c \in Our, M[c].variant # NoCode
      PROVE  c \in B
  <2>0. L[c].variant # NoCode => c \in A
    BY DEF OpensAll
  <2>1. c \in Codes /\ Queued \subseteq B
    BY <1>5 DEF Queued
  <2>2. CASE M[c] = L[c]
    BY <2>0, <2>2, <1>9
  <2>3. ASSUME NEW v \in V, Joins(M, L, view, Queued, code, g, tpl, c, v)
        PROVE  c \in B
    <3>1. CASE code[v] = c
      BY <3>1, <2>1, <2>3, <1>3, <1>9 DEF Joins
    <3>2. CASE L[c].variant = v
      BY <2>0, <3>2, <1>4, <1>5, <1>9
    <3> QED BY <3>1, <3>2, <2>3 DEF Joins
  <2> QED BY <2>1, <2>2, <2>3, <1>1
<1>10. OpensAll(M, B)
  BY <1>9 DEF OpensAll
<1> QED BY <1>8, <1>10 DEF M, Stands

------------------------------------------------------------------------------
(* What the steps have in common.                                           *)

\* Saving documents makes those loaded before it outdated, and no more.
LEMMA OutdatedIs ==
  ASSUME ListingTypes, NEW what \in {"item", "link"}, NEW C \in SUBSET Codes
  PROVE  /\ Outdated(what, C) \in [Handlers -> {IdleHandler} \cup Mappings]
         /\ \A h \in Handlers :
               LET o == Outdated(what, C)[h]
               IN  \/ o = IdleHandler
                   \/ /\ Writes(h) /\ o.gid = handler[h].gid /\ o.seen = handler[h].seen
                      /\ o.view = handler[h].view
<1>1. \A h \in Handlers : handler[h] = IdleHandler \/ handler[h] \in Mappings
  BY DEF ListingTypes
<1>2. IdleHandler.pc = "idle"
  BY DEF IdleHandler
<1>3. ASSUME NEW h \in Handlers
      PROVE  LET o == Outdated(what, C)[h]
             IN  \/ o = IdleHandler
                 \/ /\ o \in Mappings
                    /\ Writes(h) /\ o.gid = handler[h].gid /\ o.seen = handler[h].seen
                    /\ o.view = handler[h].view
  <2>1. CASE handler[h] = IdleHandler
    BY <2>1, <1>2 DEF Outdated
  <2>2. CASE handler[h] \in Mappings
    <3>1. handler[h].pc = "write" /\ handler[h].stale \in Stales
      BY <2>2 DEF Mappings
    <3>2. handler[h].stale \cup {<<what, c>> : c \in C} \in Stales
      BY <3>1 DEF Stales
    <3>3. Outdated(what, C)[h] = [handler[h] EXCEPT !.stale = @ \cup {<<what, c>> : c \in C}]
      BY <3>1 DEF Outdated
    <3>4. Outdated(what, C)[h] \in Mappings
      BY <3>2, <3>3, <2>2 DEF Mappings
    <3>5. DOMAIN handler[h] = {"pc", "gid", "seen", "view", "off", "tick", "stale", "tries"}
      BY <2>2 DEF Mappings
    <3> QED BY <3>1, <3>3, <3>4, <3>5 DEF Writes
  <2> QED BY <1>1, <2>1, <2>2
<1>4. Outdated(what, C) = [h \in Handlers |-> Outdated(what, C)[h]]
  BY DEF Outdated
<1>5. \A h \in Handlers : Outdated(what, C)[h] \in {IdleHandler} \cup Mappings
  BY <1>3
<1> QED BY <1>3, <1>4, <1>5

\* A handler that goes on as it was, or ends.
Goes(h) == \/ handler'[h] = IdleHandler
           \/ /\ Writes(h) /\ handler'[h].gid = handler[h].gid /\ handler'[h].seen = handler[h].seen
              /\ handler'[h].view = handler[h].view

\* What the others have read stays true while the Items, the queue and what
\* the products have only grow.
LEMMA ReadersKeep ==
  ASSUME ListingInd, items \subseteq items', asked \subseteq asked', templated' = templated,
         Grows(shop, shop'), NEW h \in Handlers, Goes(h)
  PROVE  Writes(h)' =>
            /\ Filed(handler'[h].view, items', asked', shop', templated')
            /\ Sound(handler'[h].seen, items', templated')
            /\ shop'[handler'[h].gid].variants # {}
            /\ Ghost \in shop'[handler'[h].gid].variants => Ghost \in handler'[h].seen.variants
<1> SUFFICES ASSUME handler'[h].pc = "write"
             PROVE  /\ Filed(handler'[h].view, items', asked', shop', templated')
                    /\ Sound(handler'[h].seen, items', templated')
                    /\ shop'[handler'[h].gid].variants # {}
                    /\ Ghost \in shop'[handler'[h].gid].variants => Ghost \in handler'[h].seen.variants
  BY DEF Writes
<1>1. /\ Writes(h) /\ handler'[h].gid = handler[h].gid /\ handler'[h].seen = handler[h].seen
      /\ handler'[h].view = handler[h].view
  BY DEF Goes, IdleHandler
<1>2. handler[h] \in Mappings
  <2>1. handler[h] = IdleHandler \/ handler[h] \in Mappings
    BY DEF ListingInd, ListingTypes
  <2> QED BY <1>1, <2>1 DEF Writes, IdleHandler
<1>3. handler[h].gid \in Gids /\ handler[h].view \in Ledgers
  BY <1>2 DEF Mappings
<1>4. /\ Filed(handler[h].view, items, asked, shop, templated)
      /\ Sound(handler[h].seen, items, templated)
      /\ shop[handler[h].gid].variants # {}
      /\ Ghost \in shop[handler[h].gid].variants => Ghost \in handler[h].seen.variants
  BY <1>1 DEF ListingInd, LedgerInv, SeenInv
<1>5. Filed(handler[h].view, items', asked', shop', templated)
  BY <1>3, <1>4, FiledKeeps
<1>6. Sound(handler[h].seen, items', templated)
  BY <1>4 DEF Sound
<1>7. /\ shop'[handler[h].gid].variants # {}
      /\ Ghost \in shop'[handler[h].gid].variants => Ghost \in shop[handler[h].gid].variants
  BY <1>3, <1>4 DEF Grows
<1> QED BY <1>1, <1>4, <1>5, <1>6, <1>7

\* A handler that reads the links of now, and a product that there is.
Reads(h) ==
    /\ handler'[h].gid \in Gids /\ handler'[h].view = links
    /\ Sound(handler'[h].seen, items, templated)
    /\ shop[handler'[h].gid].variants # {}
    /\ Ghost \in shop[handler'[h].gid].variants => Ghost \in handler'[h].seen.variants

ShopSame == \A g \in Gids :
    /\ shop'[g].live = shop[g].live /\ shop'[g].variants = shop[g].variants
    /\ shop'[g].filled = shop[g].filled /\ (shop'[g] = NoProduct <=> shop[g] = NoProduct)

LinksSame == \A c \in Codes :
    \/ links'[c] = links[c]
    \/ /\ links[c].gid # NoGid
       /\ links'[c].gid = links[c].gid /\ links'[c].variant = links[c].variant
       /\ links'[c].template = links[c].template /\ links'[c].opened = links[c].opened

MailSame == \A g \in Gids : <<"delete", g>> \in mail' <=> <<"delete", g>> \in mail

\* A step that makes, joins and removes nothing.
Quiet ==
    /\ templated' = templated /\ cut' = cut /\ drain' = drain
    /\ items \subseteq items' /\ items' \ items \subseteq Our /\ asked \subseteq asked'
    /\ ~templated => items' \cap Sizes = {}
    /\ ShopSame /\ LinksSame /\ MailSame
    /\ \A h \in Handlers : Goes(h) \/ Reads(h)

\* A drain at work has its row in hand; an idle one has nothing.
LEMMA DrainIs == ListingInd => /\ Draws => drain \in Drains
                               /\ ~Draws => drain = IdleDrain
<1>1. ListingInd => drain = IdleDrain \/ drain \in Drains
  BY DEF ListingInd, ListingTypes
<1>2. IdleDrain.pc = "idle"
  BY DEF IdleDrain
<1>3. \A d \in Drains : d.pc # "idle"
  BY DEF Drains, Publishing
<1> QED BY <1>1, <1>2, <1>3 DEF Draws

\* Shop and links as they were: so is what follows from them.
LEMMA GrowsIs == ShopSame => Grows(shop, shop')
  BY DEF ShopSame, Grows

\* Such a step keeps the invariant, whatever else it does.
LEMMA QuietStep ==
  ASSUME ListingInd, ListingTypes', Quiet
  PROVE  ListingInd'
<1>0. /\ ListingTypes /\ ShopInv /\ LedgerInv /\ DrainInv /\ SeenInv /\ OneInv /\ OpeningPushQueued
  BY DEF ListingInd
<1>1. /\ templated' = templated /\ cut' = cut /\ drain' = drain
      /\ items \subseteq items' /\ items' \ items \subseteq Our /\ asked \subseteq asked'
      /\ ~templated => items' \cap Sizes = {}
      /\ ShopSame /\ LinksSame /\ MailSame
      /\ \A h \in Handlers : Goes(h) \/ Reads(h)
  BY DEF Quiet
<1>2. Grows(shop, shop')
  BY <1>1, GrowsIs
<1>3. links \in Ledgers /\ links' \in Ledgers
  BY <1>0 DEF ListingTypes
<1>4. ShopInv'
  <2>1. ASSUME NEW g \in Gids PROVE shop'[g] = NoProduct \/ Sound(shop'[g], items', templated')
    BY <1>0, <1>1 DEF ShopInv, ShopSame, Sound
  <2>2. ASSUME NEW g \in Gids, <<"delete", g>> \in mail' PROVE shop'[g] # NoProduct /\ ~shop'[g].live
    BY <2>2, <1>0, <1>1 DEF ShopInv, ShopSame, MailSame
  <2> QED BY <2>1, <2>2, <1>1 DEF ShopInv
<1>5. Filed(links, items', asked', shop', templated)
  BY <1>0, <1>1, <1>2, <1>3, FiledKeeps DEF LedgerInv
<1>6. Filed(links', items', asked', shop', templated')
  BY <1>1, <1>3, <1>5, FiledSame DEF LinksSame
<1>7. Draws' => Filed(drain'.view, items', asked', shop', templated')
  <2> SUFFICES ASSUME Draws PROVE Filed(drain.view, items', asked', shop', templated)
    BY <1>1 DEF Draws
  <2>1. drain.view \in Ledgers
    BY DrainIs DEF Drains
  <2> QED BY <2>1, <1>0, <1>1, <1>2, FiledKeeps DEF LedgerInv
<1>8. ASSUME NEW h \in Handlers, Reads(h)
      PROVE  /\ Filed(handler'[h].view, items', asked', shop', templated')
             /\ Sound(handler'[h].seen, items', templated')
             /\ shop'[handler'[h].gid].variants # {}
             /\ Ghost \in shop'[handler'[h].gid].variants => Ghost \in handler'[h].seen.variants
  <2>1. handler'[h].gid \in Gids /\ handler'[h].view = links
    BY <1>8 DEF Reads
  <2>2. Sound(handler'[h].seen, items', templated')
    BY <1>8, <1>1 DEF Reads, Sound
  <2>3. shop'[handler'[h].gid].variants = shop[handler'[h].gid].variants
    BY <2>1, <1>1 DEF ShopSame
  <2> QED BY <2>1, <2>2, <2>3, <1>1, <1>5, <1>8 DEF Reads
<1>9. ASSUME NEW h \in Handlers, Writes(h)'
      PROVE  /\ Filed(handler'[h].view, items', asked', shop', templated')
             /\ Sound(handler'[h].seen, items', templated')
             /\ shop'[handler'[h].gid].variants # {}
             /\ Ghost \in shop'[handler'[h].gid].variants => Ghost \in handler'[h].seen.variants
  <2>1. CASE Goes(h)
    BY <2>1, <1>1, <1>2, <1>9, ReadersKeep
  <2> QED BY <2>1, <1>1, <1>8
<1>10. LedgerInv' /\ SeenInv'
  BY <1>6, <1>7, <1>9 DEF LedgerInv, SeenInv
<1>11. DrainInv'
  <2> SUFFICES ASSUME Draws
               PROVE  /\ shop'[drain.gid].variants # {}
                      /\ drain.kids \subseteq items'
                      /\ drain.pc \in {"template", "vary"} => templated
                      /\ drain.pc = "fill" => ~templated
                      /\ templated => drain.kids # {}
                      /\ drain.pc = "link" /\ templated => Ghost \notin shop'[drain.gid].variants
                      /\ ~templated => drain.new /\ \A c \in Codes : drain.view[c].gid # drain.gid
    BY <1>1 DEF DrainInv, Draws
  <2>1. drain.gid \in Gids
    BY DrainIs DEF Drains
  <2>2. shop'[drain.gid].variants = shop[drain.gid].variants
    BY <2>1, <1>1 DEF ShopSame
  <2> QED BY <2>2, <1>0, <1>1 DEF DrainInv
<1>12. OneInv'
  <2>1. Twinned' <=> Twinned
    BY <1>1, CodesApart DEF Twinned, Our
  <2>2. \A g \in Gids : Present(g)' <=> Present(g)
    BY <1>1 DEF Present, ShopSame, MailSame
  <2>3. \A c \in Codes : links'[c].gid = links[c].gid /\ links'[c].template = links[c].template
    BY <1>1 DEF LinksSame
  <2>4. Article \in Codes
    BY DEF Codes
  <2>5. InLinks' <=> InLinks
    BY <2>3, <2>4 DEF InLinks
  <2>6. Draws' <=> Draws
    BY <1>1 DEF Draws
  <2>7. Draws => shop'[drain.gid].live = shop[drain.gid].live
    BY <1>1, DrainIs DEF ShopSame, Drains
  <2> SUFFICES ASSUME ~cut, ~Twinned
               PROVE  /\ \A f, g \in Gids : Present(f) /\ Present(g) => f = g
                      /\ Draws => shop[drain.gid].live
                      /\ (\E g \in Gids : Present(g)) => InLinks \/ (Draws /\ drain.new)
                      /\ Draws /\ templated /\ drain.new /\ drain.pc \in {"vary", "link"} => links[Article].gid # NoGid
                      /\ Draws /\ ~templated => \A c \in Codes : <<"link", c>> \in drain.stale => links[c].gid # NoGid
    BY <1>1, <2>1, <2>2, <2>3, <2>4, <2>5, <2>6, <2>7 DEF OneInv
  <2> QED BY <1>0 DEF OneInv
<1>13. OpeningPushQueued'
  <2>1. \A c \in Our : links'[c].variant = links[c].variant
    BY <1>1 DEF LinksSame, Our, Codes
  <2> QED BY <2>1, <1>0, <1>1 DEF OpeningPushQueued
<1> QED BY <1>4, <1>10, <1>11, <1>12, <1>13 DEF ListingInd

------------------------------------------------------------------------------
(* Steps that make, join and remove nothing.                                *)

\* What does not change is as it was.
LEMMA SameIs == /\ (shop' = shop => ShopSame) /\ (links' = links => LinksSame)
                /\ (mail' = mail => MailSame)
                /\ (ListingInd /\ handler' = handler => \A h \in Handlers : Goes(h))
<1>1. ASSUME ListingInd, handler' = handler, NEW h \in Handlers PROVE Goes(h)
  <2>1. handler[h] = IdleHandler \/ handler[h] \in Mappings
    BY <1>1 DEF ListingInd, ListingTypes
  <2>2. \A m \in Mappings : m.pc = "write"
    BY DEF Mappings
  <2> QED BY <1>1, <2>1, <2>2 DEF Goes, Writes
<1> QED BY <1>1 DEF ShopSame, LinksSame, MailSame

\* Whose codes are among which.
LEMMA CodesAre == Our \subseteq Codes /\ Article \in Our /\ Sizes \subseteq Our /\ Variants \subseteq Codes
                  /\ Ghost \in Variants /\ Ghost \notin Our /\ Handle \notin Our
                  /\ {Article, Handle, Ghost} \subseteq Codes
  BY CodesApart DEF Our, Codes, Variants

\* The bound on the events is kept.
LEMMA HappensIs == ListingTypes /\ Happens => events' \in 0..MaxEvents
  BY ListingAssumption DEF ListingTypes, Happens

\* A user saves an Item.
LEMMA StepSave ==
  ASSUME ListingInd, NEW c \in Our, NEW off \in BOOLEAN, NEW tick \in BOOLEAN, SaveItem(c, off, tick)
  PROVE  ListingInd'
<1>0. ListingTypes /\ ShopInv
  BY DEF ListingInd
<1>1. /\ Happens /\ (c \in Sizes => templated)
      /\ items' = items \cup {c}
      /\ disabled' = IF off THEN disabled \cup {c} ELSE disabled \ {c}
      /\ rows' = rows \cup on_item_change(c, tick)
      /\ handler' = Outdated("item", {c})
      /\ templated' = templated /\ priced' = priced /\ ticked' = tick /\ links' = links
      /\ shop' = shop /\ mail' = mail /\ drain' = drain /\ cut' = cut
  BY DEF SaveItem
<1>2. asked \subseteq asked' /\ asked' \subseteq asked \cup {c}
  BY DEF SaveItem
<1>3. on_item_change(c, tick) \subseteq Our
  BY CodesAre DEF on_item_change
<1>4. /\ handler' \in [Handlers -> {IdleHandler} \cup Mappings]
      /\ \A h \in Handlers : Goes(h)
  <2>1. {c} \in SUBSET Codes
    BY CodesAre
  <2> DEFINE O == Outdated("item", {c})
  <2>2. /\ O \in [Handlers -> {IdleHandler} \cup Mappings]
        /\ \A h \in Handlers : LET o == O[h]
               IN  \/ o = IdleHandler
                   \/ /\ Writes(h) /\ o.gid = handler[h].gid /\ o.seen = handler[h].seen
                      /\ o.view = handler[h].view
    BY <1>0, <2>1, OutdatedIs
  <2> HIDE DEF O
  <2> QED BY <1>1, <2>2 DEF Goes, O
<1>5. events' \in 0..MaxEvents
  BY <1>0, <1>1, HappensIs
<1>6. ListingTypes'
  <2>1. /\ items' \subseteq Codes /\ disabled' \subseteq Codes /\ rows' \subseteq Our /\ asked' \subseteq Our
    BY <1>0, <1>1, <1>2, <1>3, CodesAre DEF ListingTypes
  <2> QED BY <1>0, <1>1, <1>4, <1>5, <2>1 DEF ListingTypes
<1>7. Quiet
  <2>1. ~templated => items' \cap Sizes = {}
    BY <1>0, <1>1 DEF ShopInv
  <2>2. items \subseteq items' /\ items' \ items \subseteq Our
    BY <1>1
  <2> QED BY <1>1, <1>2, <1>4, <2>1, <2>2, SameIs DEF Quiet
<1> QED BY <1>6, <1>7, QuietStep

\* A row that is pushed to no effect, or fails.
LEMMA StepRows ==
  ASSUME ListingInd, rows' \subseteq rows,
         UNCHANGED <<templated, ticked, items, disabled, priced, links, asked, shop, mail,
                     drain, handler, events, cut>>
  PROVE  ListingInd'
<1>1. /\ templated' = templated /\ items' = items /\ disabled' = disabled /\ priced' = priced
      /\ ticked' = ticked /\ links' = links /\ asked' = asked /\ shop' = shop /\ mail' = mail
      /\ drain' = drain /\ handler' = handler /\ events' = events /\ cut' = cut
  OBVIOUS
<1>2. ListingTypes'
  BY <1>1 DEF ListingInd, ListingTypes
<1>3. ~templated => items \cap Sizes = {}
  BY DEF ListingInd, ShopInv
<1>4. Quiet
  BY <1>1, <1>3, SameIs DEF Quiet
<1> QED BY <1>2, <1>4, QuietStep

\* A product is sent its status.
LEMMA StepUpdate ==
  ASSUME ListingInd, NEW c \in Our, PushUpdate(c)
  PROVE  ListingInd'
<1>0. ListingTypes /\ ShopInv
  BY DEF ListingInd
<1>1. PICK g \in Known(c) :
         LET dead == product_is_dead(IF variant_of(c) = NoCode THEN c ELSE variant_of(c))
             mine == {x \in Codes : links[x].gid = g}
             pending == ~dead /\ \A x \in mine : ~links[x].decided
             was == shop[g].status
         IN  /\ shop[g].live
             /\ shop' = [shop EXCEPT ![g].status = IF dead THEN "ARCHIVED" ELSE "ACTIVE",
                                     ![g].listed = @ \/ (pending /\ was \in {"DRAFT", "ARCHIVED"})]
             /\ links' = [x \in Codes |-> IF pending /\ x \in mine
                                          THEN [links[x] EXCEPT !.decided = TRUE] ELSE links[x]]
             /\ mail' = mail \cup {<<"update", g>>}
  BY DEF PushUpdate
<1>2. /\ rows' = rows \ {c} /\ templated' = templated /\ items' = items /\ disabled' = disabled
      /\ priced' = priced /\ ticked' = ticked /\ asked' = asked /\ drain' = drain
      /\ handler' = handler /\ events' = events /\ cut' = cut
  BY DEF PushUpdate
<1>3. \A x \in Codes : links[x] \in Links /\ links[x].gid \in Gids \cup {NoGid}
  BY <1>0 DEF ListingTypes, Ledgers, Links
<1>4. g \in Gids
  <2>1. c \in Codes
    BY CodesAre
  <2> QED BY <1>3, <2>1 DEF Known, product_link_for
<1> DEFINE dead == product_is_dead(IF variant_of(c) = NoCode THEN c ELSE variant_of(c))
           pending == ~dead /\ \A x \in {y \in Codes : links[y].gid = g} : ~links[x].decided
           p == [shop[g] EXCEPT !.status = IF dead THEN "ARCHIVED" ELSE "ACTIVE",
                                !.listed = @ \/ (pending /\ shop[g].status \in {"DRAFT", "ARCHIVED"})]
<1>5. shop' = [shop EXCEPT ![g] = p]
  BY <1>1, <1>4, <1>0 DEF ListingTypes, Listings
<1>6. shop[g] \in Listings /\ shop[g].free \subseteq shop[g].variants
  BY <1>0, <1>4 DEF ListingTypes
<1>7. /\ p \in Listings /\ p.live /\ p.live = shop[g].live
      /\ p.variants = shop[g].variants /\ p.filled = shop[g].filled /\ p.free = shop[g].free
  <2>1. {"ARCHIVED", "ACTIVE"} \subseteq Standings
    BY DEF Standings
  <2>2. (IF dead THEN "ARCHIVED" ELSE "ACTIVE") \in Standings
    BY <2>1
  <2>3. (shop[g].listed \/ (pending /\ shop[g].status \in {"DRAFT", "ARCHIVED"})) \in BOOLEAN
    OBVIOUS
  <2> HIDE DEF dead, pending
  <2> QED BY <1>1, <1>6, <2>2, <2>3 DEF Listings
<1> HIDE DEF p
<1>8. shop' \in [Gids -> Listings] /\ \A f \in Gids : shop'[f].free \subseteq shop'[f].variants
  BY <1>0, <1>4, <1>5, <1>6, <1>7 DEF ListingTypes
<1>9. ShopSame
  <2>1. shop[g] # NoProduct /\ p # NoProduct
    BY <1>1, <1>7, NoneIs
  <2>2. shop'[g] = p /\ \A f \in Gids : f # g => shop'[f] = shop[f]
    BY <1>0, <1>4, <1>5 DEF ListingTypes
  <2> QED BY <1>7, <2>1, <2>2 DEF ShopSame
<1>10. links' = [x \in Codes |-> IF pending /\ x \in {y \in Codes : links[y].gid = g}
                                 THEN [links[x] EXCEPT !.decided = TRUE] ELSE links[x]]
  BY <1>1
<1>11. ASSUME NEW x \in Codes
       PROVE  /\ links'[x] \in Links
              /\ \/ links'[x] = links[x]
                 \/ /\ links[x].gid # NoGid
                    /\ links'[x].gid = links[x].gid /\ links'[x].variant = links[x].variant
                    /\ links'[x].template = links[x].template /\ links'[x].opened = links[x].opened
  <2> DEFINE l == [links[x] EXCEPT !.decided = TRUE]
  <2>1. /\ l \in Links /\ l.gid = links[x].gid /\ l.variant = links[x].variant
        /\ l.template = links[x].template /\ l.opened = links[x].opened
    BY <1>3 DEF Links
  <2>2. links'[x] = links[x] \/ (links'[x] = l /\ links[x].gid = g)
    <3> HIDE DEF pending
    <3> QED BY <1>10
  <2>3. g # NoGid
    BY <1>4, CodesApart
  <2> HIDE DEF l
  <2> QED BY <1>3, <2>1, <2>2, <2>3
<1>12. links' \in Ledgers /\ LinksSame
  <2>1. links' = [x \in Codes |-> links'[x]]
    BY <1>10
  <2> QED BY <1>11, <2>1 DEF Ledgers, LinksSame
<1>13. mail' \subseteq {"update", "delete"} \X Gids /\ MailSame
  BY <1>0, <1>1, <1>4 DEF ListingTypes, MailSame
<1>14. ListingTypes'
  BY <1>0, <1>2, <1>8, <1>12, <1>13 DEF ListingTypes
<1>15. Quiet
  BY <1>0, <1>2, <1>9, <1>12, <1>13, SameIs DEF Quiet, ShopInv
<1> QED BY <1>14, <1>15, QuietStep

\* A handler at work has its product in hand; an idle one has nothing.
LEMMA HandlerIs == ListingInd => \A h \in Handlers :
                      /\ Writes(h) => handler[h] \in Mappings
                      /\ ~Writes(h) => handler[h] = IdleHandler
<1>1. ListingInd => \A h \in Handlers : handler[h] = IdleHandler \/ handler[h] \in Mappings
  BY DEF ListingInd, ListingTypes
<1>2. IdleHandler.pc = "idle"
  BY DEF IdleHandler
<1>3. \A m \in Mappings : m.pc = "write"
  BY DEF Mappings
<1> QED BY <1>1, <1>2, <1>3 DEF Writes

\* Only one handler moves, and the rest of the system with it at most in its mail.
LEMMA HandlerMoves ==
  ASSUME ListingInd, NEW h \in Handlers, NEW m \in {IdleHandler} \cup Mappings,
         handler' = [handler EXCEPT ![h] = m],
         m = IdleHandler \/ Reads(h),
         mail' \subseteq {"update", "delete"} \X Gids, MailSame,
         templated' = templated, items' = items, disabled' = disabled, priced' = priced,
         ticked' = ticked, links' = links, rows' = rows, asked' = asked, shop' = shop,
         drain' = drain, events' = events, cut' = cut
  PROVE  ListingInd'
<1>0. ListingTypes /\ ShopInv
  BY DEF ListingInd
<1>1. /\ handler'[h] = m /\ \A k \in Handlers : k # h => handler'[k] = handler[k]
      /\ handler' \in [Handlers -> {IdleHandler} \cup Mappings]
  BY <1>0 DEF ListingTypes
<1>2. \A k \in Handlers : Goes(k) \/ Reads(k)
  <2>1. \A k \in Handlers : k # h => Goes(k)
    BY <1>1, HandlerIs DEF Goes
  <2>2. m = IdleHandler => Goes(h)
    BY <1>1 DEF Goes
  <2> QED BY <2>1, <2>2
<1>3. ListingTypes'
  BY <1>0, <1>1 DEF ListingTypes
<1>4. Quiet
  <2>1. ~templated => items \cap Sizes = {}
    BY <1>0 DEF ShopInv
  <2> QED BY <1>2, <2>1, SameIs DEF Quiet
<1> QED BY <1>3, <1>4, QuietStep

\* A webhook starts, or is dropped.
LEMMA StepFetch ==
  ASSUME ListingInd, NEW h \in Handlers, NEW g \in Gids, HookFetch(h, g)
  PROVE  ListingInd'
<1>0. ListingTypes /\ ShopInv
  BY DEF ListingInd
<1> DEFINE m == [IdleHandler EXCEPT !.pc = "write", !.gid = g, !.seen = shop[g],
                                    !.view = links, !.off = disabled, !.tick = ticked, !.tries = 1]
<1>1. /\ mail' = mail \ {<<"update", g>>}
      /\ templated' = templated /\ items' = items /\ disabled' = disabled /\ priced' = priced
      /\ ticked' = ticked /\ links' = links /\ rows' = rows /\ asked' = asked /\ shop' = shop
      /\ drain' = drain /\ events' = events /\ cut' = cut
      /\ handler' = handler \/ (shop[g].live /\ handler' = [handler EXCEPT ![h] = m])
  BY DEF HookFetch
<1>2. mail' \subseteq {"update", "delete"} \X Gids /\ MailSame
  BY <1>0, <1>1 DEF ListingTypes, MailSame
<1>3. ASSUME shop[g].live, handler' = [handler EXCEPT ![h] = m] PROVE m \in Mappings /\ Reads(h)
  <2>0. /\ DOMAIN IdleHandler = {"pc", "gid", "seen", "view", "off", "tick", "stale", "tries"}
        /\ IdleHandler.stale = {}
    BY DEF IdleHandler
  <2>1. /\ m.pc = "write" /\ m.gid = g /\ m.seen = shop[g] /\ m.view = links /\ m.off = disabled
        /\ m.tick = ticked /\ m.stale = {} /\ m.tries = 1
    BY <2>0
  <2>2. /\ shop[g] \in Listings /\ links \in Ledgers /\ disabled \in SUBSET Codes
        /\ ticked \in BOOLEAN /\ {} \in Stales /\ 1 \in 1..WriteAttempts
    BY <1>0, ListingAssumption DEF ListingTypes, Stales
  <2>3. m \in Mappings
    <3> DEFINE Any == [pc : {"idle", "write"}, gid : Gids \cup {NoGid}, seen : Listings,
                       view : Ledgers \cup {<<>>}, off : SUBSET Codes,
                       tick : BOOLEAN, stale : Stales, tries : Nat]
    <3>1. IdleHandler \in Any
      BY <2>2, NoneIs DEF IdleHandler
    <3> QED BY <3>1, <2>0, <2>2 DEF Mappings
  <2>4. shop[g] # NoProduct
    BY <1>3, NoneIs
  <2>5. Sound(shop[g], items, templated)
    BY <1>0, <2>4 DEF ShopInv
  <2>6. handler'[h] = m
    BY <1>0, <1>3 DEF ListingTypes
  <2>7. handler'[h].gid = g /\ handler'[h].view = links /\ handler'[h].seen = shop[g]
    BY <2>1, <2>6
  <2> QED BY <2>3, <2>5, <2>7 DEF Reads, Sound
<1>4. CASE handler' = handler
  <2>1. handler' = [handler EXCEPT ![h] = handler[h]]
    BY <1>0, <1>4 DEF ListingTypes
  <2>2. ListingTypes'
    BY <1>0, <1>1, <1>2, <1>4 DEF ListingTypes
  <2>3. Quiet
    BY <1>0, <1>1, <1>2, <1>4, SameIs DEF Quiet, ShopInv
  <2> QED BY <2>2, <2>3, QuietStep
<1>5. CASE shop[g].live /\ handler' = [handler EXCEPT ![h] = m]
  <2>1. m \in {IdleHandler} \cup Mappings /\ Reads(h)
    BY <1>3, <1>5
  <2> HIDE DEF m
  <2> QED BY <1>1, <1>2, <1>5, <2>1, HandlerMoves
<1> QED BY <1>1, <1>4, <1>5

\* A webhook is refused for good.
LEMMA StepRefused ==
  ASSUME ListingInd, NEW h \in Handlers, NEW found, NEW m, HookRefused(h, found, m)
  PROVE  ListingInd'
<1>1. /\ handler' = [handler EXCEPT ![h] = IdleHandler]
      /\ templated' = templated /\ items' = items /\ disabled' = disabled /\ priced' = priced
      /\ ticked' = ticked /\ links' = links /\ rows' = rows /\ asked' = asked /\ shop' = shop
      /\ drain' = drain /\ events' = events /\ cut' = cut /\ mail' = mail
  BY DEF HookRefused
<1>2. mail' \subseteq {"update", "delete"} \X Gids /\ MailSame
  BY <1>1 DEF ListingInd, ListingTypes, MailSame
<1> QED BY <1>1, <1>2, HandlerMoves

\* A webhook reads everything again, or gives the event back.
LEMMA StepRetry ==
  ASSUME ListingInd, NEW h \in Handlers, Writes(h), NEW m, HookRetry(h, m)
  PROVE  ListingInd'
<1>0. ListingTypes /\ ShopInv /\ SeenInv /\ handler[h] \in Mappings
  BY HandlerIs DEF ListingInd
<1> DEFINE n == [handler[h] EXCEPT !.view = links, !.off = disabled, !.tick = ticked, !.stale = {},
                               !.tries = handler[h].tries + 1]
<1>1. /\ templated' = templated /\ items' = items /\ disabled' = disabled /\ priced' = priced
      /\ ticked' = ticked /\ links' = links /\ rows' = rows /\ asked' = asked /\ shop' = shop
      /\ drain' = drain /\ events' = events /\ cut' = cut
  BY DEF HookRetry
<1>2. \/ handler[h].tries < WriteAttempts /\ mail' = mail /\ handler' = [handler EXCEPT ![h] = n]
      \/ mail' = mail \cup {<<"update", handler[h].gid>>} /\ handler' = [handler EXCEPT ![h] = IdleHandler]
  <2> QED BY <1>0 DEF HookRetry, ListingTypes
<1>3. handler[h].gid \in Gids /\ handler[h].tries \in 1..WriteAttempts
  BY <1>0 DEF Mappings
<1>4. mail' \subseteq {"update", "delete"} \X Gids /\ MailSame
  BY <1>0, <1>2, <1>3 DEF ListingTypes, MailSame
<1>5. CASE handler' = [handler EXCEPT ![h] = IdleHandler]
  BY <1>1, <1>4, <1>5, HandlerMoves
<1>6. CASE handler[h].tries < WriteAttempts /\ handler' = [handler EXCEPT ![h] = n]
  <2>1. links \in Ledgers /\ disabled \in SUBSET Codes /\ {} \in Stales /\ ticked \in BOOLEAN
    BY <1>0 DEF ListingTypes, Stales
  <2>2. handler[h].tries + 1 \in 1..WriteAttempts
    BY <1>3, <1>6, ListingAssumption
  <2>3. n \in Mappings /\ n.gid = handler[h].gid /\ n.seen = handler[h].seen /\ n.view = links
    BY <1>0, <2>1, <2>2 DEF Mappings
  <2>4. handler'[h] = n
    BY <1>0, <1>6 DEF ListingTypes
  <2> HIDE DEF n
  <2>5. Reads(h)
    BY <1>0, <1>3, <2>3, <2>4 DEF Reads, SeenInv
  <2> QED BY <1>1, <1>4, <1>6, <2>3, <2>5, HandlerMoves
<1> QED BY <1>2, <1>5, <1>6

------------------------------------------------------------------------------
(* Steps that make, join or remove.                                         *)

\* What was read is filed as it was.
Lasts ==
    /\ Filed(links, items', asked', shop', templated')
    /\ Draws => Filed(drain.view, items', asked', shop', templated')
    /\ \A h \in Handlers : Writes(h)' => Filed(handler'[h].view, items', asked', shop', templated')
    /\ SeenInv'

Keeps ==
    /\ templated' = templated /\ items \subseteq items' /\ asked \subseteq asked'
    /\ Grows(shop, shop')

\* Then what the readers hold is as good as it was.
LEMMA ReadingsHold ==
  ASSUME ListingInd, Keeps, \A h \in Handlers : Goes(h)
  PROVE  Lasts
<1>0. LedgerInv /\ links \in Ledgers
  BY DEF ListingInd, ListingTypes
<1>1. Filed(links, items', asked', shop', templated')
  BY <1>0, FiledKeeps DEF LedgerInv, Keeps
<1>2. Draws => Filed(drain.view, items', asked', shop', templated')
  <2> SUFFICES ASSUME Draws PROVE Filed(drain.view, items', asked', shop', templated')
    OBVIOUS
  <2>1. drain.view \in Ledgers
    BY DrainIs DEF Drains
  <2> QED BY <2>1, <1>0, FiledKeeps DEF LedgerInv, Keeps
<1>3. ASSUME NEW h \in Handlers, Writes(h)'
      PROVE  /\ Filed(handler'[h].view, items', asked', shop', templated')
             /\ Sound(handler'[h].seen, items', templated')
             /\ shop'[handler'[h].gid].variants # {}
             /\ Ghost \in shop'[handler'[h].gid].variants => Ghost \in handler'[h].seen.variants
  BY <1>3, ReadersKeep DEF Keeps
<1> QED BY <1>1, <1>2, <1>3 DEF Lasts, SeenInv

\* The drain goes on with what it has in hand.
DrainGoes ==
    Draws' => /\ Draws /\ drain'.pc = drain.pc /\ drain'.gid = drain.gid /\ drain'.kids = drain.kids
              /\ drain'.new = drain.new /\ drain'.view = drain.view

\* Then what it has in hand is as good as it was.
LEMMA DrainHolds ==
  ASSUME ListingInd, Keeps, DrainGoes
  PROVE  DrainInv'
<1> SUFFICES ASSUME Draws'
             PROVE  /\ shop'[drain'.gid].variants # {}
                    /\ drain'.kids \subseteq items'
                    /\ drain'.pc \in {"template", "vary"} => templated'
                    /\ drain'.pc = "fill" => ~templated'
                    /\ templated' => drain'.kids # {}
                    /\ drain'.pc = "link" /\ templated' => Ghost \notin shop'[drain'.gid].variants
                    /\ ~templated' => drain'.new /\ \A c \in Codes : drain'.view[c].gid # drain'.gid
  BY DEF DrainInv
<1>1. /\ Draws /\ drain'.pc = drain.pc /\ drain'.gid = drain.gid /\ drain'.kids = drain.kids
      /\ drain'.new = drain.new /\ drain'.view = drain.view
  BY DEF DrainGoes
<1>2. DrainInv /\ drain.gid \in Gids
  BY <1>1, DrainIs DEF ListingInd, Drains
<1>3. /\ shop'[drain.gid].variants # {}
      /\ Ghost \notin shop[drain.gid].variants => Ghost \notin shop'[drain.gid].variants
  BY <1>1, <1>2 DEF DrainInv, Keeps, Grows
<1> QED BY <1>1, <1>2, <1>3 DEF DrainInv, Keeps

\* The merchant renames a product, or deletes one.
LEMMA StepEdit ==
  ASSUME ListingInd, NEW g \in Gids, EditOnShopify(g)
  PROVE  ListingInd'
<1>0. ListingTypes /\ ShopInv /\ LedgerInv /\ OneInv /\ OpeningPushQueued
  BY DEF ListingInd
<1>1. /\ Happens /\ shop[g].live
      /\ templated' = templated /\ items' = items /\ disabled' = disabled /\ priced' = priced
      /\ ticked' = ticked /\ links' = links /\ rows' = rows /\ asked' = asked
      /\ drain' = drain /\ handler' = handler
  BY DEF EditOnShopify
<1>2. events' \in 0..MaxEvents
  BY <1>0, <1>1, HappensIs
<1>3. shop[g] \in Listings /\ shop[g].free \subseteq shop[g].variants /\ shop[g] # NoProduct
  BY <1>0, <1>1, NoneIs DEF ListingTypes
<1>4. CASE shop' = [shop EXCEPT ![g].title = @ + 1] /\ mail' = mail \cup {<<"update", g>>} /\ cut' = cut
  <2> DEFINE p == [shop[g] EXCEPT !.title = @ + 1]
  <2>1. shop' = [shop EXCEPT ![g] = p]
    BY <1>0, <1>4 DEF ListingTypes
  <2>2. /\ p \in Listings /\ p.live = shop[g].live /\ p.variants = shop[g].variants
        /\ p.filled = shop[g].filled /\ p.free = shop[g].free
    BY <1>3 DEF Listings
  <2> HIDE DEF p
  <2>3. /\ shop'[g] = p /\ \A f \in Gids : f # g => shop'[f] = shop[f]
        /\ shop' \in [Gids -> Listings]
    BY <1>0, <2>1, <2>2 DEF ListingTypes
  <2>4. \A f \in Gids : shop'[f].free \subseteq shop'[f].variants
    BY <1>0, <2>2, <2>3 DEF ListingTypes
  <2>5. ShopSame
    BY <1>1, <1>3, <2>2, <2>3, NoneIs DEF ShopSame
  <2>6. mail' \subseteq {"update", "delete"} \X Gids /\ MailSame
    BY <1>0, <1>4 DEF ListingTypes, MailSame
  <2>7. ListingTypes'
    BY <1>0, <1>1, <1>2, <1>4, <2>3, <2>4, <2>6 DEF ListingTypes
  <2>8. Quiet
    BY <1>0, <1>1, <1>4, <2>5, <2>6, SameIs DEF Quiet, ShopInv
  <2> QED BY <2>7, <2>8, QuietStep
<1>5. CASE /\ shop' = [shop EXCEPT ![g].live = FALSE] /\ mail' = mail \cup {<<"delete", g>>}
           /\ cut' = (cut \/ drain.gid = g)
  <2> DEFINE p == [shop[g] EXCEPT !.live = FALSE]
  <2>1. shop' = [shop EXCEPT ![g] = p]
    BY <1>0, <1>5 DEF ListingTypes
  <2>2. /\ p \in Listings /\ ~p.live /\ p.variants = shop[g].variants
        /\ p.filled = shop[g].filled /\ p.free = shop[g].free
    BY <1>3 DEF Listings
  <2> HIDE DEF p
  <2>3. /\ shop'[g] = p /\ \A f \in Gids : f # g => shop'[f] = shop[f]
        /\ shop' \in [Gids -> Listings]
    BY <1>0, <2>1, <2>2 DEF ListingTypes
  <2>4. \A f \in Gids : shop'[f].free \subseteq shop'[f].variants
    BY <1>0, <2>2, <2>3 DEF ListingTypes
  <2>5. mail' \subseteq {"update", "delete"} \X Gids /\ cut' \in BOOLEAN
    BY <1>0, <1>5 DEF ListingTypes
  <2>6. ListingTypes'
    BY <1>0, <1>1, <1>2, <2>3, <2>4, <2>5 DEF ListingTypes
  <2>7. \A f \in Gids : shop'[f].variants = shop[f].variants /\ shop'[f].filled = shop[f].filled
    BY <2>2, <2>3
  <2>8. Keeps
    BY <1>1, <2>7 DEF Keeps, Grows
  <2>9. Lasts
    BY <1>1, <2>8, SameIs, ReadingsHold
  <2>10. LedgerInv' /\ SeenInv'
    BY <1>1, <2>9 DEF Lasts, LedgerInv, Draws
  <2>11. DrainInv'
    BY <1>1, <2>8, DrainHolds DEF DrainGoes, Draws
  <2>12. ShopInv'
    <3>1. Sound(shop[g], items, templated) /\ shop'[g] # NoProduct
      BY <1>0, <1>3, <2>2, <2>3, NoneIs DEF ShopInv, Sound
    <3>2. \A f \in Gids : shop'[f] = NoProduct \/ Sound(shop'[f], items, templated)
      BY <1>0, <3>1, <2>3, <2>7 DEF ShopInv, Sound
    <3>3. \A f \in Gids : <<"delete", f>> \in mail' => shop'[f] # NoProduct /\ ~shop'[f].live
      BY <1>0, <1>5, <3>1, <2>2, <2>3 DEF ShopInv
    <3> QED BY <1>0, <1>1, <3>2, <3>3 DEF ShopInv
  <2>13. OneInv'
    <3>1. \A f \in Gids : Present(f)' <=> Present(f)
      BY <1>1, <1>5, <2>2, <2>3 DEF Present
    <3>2. InLinks' <=> InLinks
      BY <1>1 DEF InLinks
    <3>3. ~cut' => ~cut /\ (Draws => shop'[drain.gid] = shop[drain.gid])
      BY <1>5, <2>3, DrainIs DEF Drains
    <3>4. Twinned' <=> Twinned
      BY <1>1 DEF Twinned
    <3> QED BY <1>0, <1>1, <3>1, <3>2, <3>3, <3>4 DEF OneInv, Draws
  <2>14. OpeningPushQueued'
    BY <1>0, <1>1 DEF OpeningPushQueued
  <2> QED BY <2>6, <2>10, <2>11, <2>12, <2>13, <2>14 DEF ListingInd
<1> QED BY <1>4, <1>5 DEF EditOnShopify

\* A size is made a variant of its range's product.
LEMMA StepAttach ==
  ASSUME ListingInd, NEW c \in Our, AttachVariant(c)
  PROVE  ListingInd'
<1>0. ListingTypes /\ ShopInv /\ LedgerInv /\ OneInv /\ OpeningPushQueued
  BY DEF ListingInd
<1>1. PICK g \in Parents :
         /\ shop[g].live /\ c \notin shop[g].variants
         /\ shop' = [shop EXCEPT ![g].variants = @ \cup {c}, ![g].free = @ \cup ({c} \ priced)]
         /\ mail' = mail \cup {<<"update", g>>}
         /\ Busy(c, "link", g, {c}, FALSE)
  BY DEF AttachVariant
<1>2. /\ rows' = rows \ {c} /\ c \in kids_of
      /\ templated' = templated /\ items' = items /\ disabled' = disabled /\ priced' = priced
      /\ ticked' = ticked /\ links' = links /\ asked' = asked /\ handler' = handler
      /\ events' = events /\ cut' = cut
  BY DEF AttachVariant
<1>3. c \in Sizes /\ c \in items /\ c # Ghost /\ c \in Variants
  BY <1>2, CodesApart DEF kids_of, Variants
<1>4. PICK s \in Codes : links[s].template = Article /\ links[s].gid = g /\ g # NoGid
  BY <1>1 DEF Parents, InRange
<1>5. g \in Gids /\ links \in Ledgers
  BY <1>0, <1>4 DEF ListingTypes, Ledgers, Links
<1>6. templated /\ Ghost \notin shop[g].variants
  BY <1>0, <1>4, CodesApart DEF LedgerInv, Filed, Codes
<1>7. shop[g] \in Listings /\ shop[g].free \subseteq shop[g].variants /\ shop[g] # NoProduct
  BY <1>0, <1>1, <1>5, NoneIs DEF ListingTypes
<1> DEFINE p == [shop[g] EXCEPT !.variants = @ \cup {c}, !.free = @ \cup ({c} \ priced)]
<1>8. shop' = [shop EXCEPT ![g] = p]
  BY <1>0, <1>1, <1>5, <1>7 DEF ListingTypes, Listings
<1>9. /\ p \in Listings /\ p.live = shop[g].live /\ p.variants = shop[g].variants \cup {c}
      /\ p.filled = shop[g].filled /\ p.free = shop[g].free \cup ({c} \ priced)
  <2>1. shop[g].variants \cup {c} \in SUBSET Variants /\ shop[g].free \cup ({c} \ priced) \in SUBSET Variants
    BY <1>3, <1>7 DEF Listings
  <2> QED BY <1>7, <2>1 DEF Listings
<1> HIDE DEF p
<1>10. /\ shop'[g] = p /\ \A f \in Gids : f # g => shop'[f] = shop[f]
       /\ shop' \in [Gids -> Listings]
  BY <1>0, <1>5, <1>8, <1>9 DEF ListingTypes
<1>11. \A f \in Gids : shop'[f].free \subseteq shop'[f].variants
  BY <1>0, <1>7, <1>9, <1>10 DEF ListingTypes
<1>12. mail' \subseteq {"update", "delete"} \X Gids /\ MailSame
  BY <1>0, <1>1, <1>5 DEF ListingTypes, MailSame
<1>13. /\ drain' = [pc |-> "link", item |-> c, gid |-> g, kids |-> {c}, new |-> FALSE, view |-> links,
                    stale |-> {}]
       /\ drain' \in Drains
  <2>1. drain' = [pc |-> "link", item |-> c, gid |-> g, kids |-> {c}, new |-> FALSE, view |-> links,
                  stale |-> {}]
    BY <1>1 DEF Busy
  <2>2. "link" \in Publishing /\ {c} \in SUBSET Sizes /\ {} \in Stales
    BY <1>3 DEF Publishing, Stales
  <2> QED BY <2>1, <2>2, <1>5 DEF Drains
<1>14. ListingTypes'
  BY <1>0, <1>2, <1>10, <1>11, <1>12, <1>13 DEF ListingTypes
<1>15. Keeps
  <2>1. Grows(shop, shop')
    BY <1>3, <1>9, <1>10 DEF Grows
  <2> QED BY <1>2, <2>1 DEF Keeps
<1>16. Lasts
  BY <1>2, <1>15, SameIs, ReadingsHold
<1>17. LedgerInv' /\ SeenInv'
  <2>1. drain'.view = links
    BY <1>13
  <2> QED BY <1>2, <1>16, <2>1 DEF Lasts, LedgerInv
<1>18. /\ drain'.pc = "link" /\ drain'.gid = g /\ drain'.kids = {c} /\ ~drain'.new
  BY <1>13
<1>19. DrainInv'
  BY <1>2, <1>3, <1>6, <1>9, <1>10, <1>18 DEF DrainInv
<1>20. ShopInv'
  <2>1. Sound(shop[g], items, templated) /\ ~shop[g].filled
    BY <1>0, <1>5, <1>6, <1>7 DEF ShopInv, Sound
  <2>2. Sound(shop'[g], items, templated)
    BY <1>3, <1>6, <1>9, <1>10, <2>1 DEF Sound
  <2>3. shop'[g] # NoProduct
    BY <1>9, <1>10, NoneIs
  <2>4. \A f \in Gids : shop'[f] = NoProduct \/ Sound(shop'[f], items, templated)
    BY <1>0, <1>10, <2>2 DEF ShopInv
  <2>5. \A f \in Gids : <<"delete", f>> \in mail' => shop'[f] # NoProduct /\ ~shop'[f].live
    BY <1>0, <1>9, <1>10, <1>12, <2>3 DEF ShopInv, MailSame
  <2> QED BY <1>0, <1>2, <2>4, <2>5 DEF ShopInv
<1>21. OneInv'
  <2>1. \A f \in Gids : Present(f)' <=> Present(f)
    BY <1>9, <1>10, <1>12 DEF Present, MailSame
  <2>2. InLinks'
    BY <1>2, <1>4 DEF InLinks
  <2>3. Twinned' <=> Twinned
    BY <1>2 DEF Twinned
  <2>4. shop'[drain'.gid].live
    BY <1>1, <1>9, <1>10, <1>18
  <2> QED BY <1>0, <1>2, <1>6, <1>18, <2>1, <2>2, <2>3, <2>4 DEF OneInv
<1>22. OpeningPushQueued'
  BY <1>0, <1>2 DEF OpeningPushQueued
<1> QED BY <1>14, <1>17, <1>19, <1>20, <1>21, <1>22 DEF ListingInd

\* A new product.
LEMMA StepCreate ==
  ASSUME ListingInd, CreateProduct
  PROVE  ListingInd'
<1>0. ListingTypes /\ ShopInv /\ LedgerInv /\ OneInv /\ OpeningPushQueued
  BY DEF ListingInd
<1> DEFINE kids == IF templated THEN sellable_variants(kids_of) ELSE {}
           standing == IF Article \in disabled THEN "ARCHIVED"
                       ELSE IF (IF templated THEN kids \cap priced # {} ELSE Article \in priced)
                            THEN "ACTIVE" ELSE "DRAFT"
           p == [NoProduct EXCEPT !.live = TRUE, !.variants = {Ghost}, !.free = {Ghost}, !.status = standing]
           pc == IF templated THEN "template" ELSE "fill"
<1>1. PICK g \in Gids : /\ ~Made(g)
                        /\ shop' = [f \in Gids |-> IF f \in NextIds(g) THEN p ELSE shop[f]]
                        /\ mail' = mail \cup {<<"update", f>> : f \in NextIds(g)}
                        /\ IF NextIds(g) = {g} THEN UNCHANGED <<cut, events>> ELSE Happens /\ cut' = TRUE
                        /\ Busy(Article, pc, g, kids, TRUE)
  BY DEF CreateProduct
<1>2. /\ rows' = rows \ {Article} /\ Known(Article) = {} /\ (templated => kids_of # {}) /\ ~Draws
      /\ templated' = templated /\ items' = items /\ disabled' = disabled /\ priced' = priced
      /\ ticked' = ticked /\ links' = links /\ asked' = asked /\ handler' = handler
  BY DEF CreateProduct, Claimed, Draws
<1>3. kids \subseteq Sizes /\ kids \subseteq items /\ (templated => kids # {})
  BY <1>2 DEF kids_of, sellable_variants
<1> HIDE DEF kids
<1>4. /\ p \in Listings /\ p.live /\ p.variants = {Ghost} /\ p.free = {Ghost} /\ ~p.filled
  <2>1. standing \in Standings
    BY DEF Standings
  <2>2. {Ghost} \in SUBSET Variants
    BY CodesAre
  <2>3. NoProduct \in Listings /\ ~NoProduct.filled
    BY NoneIs DEF NoProduct
  <2> HIDE DEF standing
  <2> QED BY <2>1, <2>2, <2>3 DEF Listings
<1> HIDE DEF p
<1>5. g \in NextIds(g) /\ \A f \in NextIds(g) : f \in Gids /\ shop[f] = NoProduct
  BY <1>1, ListingAssumption DEF Made, NextIds
<1>6. /\ shop'[g] = p /\ \A f \in Gids : f \notin NextIds(g) => shop'[f] = shop[f]
      /\ \A f \in Gids : shop'[f] = p \/ shop'[f] = shop[f]
      /\ shop' \in [Gids -> Listings]
  BY <1>0, <1>1, <1>4, <1>5 DEF ListingTypes
<1>7. \A f \in Gids : shop'[f].free \subseteq shop'[f].variants
  BY <1>0, <1>4, <1>6 DEF ListingTypes
<1>8. mail' \subseteq {"update", "delete"} \X Gids /\ MailSame
  BY <1>0, <1>1, <1>5 DEF ListingTypes, MailSame
<1>9. /\ drain' = [pc |-> pc, item |-> Article, gid |-> g, kids |-> kids, new |-> TRUE, view |-> links,
                   stale |-> {}]
      /\ drain' \in Drains
  <2>1. drain' = [pc |-> pc, item |-> Article, gid |-> g, kids |-> kids, new |-> TRUE, view |-> links,
                  stale |-> {}]
    BY <1>1 DEF Busy
  <2>2. pc \in Publishing /\ kids \in SUBSET Sizes /\ {} \in Stales /\ links \in Ledgers /\ Article \in Our
    BY <1>0, <1>3, CodesAre DEF Publishing, Stales, ListingTypes
  <2> HIDE DEF pc
  <2> QED BY <2>1, <2>2 DEF Drains
<1>10. ListingTypes'
  <2>1. cut' \in BOOLEAN /\ events' \in 0..MaxEvents
    BY <1>0, <1>1, HappensIs DEF ListingTypes
  <2> QED BY <1>0, <1>2, <1>6, <1>7, <1>8, <1>9, <2>1 DEF ListingTypes
<1>11. Keeps
  <2>1. Grows(shop, shop')
    BY <1>5, <1>6, NoneIs DEF Grows
  <2> QED BY <1>2, <2>1 DEF Keeps
<1>12. Lasts
  BY <1>2, <1>11, SameIs, ReadingsHold
<1>13. /\ drain'.pc = pc /\ drain'.gid = g /\ drain'.kids = kids /\ drain'.new /\ drain'.view = links
       /\ drain'.stale = {}
  BY <1>9
<1>14. LedgerInv' /\ SeenInv'
  BY <1>2, <1>12, <1>13 DEF Lasts, LedgerInv
<1>15. DrainInv'
  <2>1. shop'[g].variants # {}
    BY <1>4, <1>6
  <2>2. \A c \in Codes : links[c].gid # g
    <3>1. g # NoGid /\ shop[g].variants = {}
      BY <1>5, CodesApart, NoneIs
    <3> QED BY <1>0, <3>1 DEF LedgerInv, Filed
  <2>3. /\ drain'.pc \in {"template", "vary"} => templated
        /\ drain'.pc = "fill" => ~templated /\ drain'.pc # "link"
        /\ drain'.pc # "link"
    BY <1>13
  <2> QED BY <1>2, <1>3, <1>13, <2>1, <2>2, <2>3 DEF DrainInv
<1>16. ShopInv'
  <2>1. Sound(p, items, templated)
    BY <1>4, CodesApart DEF Sound
  <2>2. p # NoProduct
    BY <1>4, NoneIs
  <2>3. \A f \in Gids : shop'[f] = NoProduct \/ Sound(shop'[f], items, templated)
    BY <1>0, <1>6, <2>1 DEF ShopInv
  <2>4. \A f \in Gids : <<"delete", f>> \in mail' => shop'[f] # NoProduct /\ ~shop'[f].live
    BY <1>0, <1>5, <1>6, <1>8 DEF ShopInv, MailSame
  <2> QED BY <1>0, <1>2, <2>3, <2>4 DEF ShopInv
<1>17. OneInv'
  <2> SUFFICES ASSUME ~cut, ~Twinned, NextIds(g) = {g}
               PROVE  /\ \A f, k \in Gids : Present(f)' /\ Present(k)' => f = k
                      /\ shop'[drain'.gid].live /\ Draws' /\ drain'.new
                      /\ drain'.pc \notin {"vary", "link"} /\ drain'.stale = {}
    <3>1. Twinned' <=> Twinned
      BY <1>2 DEF Twinned
    <3> QED BY <1>1, <1>2, <3>1 DEF OneInv
  <2>1. ~InLinks
    <3>1. Known(Article) = product_link_for(links, Article)
      BY DEF Known
    <3>2. links[Article].gid # NoGid => Known(Article) # {}
      BY <3>1, NoneIs DEF product_link_for, Linked
    <3>3. links[Article].gid = NoGid =>
             Known(Article) = {links[s].gid : s \in {s \in Codes : links[s].template = Article}} \ {NoGid}
      BY <3>1 DEF product_link_for
    <3> QED BY <1>2, <3>2, <3>3 DEF InLinks
  <2>2. \A f \in Gids : ~Present(f)
    BY <1>0, <1>2, <2>1 DEF OneInv
  <2>3. \A f \in Gids : Present(f)' => f = g
    BY <1>6, <1>8, <2>2 DEF Present, MailSame
  <2>4. drain'.pc \notin {"vary", "link", "idle"}
    BY <1>13
  <2> QED BY <1>4, <1>6, <1>13, <2>3, <2>4 DEF Draws
<1>18. OpeningPushQueued'
  BY <1>0, <1>2 DEF OpeningPushQueued
<1> QED BY <1>10, <1>14, <1>15, <1>16, <1>17, <1>18 DEF ListingInd

\* The range's own link.
LEMMA StepTemplate ==
  ASSUME ListingInd, link_template
  PROVE  ListingInd'
<1>0. ListingTypes /\ ShopInv /\ LedgerInv /\ DrainInv /\ OneInv /\ OpeningPushQueued
  BY DEF ListingInd
<1> DEFINE l == [links[Article] EXCEPT !.gid = drain.gid, !.ours = TRUE]
<1>1. /\ drain.pc = "template" /\ links' = [links EXCEPT ![Article] = l]
      /\ drain' = [drain EXCEPT !.pc = "vary", !.view = links', !.stale = {}]
      /\ templated' = templated /\ items' = items /\ disabled' = disabled /\ priced' = priced
      /\ ticked' = ticked /\ rows' = rows /\ asked' = asked /\ shop' = shop /\ mail' = mail
      /\ handler' = handler /\ events' = events /\ cut' = cut
  BY DEF link_template
<1>2. Draws /\ drain \in Drains /\ drain.gid \in Gids
  BY <1>1, DrainIs DEF Draws, Drains
<1>3. /\ shop[drain.gid].variants # {} /\ templated /\ drain.kids \subseteq items /\ drain.kids # {}
  BY <1>0, <1>1, <1>2 DEF DrainInv
<1>4. Article \in Codes /\ links[Article] \in Links
  BY <1>0, CodesAre DEF ListingTypes, Ledgers
<1>5. /\ l \in Links /\ l.gid = drain.gid /\ l.variant = links[Article].variant
      /\ l.template = links[Article].template /\ l.opened = links[Article].opened
  BY <1>2, <1>4 DEF Links
<1> HIDE DEF l
<1>6. /\ links'[Article] = l /\ \A c \in Codes : c # Article => links'[c] = links[c]
      /\ links' \in Ledgers
  BY <1>0, <1>1, <1>4, <1>5 DEF ListingTypes, Ledgers
<1>7. /\ links[Article].variant = NoCode /\ links[Article].template = NoCode
  <2>1. links[Article].variant \in Variants \cup {NoCode}
    BY <1>4 DEF Links
  <2>2. links[Article].variant \notin Sizes /\ links[Article].variant # Ghost
    BY <1>0, <1>3, <1>4, CodesApart DEF LedgerInv, Filed
  <2> QED BY <1>0, <1>4, <2>1, <2>2 DEF Variants, LedgerInv, Filed
<1>8. drain' \in Drains /\ drain'.pc = "vary" /\ drain'.gid = drain.gid /\ drain'.kids = drain.kids
      /\ drain'.new = drain.new /\ drain'.view = links'
  <2>1. "vary" \in Publishing /\ {} \in Stales
    BY DEF Publishing, Stales
  <2> QED BY <1>1, <1>2, <1>6, <2>1 DEF Drains
<1>9. ListingTypes'
  BY <1>0, <1>1, <1>6, <1>8 DEF ListingTypes
<1>10. Lasts
  <2>1. Keeps
    BY <1>1 DEF Keeps, Grows
  <2> QED BY <1>1, <2>1, SameIs, ReadingsHold
<1>11. Filed(links', items', asked', shop', templated')
  <2> SUFFICES ASSUME NEW c \in Codes
               PROVE  /\ links'[c].variant \in Sizes => c = links'[c].variant
                      /\ links'[c].variant = Ghost => c = Ghost \/ (c = Article /\ ~templated)
                      /\ links'[c].variant = NoCode => links'[c].template = NoCode
                      /\ links'[c].template # NoCode => templated
                      /\ c \in Our /\ links'[c].opened => c \in asked
                      /\ c \in {Handle, Ghost} /\ links'[c] # NoLink => c \in items
                      /\ links'[c].template = Handle => Handle \in items
                      /\ links'[c].gid # NoGid => shop[links'[c].gid].variants # {}
                      /\ links'[c].gid # NoGid /\ links'[c].template = Article =>
                            Ghost \notin shop[links'[c].gid].variants
    BY <1>1 DEF Filed
  <2>1. CASE c # Article
    BY <2>1, <1>0, <1>6 DEF LedgerInv, Filed
  <2>2. CASE c = Article
    <3>1. /\ links'[c].variant = NoCode /\ links'[c].template = NoCode
          /\ links'[c].opened = links[c].opened /\ links'[c].gid = drain.gid
      BY <2>2, <1>5, <1>6, <1>7
    <3>2. /\ NoCode \notin Sizes /\ NoCode # Ghost /\ NoCode # Article /\ NoCode # Handle
          /\ c \notin {Handle, Ghost}
      BY <2>2, CodesApart DEF Codes
    <3>3. c \in Our /\ links[c].opened => c \in asked
      BY <1>0 DEF LedgerInv, Filed
    <3> QED BY <3>1, <3>2, <3>3, <1>3
  <2> QED BY <2>1, <2>2
<1>12. LedgerInv' /\ SeenInv'
  BY <1>1, <1>8, <1>10, <1>11 DEF Lasts, LedgerInv
<1>13. DrainInv'
  BY <1>1, <1>3, <1>8 DEF DrainInv
<1>14. ShopInv'
  BY <1>0, <1>1 DEF ShopInv
<1>15. OneInv'
  <2>1. \A f \in Gids : Present(f)' <=> Present(f)
    BY <1>1 DEF Present
  <2>2. links'[Article].gid # NoGid
    BY <1>2, <1>5, <1>6, CodesApart
  <2>3. InLinks'
    BY <2>2 DEF InLinks
  <2>4. Twinned' <=> Twinned
    BY <1>1 DEF Twinned
  <2> QED BY <1>0, <1>1, <1>2, <1>3, <1>8, <2>1, <2>2, <2>3, <2>4 DEF OneInv
<1>16. OpeningPushQueued'
  <2>1. \A c \in Our : links'[c].variant = links[c].variant
    BY <1>5, <1>6, CodesAre
  <2> QED BY <2>1, <1>0, <1>1 DEF OpeningPushQueued
<1> QED BY <1>9, <1>12, <1>13, <1>14, <1>15, <1>16 DEF ListingInd

\* The product gets its variants.
LEMMA VariantsMade ==
  ASSUME ListingInd, drain.pc \in {"vary", "fill"}, NEW V, NEW F, Changed(V, F),
         V \subseteq Variants, V # {}, F \subseteq V,
         templated => V \subseteq Sizes \cap items, ~templated => V = {Ghost}
  PROVE  ListingInd'
<1>0. ListingTypes /\ ShopInv /\ LedgerInv /\ DrainInv /\ OneInv /\ OpeningPushQueued
  BY DEF ListingInd
<1>1. Draws /\ drain \in Drains /\ drain.gid \in Gids
  BY DrainIs DEF Draws, Drains
<1> DEFINE g == drain.gid
           p == [shop[g] EXCEPT !.variants = V, !.free = F, !.filled = ~templated]
<1>2. /\ shop[g].live /\ shop' = [shop EXCEPT ![g] = p]
      /\ mail' = mail \cup {<<"update", g>>} /\ drain' = [drain EXCEPT !.pc = "link"]
      /\ templated' = templated /\ items' = items /\ disabled' = disabled /\ priced' = priced
      /\ ticked' = ticked /\ links' = links /\ rows' = rows /\ asked' = asked
      /\ handler' = handler /\ events' = events /\ cut' = cut
  BY DEF Changed
<1>3. shop[g] \in Listings /\ shop[g] # NoProduct /\ Sound(shop[g], items, templated)
  <2>1. shop[g] \in Listings /\ shop[g] # NoProduct
    BY <1>0, <1>1, <1>2, NoneIs DEF ListingTypes
  <2> QED BY <1>0, <1>1, <2>1 DEF ShopInv
<1>4. /\ p \in Listings /\ p.live /\ p.variants = V /\ p.free = F /\ p.filled = ~templated
  <2>1. V \in SUBSET Variants /\ F \in SUBSET Variants /\ (~templated) \in BOOLEAN
    OBVIOUS
  <2> QED BY <1>2, <1>3, <2>1 DEF Listings
<1> HIDE DEF p
<1>5. /\ shop'[g] = p /\ \A f \in Gids : f # g => shop'[f] = shop[f]
      /\ shop' \in [Gids -> Listings]
  BY <1>0, <1>1, <1>2, <1>4 DEF ListingTypes
<1>6. \A f \in Gids : shop'[f].free \subseteq shop'[f].variants
  BY <1>0, <1>4, <1>5 DEF ListingTypes
<1>7. mail' \subseteq {"update", "delete"} \X Gids /\ MailSame
  BY <1>0, <1>1, <1>2 DEF ListingTypes, MailSame
<1>8. drain' \in Drains /\ drain'.pc = "link" /\ drain'.gid = g /\ drain'.kids = drain.kids
      /\ drain'.new = drain.new /\ drain'.view = drain.view /\ drain'.stale = drain.stale
  <2>1. "link" \in Publishing
    BY DEF Publishing
  <2> QED BY <1>1, <1>2, <2>1 DEF Drains
<1>9. ListingTypes'
  BY <1>0, <1>2, <1>5, <1>6, <1>7, <1>8 DEF ListingTypes
<1>10. templated => Ghost \notin V
  BY CodesApart
<1>11. Keeps
  <2>1. Ghost \notin shop[g].variants => Ghost \notin V
    BY <1>3, <1>10 DEF Sound
  <2>2. Grows(shop, shop')
    BY <1>4, <1>5, <2>1 DEF Grows
  <2> QED BY <1>2, <2>2 DEF Keeps
<1>12. Lasts
  BY <1>2, <1>11, SameIs, ReadingsHold
<1>13. LedgerInv' /\ SeenInv'
  BY <1>1, <1>2, <1>8, <1>12 DEF Lasts, LedgerInv
<1>14. DrainInv'
  BY <1>0, <1>1, <1>2, <1>4, <1>5, <1>8, <1>10 DEF DrainInv
<1>15. ShopInv'
  <2>1. Sound(p, items, templated)
    BY <1>4, <1>10, CodesApart DEF Sound
  <2>2. p # NoProduct
    BY <1>4, NoneIs
  <2>3. \A f \in Gids : shop'[f] = NoProduct \/ Sound(shop'[f], items, templated)
    BY <1>0, <1>5, <2>1 DEF ShopInv
  <2>4. \A f \in Gids : <<"delete", f>> \in mail' => shop'[f] # NoProduct /\ ~shop'[f].live
    BY <1>0, <1>2, <1>5, <1>7 DEF ShopInv, MailSame
  <2> QED BY <1>0, <1>2, <2>3, <2>4 DEF ShopInv
<1>16. OneInv'
  <2>1. \A f \in Gids : Present(f)' <=> Present(f)
    BY <1>2, <1>4, <1>5, <1>7 DEF Present, MailSame
  <2>2. InLinks' <=> InLinks
    BY <1>2 DEF InLinks
  <2>3. Twinned' <=> Twinned
    BY <1>2 DEF Twinned
  <2>4. shop'[g].live /\ Draws'
    BY <1>4, <1>5, <1>8 DEF Draws
  <2>5. templated => drain.pc = "vary"
    BY <1>0, <1>1 DEF DrainInv
  <2> QED BY <1>0, <1>1, <1>2, <1>8, <2>1, <2>2, <2>3, <2>4, <2>5 DEF OneInv
<1>17. OpeningPushQueued'
  BY <1>0, <1>2 DEF OpeningPushQueued
<1> QED BY <1>9, <1>13, <1>14, <1>15, <1>16, <1>17 DEF ListingInd

\* A range's variants, or the one of a plain item.
LEMMA StepVariants ==
  ASSUME ListingInd, create_variants \/ fill_variant
  PROVE  ListingInd'
<1>1. CASE create_variants
  <2>1. drain.pc = "vary" /\ Changed(drain.kids, drain.kids \ priced)
    BY <1>1 DEF create_variants
  <2>2. Draws /\ drain \in Drains /\ drain.kids \subseteq Sizes
    BY <2>1, DrainIs DEF Draws, Drains
  <2>3. templated /\ drain.kids \subseteq items /\ drain.kids # {}
    BY <2>1, <2>2 DEF ListingInd, DrainInv
  <2>4. drain.kids \subseteq Variants
    BY <2>2 DEF Variants
  <2> QED BY <2>1, <2>2, <2>3, <2>4, VariantsMade
<1>2. CASE fill_variant
  <2> DEFINE F == IF Article \in priced THEN {} ELSE {Ghost}
  <2>1. drain.pc = "fill" /\ Changed({Ghost}, F)
    BY <1>2 DEF fill_variant
  <2>2. Draws
    BY <2>1 DEF Draws
  <2>3. ~templated
    BY <2>1, <2>2 DEF ListingInd, DrainInv
  <2>4. F \subseteq {Ghost} /\ {Ghost} \subseteq Variants
    BY CodesAre
  <2> HIDE DEF F
  <2> QED BY <2>1, <2>3, <2>4, VariantsMade
<1> QED BY <1>1, <1>2

------------------------------------------------------------------------------
(* The drain lets a row go.                                                 *)

\* The drain ends without a link: it was cut short, or there is a twin, or what
\* it left is in the links.
LEMMA DrainEnds ==
  ASSUME ListingInd, Draws, drain' = IdleDrain, rows' \subseteq Our,
         cut' \in BOOLEAN, cut => cut', events' \in 0..MaxEvents,
         ~cut' /\ ~Twinned /\ (\E g \in Gids : Present(g)) => InLinks,
         UNCHANGED <<templated, ticked, items, disabled, priced, links, asked, shop, mail, handler>>
  PROVE  ListingInd'
<1>0. ListingTypes /\ ShopInv /\ LedgerInv /\ OneInv /\ OpeningPushQueued
  BY DEF ListingInd
<1>1. /\ templated' = templated /\ items' = items /\ disabled' = disabled /\ priced' = priced
      /\ ticked' = ticked /\ links' = links /\ asked' = asked /\ shop' = shop /\ mail' = mail
      /\ handler' = handler
  OBVIOUS
<1>2. ~Draws'
  BY DEF Draws, IdleDrain
<1>3. ListingTypes'
  BY <1>0, <1>1 DEF ListingTypes
<1>4. Lasts
  <2>1. Keeps
    BY <1>1 DEF Keeps, Grows
  <2> QED BY <1>1, <2>1, SameIs, ReadingsHold
<1>5. LedgerInv' /\ SeenInv'
  BY <1>1, <1>2, <1>4 DEF Lasts, LedgerInv
<1>6. DrainInv' /\ ShopInv' /\ OpeningPushQueued'
  BY <1>0, <1>1, <1>2 DEF DrainInv, ShopInv, OpeningPushQueued
<1>7. OneInv'
  <2>1. \A f \in Gids : Present(f)' <=> Present(f)
    BY <1>1 DEF Present
  <2>2. (InLinks' <=> InLinks) /\ (Twinned' <=> Twinned)
    BY <1>1 DEF InLinks, Twinned
  <2> QED BY <1>0, <1>2, <2>1, <2>2 DEF OneInv
<1> QED BY <1>3, <1>5, <1>6, <1>7 DEF ListingInd

\* The product was deleted while its variants were made.
LEMMA StepGone ==
  ASSUME ListingInd, ProductGone
  PROVE  ListingInd'
<1>1. /\ drain.pc \in {"fill", "vary"} /\ ~shop[drain.gid].live
      /\ rows' \in {rows, rows \cup {drain.item}} /\ drain' = IdleDrain
      /\ UNCHANGED <<templated, ticked, items, disabled, priced, links, asked, shop, mail, handler>>
      /\ cut' = cut /\ events' = events
  BY DEF ProductGone, RowFails
<1>2. Draws
  BY <1>1 DEF Draws
<1>3. rows' \subseteq Our /\ cut' \in BOOLEAN /\ events' \in 0..MaxEvents
  BY <1>1, <1>2, DrainIs DEF ListingInd, ListingTypes, Drains
<1>4. cut \/ Twinned
  BY <1>1, <1>2 DEF ListingInd, OneInv
<1> QED BY <1>1, <1>2, <1>3, <1>4, DrainEnds

\* The worker dies.
LEMMA StepStops ==
  ASSUME ListingInd, DrainStops
  PROVE  ListingInd'
<1>1. /\ Happens /\ cut' = TRUE /\ Draws
      /\ rows' \in {rows, rows \cup {drain.item}} /\ drain' = IdleDrain
      /\ UNCHANGED <<templated, ticked, items, disabled, priced, links, asked, shop, mail, handler>>
  BY DEF DrainStops, Draws
<1>2. rows' \subseteq Our /\ events' \in 0..MaxEvents
  BY <1>1, DrainIs, HappensIs DEF ListingInd, ListingTypes, Drains
<1> QED BY <1>1, <1>2, DrainEnds

------------------------------------------------------------------------------
(* The link step.                                                           *)

JoinV == IF templated THEN drain.kids ELSE {Ghost}
JoinCode == [v \in JoinV |-> IF templated THEN v ELSE Article]
JoinTpl == IF templated THEN Article ELSE NoCode

\* What the link step hands to upsert_link: the drain read no link of these
\* variants under another Item.
LEMMA JoinIs ==
  ASSUME ListingInd, drain.pc = "link"
  PROVE  /\ Draws /\ drain \in Drains /\ drain.gid \in Gids /\ drain.view \in Ledgers /\ links \in Ledgers
         /\ JoinV \in SUBSET Variants /\ JoinV # {} /\ JoinCode \in [JoinV -> Codes]
         /\ JoinTpl \in {Article, Handle, NoCode}
         /\ \A v \in JoinV : JoinCode[v] = IF templated THEN v ELSE Article
         /\ Recognised(drain.view, drain.gid, JoinV, JoinCode)
         /\ Coded(JoinV, JoinCode, items, templated)
<1>0. ListingTypes /\ LedgerInv /\ DrainInv
  BY DEF ListingInd
<1>1. Draws /\ drain \in Drains
  BY DrainIs DEF Draws
<1>2. drain.gid \in Gids /\ drain.view \in Ledgers /\ drain.kids \subseteq Sizes /\ links \in Ledgers
  BY <1>0, <1>1 DEF Drains, ListingTypes
<1>3. /\ JoinV \subseteq Variants /\ JoinV # {}
      /\ \A v \in JoinV : IF templated THEN v \in Sizes ELSE v = Ghost
  BY <1>0, <1>1, <1>2 DEF JoinV, DrainInv, Variants
<1>4. \A v \in JoinV : JoinCode[v] = IF templated THEN v ELSE Article
  BY DEF JoinCode
<1>5. JoinCode \in [JoinV -> Codes]
  BY <1>3, CodesAre DEF JoinCode
<1>6. JoinTpl \in {Article, Handle, NoCode}
  BY DEF JoinTpl
<1>7. Recognised(drain.view, drain.gid, JoinV, JoinCode)
  <2> SUFFICES ASSUME NEW v \in JoinV,
                      {c \in Codes : drain.view[c].gid = drain.gid /\ drain.view[c].variant = v} # {}
               PROVE  (CHOOSE c \in {c \in Codes : drain.view[c].gid = drain.gid /\ drain.view[c].variant = v} : TRUE)
                      = JoinCode[v]
    BY DEF Recognised
  <2> DEFINE Of == {c \in Codes : drain.view[c].gid = drain.gid /\ drain.view[c].variant = v}
  <2>1. (CHOOSE c \in Of : TRUE) \in Of
    OBVIOUS
  <2>2. \A c \in Of : c \in Codes /\ drain.view[c].gid = drain.gid /\ drain.view[c].variant = v
    OBVIOUS
  <2>3. templated
    BY <1>0, <1>1, <2>1, <2>2 DEF DrainInv
  <2>4. \A c \in Of : c = v
    BY <1>0, <1>1, <1>3, <2>2, <2>3 DEF LedgerInv, Filed
  <2> QED BY <1>4, <2>1, <2>3, <2>4
<1>8. Coded(JoinV, JoinCode, items, templated)
  BY <1>3, <1>4, CodesApart DEF Coded
<1> QED BY <1>1, <1>2, <1>3, <1>4, <1>5, <1>6, <1>7, <1>8

\* The link step is upsert_link on those variants.
LEMMA JoinHas ==
  ASSUME ListingInd, drain.pc = "link"
  PROVE  /\ Join.joined = upsert_link(links, drain.view, drain.gid, JoinV, JoinCode, JoinTpl, TRUE)
         /\ Join.opened = opened_by(links, drain.view, drain.gid, JoinV, JoinCode, JoinTpl, TRUE)
         /\ Join.saved = saved_by(links, drain.view, drain.gid, JoinV, JoinCode)
         /\ Join.clash = clash(links, drain.view, drain.gid, JoinV, JoinCode)
BY DEF Join, JoinV, JoinCode, JoinTpl

\* Only the stock of the app's own Items is queued with a link.
LEMMA OpenedIsOur ==
  ASSUME NEW L, NEW view, NEW g, NEW V, NEW code, NEW tpl, NEW ours
  PROVE  opened_by(L, view, g, V, code, tpl, ours) \subseteq Our
BY DEF opened_by, opening

\* Only rows there can be are saved.
LEMMA SavedIsCodes ==
  ASSUME NEW L \in Ledgers, NEW view \in Ledgers, NEW g \in Gids, NEW V \in SUBSET Variants,
         NEW code \in [V -> Codes], Recognised(view, g, V, code)
  PROVE  saved_by(L, view, g, V, code) \in SUBSET Codes
<1>1. \A c \in saved_by(L, view, g, V, code) : \E v \in V : c = code[v] /\ c = at(L, view, g, v, code[v])
  BY SavedIs
<1> QED BY <1>1

\* The join fails: somebody saved one of the rows meanwhile, and left it linked.
LEMMA StepUnjoined ==
  ASSUME ListingInd, drain.pc = "link", ~CanJoin(Join), RowFails
  PROVE  ListingInd'
<1>1. /\ rows' \in {rows, rows \cup {drain.item}} /\ drain' = IdleDrain
      /\ UNCHANGED <<templated, ticked, items, disabled, priced, links, asked, shop, mail, handler>>
      /\ cut' = cut /\ events' = events
  BY DEF RowFails
<1>2. /\ Draws /\ drain \in Drains /\ drain.gid \in Gids /\ drain.view \in Ledgers /\ links \in Ledgers
      /\ JoinV \in SUBSET Variants /\ JoinCode \in [JoinV -> Codes]
      /\ Recognised(drain.view, drain.gid, JoinV, JoinCode)
      /\ \A v \in JoinV : JoinCode[v] = IF templated THEN v ELSE Article
  BY JoinIs
<1>3. rows' \subseteq Our /\ cut' \in BOOLEAN /\ events' \in 0..MaxEvents
  BY <1>1, <1>2 DEF ListingInd, ListingTypes, Drains
<1>4. ASSUME ~cut, ~Twinned, \E g \in Gids : Present(g)
      PROVE  InLinks
  <2>0. /\ shop[drain.gid].live
        /\ InLinks \/ drain.new
        /\ templated /\ drain.new => links[Article].gid # NoGid
        /\ ~templated => \A c \in Codes : <<"link", c>> \in drain.stale => links[c].gid # NoGid
    BY <1>2, <1>4 DEF ListingInd, OneInv
  <2>1. CASE templated
    BY <2>0, <2>1 DEF InLinks
  <2>2. CASE ~templated
    <3>1. /\ ~Join.clash
          /\ \A c \in Join.saved : \E v \in JoinV : c = JoinCode[v]
      <4>1. /\ \A c \in saved_by(links, drain.view, drain.gid, JoinV, JoinCode) :
                  \E v \in JoinV : /\ c = JoinCode[v]
                                   /\ c = at(links, drain.view, drain.gid, v, JoinCode[v])
            /\ ~clash(links, drain.view, drain.gid, JoinV, JoinCode)
        BY <1>2, SavedIs
      <4> QED BY <4>1, JoinHas
    <3>2. PICK c \in Join.saved : <<"link", c>> \in drain.stale
      BY <2>0, <3>1 DEF CanJoin
    <3>3. c = Article
      BY <1>2, <2>2, <3>1, <3>2
    <3> QED BY <2>0, <2>2, <3>2, <3>3, CodesAre DEF InLinks
  <2> QED BY <2>1, <2>2
<1> QED BY <1>1, <1>2, <1>3, <1>4, DrainEnds

\* The variants are linked.
LEMMA StepJoined ==
  ASSUME ListingInd, drain.pc = "link", LinkProduct(Join)
  PROVE  ListingInd'
<1>0. ListingTypes /\ ShopInv /\ LedgerInv /\ DrainInv /\ OneInv /\ OpeningPushQueued
  BY DEF ListingInd
<1> DEFINE g == drain.gid
           live == drain.new /\ shop[g].status = "ACTIVE"
           M == Join.joined
           Queued == Join.opened
           p == [shop[g] EXCEPT !.listed = @ \/ live]
<1>1. /\ Draws /\ drain \in Drains /\ g \in Gids /\ drain.view \in Ledgers /\ links \in Ledgers
      /\ JoinV \in SUBSET Variants /\ JoinV # {} /\ JoinCode \in [JoinV -> Codes]
      /\ JoinTpl \in {Article, Handle, NoCode}
      /\ \A v \in JoinV : JoinCode[v] = IF templated THEN v ELSE Article
      /\ Recognised(drain.view, g, JoinV, JoinCode)
      /\ Coded(JoinV, JoinCode, items, templated)
  BY JoinIs
<1>2. /\ shop[g].live
      /\ links' = [c \in Codes |-> IF live /\ M[c].gid = g THEN [M[c] EXCEPT !.decided = TRUE] ELSE M[c]]
      /\ shop' = [shop EXCEPT ![g].listed = @ \/ live]
      /\ asked' = asked \cup Queued
      /\ rows' = IF drain.new THEN rows \cup {Article} ELSE rows
      /\ handler' = Outdated("link", Join.saved)
      /\ drain' = IdleDrain
      /\ templated' = templated /\ items' = items /\ disabled' = disabled /\ priced' = priced
      /\ ticked' = ticked /\ mail' = mail /\ events' = events /\ cut' = cut
  BY DEF LinkProduct, CanJoin
<1>3. /\ M \in Ledgers
      /\ AllEnd(M, links, drain.view, JoinV, JoinCode, g, JoinTpl)
      /\ Queued \subseteq Our /\ Join.saved \in SUBSET Codes
  <2> DEFINE U == upsert_link(links, drain.view, g, JoinV, JoinCode, JoinTpl, TRUE)
  <2>1. /\ M = U
        /\ Queued = opened_by(links, drain.view, g, JoinV, JoinCode, JoinTpl, TRUE)
        /\ Join.saved = saved_by(links, drain.view, g, JoinV, JoinCode)
    BY JoinHas
  <2> HIDE DEF g, M, Queued
  <2>2. U \in Ledgers /\ AllEnd(U, links, drain.view, JoinV, JoinCode, g, JoinTpl)
    BY <1>1, UpsertIs
  <2>3. Queued \subseteq Our
    BY <2>1, OpenedIsOur
  <2>4. Join.saved \in SUBSET Codes
    BY <1>1, <2>1, SavedIsCodes
  <2> HIDE DEF U
  <2> QED BY <2>1, <2>2, <2>3, <2>4
<1>4. /\ Filed(M, items, asked', shop, templated)
      /\ \A c \in Our : M[c].variant # NoCode => c \in asked'
  <2>1. /\ Filed(links, items, asked, shop, templated)
        /\ Filed(drain.view, items, asked, shop, templated)
        /\ asked \subseteq asked' /\ Queued \subseteq asked' /\ items \subseteq items
    BY <1>0, <1>1, <1>2 DEF LedgerInv
  <2>2. /\ shop[g].variants # {} /\ (JoinTpl # NoCode => templated)
        /\ JoinTpl # Handle
        /\ JoinTpl = Article => Ghost \notin shop[g].variants
    BY <1>0, <1>1, CodesApart DEF JoinTpl, DrainInv, Codes
  <2>3. opened_by(links, drain.view, g, JoinV, JoinCode, JoinTpl, TRUE) \subseteq asked'
    BY <2>1, JoinHas
  <2>4. OpensAll(links, asked)
    BY <1>0 DEF OpeningPushQueued, OpensAll
  <2>5. \A ours \in BOOLEAN : opened_by(links, drain.view, g, JoinV, JoinCode, JoinTpl, ours) \subseteq asked' =>
          /\ Filed(upsert_link(links, drain.view, g, JoinV, JoinCode, JoinTpl, ours), items, asked', shop, templated)
          /\ OpensAll(upsert_link(links, drain.view, g, JoinV, JoinCode, JoinTpl, ours), asked')
    <3> SUFFICES ASSUME NEW ours \in BOOLEAN,
                        opened_by(links, drain.view, g, JoinV, JoinCode, JoinTpl, ours) \subseteq asked'
                 PROVE  /\ Filed(upsert_link(links, drain.view, g, JoinV, JoinCode, JoinTpl, ours),
                                  items, asked', shop, templated)
                        /\ OpensAll(upsert_link(links, drain.view, g, JoinV, JoinCode, JoinTpl, ours), asked')
      OBVIOUS
    <3> DEFINE view == drain.view  I == items  A == asked  S == shop  B == asked'
    <3>1. /\ links \in Ledgers /\ view \in Ledgers /\ g \in Gids /\ JoinV \in SUBSET Variants
          /\ JoinCode \in [JoinV -> Codes] /\ Recognised(view, g, JoinV, JoinCode)
          /\ JoinTpl \in {Article, Handle, NoCode} /\ ours \in BOOLEAN
          /\ Filed(links, I, A, S, templated) /\ Filed(view, I, A, S, templated) /\ OpensAll(links, A)
          /\ I \subseteq I /\ A \subseteq B
          /\ opened_by(links, view, g, JoinV, JoinCode, JoinTpl, ours) \subseteq B
          /\ S[g].variants # {} /\ Coded(JoinV, JoinCode, I, templated)
      BY <1>1, <2>1, <2>2, <2>4
    <3>2. /\ JoinTpl # NoCode => templated
          /\ JoinTpl = Handle => Handle \in I
          /\ JoinTpl = Article => Ghost \notin S[g].variants
      BY <2>2
    <3> HIDE DEF g, view, I, A, S, B
    <3>3. Stands(upsert_link(links, view, g, JoinV, JoinCode, JoinTpl, ours), I, B, S, templated)
      BY <3>1, <3>2, UpsertFiled
    <3> QED BY <3>3 DEF Stands, view, I, A, S, B
  <2> HIDE DEF g
  <2>6. /\ Filed(upsert_link(links, drain.view, g, JoinV, JoinCode, JoinTpl, TRUE), items, asked', shop, templated)
        /\ OpensAll(upsert_link(links, drain.view, g, JoinV, JoinCode, JoinTpl, TRUE), asked')
    BY <2>3, <2>5
  <2> QED BY <2>6, JoinHas DEF OpensAll, g
<1>5. ASSUME NEW c \in Codes
      PROVE  /\ links'[c] \in Links /\ links'[c].gid = M[c].gid /\ links'[c].variant = M[c].variant
             /\ links'[c].template = M[c].template /\ links'[c].opened = M[c].opened
             /\ links'[c] = M[c] \/ M[c].gid # NoGid
  <2> DEFINE l == [M[c] EXCEPT !.decided = TRUE]
  <2>1. M[c] \in Links
    BY <1>3 DEF Ledgers
  <2>2. /\ l \in Links /\ l.gid = M[c].gid /\ l.variant = M[c].variant
        /\ l.template = M[c].template /\ l.opened = M[c].opened
    BY <2>1 DEF Links
  <2>3. links'[c] = M[c] \/ (links'[c] = l /\ M[c].gid = g)
    <3> HIDE DEF M, live
    <3> QED BY <1>2
  <2>4. g # NoGid
    BY <1>1, CodesApart
  <2> HIDE DEF l, g, M
  <2> QED BY <2>1, <2>2, <2>3, <2>4
<1>6. links' \in Ledgers
  <2>1. links' = [c \in Codes |-> links'[c]]
    BY <1>2
  <2> QED BY <1>5, <2>1 DEF Ledgers
<1>7. Filed(links', items, asked', shop, templated)
  BY <1>3, <1>4, <1>5, <1>6, FiledSame
<1>8. shop' = [shop EXCEPT ![g] = p]
  BY <1>0, <1>1, <1>2 DEF ListingTypes, Listings
<1>9. /\ shop[g] \in Listings /\ p \in Listings /\ p.live = shop[g].live /\ p.variants = shop[g].variants
      /\ p.filled = shop[g].filled /\ p.free = shop[g].free
  <2>1. shop[g] \in Listings /\ (shop[g].listed \/ live) \in BOOLEAN
    BY <1>0, <1>1 DEF ListingTypes
  <2> HIDE DEF live
  <2> QED BY <2>1 DEF Listings
<1>10. /\ shop'[g] = p /\ \A f \in Gids : f # g => shop'[f] = shop[f]
       /\ shop' \in [Gids -> Listings]
  <2> HIDE DEF p
  <2> QED BY <1>0, <1>1, <1>8, <1>9 DEF ListingTypes
<1> HIDE DEF p, M, Queued, live
<1>11. ShopSame
  BY <1>2, <1>9, <1>10, NoneIs DEF ShopSame
<1>12. \A f \in Gids : shop'[f].free \subseteq shop'[f].variants
  BY <1>0, <1>9, <1>10 DEF ListingTypes
<1>13. /\ handler' \in [Handlers -> {IdleHandler} \cup Mappings]
       /\ \A h \in Handlers : Goes(h)
  <2> DEFINE O == Outdated("link", Join.saved)
  <2>1. /\ O \in [Handlers -> {IdleHandler} \cup Mappings]
        /\ \A h \in Handlers : LET o == O[h]
               IN  \/ o = IdleHandler
                   \/ /\ Writes(h) /\ o.gid = handler[h].gid /\ o.seen = handler[h].seen
                      /\ o.view = handler[h].view
    BY <1>0, <1>3, OutdatedIs
  <2> HIDE DEF O
  <2> QED BY <1>2, <2>1 DEF Goes, O
<1>14. ListingTypes'
  <2>1. rows' \subseteq Our /\ asked' \subseteq Our
    BY <1>0, <1>2, <1>3, CodesAre DEF ListingTypes
  <2> QED BY <1>0, <1>2, <1>6, <1>10, <1>12, <1>13, <2>1 DEF ListingTypes
<1>15. Lasts
  <2>1. Grows(shop, shop')
    BY <1>11, GrowsIs
  <2>2. Keeps
    BY <1>2, <2>1 DEF Keeps
  <2> QED BY <1>13, <2>2, ReadingsHold
<1>16. ~Draws'
  BY <1>2 DEF Draws, IdleDrain
<1>17. LedgerInv' /\ SeenInv'
  <2>1. Filed(links', items', asked', shop', templated')
    BY <1>2, <1>6, <1>7, <1>11, FiledKeeps, GrowsIs
  <2> QED BY <1>15, <1>16, <2>1 DEF Lasts, LedgerInv
<1>18. DrainInv'
  BY <1>16 DEF DrainInv
<1>19. ShopInv'
  BY <1>0, <1>2, <1>11 DEF ShopInv, ShopSame, Sound
<1>20. OneInv'
  <2>1. \A f \in Gids : Present(f)' <=> Present(f)
    BY <1>2, <1>11 DEF Present, ShopSame
  <2>2. Twinned' <=> Twinned
    BY <1>2 DEF Twinned
  <2>3. ASSUME ~Twinned PROVE InLinks'
    <3>1. PICK v \in JoinV : TRUE
      BY <1>1
    <3> DEFINE c == at(links, drain.view, g, v, JoinCode[v])
    <3>2. /\ c \in Codes /\ M[c].gid = g /\ M[c].template = JoinTpl
          /\ JoinCode[v] = c \/ (links[c] # NoLink /\ links[c].gid = g /\ links[c].variant = v)
      BY <1>3, <3>1 DEF AllEnd, Sits
    <3> HIDE DEF c
    <3>3. links'[c].gid = g /\ links'[c].template = JoinTpl /\ g # NoGid
      BY <1>1, <1>5, <3>2, CodesApart
    <3>4. CASE templated
      BY <3>2, <3>3, <3>4 DEF JoinTpl, InLinks
    <3>5. CASE ~templated
      <4>1. v = Ghost /\ JoinCode[v] = Article
        BY <1>1, <3>1, <3>5 DEF JoinV
      <4>2. c = Article \/ (c = Ghost /\ links[c] # NoLink)
        BY <1>0, <3>2, <4>1 DEF LedgerInv, Filed
      <4>3. c = Ghost /\ links[c] # NoLink => Ghost \in items
        BY <1>0, <3>2 DEF LedgerInv, Filed
      <4>4. c = Article
        BY <2>3, <4>2, <4>3 DEF Twinned
      <4> QED BY <3>3, <4>4 DEF InLinks
    <3> QED BY <3>4, <3>5
  <2> QED BY <1>0, <1>2, <1>16, <2>1, <2>2, <2>3 DEF OneInv
<1>21. OpeningPushQueued'
  BY <1>4, <1>5, CodesAre DEF OpeningPushQueued
<1> QED BY <1>14, <1>17, <1>18, <1>19, <1>20, <1>21 DEF ListingInd

\* The link step joins, or fails.
LEMMA StepLink ==
  ASSUME ListingInd, LinkStep
  PROVE  ListingInd'
<1>1. drain.pc = "link" /\ (LinkProduct(Join) \/ (~CanJoin(Join) /\ RowFails))
  BY DEF LinkStep
<1> QED BY <1>1, StepUnjoined, StepJoined

------------------------------------------------------------------------------
(* A webhook writes.                                                        *)

MapV(h) == handler[h].seen.variants
MapCode(h) == [v \in MapV(h) |-> resolve_item_code(handler[h].view, handler[h].gid, handler[h].seen, v)]
MapTpl(found) == IF ~templated THEN NoCode ELSE IF found = NoCode THEN Handle ELSE found
MapTouched(h, found) == {MapCode(h)[v] : v \in MapV(h)} \cup ({MapTpl(found)} \ {NoCode})

\* A product that has its placeholder carries no SKU of a range.
LEMMA GhostIsBare ==
  ASSUME NEW p, NEW I, Sound(p, I, TRUE), Ghost \in p.variants
  PROVE  skus(p) = {}
<1>1. p.variants = {Ghost} /\ ~p.filled
  BY DEF Sound
<1>2. \A v \in p.variants : SkuOf(p, v) = NoCode
  BY <1>1 DEF SkuOf
<1> QED BY <1>2 DEF skus

\* The template a webhook finds is the Article's only when the product has its
\* variants.
LEMMA RangeIs ==
  ASSUME ListingInd, NEW h \in Handlers, Writes(h), NEW found \in Founds(h)
  PROVE  /\ found \in {Article, Handle, NoCode}
         /\ MapTpl(found) \in {Article, Handle, NoCode}
         /\ templated <=> MapTpl(found) # NoCode
         /\ templated /\ found = NoCode => MapTpl(found) = Handle
         /\ MapTpl(found) = Article => Ghost \notin shop[handler[h].gid].variants
<1> DEFINE g == handler[h].gid
           p == handler[h].seen
           view == handler[h].view
           byGid == {view[c].template : c \in {c \in Codes : view[c].gid = g}} \ {NoCode}
           byLinks == {view[c].template : c \in skus(p)} \ {NoCode}
           parents == {variant_of(c) : c \in skus(p)} \ {NoCode}
<1>0. LedgerInv /\ SeenInv /\ handler[h] \in Mappings /\ templated \in BOOLEAN
  BY HandlerIs DEF ListingInd, ListingTypes
<1>1. /\ g \in Gids /\ g # NoGid /\ view \in Ledgers /\ Filed(view, items, asked, shop, templated)
      /\ Sound(p, items, templated) /\ p \in Listings
      /\ Ghost \in shop[g].variants => Ghost \in p.variants
  BY <1>0, CodesApart DEF Mappings, LedgerInv, SeenInv
<1>2. skus(p) \subseteq Codes
  <2>1. p.variants \subseteq Codes /\ Article \in Codes
    BY <1>1, CodesAre DEF Listings
  <2> QED BY <2>1 DEF skus, SkuOf
<1>3. NoCode \notin {Article, Handle}
  BY CodesApart, CodesAre
<1>4. byGid \subseteq {Article, Handle} /\ byLinks \subseteq {Article, Handle} /\ parents \subseteq {Article, Handle}
  <2>1. \A c \in Codes : view[c].template \in {Article, Handle, NoCode}
    BY <1>1 DEF Ledgers, Links
  <2>2. \A c \in Codes : variant_of(c) \in {Article, Handle, NoCode}
    BY DEF variant_of
  <2> QED BY <1>2, <2>1, <2>2
<1>5. ASSUME Article \in byGid PROVE Ghost \notin shop[g].variants
  <2>1. PICK c \in Codes : view[c].gid = g /\ view[c].template = Article
    BY <1>5
  <2> QED BY <1>1, <2>1 DEF Filed
<1>6. ASSUME templated, skus(p) # {} PROVE Ghost \notin shop[g].variants
  <2>1. Sound(p, items, TRUE)
    BY <1>0, <1>1, <1>6
  <2> QED BY <1>1, <1>6, <2>1, GhostIsBare
<1>7. CASE ~templated
  BY <1>3, <1>7 DEF Founds, MapTpl
<1>8. CASE templated
  <2>1. found \in template_already_linked(view, g, p)
    BY <1>8 DEF Founds
  <2>2. template_already_linked(view, g, p) =
          IF byGid # {} THEN byGid
          ELSE IF byLinks # {} THEN (IF Cardinality(byLinks) = 1 THEN byLinks ELSE {NoCode})
          ELSE IF Cardinality(parents) = 1 THEN parents ELSE {NoCode}
    BY DEF template_already_linked
  <2>3. \/ found \in byGid
        \/ found \in byLinks
        \/ found \in parents
        \/ found = NoCode
    <3> HIDE DEF byGid, byLinks, parents
    <3> QED BY <2>1, <2>2
  <2>4. found \in byLinks \/ found \in parents => skus(p) # {}
    OBVIOUS
  <2> HIDE DEF byGid, byLinks, parents
  <2>5. found \in {Article, Handle, NoCode}
    BY <1>4, <2>3
  <2>6. MapTpl(found) = IF found = NoCode THEN Handle ELSE found
    BY <1>8 DEF MapTpl
  <2>7. found = Article => Ghost \notin shop[g].variants
    BY <1>3, <1>5, <1>6, <1>8, <2>3, <2>4
  <2>8. Handle # Article
    BY CodesApart
  <2>9. MapTpl(found) = Article => found = Article
    BY <2>6, <2>8
  <2> QED BY <1>3, <1>8, <2>5, <2>6, <2>7, <2>9
<1> QED BY <1>7, <1>8

\* What a webhook hands to upsert_link.
LEMMA MapIs ==
  ASSUME ListingInd, NEW h \in Handlers, Writes(h), NEW found \in Founds(h)
  PROVE  /\ handler[h].gid \in Gids /\ handler[h].view \in Ledgers /\ links \in Ledgers
         /\ handler[h].seen \in Listings
         /\ MapV(h) \in SUBSET Variants /\ MapCode(h) \in [MapV(h) -> Codes]
         /\ Recognised(handler[h].view, handler[h].gid, MapV(h), MapCode(h))
         /\ Coded(MapV(h), MapCode(h), items \cup MapTouched(h, found), templated)
         /\ MapTouched(h, found) \subseteq Codes
         /\ ~templated => MapTouched(h, found) \cap Sizes = {}
<1> DEFINE g == handler[h].gid
           p == handler[h].seen
           view == handler[h].view
           code == MapCode(h)
           V == MapV(h)
<1>0. LedgerInv /\ SeenInv /\ handler[h] \in Mappings /\ templated \in BOOLEAN /\ links \in Ledgers
  BY HandlerIs DEF ListingInd, ListingTypes
<1>1. /\ g \in Gids /\ view \in Ledgers /\ Filed(view, items, asked, shop, templated)
      /\ Sound(p, items, templated) /\ p \in Listings
  BY <1>0 DEF Mappings, LedgerInv, SeenInv
<1>2. V \in SUBSET Variants /\ V = p.variants
  BY <1>1 DEF MapV, Listings
<1>3. \A v \in V : code[v] = resolve_item_code(view, g, p, v)
  BY DEF MapCode
<1>4. ASSUME NEW v \in V
      PROVE  LET of == {c \in Codes : view[c].gid = g /\ view[c].variant = v}
             IN  /\ of # {} => code[v] = (CHOOSE c \in of : TRUE) /\ code[v] \in of
                 /\ of = {} => code[v] = IF SkuOf(p, v) # NoCode THEN SkuOf(p, v) ELSE Ghost
  <2> DEFINE of == {c \in Codes : view[c].gid = g /\ view[c].variant = v}
  <2>1. code[v] = IF of # {} THEN CHOOSE c \in of : TRUE
                  ELSE IF SkuOf(p, v) # NoCode THEN SkuOf(p, v) ELSE Ghost
    BY <1>3 DEF resolve_item_code
  <2>2. of # {} => (CHOOSE c \in of : TRUE) \in of
    OBVIOUS
  <2> HIDE DEF of
  <2>3. /\ of # {} => code[v] = (CHOOSE c \in of : TRUE) /\ code[v] \in of
        /\ of = {} => code[v] = IF SkuOf(p, v) # NoCode THEN SkuOf(p, v) ELSE Ghost
    BY <2>1, <2>2
  <2> QED BY <2>3 DEF of
<1>5. ASSUME NEW v \in V
      PROVE  /\ code[v] \in Codes
             /\ v \in Sizes => code[v] = v
             /\ v = Ghost => code[v] = Ghost \/ (code[v] = Article /\ ~templated)
  <2> DEFINE of == {c \in Codes : view[c].gid = g /\ view[c].variant = v}
  <2>1. CASE of # {}
    <3>1. code[v] \in Codes /\ view[code[v]].variant = v
      BY <1>4, <2>1
    <3> QED BY <1>1, <3>1 DEF Filed
  <2>2. CASE of = {}
    <3>1. code[v] = IF SkuOf(p, v) # NoCode THEN SkuOf(p, v) ELSE Ghost
      BY <1>4, <2>2
    <3>2. v \in Sizes \/ v = Ghost
      BY <1>2 DEF Variants
    <3>3. ASSUME v \in Sizes PROVE code[v] = v
      <4>1. v # Ghost /\ v # NoCode
        BY <3>3, CodesApart, CodesAre
      <4> QED BY <3>1, <4>1 DEF SkuOf
    <3>4. ASSUME v = Ghost PROVE code[v] = Ghost \/ (code[v] = Article /\ ~templated)
      <4>1. p.filled => ~templated
        BY <1>1 DEF Sound
      <4> QED BY <3>1, <3>4, <4>1 DEF SkuOf
    <3> QED BY <3>2, <3>3, <3>4, CodesAre
  <2> QED BY <2>1, <2>2
<1>6. code \in [V -> Codes]
  <2>1. code = [v \in V |-> code[v]]
    BY DEF MapCode
  <2> QED BY <1>5, <2>1
<1>7. Recognised(view, g, V, code)
  BY <1>4 DEF Recognised
<1>8. {code[v] : v \in V} \subseteq MapTouched(h, found)
  BY DEF MapTouched
<1>9. Coded(V, code, items \cup MapTouched(h, found), templated)
  BY <1>5, <1>8 DEF Coded
<1>10. MapTpl(found) \in {Article, Handle, NoCode} /\ (templated <=> MapTpl(found) # NoCode)
  BY RangeIs
<1>11. MapTouched(h, found) \subseteq Codes
  BY <1>5, <1>10, CodesAre DEF MapTouched
<1>12. ASSUME ~templated PROVE MapTouched(h, found) \cap Sizes = {}
  <2>1. \A v \in V : v = Ghost
    BY <1>1, <1>2, <1>12 DEF Sound
  <2>2. \A v \in V : code[v] \notin Sizes
    BY <1>5, <2>1, CodesApart
  <2> QED BY <1>10, <1>12, <2>2 DEF MapTouched
<1> HIDE DEF g, p, view, code, V
<1> QED BY <1>0, <1>1, <1>2, <1>6, <1>7, <1>9, <1>11, <1>12 DEF g, p, view, code, V

\* The mapping is upsert_link on those variants.
LEMMA MapHas ==
  ASSUME NEW h \in Handlers, NEW found
  PROVE  LET m == Mapping(h, found)
             L == links  w == handler[h].view  g == handler[h].gid
         IN  /\ m.g = g /\ m.p = handler[h].seen
             /\ m.touched = MapTouched(h, found) /\ m.tpl = MapTpl(found)
             /\ m.joined = upsert_link(L, w, g, MapV(h), MapCode(h), MapTpl(found), FALSE)
             /\ m.opened = opened_by(L, w, g, MapV(h), MapCode(h), MapTpl(found), FALSE)
             /\ m.saved = saved_by(L, w, g, MapV(h), MapCode(h))
             /\ m.changed \subseteq m.touched
BY DEF Mapping, MapV, MapCode, MapTpl, MapTouched

\* The webhook maps the product.
LEMMA StepWrite ==
  ASSUME ListingInd, NEW h \in Handlers, Writes(h), NEW found \in Founds(h),
         HookWrite(h, found, Mapping(h, found))
  PROVE  ListingInd'
<1>0. /\ ListingTypes /\ ShopInv /\ LedgerInv /\ DrainInv /\ SeenInv /\ OneInv /\ OpeningPushQueued
      /\ handler[h] \in Mappings
  BY HandlerIs DEF ListingInd
<1> DEFINE m == Mapping(h, found)
           g == handler[h].gid
           p == handler[h].seen
           view == handler[h].view
           V == MapV(h)
           code == MapCode(h)
           tpl == MapTpl(found)
           T == MapTouched(h, found)
           M == upsert_link(links, view, g, V, code, tpl, FALSE)
           Queued == opened_by(links, view, g, V, code, tpl, FALSE)
           Saved == saved_by(links, view, g, V, code)
<1>1. /\ m.g = g /\ m.p = p /\ m.touched = T /\ m.joined = M /\ m.opened = Queued /\ m.saved = Saved
      /\ m.changed \subseteq T
  BY MapHas
<1>2. /\ items' = items \cup T
      /\ disabled' = disabled \cup m.changed \/ disabled' = disabled \ m.changed
      /\ ticked' = ticked
      /\ links' = [c \in Codes |-> IF M[c].gid = g THEN [M[c] EXCEPT !.digest = product_digest(p)] ELSE M[c]]
      /\ asked' = asked \cup Queued
      /\ drain' = IF drain.pc = "idle" THEN drain
                  ELSE [drain EXCEPT !.stale = @ \cup {<<"link", c>> : c \in Saved}]
      /\ handler' = [Outdated("link", Saved) EXCEPT ![h] = IdleHandler]
      /\ templated' = templated /\ priced' = priced /\ rows' = rows /\ shop' = shop /\ mail' = mail
      /\ events' = events /\ cut' = cut
  <2> HIDE DEF m, g, p, view, T, M, Queued, Saved
  <2>1. Written(h, m) /\ UNCHANGED <<templated, ticked, priced, rows, shop, mail, events, cut>>
    BY DEF HookWrite, m
  <2> QED BY <1>1, <2>1 DEF Written, view
<1> HIDE DEF m
<1>3. /\ g \in Gids /\ g # NoGid /\ view \in Ledgers /\ links \in Ledgers /\ p \in Listings
      /\ V \in SUBSET Variants /\ code \in [V -> Codes] /\ Recognised(view, g, V, code)
      /\ Coded(V, code, items', templated)
      /\ T \subseteq Codes /\ (~templated => T \cap Sizes = {})
  <2> HIDE DEF M, Queued, Saved
  <2>1. Coded(V, code, items \cup T, templated)
    BY MapIs
  <2> QED BY <1>2, <2>1, MapIs, CodesApart
<1>4. /\ tpl \in {Article, Handle, NoCode} /\ (templated <=> tpl # NoCode)
      /\ tpl = Handle => Handle \in items'
      /\ tpl = Article => Ghost \notin shop[g].variants
      /\ shop[g].variants # {} /\ Filed(view, items, asked, shop, templated)
      /\ Filed(links, items, asked, shop, templated)
  <2>1. /\ tpl \in {Article, Handle, NoCode} /\ (templated <=> tpl # NoCode)
        /\ tpl = Article => Ghost \notin shop[g].variants
    BY RangeIs
  <2>2. tpl = Handle => Handle \in T
    <3>1. Handle # NoCode
      BY CodesApart, CodesAre
    <3> QED BY <3>1 DEF MapTouched
  <2> HIDE DEF T, tpl
  <2> QED BY <1>0, <1>2, <2>1, <2>2 DEF LedgerInv, SeenInv
<1> HIDE DEF g, p, view, V, code, tpl, T
<1>5. /\ M \in Ledgers
      /\ AllJoin(M, links, view, Queued, V, code, g, tpl)
      /\ AllEnd(M, links, view, V, code, g, tpl)
  <2>1. ASSUME NEW ours \in BOOLEAN
        PROVE  LET N == upsert_link(links, view, g, V, code, tpl, ours)
               IN  /\ N \in Ledgers
                   /\ AllJoin(N, links, view, opened_by(links, view, g, V, code, tpl, ours), V, code, g, tpl)
                   /\ AllEnd(N, links, view, V, code, g, tpl)
    BY <1>3, <1>4, UpsertIs
  <2> QED BY <2>1
<1>6. Queued \subseteq Our /\ Saved \in SUBSET Codes
  BY <1>3, OpenedIsOur, SavedIsCodes
<1>7. \A c \in Saved : \E v \in V : c = code[v] /\ c = at(links, view, g, v, code[v])
  BY <1>3, SavedIs
<1>8. /\ Filed(M, items', asked', shop, templated)
      /\ OpensAll(M, asked')
  <2>1. \A ours \in BOOLEAN : opened_by(links, view, g, V, code, tpl, ours) \subseteq asked' =>
          /\ Filed(upsert_link(links, view, g, V, code, tpl, ours), items', asked', shop, templated)
          /\ OpensAll(upsert_link(links, view, g, V, code, tpl, ours), asked')
    <3> SUFFICES ASSUME NEW ours \in BOOLEAN, opened_by(links, view, g, V, code, tpl, ours) \subseteq asked'
                 PROVE  /\ Filed(upsert_link(links, view, g, V, code, tpl, ours), items', asked', shop, templated)
                        /\ OpensAll(upsert_link(links, view, g, V, code, tpl, ours), asked')
      OBVIOUS
    <3> DEFINE I == items  A == asked  S == shop  J == items'  B == asked'
    <3>1. /\ links \in Ledgers /\ view \in Ledgers /\ g \in Gids /\ V \in SUBSET Variants
          /\ code \in [V -> Codes] /\ Recognised(view, g, V, code)
          /\ tpl \in {Article, Handle, NoCode} /\ ours \in BOOLEAN
          /\ Filed(links, I, A, S, templated) /\ Filed(view, I, A, S, templated)
          /\ I \subseteq J /\ A \subseteq B /\ OpensAll(links, A)
          /\ opened_by(links, view, g, V, code, tpl, ours) \subseteq B
          /\ S[g].variants # {} /\ Coded(V, code, J, templated)
      BY <1>0, <1>2, <1>3, <1>4 DEF OpeningPushQueued, OpensAll
    <3>2. /\ tpl # NoCode => templated
          /\ tpl = Handle => Handle \in J
          /\ tpl = Article => Ghost \notin S[g].variants
      BY <1>4
    <3> HIDE DEF I, A, S, J, B
    <3>3. Stands(upsert_link(links, view, g, V, code, tpl, ours), J, B, S, templated)
      BY <3>1, <3>2, UpsertFiled
    <3> QED BY <3>3 DEF Stands, I, A, S, J, B
  <2>2. Queued \subseteq asked'
    BY <1>2
  <2> QED BY <2>1, <2>2
<1> HIDE DEF M, Queued, Saved
<1>9. \A c \in Codes : M[c] = links[c] \/ (M[c].gid = g /\ M[c].template = tpl)
  BY <1>5 DEF AllJoin, Joins
<1>10. ASSUME NEW c \in Codes
       PROVE  /\ links'[c] \in Links /\ links'[c].gid = M[c].gid /\ links'[c].variant = M[c].variant
              /\ links'[c].template = M[c].template /\ links'[c].opened = M[c].opened
              /\ links'[c] = M[c] \/ M[c].gid # NoGid
  <2> DEFINE d == product_digest(p)
             l == [M[c] EXCEPT !.digest = d]
  <2>1. M[c] \in Links
    BY <1>5 DEF Ledgers
  <2>2. d \in Digests
    BY <1>3 DEF product_digest, Digests, Listings
  <2>3. links'[c] = M[c] \/ (links'[c] = l /\ M[c].gid = g)
    <3> HIDE DEF d
    <3> QED BY <1>2 DEF d
  <2> HIDE DEF d
  <2>4. /\ l \in Links /\ l.gid = M[c].gid /\ l.variant = M[c].variant
        /\ l.template = M[c].template /\ l.opened = M[c].opened
    BY <2>1, <2>2 DEF Links
  <2> HIDE DEF l
  <2> QED BY <1>3, <2>1, <2>3, <2>4
<1>11. links' \in Ledgers
  <2>1. links' = [c \in Codes |-> links'[c]]
    BY <1>2
  <2> QED BY <1>10, <2>1 DEF Ledgers
<1>12. Filed(links', items', asked', shop', templated')
  BY <1>2, <1>5, <1>8, <1>10, <1>11, FiledSame
<1>13. /\ handler' \in [Handlers -> {IdleHandler} \cup Mappings]
       /\ \A k \in Handlers : Goes(k)
  <2> DEFINE O == Outdated("link", Saved)
  <2>1. /\ O \in [Handlers -> {IdleHandler} \cup Mappings]
        /\ \A k \in Handlers : LET o == O[k]
               IN  \/ o = IdleHandler
                   \/ /\ Writes(k) /\ o.gid = handler[k].gid /\ o.seen = handler[k].seen
                      /\ o.view = handler[k].view
    BY <1>0, <1>6, OutdatedIs
  <2> HIDE DEF O
  <2>2. handler' = [O EXCEPT ![h] = IdleHandler]
    BY <1>2 DEF O
  <2>3. handler'[h] = IdleHandler /\ \A k \in Handlers : k # h => handler'[k] = O[k]
    BY <2>1, <2>2
  <2>4. handler' \in [Handlers -> {IdleHandler} \cup Mappings]
    BY <2>1, <2>2
  <2> QED BY <2>1, <2>3, <2>4 DEF Goes
<1>14. /\ ~Draws => drain' = drain
       /\ Draws => /\ drain' \in Drains /\ drain'.pc = drain.pc /\ drain'.gid = drain.gid
                   /\ drain'.kids = drain.kids /\ drain'.new = drain.new /\ drain'.view = drain.view
                   /\ drain'.stale = drain.stale \cup {<<"link", c>> : c \in Saved}
  <2>1. ASSUME Draws
        PROVE  /\ drain' \in Drains /\ drain'.pc = drain.pc /\ drain'.gid = drain.gid
               /\ drain'.kids = drain.kids /\ drain'.new = drain.new /\ drain'.view = drain.view
               /\ drain'.stale = drain.stale \cup {<<"link", c>> : c \in Saved}
    <3>1. drain \in Drains /\ drain.stale \in Stales
      BY <2>1, DrainIs DEF Drains
    <3>2. drain.stale \cup {<<"link", c>> : c \in Saved} \in Stales
      BY <1>6, <3>1 DEF Stales
    <3>3. drain' = [drain EXCEPT !.stale = @ \cup {<<"link", c>> : c \in Saved}]
      BY <1>2, <2>1 DEF Draws
    <3> QED BY <3>1, <3>2, <3>3 DEF Drains
  <2> QED BY <1>2, <2>1 DEF Draws
<1>15. DrainGoes /\ (Draws' <=> Draws)
  BY <1>14 DEF DrainGoes, Draws
<1>16. ListingTypes'
  <2>1. /\ items' \subseteq Codes /\ disabled' \subseteq Codes /\ asked' \subseteq Our
    BY <1>0, <1>1, <1>2, <1>3, <1>6 DEF ListingTypes
  <2>2. drain' = IdleDrain \/ drain' \in Drains
    BY <1>14, DrainIs
  <2> QED BY <1>0, <1>2, <1>11, <1>13, <2>1, <2>2 DEF ListingTypes
<1>17. Keeps
  BY <1>2 DEF Keeps, Grows
<1>18. Lasts
  BY <1>13, <1>17, ReadingsHold
<1>19. LedgerInv' /\ SeenInv'
  BY <1>12, <1>14, <1>15, <1>18 DEF Lasts, LedgerInv
<1>20. DrainInv'
  BY <1>15, <1>17, DrainHolds
<1>21. ShopInv'
  BY <1>0, <1>2, <1>3 DEF ShopInv, Sound
<1>22. OneInv'
  <2> SUFFICES ASSUME ~cut, ~Twinned'
               PROVE  /\ \A f, k \in Gids : Present(f)' /\ Present(k)' => f = k
                      /\ Draws' => shop'[drain'.gid].live
                      /\ (\E f \in Gids : Present(f)') => InLinks' \/ (Draws' /\ drain'.new)
                      /\ Draws' /\ templated' /\ drain'.new /\ drain'.pc \in {"vary", "link"}
                            => links'[Article].gid # NoGid
                      /\ Draws' /\ ~templated' =>
                            \A c \in Codes : <<"link", c>> \in drain'.stale => links'[c].gid # NoGid
    BY <1>2 DEF OneInv
  <2>1. ~Twinned
    BY <1>2 DEF Twinned
  <2>2. \A f \in Gids : Present(f)' <=> Present(f)
    BY <1>2 DEF Present
  <2>3. \A c \in Codes : links[c].gid # NoGid => links'[c].gid # NoGid
    BY <1>3, <1>9, <1>10
  <2>4. ASSUME NEW s \in Codes, links[s].template = Article, links[s].gid # NoGid
        PROVE  links'[s].template = Article
    <3>1. templated /\ tpl \in {Article, Handle}
      BY <1>4, <2>4, CodesApart, CodesAre DEF Filed
    <3>2. tpl # Handle
      BY <1>4 DEF Twinned
    <3> QED BY <1>9, <1>10, <2>4, <3>1, <3>2
  <2>5. InLinks => InLinks'
    BY <2>3, <2>4, CodesAre DEF InLinks
  <2>6. ASSUME Draws, ~templated, NEW c \in Codes, <<"link", c>> \in drain'.stale
        PROVE  links'[c].gid # NoGid
    <3>1. CASE <<"link", c>> \in drain.stale
      BY <1>0, <2>1, <2>3, <2>6, <3>1 DEF OneInv
    <3>2. CASE c \in Saved
      <4>1. PICK v \in V : c = at(links, view, g, v, code[v])
        BY <1>7, <3>2
      <4>2. M[c].gid = g
        BY <1>5, <4>1 DEF AllEnd, Sits
      <4> QED BY <1>3, <1>10, <4>2
    <3> QED BY <1>14, <2>6, <3>1, <3>2
  <2>7. Draws => shop'[drain'.gid].live
    BY <1>0, <1>2, <1>14, <2>1 DEF OneInv
  <2>8. Draws /\ templated /\ drain.new /\ drain.pc \in {"vary", "link"} => links'[Article].gid # NoGid
    BY <1>0, <2>1, <2>3, CodesAre DEF OneInv
  <2>9. \A f, k \in Gids : Present(f) /\ Present(k) => f = k
    BY <1>0, <2>1 DEF OneInv
  <2>10. (\E f \in Gids : Present(f)) => InLinks \/ (Draws /\ drain.new)
    BY <1>0, <2>1 DEF OneInv
  <2> QED BY <1>2, <1>14, <1>15, <2>2, <2>5, <2>6, <2>7, <2>8, <2>9, <2>10
<1>23. OpeningPushQueued'
  BY <1>8, <1>10, CodesAre DEF OpeningPushQueued, OpensAll
<1> QED BY <1>16, <1>19, <1>20, <1>21, <1>22, <1>23 DEF ListingInd

\* The webhook of a deleted product takes its links away.
LEMMA StepDelete ==
  ASSUME ListingInd, NEW g \in Gids, on_product_delete(g)
  PROVE  ListingInd'
<1>0. ListingTypes /\ ShopInv /\ LedgerInv /\ OneInv /\ OpeningPushQueued
  BY DEF ListingInd
<1> DEFINE gone == {c \in Codes : links[c].gid = g}
<1>1. /\ <<"delete", g>> \in mail /\ mail' = mail \ {<<"delete", g>>}
      /\ links' = [c \in Codes |-> IF c \in gone THEN NoLink ELSE links[c]]
      /\ handler' = Outdated("link", gone)
      /\ drain' = IF drain.pc = "idle" THEN drain
                  ELSE [drain EXCEPT !.stale = @ \cup {<<"link", c>> : c \in gone}]
      /\ templated' = templated /\ items' = items /\ disabled' = disabled /\ priced' = priced
      /\ ticked' = ticked /\ rows' = rows /\ asked' = asked /\ shop' = shop
      /\ events' = events /\ cut' = cut
  BY DEF on_product_delete
<1>2. gone \in SUBSET Codes
  OBVIOUS
<1> HIDE DEF gone
<1>3. \A c \in Codes : links'[c] = links[c] \/ links'[c] = NoLink
  BY <1>1
<1>4. links' \in Ledgers
  BY <1>0, <1>1, NoneIs DEF ListingTypes, Ledgers
<1>5. Filed(links', items, asked, shop, templated)
  <2> SUFFICES ASSUME NEW c \in Codes
               PROVE  /\ links'[c].variant \in Sizes => c = links'[c].variant
                      /\ links'[c].variant = Ghost => c = Ghost \/ (c = Article /\ ~templated)
                      /\ links'[c].variant = NoCode => links'[c].template = NoCode
                      /\ links'[c].template # NoCode => templated
                      /\ c \in Our /\ links'[c].opened => c \in asked
                      /\ c \in {Handle, Ghost} /\ links'[c] # NoLink => c \in items
                      /\ links'[c].template = Handle => Handle \in items
                      /\ links'[c].gid # NoGid => shop[links'[c].gid].variants # {}
                      /\ links'[c].gid # NoGid /\ links'[c].template = Article =>
                            Ghost \notin shop[links'[c].gid].variants
    BY DEF Filed
  <2>1. CASE links'[c] = links[c]
    BY <2>1, <1>0 DEF LedgerInv, Filed
  <2>2. CASE links'[c] = NoLink
    <3>1. NoCode \notin Sizes /\ NoCode # Ghost /\ NoCode # Handle /\ NoCode # Article
      BY CodesApart, CodesAre
    <3> QED BY <2>2, <3>1, NoneIs
  <2> QED BY <1>3, <2>1, <2>2
<1>6. /\ handler' \in [Handlers -> {IdleHandler} \cup Mappings]
      /\ \A h \in Handlers : Goes(h)
  <2> DEFINE O == Outdated("link", gone)
  <2>1. /\ O \in [Handlers -> {IdleHandler} \cup Mappings]
        /\ \A h \in Handlers : LET o == O[h]
               IN  \/ o = IdleHandler
                   \/ /\ Writes(h) /\ o.gid = handler[h].gid /\ o.seen = handler[h].seen
                      /\ o.view = handler[h].view
    BY <1>0, <1>2, OutdatedIs
  <2> HIDE DEF O
  <2> QED BY <1>1, <2>1 DEF Goes, O
<1>7. /\ ~Draws => drain' = drain
      /\ Draws => /\ drain' \in Drains /\ drain'.pc = drain.pc /\ drain'.gid = drain.gid
                  /\ drain'.kids = drain.kids /\ drain'.new = drain.new /\ drain'.view = drain.view
  <2>1. ASSUME Draws
        PROVE  /\ drain' \in Drains /\ drain'.pc = drain.pc /\ drain'.gid = drain.gid
               /\ drain'.kids = drain.kids /\ drain'.new = drain.new /\ drain'.view = drain.view
    <3>1. drain \in Drains /\ drain.stale \in Stales
      BY <2>1, DrainIs DEF Drains
    <3>2. drain.stale \cup {<<"link", c>> : c \in gone} \in Stales
      BY <1>2, <3>1 DEF Stales
    <3>3. drain' = [drain EXCEPT !.stale = @ \cup {<<"link", c>> : c \in gone}]
      BY <1>1, <2>1 DEF Draws
    <3> QED BY <3>1, <3>2, <3>3 DEF Drains
  <2> QED BY <1>1, <2>1 DEF Draws
<1>8. DrainGoes /\ (Draws' <=> Draws)
  BY <1>7 DEF DrainGoes, Draws
<1>9. ListingTypes'
  <2>1. drain' = IdleDrain \/ drain' \in Drains
    BY <1>7, DrainIs
  <2> QED BY <1>0, <1>1, <1>4, <1>6, <2>1 DEF ListingTypes
<1>10. Keeps
  BY <1>1 DEF Keeps, Grows
<1>11. Lasts
  BY <1>6, <1>10, ReadingsHold
<1>12. LedgerInv' /\ SeenInv'
  BY <1>1, <1>5, <1>7, <1>8, <1>11 DEF Lasts, LedgerInv
<1>13. DrainInv'
  BY <1>8, <1>10, DrainHolds
<1>14. ShopInv'
  BY <1>0, <1>1 DEF ShopInv
<1>15. OneInv'
  <2>1. ASSUME ~cut, ~Twinned
        PROVE  ~Draws /\ \A f \in Gids : ~Present(f)'
    <3>1. Present(g) /\ ~shop[g].live
      BY <1>0, <1>1 DEF Present, ShopInv
    <3>2. \A f \in Gids : Present(f) => f = g
      BY <1>0, <2>1, <3>1 DEF OneInv
    <3>3. \A f \in Gids : ~Present(f)'
      BY <1>1, <3>1, <3>2 DEF Present
    <3>4. Draws => drain.gid \in Gids /\ shop[drain.gid].live
      BY <1>0, <2>1, DrainIs DEF OneInv, Drains
    <3>5. Draws => drain.gid = g
      BY <3>2, <3>4 DEF Present
    <3> QED BY <3>1, <3>3, <3>4, <3>5
  <2>2. Twinned' <=> Twinned
    BY <1>1 DEF Twinned
  <2> QED BY <1>1, <1>8, <2>1, <2>2 DEF OneInv
<1>16. OpeningPushQueued'
  BY <1>0, <1>1, <1>3, CodesAre, NoneIs DEF OpeningPushQueued
<1> QED BY <1>9, <1>12, <1>13, <1>14, <1>15, <1>16 DEF ListingInd

------------------------------------------------------------------------------
(* The invariant.                                                           *)

\* The invariant holds at the start.
LEMMA ListingStarts == ListingInit => ListingInd
<1> SUFFICES ASSUME ListingInit PROVE ListingInd
  OBVIOUS
<1>1. /\ templated \in BOOLEAN /\ ticked = TRUE
      /\ items \in {{Article}} \cup (IF templated THEN {{Article} \cup Born} ELSE {})
      /\ disabled = {} /\ priced \in {{}, {Article} \cup Born}
      /\ links = [c \in Codes |-> NoLink] /\ rows = {Article} /\ asked = {} /\ mail = {}
      /\ shop = [g \in Gids |-> NoProduct] /\ drain = IdleDrain
      /\ handler = [h \in Handlers |-> IdleHandler] /\ cut = FALSE /\ events = 0
  BY DEF ListingInit
<1>2. /\ ~Draws /\ \A h \in Handlers : ~Writes(h)
  BY <1>1 DEF Draws, Writes, IdleDrain, IdleHandler
<1>3. Born \subseteq Sizes /\ 0 \in 0..MaxEvents
  BY ListingAssumption
<1>4. ListingTypes
  <2>1. /\ items \subseteq Codes /\ priced \subseteq Our /\ rows \subseteq Our
    BY <1>1, <1>3, CodesAre DEF Our, Codes
  <2>2. links \in Ledgers /\ shop \in [Gids -> Listings]
        /\ \A g \in Gids : shop[g].free \subseteq shop[g].variants
    BY <1>1, NoneIs DEF Ledgers
  <2>3. handler \in [Handlers -> {IdleHandler} \cup Mappings]
    BY <1>1
  <2> QED BY <1>1, <1>3, <2>1, <2>2, <2>3 DEF ListingTypes
<1>5. ShopInv
  <2>1. ~templated => items \cap Sizes = {}
    BY <1>1, CodesApart
  <2> QED BY <1>1, <2>1 DEF ShopInv
<1>6. LedgerInv
  <2>1. NoCode \notin Sizes /\ NoCode # Ghost /\ NoCode # Handle /\ NoCode # Article
    BY CodesApart, CodesAre
  <2>2. \A c \in Codes : links[c] = NoLink
    BY <1>1
  <2>3. Filed(links, items, asked, shop, templated)
    BY <2>1, <2>2, NoneIs DEF Filed
  <2> QED BY <1>2, <2>3 DEF LedgerInv
<1>7. OneInv
  <2>1. \A g \in Gids : ~Present(g)
    BY <1>1, NoneIs DEF Present
  <2> QED BY <1>2, <2>1 DEF OneInv
<1>8. OpeningPushQueued
  BY <1>1, NoneIs, CodesAre DEF OpeningPushQueued
<1> QED BY <1>2, <1>4, <1>5, <1>6, <1>7, <1>8 DEF ListingInd, DrainInv, SeenInv

\* Every step keeps it.
LEMMA ListingStep == ListingInd /\ [ListingNext]_listingVars => ListingInd'
<1> SUFFICES ASSUME ListingInd, [ListingNext]_listingVars
             PROVE  ListingInd'
  OBVIOUS
<1>1. CASE Draining
  <2>1. ASSUME NEW c \in Our, PushUpdate(c) PROVE ListingInd'
    BY <2>1, StepUpdate
  <2>2. ASSUME NEW c \in Our, AttachVariant(c) PROVE ListingInd'
    BY <2>2, StepAttach
  <2>3. ASSUME NEW c \in Our, PushNothing(c) PROVE ListingInd'
    <3>1. rows' \subseteq rows
      BY <2>3 DEF PushNothing
    <3>2. UNCHANGED <<templated, ticked, items, disabled, priced, links, asked, shop, mail,
                      drain, handler, events, cut>>
      BY <2>3 DEF PushNothing
    <3> QED BY <3>1, <3>2, StepRows
  <2>4. ASSUME NEW c \in Our, RowRefused(c) PROVE ListingInd'
    <3>1. rows' \subseteq rows
      BY <2>4 DEF RowRefused
    <3>2. UNCHANGED <<templated, ticked, items, disabled, priced, links, asked, shop, mail,
                      drain, handler, events, cut>>
      BY <2>4 DEF RowRefused
    <3> QED BY <3>1, <3>2, StepRows
  <2> QED BY <1>1, <2>1, <2>2, <2>3, <2>4, StepCreate, StepTemplate, StepVariants, StepLink, StepGone
          DEF Draining
<1>2. CASE Hooks
  <2>1. ASSUME NEW h \in Handlers, NEW g \in Gids, HookFetch(h, g) PROVE ListingInd'
    BY <2>1, StepFetch
  <2>2. ASSUME NEW h \in Handlers, HookMaps(h) PROVE ListingInd'
    <3>1. PICK found \in Founds(h) : \/ HookWrite(h, found, Mapping(h, found))
                                     \/ HookRefused(h, found, Mapping(h, found))
                                     \/ HookRetry(h, Mapping(h, found))
      BY <2>2 DEF HookMaps
    <3>2. Writes(h)
      BY <2>2 DEF HookMaps, Writes
    <3> QED BY <3>1, <3>2, StepWrite, StepRefused, StepRetry
  <2>3. ASSUME NEW g \in Gids, on_product_delete(g) PROVE ListingInd'
    BY <2>3, StepDelete
  <2> QED BY <1>2, <2>1, <2>2, <2>3 DEF Hooks
<1>3. CASE DrainStops
  BY <1>3, StepStops
<1>4. CASE \E c \in Our, off, tick \in BOOLEAN : SaveItem(c, off, tick)
  BY <1>4, StepSave
<1>5. CASE \E g \in Gids : EditOnShopify(g)
  BY <1>5, StepEdit
<1>6. CASE UNCHANGED listingVars
  <2>1. UNCHANGED <<templated, ticked, items, disabled, priced, links, asked, shop, mail,
                    drain, handler, events, cut>> /\ rows' \subseteq rows
    BY <1>6 DEF listingVars
  <2> QED BY <2>1, StepRows
<1> QED BY <1>1, <1>2, <1>3, <1>4, <1>5, <1>6 DEF ListingNext, ListingSteps

\* The sets that remember whose content an Item was.
ContentTypes == renamed \subseteq Our /\ marked \subseteq Our /\ released \subseteq Our

\* What a run checks follows.
LEMMA ListingIs == ListingInd => OneListing /\ OpeningPushQueued /\ (ContentTypes => ListingTypeOK)
<1> SUFFICES ASSUME ListingInd
             PROVE  OneListing /\ OpeningPushQueued /\ (ContentTypes => ListingTypeOK)
  OBVIOUS
<1>0. ListingTypes /\ OneInv /\ OpeningPushQueued
  BY DEF ListingInd
<1>1. OneListing
  BY <1>0 DEF OneInv, OneListing, Present
<1>3. \A c \in Codes : /\ links[c].gid \in Gids \cup {NoGid}
                       /\ links[c].variant \in Variants \cup {NoCode}
                       /\ links[c].template \in {Article, Handle, NoCode}
  BY <1>0 DEF ListingTypes, Ledgers, Links
<1>4. \A g \in Gids : /\ shop[g].variants \subseteq Variants /\ shop[g].free \subseteq shop[g].variants
                      /\ shop[g].status \in {"none", "ACTIVE", "DRAFT", "ARCHIVED"}
  BY <1>0 DEF ListingTypes, Listings, Standings
<1>5. drain.pc \in {"idle", "template", "vary", "fill", "link"}
  BY <1>0 DEF ListingTypes, IdleDrain, Drains, Publishing
<1>6. \A h \in Handlers : handler[h].pc \in {"idle", "write"} /\ handler[h].tries \in 0..WriteAttempts
  <2> SUFFICES ASSUME NEW h \in Handlers
               PROVE  handler[h].pc \in {"idle", "write"} /\ handler[h].tries \in 0..WriteAttempts
    OBVIOUS
  <2>1. CASE handler[h] \in Mappings
    <3>1. handler[h].pc = "write" /\ handler[h].tries \in 1..WriteAttempts
      BY <2>1 DEF Mappings
    <3> QED BY <3>1, ListingAssumption
  <2>2. CASE handler[h] = IdleHandler
    <3>1. handler[h].pc = "idle" /\ handler[h].tries = 0
      BY <2>2 DEF IdleHandler
    <3> QED BY <3>1, ListingAssumption
  <2> QED BY <1>0, <2>1, <2>2 DEF ListingTypes
<1>7. ContentTypes => ListingTypeOK
  BY <1>0, <1>3, <1>4, <1>5, <1>6 DEF ListingTypes, ContentTypes, ListingTypeOK
<1> QED BY <1>0, <1>1, <1>7

------------------------------------------------------------------------------
(* Twins.                                                                   *)

\* A webhook gives a variant the code of a placeholder nobody knows only when it
\* fetched the product before its variants carried a SKU.
LEMMA GhostIsNew ==
  ASSUME ListingInd, NEW h \in Handlers, Writes(h), NEW found \in Founds(h),
         NEW v \in MapV(h), MapCode(h)[v] = Ghost, Ghost \notin items
  PROVE  handler[h].seen.variants = {Ghost} /\ ~handler[h].seen.filled
<1> DEFINE g == handler[h].gid
           p == handler[h].seen
           view == handler[h].view
           of == {c \in Codes : view[c].gid = g /\ view[c].variant = v}
<1>0. LedgerInv /\ SeenInv
  BY DEF ListingInd
<1>1. /\ g # NoGid /\ Filed(view, items, asked, shop, templated) /\ Sound(p, items, templated)
      /\ v \in p.variants /\ v \in Variants
      /\ v \in Sizes => MapCode(h)[v] = v
  <2>1. g \in Gids /\ MapV(h) \in SUBSET Variants
        /\ Coded(MapV(h), MapCode(h), items \cup MapTouched(h, found), templated)
    BY MapIs
  <2> QED BY <2>1, <1>0, CodesApart DEF LedgerInv, SeenInv, MapV, Coded
<1>2. v = Ghost /\ p.variants = {Ghost}
  BY <1>1, CodesApart DEF Variants, Sound
<1>3. MapCode(h)[v] = IF of # {} THEN CHOOSE c \in of : TRUE
                      ELSE IF SkuOf(p, v) # NoCode THEN SkuOf(p, v) ELSE Ghost
  BY DEF MapCode, resolve_item_code
<1>4. of = {}
  <2>1. of # {} => (CHOOSE c \in of : TRUE) \in of
    OBVIOUS
  <2>2. of # {} => Ghost \in of
    <3> HIDE DEF of
    <3> QED BY <1>3, <2>1
  <2>3. Ghost \in of => view[Ghost] # NoLink
    BY <1>1, NoneIs
  <2> QED BY <1>1, <2>2, <2>3, CodesAre DEF Filed
<1>5. ~p.filled
  <2> SUFFICES ASSUME p.filled PROVE FALSE
    OBVIOUS
  <2>1. SkuOf(p, v) = Article
    BY <1>2 DEF SkuOf
  <2> HIDE DEF of
  <2> QED BY <1>3, <1>4, <2>1, CodesApart, CodesAre
<1> QED BY <1>2, <1>5

\* And it invents a range only then.
LEMMA HandleIsNew ==
  ASSUME ListingInd, NEW h \in Handlers, Writes(h), NEW found \in Founds(h),
         ~(found = NoCode /\ Twin(Mapping(h, found))),
         Handle \in MapTouched(h, found), Handle \notin items
  PROVE  handler[h].seen.variants = {Ghost} /\ ~handler[h].seen.filled
<1> DEFINE g == handler[h].gid
           p == handler[h].seen
           view == handler[h].view
           byGid == {view[c].template : c \in {c \in Codes : view[c].gid = g}} \ {NoCode}
           byLinks == {view[c].template : c \in skus(p)} \ {NoCode}
           parents == {variant_of(c) : c \in skus(p)} \ {NoCode}
<1>0. LedgerInv /\ SeenInv /\ templated \in BOOLEAN
  BY DEF ListingInd, ListingTypes
<1>1. /\ Filed(view, items, asked, shop, templated) /\ Sound(p, items, templated)
      /\ p.variants \subseteq Variants
  <2>1. p \in Listings
    BY MapIs
  <2> QED BY <2>1, <1>0 DEF LedgerInv, SeenInv, Listings
<1>2. \A v \in MapV(h) : MapCode(h)[v] # Handle
  <2>1. MapV(h) \in SUBSET Variants /\ Coded(MapV(h), MapCode(h), items \cup MapTouched(h, found), templated)
    BY MapIs
  <2> QED BY <2>1, CodesApart DEF Coded, Variants
<1>3. MapTpl(found) = Handle
  BY <1>2 DEF MapTouched
<1>4. templated /\ found \in template_already_linked(view, g, p)
  <2>1. NoCode # Handle
    BY CodesApart, CodesAre
  <2>2. templated
    BY <1>0, <1>3, <2>1 DEF MapTpl
  <2> QED BY <2>2 DEF Founds
<1>5. skus(p) \subseteq Codes /\ Ghost \notin skus(p)
  <2>1. \A v \in p.variants : SkuOf(p, v) \in Codes \ {Ghost} \/ SkuOf(p, v) = NoCode
    BY <1>1, CodesApart, CodesAre DEF SkuOf
  <2> QED BY <2>1 DEF skus
<1>6. Handle \notin byGid /\ Handle \notin byLinks /\ Handle \notin parents
  <2>1. \A c \in Codes : view[c].template # Handle
    BY <1>1 DEF Filed
  <2>2. \A c \in Codes : c # Ghost => variant_of(c) # Handle
    BY CodesApart, CodesAre DEF variant_of
  <2> QED BY <1>5, <2>1, <2>2
<1>7. found = NoCode
  <2>1. template_already_linked(view, g, p) =
          IF byGid # {} THEN byGid
          ELSE IF byLinks # {} THEN (IF Cardinality(byLinks) = 1 THEN byLinks ELSE {NoCode})
          ELSE IF Cardinality(parents) = 1 THEN parents ELSE {NoCode}
    BY DEF template_already_linked
  <2> HIDE DEF byGid, byLinks, parents
  <2>2. found # Handle
    BY <1>4, <1>6, <2>1, CodesApart, CodesAre
  <2> QED BY <1>3, <1>4, <2>2 DEF MapTpl
<1>8. skus(p) \cap items = {}
  <2>1. Mapping(h, found).tpl = Handle /\ Mapping(h, found).p = p
    BY <1>3, MapHas
  <2> QED BY <1>7, <2>1 DEF Twin
<1>9. Ghost \in p.variants
  <2> SUFFICES ASSUME Ghost \notin p.variants PROVE FALSE
    OBVIOUS
  <2>1. PICK v \in p.variants : v \in Sizes /\ v \in items
    BY <1>1 DEF Sound, Variants
  <2>2. SkuOf(p, v) = v /\ v # NoCode
    BY <2>1, CodesApart, CodesAre DEF SkuOf
  <2>3. v \in skus(p)
    BY <2>1, <2>2 DEF skus
  <2> QED BY <1>8, <2>1, <2>3
<1> QED BY <1>1, <1>4, <1>9 DEF Sound

\* A step that invents an Item is a webhook's that fetched an unfinished product.
Invents(c) == c \notin items /\ c \in items' =>
                \E h \in Handlers : /\ handler[h].pc = "write" /\ handler'[h].pc = "idle"
                                    /\ handler[h].seen.variants = {Ghost} /\ ~handler[h].seen.filled

\* Every step does, if it invents one.
LEMMA TwinStep ==
  ASSUME ListingInd, [ListingNext]_listingVars, NEW c \in {Handle, Ghost}
  PROVE  Invents(c)
<1> SUFFICES ASSUME c \notin items, c \in items'
             PROVE  \E h \in Handlers : /\ handler[h].pc = "write" /\ handler'[h].pc = "idle"
                                        /\ handler[h].seen.variants = {Ghost} /\ ~handler[h].seen.filled
  BY DEF Invents
<1>1. items' # items /\ c \notin Our
  BY CodesAre
<1>2. ~Draining
  <2>1. ASSUME NEW x, PushUpdate(x) PROVE FALSE
    BY <1>1, <2>1 DEF PushUpdate
  <2>2. ASSUME NEW x, AttachVariant(x) PROVE FALSE
    BY <1>1, <2>2 DEF AttachVariant
  <2>3. ASSUME NEW x, PushNothing(x) PROVE FALSE
    BY <1>1, <2>3 DEF PushNothing
  <2>4. ASSUME NEW x, RowRefused(x) PROVE FALSE
    BY <1>1, <2>4 DEF RowRefused
  <2>5. ~CreateProduct
    BY <1>1 DEF CreateProduct
  <2>6. ~link_template
    BY <1>1 DEF link_template
  <2>7. ~create_variants /\ ~fill_variant
    BY <1>1 DEF create_variants, fill_variant, Changed
  <2>8. ~LinkStep /\ ~ProductGone
    <3>1. ASSUME NEW j, LinkProduct(j) PROVE FALSE
      BY <1>1, <3>1 DEF LinkProduct
    <3>2. ~RowFails
      BY <1>1 DEF RowFails
    <3> QED BY <3>1, <3>2 DEF LinkStep, ProductGone
  <2> QED BY <2>1, <2>2, <2>3, <2>4, <2>5, <2>6, <2>7, <2>8 DEF Draining
<1>3. ~DrainStops
  BY <1>1 DEF DrainStops
<1>4. ASSUME NEW x \in Our, NEW off, NEW tick, SaveItem(x, off, tick) PROVE FALSE
  BY <1>1, <1>4 DEF SaveItem
<1>5. ASSUME NEW g, EditOnShopify(g) PROVE FALSE
  BY <1>1, <1>5 DEF EditOnShopify
<1>6. ASSUME NEW h, NEW g, HookFetch(h, g) PROVE FALSE
  BY <1>1, <1>6 DEF HookFetch
<1>7. ASSUME NEW g, on_product_delete(g) PROVE FALSE
  BY <1>1, <1>7 DEF on_product_delete
<1>8. ~UNCHANGED listingVars
  BY <1>1 DEF listingVars
<1>9. PICK h \in Handlers : HookMaps(h)
  BY <1>2, <1>3, <1>4, <1>5, <1>6, <1>7, <1>8 DEF ListingNext, ListingSteps, Hooks
<1>10. PICK found \in Founds(h) : \/ HookWrite(h, found, Mapping(h, found))
                                  \/ HookRefused(h, found, Mapping(h, found))
                                  \/ HookRetry(h, Mapping(h, found))
  BY <1>9 DEF HookMaps
<1>11. Writes(h)
  BY <1>9 DEF HookMaps, Writes
<1>12. /\ ~(found = NoCode /\ Twin(Mapping(h, found)))
       /\ items' = items \cup MapTouched(h, found)
       /\ handler' = [Outdated("link", Mapping(h, found).saved) EXCEPT ![h] = IdleHandler]
  <2>1. HookWrite(h, found, Mapping(h, found))
    BY <1>1, <1>10 DEF HookRefused, HookRetry
  <2> QED BY <2>1, MapHas DEF HookWrite, Written
<1>13. handler[h].pc = "write" /\ handler'[h].pc = "idle"
  BY <1>11, <1>12 DEF Writes, Outdated, IdleHandler
<1>14. c \in MapTouched(h, found)
  BY <1>12
<1>15. handler[h].seen.variants = {Ghost} /\ ~handler[h].seen.filled
  <2>1. CASE c = Handle
    BY <2>1, <1>11, <1>12, <1>14, HandleIsNew
  <2>2. CASE c = Ghost
    <3>1. MapTpl(found) # Ghost
      BY <1>11, RangeIs, CodesApart, CodesAre
    <3>2. PICK v \in MapV(h) : MapCode(h)[v] = Ghost
      BY <1>14, <2>2, <3>1 DEF MapTouched
    <3> QED BY <2>2, <3>2, <1>11, GhostIsNew
  <2> QED BY <2>1, <2>2
<1> QED BY <1>13, <1>15

------------------------------------------------------------------------------
(* Whose content an Item's is.                                              *)

\* A link made out as the app's own stays so for as long as there is one.
MarkedInv == \A c \in marked : links[c].ours

\* Whose a link is that nobody has saved since is what a handler read of it.  A
\* template's own row is committed without a save; no webhook maps to it.
ReadInv == \A h \in Handlers : Writes(h) =>
    \A c \in Our : <<"link", c>> \notin handler[h].stale /\ (c # Article \/ ~templated) =>
        (handler[h].view[c].ours <=> links[c].ours)

\* What has neither the tick nor a link of the app's own is remembered, whether
\* it is so now or a handler read it so.
FreeInv == ~ticked => \A c \in Our : ~links[c].ours => c \in released
SawInv == \A h \in Handlers : Writes(h) /\ ~handler[h].tick =>
              \A c \in Our : ~handler[h].view[c].ours => c \in released

ContentInd == ContentTypes /\ MarkedInv /\ ReadInv /\ FreeInv /\ SawInv /\ ContentIsOurs

\* A handler that goes on with what it read, told of the links that change hands.
StillReads(h) == /\ Writes(h) /\ handler'[h].view = handler[h].view /\ handler'[h].tick = handler[h].tick
            /\ handler[h].stale \subseteq handler'[h].stale
            /\ \A c \in Our : (c # Article \/ ~templated) /\ links'[c].ours # links[c].ours
                                 => <<"link", c>> \in handler'[h].stale

\* A handler that reads now.
ReadsNow(h) == handler'[h].view = links /\ handler'[h].tick = ticked /\ links' = links

\* No link of the app's own becomes another's without going first.
OwnsKept == \A c \in Our : links[c].ours => links'[c] = NoLink \/ links'[c].ours

\* What a step has to do to keep the content where it is.
LEMMA ContentKeeps ==
  ASSUME ListingInd, ListingInd', ContentInd, Remember, OwnsKept, templated' = templated,
         renamed' \subseteq Our, renamed' \subseteq renamed \cup released,
         \A h \in Handlers : Writes(h)' => StillReads(h) \/ ReadsNow(h)
  PROVE  ContentInd'
<1>0. ContentTypes /\ MarkedInv /\ ReadInv /\ FreeInv /\ SawInv /\ ContentIsOurs
  BY DEF ContentInd
<1>1. /\ marked' = {c \in Our : Linked(links', c) /\ (c \in marked \/ links'[c].ours)}
      /\ released' = released \cup (IF ticked' THEN {} ELSE Our \ marked')
  BY DEF Remember
<1>2. ContentTypes' /\ released \subseteq released'
  BY <1>0, <1>1 DEF ContentTypes
<1>3. MarkedInv'
  <2> SUFFICES ASSUME NEW c \in marked' PROVE links'[c].ours
    BY DEF MarkedInv
  <2>1. c \in Our /\ links'[c] # NoLink /\ (c \in marked \/ links'[c].ours)
    BY <1>1 DEF Linked
  <2> QED BY <1>0, <2>1 DEF MarkedInv, OwnsKept
<1>4. FreeInv'
  BY <1>1, <1>3 DEF FreeInv, MarkedInv
<1>5. ContentIsOurs'
  BY <1>0, <1>2 DEF ContentIsOurs
<1>6. ASSUME NEW h \in Handlers, Writes(h)', NEW c \in Our
      PROVE  /\ <<"link", c>> \notin handler'[h].stale /\ (c # Article \/ ~templated) =>
                    (handler'[h].view[c].ours <=> links'[c].ours)
             /\ ~handler'[h].tick /\ ~handler'[h].view[c].ours => c \in released'
  <2>1. CASE StillReads(h)
    <3>1. /\ Writes(h) /\ handler'[h].view = handler[h].view /\ handler'[h].tick = handler[h].tick
          /\ handler[h].stale \subseteq handler'[h].stale
          /\ (c # Article \/ ~templated) /\ links'[c].ours # links[c].ours
                 => <<"link", c>> \in handler'[h].stale
      BY <2>1 DEF StillReads
    <3>2. ASSUME <<"link", c>> \notin handler'[h].stale, c # Article \/ ~templated
          PROVE  handler'[h].view[c].ours <=> links'[c].ours
      <4>1. links'[c].ours = links[c].ours /\ <<"link", c>> \notin handler[h].stale
        BY <3>1, <3>2
      <4>2. handler[h].view[c].ours <=> links[c].ours
        BY <1>0, <3>1, <3>2, <4>1 DEF ReadInv
      <4> QED BY <3>1, <4>1, <4>2
    <3>3. ASSUME ~handler'[h].tick, ~handler'[h].view[c].ours PROVE c \in released'
      <4>1. ~handler[h].tick /\ ~handler[h].view[c].ours
        BY <3>1, <3>3
      <4> QED BY <1>0, <1>2, <3>1, <4>1 DEF SawInv
    <3> QED BY <3>2, <3>3
  <2>2. CASE ReadsNow(h)
    <3>1. handler'[h].view = links /\ handler'[h].tick = ticked /\ links' = links
      BY <2>2 DEF ReadsNow
    <3>2. ASSUME ~handler'[h].tick, ~handler'[h].view[c].ours PROVE c \in released'
      <4>1. ~ticked /\ ~links[c].ours
        BY <3>1, <3>2
      <4> QED BY <1>0, <1>2, <4>1 DEF FreeInv
    <3> QED BY <3>1, <3>2
  <2> QED BY <1>6, <2>1, <2>2
<1>7. ReadInv'
  <2> SUFFICES ASSUME NEW h \in Handlers, Writes(h)', NEW c \in Our,
                      <<"link", c>> \notin handler'[h].stale, c # Article \/ ~templated
               PROVE  handler'[h].view[c].ours <=> links'[c].ours
    BY DEF ReadInv
  <2> QED BY <1>6
<1>8. SawInv'
  <2> SUFFICES ASSUME NEW h \in Handlers, Writes(h)', ~handler'[h].tick, NEW c \in Our,
                      ~handler'[h].view[c].ours
               PROVE  c \in released'
    BY DEF SawInv
  <2> QED BY <1>6
<1> QED BY <1>2, <1>3, <1>4, <1>5, <1>7, <1>8 DEF ContentInd

\* The steps that leave the links and the handlers alone do, and with them those
\* that write nothing of a link but whether its product was put on sale.
LEMMA ContentSame ==
  ASSUME ListingInd, ListingInd', ContentInd, Remember,
         handler' = handler, renamed' = renamed, templated' = templated,
         \A c \in Our : links'[c].ours = links[c].ours
  PROVE  ContentInd'
<1>1. OwnsKept
  BY DEF OwnsKept
<1>2. \A h \in Handlers : Writes(h)' => StillReads(h)
  BY DEF Writes, StillReads
<1>3. renamed' \subseteq Our /\ renamed' \subseteq renamed \cup released
  BY DEF ContentInd, ContentTypes
<1> QED BY <1>1, <1>2, <1>3, ContentKeeps

\* Those whose documents somebody saves hear of it.
LEMMA OutdatedReads ==
  ASSUME ListingInd, NEW what \in {"item", "link"}, NEW C \in SUBSET Codes, NEW h \in Handlers,
         handler'[h] = Outdated(what, C)[h], Writes(h)',
         \A c \in Our : (c # Article \/ ~templated) /\ links'[c].ours # links[c].ours
                            => what = "link" /\ c \in C
  PROVE  StillReads(h)
<1>1. Writes(h) /\ handler[h] \in Mappings
  BY HandlerIs DEF Outdated, Writes, IdleHandler
<1>2. handler'[h] = [handler[h] EXCEPT !.stale = @ \cup {<<what, c>> : c \in C}]
  BY <1>1 DEF Outdated, Writes
<1>3. /\ handler'[h].view = handler[h].view /\ handler'[h].tick = handler[h].tick
      /\ handler'[h].stale = handler[h].stale \cup {<<what, c>> : c \in C}
  BY <1>1, <1>2 DEF Mappings
<1> QED BY <1>1, <1>3 DEF StillReads

\* A save from a reading that is still true, or by the app, may be made.
MayMark(ours, L, view, C, c) == c \in C => ours \/ (L[c].ours => view[c].ours)
Marks(M, L, C, c) == (L[c].ours => M[c].ours) /\ (c \notin C => M[c].ours = L[c].ours)

\* Whose a link is changes only with a save of it, and such a save leaves the
\* app's own its own.
LEMMA UpsertMarks ==
  ASSUME NEW L \in Ledgers, NEW view \in Ledgers, NEW g \in Gids, NEW V \in SUBSET Variants,
         NEW code \in [V -> Codes], Recognised(view, g, V, code),
         NEW tpl \in {Article, Handle, NoCode}, NEW ours \in BOOLEAN,
         NEW c \in Codes,
         MayMark(ours, L, view, saved_by(L, view, g, V, code), c)
  PROVE  Marks(upsert_link(L, view, g, V, code, tpl, ours), L, saved_by(L, view, g, V, code), c)
<1> DEFINE At(v) == at(L, view, g, v, code[v])
           W(v) == written(L, view, g, v, code[v], tpl, ours)
           T(v) == target(L, view, g, v, code[v])
           From == {target(L, view, g, v, code[v]).row : v \in V}
           w == CHOOSE v \in V : At(v) = c
           M == upsert_link(L, view, g, V, code, tpl, ours)
<1>1. M[c] = IF \E v \in V : At(v) = c THEN [W(w) EXCEPT !.opened = @ \/ code[w] = c]
             ELSE IF c \in From THEN NoLink ELSE L[c]
  BY DEF upsert_link
<1>2. \A v \in V : T(v).row = At(v) /\ T(v).how \in {"save", "settle", "insert"}
                   /\ (T(v).how # "settle" => T(v).row = code[v])
  <2> TAKE v \in V
  <2> QED BY UpsertAt
<1>3. (\E v \in V : At(v) = c) => w \in V /\ At(w) = c
  OBVIOUS
<1>4. CASE ~\E v \in V : At(v) = c
  <2>1. c \notin From
    BY <1>2, <1>4
  <2>2. M[c] = L[c]
    BY <1>1, <1>4, <2>1
  <2> QED BY <2>2 DEF Marks
<1>5. CASE \E v \in V : At(v) = c
  <2>0. w \in V /\ At(w) = c
    BY <1>3, <1>5
  <2>1. W(w) \in Links
    BY <2>0, WrittenIs
  <2>2. M[c] = [W(w) EXCEPT !.opened = @ \/ code[w] = c]
    BY <1>1, <1>5
  <2> DEFINE old == IF T(w).how = "save" THEN view[T(w).row] ELSE IF T(w).how = "settle" THEN L[T(w).row] ELSE NoLink
  <2>3. W(w) = [old EXCEPT !.gid = g, !.variant = w, !.template = tpl, !.ours = @ \/ (ours /\ T(w).how # "settle")]
    BY DEF written
  <2>4. /\ T(w).row = c /\ T(w).how \in {"save", "settle", "insert"}
        /\ (T(w).how # "settle" => c = code[w])
    BY <1>2, <2>0
  <2>5. T(w).how # "settle" => c \in saved_by(L, view, g, V, code)
    BY <2>0, <2>4 DEF saved_by
  <2>6. T(w).how = "insert" => L[c] = NoLink
    <3>1. T(w).how = "insert" => ~Linked(L, code[w])
      BY DEF target
    <3> QED BY <2>4, <3>1 DEF Linked
  <2> HIDE DEF T, At, W, w, M, From
  <2>7. M[c].ours = W(w).ours
    BY <2>1, <2>2 DEF Links
  <2>8. old \in Links
    BY <2>4, NoneIs DEF Ledgers
  <2>9. W(w).ours = (old.ours \/ (ours /\ T(w).how # "settle"))
    <3> HIDE DEF old
    <3> QED BY <2>3, <2>8 DEF Links
  <2>10. ~NoLink.ours
    BY DEF NoLink
  <2> DEFINE C == saved_by(L, view, g, V, code)
  <2>11. L[c].ours \in BOOLEAN /\ view[c].ours \in BOOLEAN
    BY DEF Ledgers, Links
  <2>12. MayMark(ours, L, view, C, c)
    OBVIOUS
  <2> HIDE DEF C
  <2>13. ASSUME T(w).how = "settle" PROVE Marks(M, L, C, c)
    BY <2>4, <2>7, <2>9, <2>11, <2>13 DEF Marks
  <2>14. ASSUME T(w).how = "save" PROVE Marks(M, L, C, c)
    BY <2>4, <2>5, <2>7, <2>9, <2>11, <2>12, <2>14 DEF Marks, MayMark, C
  <2>15. ASSUME T(w).how = "insert" PROVE Marks(M, L, C, c)
    BY <2>4, <2>5, <2>6, <2>7, <2>9, <2>10, <2>11, <2>12, <2>15 DEF Marks, MayMark, C
  <2>16. Marks(M, L, C, c)
    BY <2>4, <2>13, <2>14, <2>15
  <2> QED BY <2>16 DEF M, C
<1> QED BY <1>4, <1>5

\* The drain's steps do.
LEMMA DrainContent ==
  ASSUME ListingInd, ListingInd', ContentInd, Remember, Draining \/ DrainStops
  PROVE  ContentInd'
<1>0. ListingTypes /\ DrainInv
  BY DEF ListingInd
<1>1. ASSUME NEW c \in Our, PushUpdate(c) PROVE ContentInd'
  <2>1. handler' = handler /\ renamed' = renamed /\ templated' = templated
    BY <1>1 DEF PushUpdate
  <2>2. \A x \in Codes : links'[x] = links[x] \/ links'[x] = [links[x] EXCEPT !.decided = TRUE]
    BY <1>1 DEF PushUpdate
  <2>3. \A x \in Our : links[x] \in Links /\ x \in Codes
    BY <1>0, CodesAre DEF ListingTypes, Ledgers
  <2>4. \A x \in Our : links'[x].ours = links[x].ours
    BY <2>2, <2>3 DEF Links
  <2> QED BY <2>1, <2>4, ContentSame
<1>2. ASSUME UNCHANGED <<handler, renamed, templated, links>> PROVE ContentInd'
  BY <1>2, ContentSame
<1>3. ASSUME NEW c \in Our, AttachVariant(c) \/ PushNothing(c) \/ RowRefused(c) PROVE ContentInd'
  BY <1>2, <1>3 DEF AttachVariant, PushNothing, RowRefused
<1>4. CASE CreateProduct \/ create_variants \/ fill_variant \/ ProductGone \/ DrainStops
  BY <1>2, <1>4 DEF CreateProduct, create_variants, fill_variant, Changed, ProductGone, RowFails, DrainStops
<1>5. CASE link_template
  <2>1. /\ drain.pc = "template" /\ handler' = handler /\ renamed' = renamed /\ templated' = templated
        /\ links' = [links EXCEPT ![Article] = [@ EXCEPT !.gid = drain.gid, !.ours = TRUE]]
    BY <1>5 DEF link_template
  <2>2. templated
    BY <1>0, <2>1 DEF DrainInv, Draws
  <2>3. links[Article] \in Links /\ Article \in Codes /\ links \in [Codes -> Links]
    BY <1>0, CodesAre DEF ListingTypes, Ledgers
  <2>4. links'[Article].ours /\ \A x \in Our : x # Article => links'[x] = links[x]
    BY <2>1, <2>3, CodesAre DEF Links
  <2>5. OwnsKept
    BY <2>4 DEF OwnsKept
  <2>6. \A h \in Handlers : Writes(h)' => StillReads(h)
    BY <2>1, <2>2, <2>4 DEF Writes, StillReads
  <2>7. renamed' \subseteq Our /\ renamed' \subseteq renamed \cup released
    BY <2>1 DEF ContentInd, ContentTypes
  <2> QED BY <2>1, <2>5, <2>6, <2>7, ContentKeeps
<1>6. ASSUME drain.pc = "link", LinkProduct(Join) PROVE ContentInd'
  <2> DEFINE g == drain.gid
             live == drain.new /\ shop[g].status = "ACTIVE"
             M == Join.joined
  <2>1. /\ links' = [c \in Codes |-> IF live /\ M[c].gid = g THEN [M[c] EXCEPT !.decided = TRUE] ELSE M[c]]
        /\ handler' = Outdated("link", Join.saved)
        /\ templated' = templated /\ renamed' = renamed
    BY <1>6 DEF LinkProduct
  <2>2. /\ g \in Gids /\ drain.view \in Ledgers /\ links \in Ledgers
        /\ JoinV \in SUBSET Variants /\ JoinCode \in [JoinV -> Codes]
        /\ JoinTpl \in {Article, Handle, NoCode} /\ Recognised(drain.view, g, JoinV, JoinCode)
    BY <1>6, JoinIs
  <2>3. /\ M = upsert_link(links, drain.view, g, JoinV, JoinCode, JoinTpl, TRUE)
        /\ Join.saved = saved_by(links, drain.view, g, JoinV, JoinCode)
    BY <1>6, JoinHas
  <2>4. M \in Ledgers /\ Join.saved \in SUBSET Codes
    <3> HIDE DEF g, M
    <3>1. TRUE \in BOOLEAN
      OBVIOUS
    <3>2. M \in Ledgers
      BY <2>2, <2>3, <3>1, UpsertIs
    <3>3. Join.saved \in SUBSET Codes
      BY <2>2, <2>3, SavedIsCodes
    <3> QED BY <3>2, <3>3
  <2>5. \A c \in Codes : (links[c].ours => M[c].ours) /\ (c \notin Join.saved => M[c].ours = links[c].ours)
    <3> TAKE c \in Codes
    <3> HIDE DEF g, M
    <3>1. TRUE \in BOOLEAN /\ MayMark(TRUE, links, drain.view, Join.saved, c)
      BY DEF MayMark
    <3>2. Marks(M, links, Join.saved, c)
      BY <2>2, <2>3, <3>1, UpsertMarks
    <3> QED BY <3>2 DEF Marks
  <2> HIDE DEF live, M
  <2>6. \A c \in Codes : links'[c].ours = M[c].ours
    <3> TAKE c \in Codes
    <3>1. M[c] \in Links
      BY <2>4 DEF Ledgers
    <3> QED BY <2>1, <3>1 DEF Links
  <2>7. OwnsKept
    BY <2>5, <2>6, CodesAre DEF OwnsKept
  <2>8. \A h \in Handlers : Writes(h)' => StillReads(h)
    <3>1. \A c \in Our : links'[c].ours # links[c].ours => c \in Join.saved
      BY <2>5, <2>6, CodesAre
    <3> TAKE h \in Handlers
    <3> QED BY <2>1, <2>4, <3>1, OutdatedReads
  <2>9. renamed' \subseteq Our /\ renamed' \subseteq renamed \cup released
    BY <2>1 DEF ContentInd, ContentTypes
  <2> QED BY <2>1, <2>7, <2>8, <2>9, ContentKeeps
<1>7. CASE LinkStep
  <2>1. drain.pc = "link" /\ (LinkProduct(Join) \/ RowFails)
    BY <1>7 DEF LinkStep
  <2> QED BY <1>2, <1>6, <2>1 DEF RowFails
<1> QED BY <1>1, <1>3, <1>4, <1>5, <1>7 DEF Draining

\* A webhook that maps its product does: what it takes over it read as free.
LEMMA WriteContent ==
  ASSUME ListingInd, ListingInd', ContentInd, Remember, NEW h \in Handlers, Writes(h),
         NEW found \in Founds(h), HookWrite(h, found, Mapping(h, found))
  PROVE  ContentInd'
<1> DEFINE m == Mapping(h, found)
           g == handler[h].gid
           view == handler[h].view
           M == upsert_link(links, view, g, MapV(h), MapCode(h), MapTpl(found), FALSE)
           Saved == saved_by(links, view, g, MapV(h), MapCode(h))
<1>0. ListingTypes /\ handler[h] \in Mappings /\ LedgerInv
  BY HandlerIs DEF ListingInd
<1>1. m.g = g /\ m.joined = M /\ m.saved = Saved
  BY MapHas
<1>2. /\ renamed' = renamed \cup {c \in m.touched \cap Our : ~erpnext_owns_content(view, handler[h].tick, c)}
      /\ links' = [c \in Codes |-> IF M[c].gid = g THEN [M[c] EXCEPT !.digest = product_digest(m.p)] ELSE M[c]]
      /\ handler' = [Outdated("link", Saved) EXCEPT ![h] = IdleHandler]
      /\ templated' = templated
      /\ \A c \in Saved : <<"link", c>> \notin handler[h].stale
  <2> HIDE DEF m, g, M, Saved
  <2> QED BY <1>1 DEF HookWrite, Written, Mismatch, m, view
<1> HIDE DEF m
<1>3. /\ g \in Gids /\ view \in Ledgers /\ links \in Ledgers /\ MapV(h) \in SUBSET Variants
      /\ MapCode(h) \in [MapV(h) -> Codes] /\ Recognised(view, g, MapV(h), MapCode(h))
      /\ MapTpl(found) \in {Article, Handle, NoCode}
      /\ Coded(MapV(h), MapCode(h), items \cup MapTouched(h, found), templated)
  BY MapIs, RangeIs
<1>4. M \in Ledgers /\ Saved \in SUBSET Codes
  <2>1. FALSE \in BOOLEAN
    OBVIOUS
  <2> QED BY <1>3, <2>1, UpsertIs, SavedIsCodes
<1>5. \A c \in Saved : c # Article \/ ~templated
  <2> SUFFICES ASSUME NEW c \in Saved, templated PROVE c # Article
    OBVIOUS
  <2>1. PICK v \in MapV(h) : c = MapCode(h)[v]
    BY <1>3, SavedIs
  <2> QED BY <1>3, <2>1, CodesApart DEF Coded, Variants
<1>6. \A c \in Saved \cap Our : links[c].ours => view[c].ours
  BY <1>2, <1>5 DEF ContentInd, ReadInv
<1>7. \A c \in Our : (links[c].ours => M[c].ours) /\ (c \notin Saved => M[c].ours = links[c].ours)
  <2> TAKE c \in Our
  <2>1. FALSE \in BOOLEAN /\ c \in Codes
    BY CodesAre
  <2>2. MayMark(FALSE, links, view, Saved, c)
    BY <1>6 DEF MayMark
  <2>3. Marks(M, links, Saved, c)
    BY <1>3, <2>1, <2>2, UpsertMarks
  <2> QED BY <2>3 DEF Marks
<1> HIDE DEF g, view, M, Saved
<1>8. \A c \in Our : links'[c].ours = M[c].ours
  <2> TAKE c \in Our
  <2>1. M[c] \in Links /\ c \in Codes
    BY <1>4, CodesAre DEF Ledgers
  <2> QED BY <1>2, <2>1 DEF Links
<1>9. OwnsKept
  BY <1>7, <1>8 DEF OwnsKept
<1>10. ASSUME NEW k \in Handlers, Writes(k)' PROVE StillReads(k)
  <2>1. k # h
    BY <1>2, <1>10 DEF Outdated, Writes, IdleHandler
  <2>2. handler'[k] = Outdated("link", Saved)[k]
    BY <1>2, <2>1 DEF Outdated
  <2>3. \A c \in Our : links'[c].ours # links[c].ours => c \in Saved
    BY <1>7, <1>8
  <2> QED BY <1>4, <1>10, <2>2, <2>3, OutdatedReads
<1>11. renamed' \subseteq Our /\ renamed' \subseteq renamed \cup released
  <2>1. \A c \in Our : ~erpnext_owns_content(view, handler[h].tick, c) => c \in released
    BY DEF erpnext_owns_content, ContentInd, SawInv, view
  <2> QED BY <1>2, <2>1 DEF ContentInd, ContentTypes
<1> QED BY <1>2, <1>9, <1>10, <1>11, ContentKeeps

\* A webhook that fetches its product, or gives up, does.
LEMMA HookContent ==
  ASSUME ListingInd, ListingInd', ContentInd, Remember, NEW h \in Handlers,
         links' = links, renamed' = renamed, templated' = templated, ticked' = ticked,
         NEW n, handler' = [handler EXCEPT ![h] = n],
         n = handler[h] \/ n = IdleHandler \/ (n.view = links /\ n.tick = ticked)
  PROVE  ContentInd'
<1>1. OwnsKept
  BY DEF OwnsKept
<1>2. renamed' \subseteq Our /\ renamed' \subseteq renamed \cup released
  BY DEF ContentInd, ContentTypes
<1>3. ASSUME NEW k \in Handlers, Writes(k)' PROVE StillReads(k) \/ ReadsNow(k)
  <2>1. handler'[k] = IF k = h THEN n ELSE handler[k]
    BY DEF ListingInd, ListingTypes
  <2>2. CASE handler'[k] = handler[k]
    BY <1>3, <2>2 DEF Writes, StillReads
  <2>3. CASE handler'[k] = IdleHandler
    BY <1>3, <2>3 DEF Writes, IdleHandler
  <2>4. CASE k = h /\ n.view = links /\ n.tick = ticked
    BY <2>1, <2>4 DEF ReadsNow
  <2> QED BY <2>1, <2>2, <2>3, <2>4
<1> QED BY <1>1, <1>2, <1>3, ContentKeeps

\* So do the webhooks' other steps.
LEMMA HooksContent ==
  ASSUME ListingInd, ListingInd', ContentInd, Remember, Hooks
  PROVE  ContentInd'
<1>0. ListingTypes
  BY DEF ListingInd
<1>1. ASSUME NEW h \in Handlers, NEW g \in Gids, HookFetch(h, g) PROVE ContentInd'
  <2> DEFINE m == [IdleHandler EXCEPT !.pc = "write", !.gid = g, !.seen = shop[g],
                      !.view = links, !.off = disabled, !.tick = ticked, !.tries = 1]
  <2>1. /\ links' = links /\ renamed' = renamed /\ templated' = templated /\ ticked' = ticked
        /\ handler' = handler \/ handler' = [handler EXCEPT ![h] = m]
    BY <1>1 DEF HookFetch
  <2>2. m.view = links /\ m.tick = ticked
    BY DEF IdleHandler
  <2>3. handler = [handler EXCEPT ![h] = handler[h]]
    BY <1>0 DEF ListingTypes
  <2> HIDE DEF m
  <2>4. PICK n : handler' = [handler EXCEPT ![h] = n] /\ (n = handler[h] \/ n = m)
    BY <2>1, <2>3
  <2>5. n = handler[h] \/ n = IdleHandler \/ (n.view = links /\ n.tick = ticked)
    BY <2>2, <2>4
  <2> QED BY <2>1, <2>4, <2>5, HookContent
<1>2. ASSUME NEW h \in Handlers, HookMaps(h) PROVE ContentInd'
  <2>1. PICK found \in Founds(h) : \/ HookWrite(h, found, Mapping(h, found))
                                   \/ HookRefused(h, found, Mapping(h, found))
                                   \/ HookRetry(h, Mapping(h, found))
    BY <1>2 DEF HookMaps
  <2>2. Writes(h) /\ handler[h] \in Mappings
    BY <1>2, HandlerIs DEF HookMaps, Writes
  <2>3. CASE HookWrite(h, found, Mapping(h, found))
    BY <2>2, <2>3, WriteContent
  <2>4. CASE HookRefused(h, found, Mapping(h, found))
    <3>1. /\ links' = links /\ renamed' = renamed /\ templated' = templated /\ ticked' = ticked
          /\ handler' = [handler EXCEPT ![h] = IdleHandler]
      BY <2>4 DEF HookRefused
    <3> QED BY <3>1, HookContent
  <2>5. CASE HookRetry(h, Mapping(h, found))
    <3> DEFINE n == [handler[h] EXCEPT !.view = links, !.off = disabled, !.tick = ticked, !.stale = {},
                                   !.tries = handler[h].tries + 1]
    <3>1. /\ links' = links /\ renamed' = renamed /\ templated' = templated /\ ticked' = ticked
          /\ handler' = [handler EXCEPT ![h] = n] \/ handler' = [handler EXCEPT ![h] = IdleHandler]
      BY <1>0, <2>5 DEF HookRetry, ListingTypes
    <3>2. n.view = links /\ n.tick = ticked
      BY <2>2 DEF Mappings
    <3> HIDE DEF n
    <3>3. CASE handler' = [handler EXCEPT ![h] = n]
      BY <3>1, <3>2, <3>3, HookContent
    <3>4. CASE handler' = [handler EXCEPT ![h] = IdleHandler]
      BY <3>1, <3>4, HookContent
    <3> QED BY <3>1, <3>3, <3>4
  <2> QED BY <2>1, <2>3, <2>4, <2>5
<1>3. ASSUME NEW g \in Gids, on_product_delete(g) PROVE ContentInd'
  <2> DEFINE gone == {c \in Codes : links[c].gid = g}
  <2>1. /\ links' = [c \in Codes |-> IF c \in gone THEN NoLink ELSE links[c]]
        /\ handler' = Outdated("link", gone)
        /\ renamed' = renamed /\ templated' = templated
    BY <1>3 DEF on_product_delete
  <2>2. \A c \in Our : links'[c] = IF c \in gone THEN NoLink ELSE links[c]
    BY <2>1, CodesAre
  <2>3. gone \in SUBSET Codes
    OBVIOUS
  <2> HIDE DEF gone
  <2>4. OwnsKept
    BY <2>2 DEF OwnsKept
  <2>5. \A c \in Our : links'[c].ours # links[c].ours => c \in gone
    BY <2>2
  <2>6. \A h \in Handlers : Writes(h)' => StillReads(h)
    <3> TAKE h \in Handlers
    <3> QED BY <2>1, <2>3, <2>5, OutdatedReads
  <2>7. renamed' \subseteq Our /\ renamed' \subseteq renamed \cup released
    BY <2>1 DEF ContentInd, ContentTypes
  <2> QED BY <2>1, <2>4, <2>6, <2>7, ContentKeeps
<1> QED BY <1>1, <1>2, <1>3 DEF Hooks

\* And a user's save, which the handlers that run hear of.
LEMMA SaveContent ==
  ASSUME ListingInd, ListingInd', ContentInd, Remember,
         NEW c \in Our, NEW off, NEW tick, SaveItem(c, off, tick)
  PROVE  ContentInd'
<1>1. /\ links' = links /\ renamed' = renamed /\ templated' = templated
      /\ handler' = Outdated("item", {c})
  BY DEF SaveItem
<1>2. {c} \in SUBSET Codes
  BY CodesAre
<1>3. OwnsKept
  BY <1>1 DEF OwnsKept
<1>4. \A h \in Handlers : Writes(h)' => StillReads(h)
  <2> TAKE h \in Handlers
  <2>1. handler'[h] = Outdated("item", {c})[h]
    BY <1>1
  <2>2. \A x \in Our : (x # Article \/ ~templated) /\ links'[x].ours # links[x].ours
                           => "item" = "link" /\ x \in {c}
    BY <1>1
  <2> QED BY <1>2, <2>1, <2>2, OutdatedReads
<1>5. renamed' \subseteq Our /\ renamed' \subseteq renamed \cup released
  BY <1>1 DEF ContentInd, ContentTypes
<1> QED BY <1>1, <1>3, <1>4, <1>5, ContentKeeps

\* Nobody's content is another's at the start.
LEMMA ContentStarts == ListingInit => ContentInd
<1> SUFFICES ASSUME ListingInit PROVE ContentInd
  OBVIOUS
<1>1. /\ ticked = TRUE /\ renamed = {} /\ marked = {} /\ released = {}
      /\ \A h \in Handlers : ~Writes(h)
  BY DEF ListingInit, Writes, IdleHandler
<1> QED BY <1>1 DEF ContentInd, ContentTypes, MarkedInv, ReadInv, FreeInv, SawInv, ContentIsOurs

\* Every step keeps it.
LEMMA ContentStep == ListingInd /\ ContentInd /\ [ListingNext]_listingVars => ContentInd'
<1> SUFFICES ASSUME ListingInd, ContentInd, [ListingNext]_listingVars
             PROVE  ContentInd'
  OBVIOUS
<1>0. ListingInd'
  BY ListingStep
<1>1. CASE ListingNext
  <2>0. ListingSteps /\ Remember
    BY <1>1 DEF ListingNext
  <2>1. CASE Draining \/ DrainStops
    BY <1>0, <2>0, <2>1, DrainContent
  <2>2. CASE Hooks
    BY <1>0, <2>0, <2>2, HooksContent
  <2>3. CASE \E c \in Our, off, tick \in BOOLEAN : SaveItem(c, off, tick)
    BY <1>0, <2>0, <2>3, SaveContent
  <2>4. CASE \E g \in Gids : EditOnShopify(g)
    <3>1. handler' = handler /\ renamed' = renamed /\ templated' = templated /\ links' = links
      BY <2>4 DEF EditOnShopify
    <3> QED BY <1>0, <2>0, <3>1, ContentSame
  <2> QED BY <2>0, <2>1, <2>2, <2>3, <2>4 DEF ListingSteps
<1>2. CASE UNCHANGED listingVars
  <2>1. /\ templated' = templated /\ ticked' = ticked /\ renamed' = renamed /\ marked' = marked
        /\ released' = released /\ links' = links /\ handler' = handler
    BY <1>2 DEF listingVars
  <2> QED BY <2>1 DEF ContentInd, ContentTypes, MarkedInv, ReadInv, FreeInv, SawInv, ContentIsOurs, Writes
<1> QED BY <1>1, <1>2

------------------------------------------------------------------------------
(* Theorems.                                                                *)

\* outbound/product.py's _create_product and the row written once it is linked:
\* one Item has one live product on Shopify, unless its publish was cut short
\* before the link, productCreate was sent again after a lost reply
\* (ShopifyClient.execute), or its echo was imported as a twin.
THEOREM ListedOnce == ListingSpec => []OneListing
<1>1. ListingInd => OneListing
  BY ListingIs
<1> QED BY <1>1, ListingStarts, ListingStep, PTL DEF ListingSpec

\* outbound/product.py's push_initial_state, mapping.py's upsert_link: whoever writes an Item's link
\* first, the drain or the webhook that echoes it, its stock was queued by then.
THEOREM StockFollowsLink == ListingSpec => []OpeningPushQueued
<1>1. ListingInd => OpeningPushQueued
  BY ListingIs
<1> QED BY <1>1, ListingStarts, ListingStep, PTL DEF ListingSpec

\* catalogue/mapping.py's erpnext_owns_content and upsert_link: a webhook takes the
\* name and description of an Item only if at some moment the Item had neither
\* the tick nor a link that was the app's own, however the webhooks, the drain
\* and the users' saves interleave.
THEOREM ContentStaysOurs == ListingSpec => []ContentIsOurs
<1>1. ContentInd => ContentIsOurs
  BY DEF ContentInd
<1> QED BY <1>1, ListingStarts, ListingStep, ContentStarts, ContentStep, PTL DEF ListingSpec

\* The states of a listing are of the shape the code's documents have.
THEOREM ListingIsTyped == ListingSpec => []ListingTypeOK
<1>1. ListingInd /\ ContentInd => ListingTypeOK
  BY ListingIs DEF ContentInd
<1> QED BY <1>1, ListingStarts, ListingStep, ContentStarts, ContentStep, PTL DEF ListingSpec

\* mapping.py's _template_already_linked and _refuse_to_twin: an import invents
\* an Item only for a product it fetched before its variants carried a SKU.
THEOREM TwinsComeEarly == ListingSpec => NoTwinWithSkus
<1>1. ListingInd /\ [ListingNext]_listingVars =>
        [\A c \in {Handle, Ghost} : c \notin items /\ c \in items' =>
           \E h \in Handlers : /\ handler[h].pc = "write" /\ handler'[h].pc = "idle"
                               /\ handler[h].seen.variants = {Ghost} /\ ~handler[h].seen.filled]_listingVars
  BY TwinStep DEF Invents
<1> QED BY <1>1, ListingStarts, ListingStep, PTL DEF ListingSpec, NoTwinWithSkus
==============================================================================
