------------------------------ MODULE Customers ------------------------------
(***************************************************************************)
(* Who an order is booked for: inbound/customer.py joins a Shopify account *)
(* (its GID) with an ERPNext Customer, found by the account, by mobile or  *)
(* email, or made; a later profile may move the account onto a customer    *)
(* the shop has known for longer.                                          *)
(*                                                                         *)
(* customers/* and orders/create handlers run on any worker, each on the   *)
(* snapshot its transaction opened with, and commit at their end; a failed *)
(* one is rolled back first (mark_error).  Stores share the customers, so  *)
(* one person may have an account with each.                               *)
(***************************************************************************)
EXTENDS Naturals, FiniteSets

CONSTANTS
    Accounts,     \* Shopify customers
    People,       \* ERPNext Customers, numbered in the order they are made
    Mobiles, Emails,
    MAX_CUSTOMERS_PER_IDENTIFIER,
    Clerks,       \* workers that run these handlers
    MaxDeeds,     \* bound: what shoppers and staff do
    NoAccount, NoDetail

ASSUME CustomersAssumption ==
    /\ People \subseteq Nat \ {0} /\ 1 \in People
    /\ NoAccount \notin Accounts /\ NoDetail \notin Mobiles \cup Emails
    /\ MAX_CUSTOMERS_PER_IDENTIFIER \in Nat /\ MaxDeeds \in Nat

VARIABLES
    match_existing,  \* Store.match_existing_customers
    customers,       \* `reach` is what the contacts of a customer hold; `disabled`
                     \* says by whom, for the properties
    profile,         \* Shopify: an account's mobile and email
    letters,         \* webhooks to be handled
    desk,            \* the handlers at work
    met,             \* accounts whose handlers ran at once (not in the code)
    deeds

customersVars == <<match_existing, customers, profile, letters, desk, met, deeds>>

NoCustomer == [made |-> FALSE, gid |-> NoAccount, disabled |-> "no", reach |-> {}, booked |-> FALSE]
Blank == [mobile |-> NoDetail, email |-> NoDetail]
AtRest == [pc |-> "idle", about |-> {}]

\* One customer of the counter, with the details the staff asked for.
CustomersInit ==
    /\ match_existing \in BOOLEAN
    /\ \E details \in SUBSET (Mobiles \cup Emails) :
          customers = [c \in People |-> IF c = 1
                          THEN [NoCustomer EXCEPT !.made = TRUE, !.reach = details, !.booked = TRUE]
                          ELSE NoCustomer]
    /\ profile = [a \in Accounts |-> Blank]
    /\ letters = {} /\ desk = [w \in Clerks |-> AtRest]
    /\ met = {} /\ deeds = 0

Deeds == deeds < MaxDeeds /\ deeds' = deeds + 1

\* The shopper signs up or edits the profile; the webhook carries it.
EditProfile(a, p) ==
    /\ Deeds
    /\ p # profile[a]
    /\ profile' = [profile EXCEPT ![a] = p]
    /\ letters' = letters \cup {[topic |-> "customer", account |-> a, profile |-> p, nr |-> deeds]}
    /\ UNCHANGED <<match_existing, customers, desk, met>>

\* The order is fetched when it is handled, the profile with it.
PlaceOrder(a) ==
    /\ Deeds
    /\ letters' = letters \cup {[topic |-> "order", account |-> a, profile |-> Blank, nr |-> deeds]}
    /\ UNCHANGED <<match_existing, customers, profile, desk, met>>

\* Staff disable a customer; a handler that has loaded it cannot save it.
StaffDisables(c) ==
    /\ Deeds
    /\ customers[c].made /\ customers[c].disabled = "no"
    /\ customers' = [customers EXCEPT ![c].disabled = "staff"]
    /\ desk' = [w \in Clerks |-> IF desk[w] = AtRest THEN AtRest
                                 ELSE [desk[w] EXCEPT !.saved = @ \cup {<<"customer", c>>}]]
    /\ UNCHANGED <<match_existing, profile, letters, met>>

-----------------------------------------------------------------------------
(* Matching, in a view of the customers: a set with at most one.            *)

details_of(p) == {p.mobile, p.email} \ {NoDetail}

\* A detail that many have is a placeholder; the oldest wins; who is disabled
\* counts for nothing.
find_customer_by(view, detail) ==
    LET on == {c \in People : view[c].made /\ view[c].disabled = "no" /\ detail \in view[c].reach}
    IN  IF Cardinality(on) > MAX_CUSTOMERS_PER_IDENTIFIER THEN {}
        ELSE {c \in on : \A d \in on : c <= d}

_match_existing(view, p) ==
    LET by_mobile == find_customer_by(view, p.mobile)
    IN  IF by_mobile # {} THEN by_mobile ELSE find_customer_by(view, p.email)

\* For the customer that has the account: somebody else with the same details.
customers_matching(view, p, created) ==
    LET by_mobile == find_customer_by(view, p.mobile) \ {created}
    IN  IF by_mobile # {} THEN by_mobile ELSE find_customer_by(view, p.email) \ {created}

holders(view, a) == {c \in People : view[c].gid = a}

-----------------------------------------------------------------------------
(* A handler.                                                               *)

begin_handler(w, x) ==
    /\ desk[w] = AtRest
    /\ letters' = letters \ {x}
    /\ desk' = [desk EXCEPT ![w] =
          [pc |-> "at work", letter |-> x, view |-> customers, saved |-> {}, about |-> {x.account},
           profile |-> IF x.topic = "order" THEN profile[x.account] ELSE x.profile]]
    /\ met' = met \cup {{x.account} \cup desk[v].about : v \in {v \in Clerks : desk[v] # AtRest}}
    /\ UNCHANGED <<match_existing, customers, profile, deeds>>

\* What others are told: saving a document they loaded before will fail.
Leaves(w, saved) ==
    desk' = [v \in Clerks |-> IF v = w \/ desk[v] = AtRest THEN AtRest
                              ELSE [desk[v] EXCEPT !.saved = @ \cup saved]]

\* enrich_contact appends what the contact lacks; one saved since the snapshot
\* cannot be saved.
lacks(view, c, p) == details_of(p) \ view[c].reach
contact_moved(w, c) ==
    /\ <<"contact", c>> \in desk[w].saved
    /\ desk[w].view[c].reach # {} /\ lacks(desk[w].view, c, desk[w].profile) # {}

\* resolve_customer: by account, else by detail, which stamps the account on
\* the customer whatever account it had, else a new one.
resolve_customer(w) ==
    LET a == desk[w].letter.account
        view == desk[w].view
        matched == IF match_existing THEN _match_existing(view, desk[w].profile) ELSE {}
        new == {c \in People : ~customers[c].made /\ \A d \in People : ~customers[d].made => c <= d}
        stamped(c) == [customers[c] EXCEPT !.made = TRUE, !.gid = a,
                                           !.reach = @ \cup details_of(desk[w].profile)]
    IN  IF holders(view, a) # {} THEN {<<c, customers[c]>> : c \in holders(view, a)}
        ELSE IF matched # {} THEN {<<c, stamped(c)>> : c \in matched}
        ELSE {<<c, stamped(c)>> : c \in new}

touched(w, c) ==
    IF c \in holders(desk[w].view, desk[w].letter.account) THEN {}
    ELSE IF lacks(desk[w].view, c, desk[w].profile) = {} THEN {} ELSE {<<"contact", c>>}

Conflicts(w, c) == touched(w, c) # {} /\ contact_moved(w, c)

\* orders/create books the order for the customer it resolves, unless the
\* snapshot has that one disabled.
book_order(w) ==
    /\ desk[w] # AtRest /\ desk[w].letter.topic = "order"
    /\ \E r \in resolve_customer(w) :
          /\ ~Conflicts(w, r[1]) /\ desk[w].view[r[1]].disabled = "no"
          /\ customers' = [customers EXCEPT ![r[1]] = [r[2] EXCEPT !.booked = TRUE]]
          /\ Leaves(w, touched(w, r[1]))
    /\ UNCHANGED <<match_existing, profile, letters, met, deeds>>

\* customers/* of an account nobody has.
create_customer(w) ==
    /\ desk[w] # AtRest /\ desk[w].letter.topic = "customer"
    /\ holders(desk[w].view, desk[w].letter.account) = {}
    /\ \E r \in resolve_customer(w) :
          /\ ~Conflicts(w, r[1])
          /\ customers' = [customers EXCEPT ![r[1]] = r[2]]
          /\ Leaves(w, touched(w, r[1]))
    /\ UNCHANGED <<match_existing, profile, letters, met, deeds>>

has_transactions(view, c) == view[c].booked

\* Variant: whether anything is booked is not asked.
claim_busy(view, created, p) ==
    {t \in customers_matching(view, p, created) : view[t].gid = NoAccount}

\* claim_existing_customer: only an empty record is given up, and only for one
\* without an account.
claim_existing_customer(view, created, p) ==
    IF has_transactions(view, created) THEN {}
    ELSE {t \in customers_matching(view, p, created) : view[t].gid = NoAccount}

\* customers/* of an account somebody has: the document is saved, every field
\* of it, the contact enriched, and the account moved on if there is a claim.
enriched(w, c) == [desk[w].view EXCEPT ![c].reach = @ \cup details_of(desk[w].profile)]
target_of(w, c) == claim_existing_customer(enriched(w, c), c, desk[w].profile)

save_fails(w, c) ==
    \/ <<"customer", c>> \in desk[w].saved
    \/ \E d \in {c} \cup target_of(w, c) : contact_moved(w, d)

update_customer(w) ==
    /\ desk[w] # AtRest /\ desk[w].letter.topic = "customer"
    /\ \E c \in holders(desk[w].view, desk[w].letter.account) :
          LET view == desk[w].view
              target == target_of(w, c)
              add == details_of(desk[w].profile)
              row == [customers[c] EXCEPT !.gid = view[c].gid, !.disabled = view[c].disabled,
                                          !.reach = @ \cup add]
              given_up == [row EXCEPT !.gid = NoAccount, !.disabled = "claim"]
              claimed(d) == [customers[d] EXCEPT !.gid = desk[w].letter.account,
                                                 !.reach = @ \cup add]
          IN  /\ ~save_fails(w, c)
              /\ customers' = [d \in People |->
                    IF d \in target THEN claimed(d)
                    ELSE IF d # c THEN customers[d]
                    ELSE IF target = {} THEN row ELSE given_up]
              /\ Leaves(w, {<<"customer", c>>} \cup
                         {<<"contact", d>> : d \in {d \in {c} \cup target :
                                                     ~(add \subseteq view[d].reach)}})
    /\ UNCHANGED <<match_existing, profile, letters, met, deeds>>

\* A document was saved under the handler: the event fails, and comes again.
handler_fails(w) ==
    /\ desk[w] # AtRest
    /\ LET held == holders(desk[w].view, desk[w].letter.account)
       IN  IF desk[w].letter.topic = "customer" /\ held # {}
           THEN \E c \in held : save_fails(w, c)
           ELSE \E r \in resolve_customer(w) : Conflicts(w, r[1])
    /\ letters' = letters \cup {desk[w].letter}
    /\ desk' = [desk EXCEPT ![w] = AtRest]
    /\ UNCHANGED <<match_existing, customers, profile, met, deeds>>

\* The order's customer is disabled: ERPNext refuses it until a person helps.
order_refused(w) ==
    /\ desk[w] # AtRest /\ desk[w].letter.topic = "order"
    /\ \E r \in resolve_customer(w) : desk[w].view[r[1]].disabled # "no"
    /\ desk' = [desk EXCEPT ![w] = AtRest]
    /\ UNCHANGED <<match_existing, customers, profile, letters, met, deeds>>

CustomersNext ==
    \/ \E a \in Accounts :
          \/ PlaceOrder(a)
          \/ \E m \in Mobiles \cup {NoDetail}, e \in Emails \cup {NoDetail} :
                EditProfile(a, [mobile |-> m, email |-> e])
    \/ \E c \in People : StaffDisables(c)
    \/ \E w \in Clerks :
          \/ \E x \in letters : begin_handler(w, x)
          \/ book_order(w) \/ create_customer(w) \/ update_customer(w)
          \/ handler_fails(w) \/ order_refused(w)

CustomersSpec == CustomersInit /\ [][CustomersNext]_customersVars

-----------------------------------------------------------------------------

CustomersTypeOK ==
    /\ match_existing \in BOOLEAN
    /\ \A c \in People : /\ customers[c].gid \in Accounts \cup {NoAccount}
                         /\ customers[c].disabled \in {"no", "staff", "claim"}
                         /\ customers[c].reach \subseteq Mobiles \cup Emails
                         /\ ~customers[c].made => customers[c] = NoCustomer
    /\ \A w \in Clerks : desk[w].pc \in {"idle", "at work"} /\ desk[w].about \subseteq Accounts
    /\ met \subseteq SUBSET Accounts /\ deeds \in 0..MaxDeeds

\* customer.py:3: an account is on one customer only, however it is matched,
\* moved and overwritten by handlers of other accounts that run beside -- unless
\* two handlers of the account itself ran at once: the column has no unique
\* index.  And what a claim gives up never has anything booked against it,
\* which takes that no other handler runs beside the claim.
AccountsMoveWhole ==
    /\ \A a \in Accounts : {a} \notin met => Cardinality(holders(customers, a)) <= 1
    /\ met = {} => \A c \in People : ~(customers[c].disabled = "claim" /\ customers[c].booked)
=============================================================================
