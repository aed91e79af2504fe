---------------------------- MODULE InboundProofs ----------------------------
(***************************************************************************)
(* What the imports keep for every instance: customers and their accounts, *)
(* the products of a bulk export, and the subscriptions that webhooks come *)
(* through.                                                                *)
(***************************************************************************)
EXTENDS Customers, BulkImport, Registration, SetFacts

------------------------------------------------------------------------------
(* Customers.                                                                 *)

Details == Mobiles \cup Emails
Profiles == [mobile : Mobiles \cup {NoDetail}, email : Emails \cup {NoDetail}]
Entries == [made : BOOLEAN, gid : Accounts \cup {NoAccount}, disabled : {"no", "staff", "claim"},
            reach : SUBSET Details, booked : BOOLEAN]
Letters == [topic : {"customer", "order"}, account : Accounts, profile : Profiles, nr : Nat]
Docs == {"customer", "contact"} \X People
AtWorks == [pc : {"at work"}, letter : Letters, view : [People -> Entries], saved : SUBSET Docs,
            about : SUBSET Accounts, profile : Profiles]

AtWork(w) == desk[w] # AtRest
Account(w) == desk[w].letter.account

\* A view of the customers: who has not been made is nobody.
Views == {v \in [People -> Entries] : \A c \in People : ~v[c].made => v[c] = NoCustomer}

CustomersTypes ==
    /\ match_existing \in BOOLEAN
    /\ customers \in Views
    /\ profile \in [Accounts -> Profiles]
    /\ letters \in SUBSET Letters
    /\ desk \in [Clerks -> {AtRest} \cup AtWorks]
    /\ met \in SUBSET (SUBSET Accounts) /\ deeds \in 0..MaxDeeds

\* A handler is about the account of its letter, and whom it saw made is made.
HandlerInv == \A w \in Clerks : AtWork(w) =>
    /\ desk[w].about = {Account(w)} /\ desk[w].view \in Views
    /\ \A c \in People : desk[w].view[c].made => customers[c].made

OneHolder(view, a) == \A c, d \in People : view[c].gid = a /\ view[d].gid = a => c = d

\* An account whose handlers never ran at once is on one customer, and its
\* handler sees that one, whatever handlers of other accounts write meanwhile.
AccountInv == \A a \in Accounts : {a} \notin met =>
    /\ OneHolder(customers, a)
    /\ \A w \in Clerks : AtWork(w) /\ Account(w) = a =>
          /\ OneHolder(desk[w].view, a)
          /\ \A c \in People : customers[c].gid = a => desk[w].view[c].gid = a
          /\ \A v \in Clerks : AtWork(v) /\ Account(v) = a => v = w

\* As long as no two handlers ran at once, the one at work sees what is booked
\* and what is given up.
ClaimInv == met = {} =>
    /\ \A c \in People : ~(customers[c].disabled = "claim" /\ customers[c].booked)
    /\ \A w \in Clerks : AtWork(w) =>
          /\ \A c \in People : /\ desk[w].view[c].booked = customers[c].booked
                               /\ desk[w].view[c].disabled = "claim" <=> customers[c].disabled = "claim"
          /\ \A v \in Clerks : AtWork(v) => v = w

CustomersInd == CustomersTypes /\ HandlerInv /\ AccountInv /\ ClaimInv

\* A customer that has not been made is linked to nobody.
LEMMA NobodyIs == /\ NoCustomer \in Entries /\ ~NoCustomer.made /\ NoCustomer.gid = NoAccount
                  /\ NoCustomer.disabled = "no" /\ ~NoCustomer.booked
<1>1. {} \in SUBSET Details /\ NoAccount \in Accounts \cup {NoAccount} /\ FALSE \in BOOLEAN
      /\ "no" \in {"no", "staff", "claim"}
  OBVIOUS
<1> QED BY <1>1 DEF NoCustomer, Entries

\* A clerk that is not at rest has a letter and a view.
LEMMA AtWorkIs == CustomersTypes => \A w \in Clerks :
  /\ AtWork(w) => desk[w] \in AtWorks /\ Account(w) \in Accounts
  /\ AtRest.about = {}
BY DEF CustomersTypes, AtWork, AtWorks, Account, Letters, AtRest

\* The invariant holds at the start.
LEMMA CustomersStart == CustomersInit => CustomersInd
<1> SUFFICES ASSUME CustomersInit PROVE CustomersInd
  OBVIOUS
<1> USE CustomersAssumption
<1>1. PICK details \in SUBSET (Mobiles \cup Emails) :
          customers = [c \in People |-> IF c = 1
                          THEN [NoCustomer EXCEPT !.made = TRUE, !.reach = details, !.booked = TRUE]
                          ELSE NoCustomer]
  BY DEF CustomersInit
<1> DEFINE first == [NoCustomer EXCEPT !.made = TRUE, !.reach = details, !.booked = TRUE]
<1>2. first \in Entries /\ first.made /\ first.gid = NoAccount /\ first.disabled = "no"
  BY NobodyIs DEF Entries, Details
<1> HIDE DEF first
<1>3. customers = [c \in People |-> IF c = 1 THEN first ELSE NoCustomer]
  BY <1>1 DEF first
<1>4. customers \in Views
  BY <1>2, <1>3, NobodyIs DEF Views
<1>5. \A w \in Clerks : ~AtWork(w)
  BY DEF CustomersInit, AtWork
<1>6. CustomersTypes
  <2>1. profile \in [Accounts -> Profiles]
    BY DEF CustomersInit, Profiles, Blank
  <2>2. desk \in [Clerks -> {AtRest} \cup AtWorks] /\ 0 \in 0..MaxDeeds
    BY DEF CustomersInit
  <2> QED BY <1>4, <2>1, <2>2 DEF CustomersInit, CustomersTypes
<1>7. \A c \in People : customers[c].gid = NoAccount /\ customers[c].disabled = "no"
  BY <1>2, <1>3, NobodyIs
<1> QED BY <1>5, <1>6, <1>7 DEF CustomersInd, HandlerInv, AccountInv, ClaimInv, OneHolder

\* What the invariant says of the part's own properties.
LEMMA CustomersAre == CustomersInd => CustomersTypeOK /\ AccountsMoveWhole
<1> SUFFICES ASSUME CustomersInd PROVE CustomersTypeOK /\ AccountsMoveWhole
  OBVIOUS
<1>1. CustomersTypes /\ AccountInv /\ ClaimInv
  BY DEF CustomersInd
<1>2. CustomersTypeOK
  <2>1. \A c \in People : /\ customers[c] \in Entries
                          /\ ~customers[c].made => customers[c] = NoCustomer
    BY <1>1 DEF CustomersTypes, Views
  <2>2. \A c \in People : /\ customers[c].gid \in Accounts \cup {NoAccount}
                          /\ customers[c].disabled \in {"no", "staff", "claim"}
                          /\ customers[c].reach \subseteq Mobiles \cup Emails
    BY <2>1 DEF Entries, Details
  <2>3. \A w \in Clerks : desk[w].pc \in {"idle", "at work"} /\ desk[w].about \subseteq Accounts
    <3>1. AtRest.pc = "idle" /\ AtRest.about = {}
      BY DEF AtRest
    <3>2. \A x \in AtWorks : x.pc \in {"idle", "at work"} /\ x.about \subseteq Accounts
      BY DEF AtWorks
    <3>3. \A w \in Clerks : desk[w] = AtRest \/ desk[w] \in AtWorks
      BY <1>1 DEF CustomersTypes
    <3> QED BY <3>1, <3>2, <3>3
  <2> QED BY <1>1, <2>1, <2>2, <2>3 DEF CustomersTypeOK, CustomersTypes
<1>3. AccountsMoveWhole
  <2>1. ASSUME NEW a \in Accounts, {a} \notin met PROVE Cardinality(holders(customers, a)) <= 1
    <3>1. \A x, y \in holders(customers, a) : x = y
      BY <1>1, <2>1 DEF AccountInv, OneHolder, holders
    <3> QED BY <3>1, AtMostOne
  <2> QED BY <1>1, <2>1 DEF AccountsMoveWhole, ClaimInv
<1> QED BY <1>2, <1>3

\* The details of a profile are ones of a customer.
LEMMA DetailsAre == \A p \in Profiles : details_of(p) \in SUBSET Details
BY DEF Profiles, Details, details_of

\* Matching finds one customer that the view knows, or none.
LEMMA FoundIs ==
  ASSUME NEW view, NEW detail
  PROVE  /\ find_customer_by(view, detail) \in SUBSET {c \in People : view[c].made}
         /\ \A c, d \in find_customer_by(view, detail) : c = d
<1> DEFINE on == {c \in People : view[c].made /\ view[c].disabled = "no" /\ detail \in view[c].reach}
<1>1. \A c, d \in People : c <= d /\ d <= c => c = d
  BY CustomersAssumption
<1>2. find_customer_by(view, detail) \subseteq {c \in on : \A d \in on : c <= d}
  BY DEF find_customer_by
<1> QED BY <1>1, <1>2

\* Of the customers that a detail reaches one is chosen.
LEMMA MatchIs ==
  ASSUME NEW view, NEW p, NEW c0
  PROVE  /\ _match_existing(view, p) \in SUBSET {c \in People : view[c].made}
         /\ claim_existing_customer(view, c0, p) \in SUBSET {c \in People : view[c].made /\ view[c].gid = NoAccount}
         /\ c0 \notin claim_existing_customer(view, c0, p)
         /\ \A c, d \in claim_existing_customer(view, c0, p) : c = d
         /\ view[c0].booked => claim_existing_customer(view, c0, p) = {}
<1>1. \A detail : /\ find_customer_by(view, detail) \in SUBSET {c \in People : view[c].made}
                  /\ \A c, d \in find_customer_by(view, detail) : c = d
  BY FoundIs
<1>2. _match_existing(view, p) \in SUBSET {c \in People : view[c].made}
  BY <1>1 DEF _match_existing
<1>3. /\ customers_matching(view, p, c0) \in SUBSET {c \in People : view[c].made}
      /\ c0 \notin customers_matching(view, p, c0)
      /\ \A c, d \in customers_matching(view, p, c0) : c = d
  BY <1>1 DEF customers_matching
<1> QED BY <1>2, <1>3 DEF claim_existing_customer, has_transactions

\* Whom a handler resolves its account to: who has it, as they are, or somebody
\* stamped with it, as long as nobody in view has it.
LEMMA ResolvedIs ==
  ASSUME CustomersInd, NEW w \in Clerks, AtWork(w), NEW r \in resolve_customer(w)
  PROVE  /\ r[1] \in People /\ r[2] \in Entries /\ r[2].made
         /\ r[2].booked = customers[r[1]].booked /\ r[2].disabled = customers[r[1]].disabled
         /\ \/ r[2] = customers[r[1]] /\ desk[w].view[r[1]].gid = Account(w)
            \/ r[2].gid = Account(w) /\ holders(desk[w].view, Account(w)) = {}
<1> DEFINE a == Account(w)
           view == desk[w].view
           matched == IF match_existing THEN _match_existing(view, desk[w].profile) ELSE {}
           new == {c \in People : ~customers[c].made /\ \A d \in People : ~customers[d].made => c <= d}
           stamped(c) == [customers[c] EXCEPT !.made = TRUE, !.gid = a,
                                              !.reach = @ \cup details_of(desk[w].profile)]
<1>0. CustomersTypes /\ HandlerInv /\ desk[w] \in AtWorks /\ a \in Accounts /\ a # NoAccount
  BY AtWorkIs, CustomersAssumption DEF CustomersInd
<1>1. matched \in SUBSET People /\ new \in SUBSET People
  BY MatchIs
<1>2. \A c \in People : customers[c] \in Entries
  BY <1>0 DEF CustomersTypes, Views
<1>3. details_of(desk[w].profile) \in SUBSET Details
  BY <1>0, DetailsAre DEF AtWorks
<1>4. ASSUME NEW c \in People
      PROVE  /\ stamped(c) \in Entries /\ stamped(c).made /\ stamped(c).gid = a
             /\ stamped(c).booked = customers[c].booked /\ stamped(c).disabled = customers[c].disabled
  BY <1>0, <1>2, <1>3 DEF Entries
<1>5. \/ /\ holders(view, a) # {} /\ \E c \in holders(view, a) : r = <<c, customers[c]>>
      \/ /\ holders(view, a) = {} /\ \E c \in matched \cup new : r = <<c, stamped(c)>>
  BY DEF resolve_customer, Account
<1> HIDE DEF matched, new, stamped
<1>6. CASE holders(view, a) # {} /\ \E c \in holders(view, a) : r = <<c, customers[c]>>
  <2>1. PICK c \in holders(view, a) : r = <<c, customers[c]>>
    BY <1>6
  <2>2. c \in People /\ view[c].gid = a
    BY DEF holders
  <2>3. view[c].made
    BY <1>0, <2>2, NobodyIs DEF HandlerInv, Views
  <2>4. customers[c].made
    BY <1>0, <2>2, <2>3 DEF HandlerInv
  <2> QED BY <1>2, <2>1, <2>2, <2>4
<1>7. CASE holders(view, a) = {} /\ \E c \in matched \cup new : r = <<c, stamped(c)>>
  <2>1. PICK c \in matched \cup new : r = <<c, stamped(c)>>
    BY <1>7
  <2> QED BY <1>1, <1>4, <1>7, <2>1
<1> QED BY <1>5, <1>6, <1>7

\* The step a handler of w's account ends with.
LEMMA HandlerEnds ==
  ASSUME CustomersInd, NEW w \in Clerks, AtWork(w), NEW saved \in SUBSET Docs, Leaves(w, saved),
         customers' \in Views, UNCHANGED <<match_existing, profile, met, deeds>>, letters' \in SUBSET Letters,
         \A c \in People : customers[c].made => customers'[c].made,
         \A a \in Accounts \ {Account(w)} : \A c \in People : customers'[c].gid = a => customers[c].gid = a,
         {Account(w)} \notin met => OneHolder(customers', Account(w)),
         met = {} => \A c \in People : ~(customers'[c].disabled = "claim" /\ customers'[c].booked)
  PROVE  CustomersInd'
<1>0. CustomersTypes /\ HandlerInv /\ AccountInv /\ ClaimInv
  BY DEF CustomersInd
<1>1. /\ DOMAIN desk' = Clerks
      /\ desk'[w] = AtRest
      /\ \A v \in Clerks \ {w} : ~AtWork(v) => desk'[v] = AtRest
      /\ \A v \in Clerks \ {w} : AtWork(v) => desk'[v] = [desk[v] EXCEPT !.saved = @ \cup saved]
      /\ desk' = [v \in Clerks |-> desk'[v]]
  BY DEF Leaves, AtWork
<1>2. ASSUME NEW v \in Clerks, v # w, AtWork(v)
      PROVE  /\ desk'[v] \in AtWorks /\ desk'[v].letter = desk[v].letter /\ desk'[v].view = desk[v].view
             /\ desk'[v].about = desk[v].about
  <2>1. desk[v] \in AtWorks
    BY <1>0, <1>2, AtWorkIs
  <2>2. desk[v].saved \cup saved \in SUBSET Docs
    BY <2>1 DEF AtWorks
  <2>3. desk'[v] = [desk[v] EXCEPT !.saved = desk[v].saved \cup saved]
    BY <1>1, <1>2
  <2> QED BY <2>1, <2>2, <2>3 DEF AtWorks
<1>3. desk' \in [Clerks -> {AtRest} \cup AtWorks]
  BY <1>1, <1>2
<1>4. CustomersTypes'
  BY <1>0, <1>3 DEF CustomersTypes
<1>5. \A v \in Clerks : AtWork(v)' => v # w /\ AtWork(v) /\ desk'[v].letter = desk[v].letter
        /\ desk'[v].view = desk[v].view /\ desk'[v].about = desk[v].about
  BY <1>1, <1>2 DEF AtWork
<1>6. HandlerInv'
  BY <1>0, <1>5 DEF HandlerInv, Account
<1>7. AccountInv'
  <2> SUFFICES ASSUME NEW a \in Accounts, {a} \notin met
               PROVE  /\ OneHolder(customers', a)
                      /\ \A v \in Clerks : AtWork(v)' /\ desk'[v].letter.account = a =>
                            /\ OneHolder(desk'[v].view, a)
                            /\ \A c \in People : customers'[c].gid = a => desk'[v].view[c].gid = a
                            /\ \A u \in Clerks : AtWork(u)' /\ desk'[u].letter.account = a => u = v
    BY DEF AccountInv, Account, OneHolder
  <2>1. CASE a = Account(w)
    <3>1. \A v \in Clerks : AtWork(v)' => desk'[v].letter.account # a
      BY <1>0, <1>5, <2>1 DEF AccountInv, Account
    <3> QED BY <2>1, <3>1
  <2>2. CASE a # Account(w)
    <3>1. \A c \in People : customers'[c].gid = a => customers[c].gid = a
      BY <2>2
    <3>2. OneHolder(customers', a)
      BY <1>0, <3>1 DEF AccountInv, OneHolder
    <3> QED BY <1>0, <1>5, <3>1, <3>2 DEF AccountInv, Account
  <2> QED BY <2>1, <2>2
<1>8. ClaimInv'
  <2>1. met = {} => \A v \in Clerks : ~AtWork(v)'
    BY <1>0, <1>5 DEF ClaimInv
  <2> QED BY <2>1 DEF ClaimInv
<1> QED BY <1>4, <1>6, <1>7, <1>8 DEF CustomersInd

\* A handler of one account keeps what the others promise.
LEMMA NobodyTouched ==
  ASSUME NEW w \in Clerks, NEW c \in People
  PROVE  touched(w, c) \in SUBSET Docs
BY DEF touched, Docs

\* A handler that books an order or stamps an account on somebody.
LEMMA ResolvesOne ==
  ASSUME CustomersInd, NEW w \in Clerks, AtWork(w), NEW r \in resolve_customer(w), NEW booked \in BOOLEAN,
         customers' = [customers EXCEPT ![r[1]] = [r[2] EXCEPT !.booked = booked]],
         booked # r[2].booked => booked /\ desk[w].view[r[1]].disabled = "no",
         Leaves(w, touched(w, r[1])), UNCHANGED <<match_existing, profile, letters, met, deeds>>
  PROVE  CustomersInd'
<1>0. CustomersTypes /\ HandlerInv /\ AccountInv /\ ClaimInv
  BY DEF CustomersInd
<1>1. /\ r[1] \in People /\ r[2] \in Entries /\ r[2].made
      /\ r[2].booked = customers[r[1]].booked /\ r[2].disabled = customers[r[1]].disabled
      /\ \/ r[2] = customers[r[1]] /\ desk[w].view[r[1]].gid = Account(w)
         \/ r[2].gid = Account(w) /\ holders(desk[w].view, Account(w)) = {}
  BY ResolvedIs
<1> DEFINE c == r[1]
           row == [r[2] EXCEPT !.booked = booked]
<1>2. row \in Entries /\ row.made /\ row.gid = r[2].gid /\ row.disabled = customers[c].disabled /\ row.booked = booked
  BY <1>1 DEF Entries
<1>3. customers \in Views /\ customers \in [People -> Entries] /\ letters \in SUBSET Letters
  BY <1>0 DEF CustomersTypes, Views
<1>4. customers' = [customers EXCEPT ![c] = row]
  OBVIOUS
<1> HIDE DEF row
<1>5. /\ customers' \in [People -> Entries] /\ customers'[c] = row
      /\ \A d \in People \ {c} : customers'[d] = customers[d]
  BY <1>1, <1>2, <1>3, <1>4
<1>6. customers' \in Views /\ \A d \in People : customers[d].made => customers'[d].made
  <2>1. \A d \in People : ~customers'[d].made => customers'[d] = NoCustomer
    BY <1>1, <1>2, <1>3, <1>5 DEF Views
  <2> QED BY <1>1, <1>2, <1>5, <2>1 DEF Views
<1>7. \A a \in Accounts \ {Account(w)} : \A d \in People : customers'[d].gid = a => customers[d].gid = a
  BY <1>1, <1>2, <1>5
<1>8. ASSUME {Account(w)} \notin met PROVE OneHolder(customers', Account(w))
  <2>0. Account(w) \in Accounts
    BY <1>0, AtWorkIs
  <2>1. /\ OneHolder(customers, Account(w))
        /\ \A d \in People : customers[d].gid = Account(w) => desk[w].view[d].gid = Account(w)
        /\ OneHolder(desk[w].view, Account(w))
    BY <1>0, <1>8, <2>0 DEF AccountInv
  <2>3. CASE r[2] = customers[c]
    BY <1>1, <1>2, <1>5, <2>1, <2>3 DEF OneHolder
  <2>4. CASE r[2].gid = Account(w) /\ holders(desk[w].view, Account(w)) = {}
    <3>1. \A d \in People : customers[d].gid # Account(w)
      BY <2>1, <2>4 DEF holders
    <3> QED BY <1>5, <3>1 DEF OneHolder
  <2> QED BY <1>1, <2>3, <2>4
<1>9. ASSUME met = {}, NEW d \in People PROVE ~(customers'[d].disabled = "claim" /\ customers'[d].booked)
  <2>1. CASE d # c
    BY <1>0, <1>5, <1>9, <2>1 DEF ClaimInv
  <2>2. CASE d = c /\ booked = r[2].booked
    BY <1>0, <1>1, <1>2, <1>5, <1>9, <2>2 DEF ClaimInv
  <2>3. CASE d = c /\ booked # r[2].booked
    BY <1>0, <1>1, <1>2, <1>5, <1>9, <2>3 DEF ClaimInv
  <2> QED BY <2>1, <2>2, <2>3
<1>10. touched(w, c) \in SUBSET Docs
  BY <1>1, NobodyTouched
<1> QED BY <1>3, <1>6, <1>7, <1>8, <1>9, <1>10, HandlerEnds

\* A handler of an account somebody has: the account stays or moves whole, and
\* what is given up has nothing booked.
LEMMA UpdatesOne ==
  ASSUME CustomersInd, NEW w \in Clerks, update_customer(w)
  PROVE  CustomersInd'
<1> DEFINE a == Account(w)
           view == desk[w].view
<1>0. CustomersTypes /\ HandlerInv /\ AccountInv /\ ClaimInv /\ AtWork(w)
  BY DEF CustomersInd, update_customer, AtWork
<1>1. desk[w] \in AtWorks /\ a \in Accounts /\ a # NoAccount /\ view \in Views
  BY <1>0, AtWorkIs, CustomersAssumption DEF HandlerInv
<1> DEFINE add == details_of(desk[w].profile)
           target(c) == target_of(w, c)
           row(c) == [customers[c] EXCEPT !.gid = view[c].gid, !.disabled = view[c].disabled,
                                          !.reach = @ \cup add]
           given_up(c) == [row(c) EXCEPT !.gid = NoAccount, !.disabled = "claim"]
           claimed(d) == [customers[d] EXCEPT !.gid = a, !.reach = @ \cup add]
           others(c) == {d \in {c} \cup target(c) : ~(add \subseteq view[d].reach)}
<1>2. PICK c \in holders(view, a) :
          /\ customers' = [d \in People |->
                IF d \in target(c) THEN claimed(d)
                ELSE IF d # c THEN customers[d]
                ELSE IF target(c) = {} THEN row(c) ELSE given_up(c)]
          /\ Leaves(w, {<<"customer", c>>} \cup {<<"contact", d>> : d \in others(c)})
  BY DEF update_customer, Account
<1>u. UNCHANGED <<match_existing, profile, letters, met, deeds>>
  BY DEF update_customer
<1>3. c \in People /\ view[c].gid = a /\ view[c] \in Entries /\ view[c].made /\ customers[c].made
  <2>1. c \in People /\ view[c].gid = a
    BY DEF holders
  <2> QED BY <1>0, <1>1, <2>1, NobodyIs DEF HandlerInv, Views
<1>4. add \in SUBSET Details
  BY <1>1, DetailsAre DEF AtWorks
<1>5. \A d \in People : customers[d] \in Entries
  BY <1>0 DEF CustomersTypes, Views
<1>e. /\ \A d \in People : enriched(w, c)[d].made = view[d].made
      /\ enriched(w, c)[c].booked = view[c].booked
  <2>1. enriched(w, c) = [view EXCEPT ![c].reach = @ \cup add] /\ view \in [People -> Entries]
    BY <1>1 DEF enriched, Views
  <2>2. enriched(w, c)[c] = [view[c] EXCEPT !.reach = @ \cup add] /\ \A d \in People \ {c} : enriched(w, c)[d] = view[d]
    BY <1>3, <2>1
  <2> QED BY <1>3, <2>2 DEF Entries
<1>6. /\ target(c) \in SUBSET {d \in People : view[d].made}
      /\ c \notin target(c) /\ \A d, e \in target(c) : d = e
      /\ view[c].booked => target(c) = {}
  BY <1>e, MatchIs DEF target_of
<1>7. /\ row(c) \in Entries /\ row(c).made /\ row(c).gid = a /\ row(c).disabled = view[c].disabled
      /\ row(c).booked = customers[c].booked
  BY <1>3, <1>4, <1>5 DEF Entries
<1>8. /\ given_up(c) \in Entries /\ given_up(c).made /\ given_up(c).gid = NoAccount
      /\ given_up(c).booked = customers[c].booked
  BY <1>7 DEF Entries
<1>9. ASSUME NEW d \in People
      PROVE  /\ claimed(d) \in Entries /\ claimed(d).made = customers[d].made /\ claimed(d).gid = a
             /\ claimed(d).disabled = customers[d].disabled /\ claimed(d).booked = customers[d].booked
  BY <1>1, <1>4, <1>5 DEF Entries
<1>10. \A d \in target(c) : d \in People /\ customers[d].made
  BY <1>0, <1>6 DEF HandlerInv
<1>11. {<<"customer", c>>} \cup {<<"contact", d>> : d \in others(c)} \in SUBSET Docs
  BY <1>3, <1>10 DEF Docs
<1> HIDE DEF row, given_up, claimed, target, others, add
<1>12. /\ customers' \in [People -> Entries]
       /\ \A d \in target(c) : customers'[d] = claimed(d)
       /\ \A d \in People : d # c /\ d \notin target(c) => customers'[d] = customers[d]
       /\ customers'[c] = IF target(c) = {} THEN row(c) ELSE given_up(c)
  BY <1>2, <1>3, <1>5, <1>6, <1>7, <1>8, <1>9, <1>10
<1>13. customers' \in Views /\ \A d \in People : customers[d].made => customers'[d].made
  <2>1. \A d \in People : customers[d] \in Entries /\ (~customers[d].made => customers[d] = NoCustomer)
    BY <1>0 DEF CustomersTypes, Views
  <2>2. \A d \in People : ~customers'[d].made => customers'[d] = NoCustomer
    BY <1>7, <1>8, <1>9, <1>10, <1>12, <2>1
  <2> QED BY <1>7, <1>8, <1>9, <1>10, <1>12, <2>2 DEF Views
<1>14. \A b \in Accounts \ {a} : \A d \in People : customers'[d].gid = b => customers[d].gid = b
  <2> SUFFICES ASSUME NEW b \in Accounts \ {a}, NEW d \in People, customers'[d].gid = b PROVE customers[d].gid = b
    OBVIOUS
  <2>1. b # NoAccount
    BY CustomersAssumption
  <2>2. d \notin target(c)
    BY <1>9, <1>12
  <2>3. d # c
    BY <1>7, <1>8, <1>12, <2>1
  <2> QED BY <1>12, <2>2, <2>3
<1>15. ASSUME {a} \notin met PROVE OneHolder(customers', a)
  <2>1. \A d \in People : customers[d].gid = a => d = c
    BY <1>0, <1>1, <1>3, <1>15 DEF AccountInv, OneHolder
  <2>2. ASSUME NEW d \in People, customers'[d].gid = a PROVE IF target(c) = {} THEN d = c ELSE d \in target(c)
    <3>1. CASE d \in target(c)
      BY <3>1
    <3>2. CASE d \notin target(c) /\ d # c
      BY <1>12, <2>1, <2>2, <3>2
    <3>3. CASE d = c
      BY <1>1, <1>8, <1>12, <2>2, <3>3
    <3> QED BY <3>1, <3>2, <3>3
  <2>3. \A d, e \in People : customers'[d].gid = a /\ customers'[e].gid = a => d = e
    BY <1>6, <2>2
  <2> QED BY <2>3 DEF OneHolder
<1>16. ASSUME met = {}, NEW d \in People PROVE ~(customers'[d].disabled = "claim" /\ customers'[d].booked)
  <2>0. /\ ~(customers[d].disabled = "claim" /\ customers[d].booked)
        /\ view[c].booked = customers[c].booked /\ (view[c].disabled = "claim" <=> customers[c].disabled = "claim")
    BY <1>0, <1>3, <1>16 DEF ClaimInv
  <2>1. CASE d \in target(c)
    BY <1>9, <1>12, <2>0, <2>1
  <2>2. CASE d \notin target(c) /\ d # c
    BY <1>12, <2>0, <2>2
  <2>3. CASE d = c /\ target(c) = {}
    BY <1>7, <1>12, <2>0, <2>3
  <2>4. CASE d = c /\ target(c) # {}
    BY <1>6, <1>8, <1>12, <2>0, <2>4
  <2> QED BY <1>6, <2>1, <2>2, <2>3, <2>4
<1>17. letters' \in SUBSET Letters
  BY <1>0, <1>u DEF CustomersTypes
<1>18. Leaves(w, {<<"customer", c>>} \cup {<<"contact", d>> : d \in others(c)})
  BY <1>2
<1> QED BY <1>0, <1>11, <1>13, <1>14, <1>15, <1>16, <1>17, <1>18, <1>u, HandlerEnds

\* What a shopper does changes neither a customer nor a handler.
LEMMA ShopperActs ==
  ASSUME CustomersInd, UNCHANGED <<match_existing, customers, desk, met>>,
         profile' \in [Accounts -> Profiles], letters' \in SUBSET Letters, deeds' \in 0..MaxDeeds
  PROVE  CustomersInd'
<1>1. CustomersTypes'
  BY DEF CustomersInd, CustomersTypes
<1>2. HandlerInv' /\ AccountInv' /\ ClaimInv'
  BY DEF CustomersInd, HandlerInv, AccountInv, ClaimInv, AtWork, Account, OneHolder
<1> QED BY <1>1, <1>2 DEF CustomersInd

\* A handler that changes nothing ends.
LEMMA HandlerGivesUp ==
  ASSUME CustomersInd, NEW w \in Clerks, AtWork(w), desk' = [desk EXCEPT ![w] = AtRest],
         letters' \in SUBSET Letters, UNCHANGED <<match_existing, customers, profile, met, deeds>>
  PROVE  CustomersInd'
<1>0. CustomersTypes /\ HandlerInv /\ AccountInv /\ ClaimInv
  BY DEF CustomersInd
<1>1. desk \in [Clerks -> {AtRest} \cup AtWorks]
  BY <1>0 DEF CustomersTypes
<1>2. desk' \in [Clerks -> {AtRest} \cup AtWorks] /\ ~AtWork(w)' /\ \A v \in Clerks \ {w} : desk'[v] = desk[v]
  BY <1>1 DEF AtWork
<1>3. \A v \in Clerks : AtWork(v)' => AtWork(v) /\ desk'[v] = desk[v]
  BY <1>2 DEF AtWork
<1>4. CustomersTypes'
  BY <1>0, <1>2 DEF CustomersTypes
<1>5. HandlerInv' /\ AccountInv' /\ ClaimInv'
  BY <1>0, <1>3 DEF HandlerInv, AccountInv, ClaimInv, Account, OneHolder
<1> QED BY <1>4, <1>5 DEF CustomersInd

\* A handler begins, on the snapshot its transaction opens with.
LEMMA HandlerBegins ==
  ASSUME CustomersInd, NEW w \in Clerks, NEW x \in letters, begin_handler(w, x)
  PROVE  CustomersInd'
<1> DEFINE h == [pc |-> "at work", letter |-> x, view |-> customers, saved |-> {}, about |-> {x.account},
                 profile |-> IF x.topic = "order" THEN profile[x.account] ELSE x.profile]
           now == {{x.account} \cup desk[v].about : v \in {v \in Clerks : desk[v] # AtRest}}
<1>0. CustomersTypes /\ HandlerInv /\ AccountInv /\ ClaimInv
  BY DEF CustomersInd
<1>1. /\ desk[w] = AtRest /\ letters' = letters \ {x} /\ desk' = [desk EXCEPT ![w] = h]
      /\ met' = met \cup now
      /\ UNCHANGED <<match_existing, customers, profile, deeds>>
  BY DEF begin_handler
<1>2. x \in Letters /\ x.account \in Accounts /\ desk \in [Clerks -> {AtRest} \cup AtWorks]
      /\ customers \in Views
  BY <1>0 DEF CustomersTypes, Letters
<1>3. h \in AtWorks
  <2>1. (IF x.topic = "order" THEN profile[x.account] ELSE x.profile) \in Profiles
    BY <1>0, <1>2 DEF CustomersTypes, Letters
  <2>2. customers \in [People -> Entries] /\ {} \in SUBSET Docs /\ {x.account} \in SUBSET Accounts
    BY <1>2 DEF Views
  <2> QED BY <1>2, <2>1, <2>2 DEF AtWorks
<1>4. /\ desk'[w] = h /\ \A v \in Clerks \ {w} : desk'[v] = desk[v]
      /\ desk' \in [Clerks -> {AtRest} \cup AtWorks]
  BY <1>1, <1>2, <1>3
<1>5. \A v \in Clerks : AtWork(v) => v # w /\ desk[v].about = {Account(v)} /\ Account(v) \in Accounts
  BY <1>0, <1>1, AtWorkIs DEF HandlerInv, AtWork
<1>6. now \in SUBSET (SUBSET Accounts)
  BY <1>2, <1>5 DEF AtWork
<1>7. \A v \in Clerks : AtWork(v) => {x.account} \cup {Account(v)} \in met'
  BY <1>1, <1>5 DEF AtWork
<1> HIDE DEF now
<1>8. CustomersTypes'
  BY <1>0, <1>1, <1>4, <1>6 DEF CustomersTypes
<1>9. /\ h.about = {x.account} /\ h.view = customers /\ h.letter.account = x.account
      /\ AtRest # h
  <2>1. AtRest.pc = "idle" /\ h.pc = "at work"
    BY DEF AtRest
  <2> QED BY <2>1
<1> HIDE DEF h
<1>10. \A v \in Clerks \ {w} : /\ AtWork(v)' <=> AtWork(v)
                               /\ desk'[v].letter.account = Account(v) /\ desk'[v].view = desk[v].view
                               /\ desk'[v].about = desk[v].about
  BY <1>4 DEF AtWork, Account
<1>11. AtWork(w)' /\ desk'[w].letter.account = x.account /\ desk'[w].view = customers /\ desk'[w].about = {x.account}
  BY <1>4, <1>9 DEF AtWork, Account
<1>12. HandlerInv'
  BY <1>0, <1>1, <1>2, <1>10, <1>11 DEF HandlerInv, Account
<1>13. AccountInv'
  <2> SUFFICES ASSUME NEW a \in Accounts, {a} \notin met'
               PROVE  /\ OneHolder(customers, a)
                      /\ \A v \in Clerks : AtWork(v)' /\ desk'[v].letter.account = a =>
                            /\ OneHolder(desk'[v].view, a)
                            /\ \A c \in People : customers[c].gid = a => desk'[v].view[c].gid = a
                            /\ \A u \in Clerks : AtWork(u)' /\ desk'[u].letter.account = a => u = v
    BY <1>1 DEF AccountInv, OneHolder, Account
  <2>1. {a} \notin met
    BY <1>1
  <2>2. a = x.account => \A v \in Clerks : AtWork(v) => Account(v) # a
    BY <1>7
  <2>3. OneHolder(customers, a)
    BY <1>0, <2>1 DEF AccountInv
  <2>4. ASSUME NEW v \in Clerks, AtWork(v)', desk'[v].letter.account = a
        PROVE  /\ OneHolder(desk'[v].view, a)
               /\ \A c \in People : customers[c].gid = a => desk'[v].view[c].gid = a
               /\ \A u \in Clerks : AtWork(u)' /\ desk'[u].letter.account = a => u = v
    <3>1. CASE v = w
      <4>1. \A u \in Clerks : AtWork(u)' /\ desk'[u].letter.account = a => u = v
        BY <1>10, <1>11, <2>2, <2>4, <3>1
      <4> QED BY <1>11, <2>3, <3>1, <4>1
    <3>2. CASE v # w
      <4>1. AtWork(v) /\ Account(v) = a /\ desk'[v].view = desk[v].view
        BY <1>10, <2>4, <3>2
      <4>2. x.account # a
        BY <2>2, <4>1
      <4>3. \A u \in Clerks : AtWork(u)' /\ desk'[u].letter.account = a => AtWork(u) /\ Account(u) = a
        BY <1>10, <1>11, <4>2
      <4> QED BY <1>0, <2>1, <4>1, <4>3 DEF AccountInv
    <3> QED BY <3>1, <3>2
  <2> QED BY <2>3, <2>4
<1>14. ClaimInv'
  <2> SUFFICES ASSUME met' = {} PROVE ClaimInv'
    BY DEF ClaimInv
  <2>1. met = {} /\ \A v \in Clerks : ~AtWork(v)
    BY <1>1, <1>7
  <2>2. \A v \in Clerks : AtWork(v)' => v = w
    BY <1>10, <2>1
  <2> QED BY <1>0, <1>1, <1>11, <2>1, <2>2 DEF ClaimInv
<1> QED BY <1>8, <1>12, <1>13, <1>14 DEF CustomersInd

\* Staff disable a customer: what was given up stays given up.
LEMMA StaffActs ==
  ASSUME CustomersInd, NEW c \in People, StaffDisables(c)
  PROVE  CustomersInd'
<1>0. CustomersTypes /\ HandlerInv /\ AccountInv /\ ClaimInv
  BY DEF CustomersInd
<1>1. /\ customers[c].made /\ customers[c].disabled = "no"
      /\ customers' = [customers EXCEPT ![c].disabled = "staff"]
      /\ UNCHANGED <<match_existing, profile, letters, met>>
      /\ deeds' \in 0..MaxDeeds
  BY <1>0, CustomersAssumption DEF StaffDisables, Deeds, CustomersTypes
<1>2. desk' = [w \in Clerks |-> IF desk[w] = AtRest THEN AtRest
                               ELSE [desk[w] EXCEPT !.saved = @ \cup {<<"customer", c>>}]]
  BY DEF StaffDisables
<1>3. customers \in [People -> Entries] /\ customers[c] \in Entries
  BY <1>0 DEF CustomersTypes, Views
<1> DEFINE row == [customers[c] EXCEPT !.disabled = "staff"]
<1>4. row \in Entries /\ row.made /\ row.gid = customers[c].gid /\ row.booked = customers[c].booked /\ row.disabled = "staff"
  BY <1>1, <1>3 DEF Entries
<1>5. customers' = [customers EXCEPT ![c] = row]
  BY <1>1
<1> HIDE DEF row
<1>6. customers' \in [People -> Entries] /\ customers'[c] = row /\ \A d \in People \ {c} : customers'[d] = customers[d]
  BY <1>3, <1>4, <1>5
<1>7. customers' \in Views
  BY <1>0, <1>4, <1>6 DEF CustomersTypes, Views
<1>8. \A d \in People : /\ customers'[d].made = customers[d].made /\ customers'[d].gid = customers[d].gid
                        /\ customers'[d].booked = customers[d].booked
                        /\ customers'[d].disabled = "claim" <=> customers[d].disabled = "claim"
  BY <1>1, <1>4, <1>6
<1>9. ASSUME NEW w \in Clerks
      PROVE  /\ desk'[w] \in {AtRest} \cup AtWorks /\ (AtWork(w)' <=> AtWork(w))
             /\ AtWork(w) => /\ desk'[w].letter = desk[w].letter /\ desk'[w].view = desk[w].view
                              /\ desk'[w].about = desk[w].about
  <2>1. CASE desk[w] = AtRest
    BY <1>2, <2>1 DEF AtWork
  <2>2. CASE desk[w] # AtRest
    <3>1. desk[w] \in AtWorks
      BY <1>0, <2>2 DEF CustomersTypes
    <3>2. desk[w].saved \cup {<<"customer", c>>} \in SUBSET Docs
      <4>1. desk[w].saved \in SUBSET Docs
        BY <3>1 DEF AtWorks
      <4>2. <<"customer", c>> \in Docs
        BY DEF Docs
      <4> QED BY <4>1, <4>2
    <3>3. desk'[w] = [desk[w] EXCEPT !.saved = desk[w].saved \cup {<<"customer", c>>}]
      BY <1>2, <2>2
    <3>4. desk'[w] \in AtWorks /\ desk'[w].letter = desk[w].letter /\ desk'[w].view = desk[w].view
          /\ desk'[w].about = desk[w].about
      BY <3>1, <3>2, <3>3 DEF AtWorks
    <3>5. AtRest.pc = "idle" /\ \A y \in AtWorks : y.pc = "at work"
      BY DEF AtRest, AtWorks
    <3>6. desk'[w] # AtRest
      BY <3>4, <3>5
    <3> QED BY <2>2, <3>4, <3>6 DEF AtWork
  <2> QED BY <2>1, <2>2
<1>10. CustomersTypes'
  <2>1. desk' \in [Clerks -> {AtRest} \cup AtWorks]
    BY <1>2, <1>9
  <2> QED BY <1>0, <1>1, <1>7, <2>1 DEF CustomersTypes
<1>11. HandlerInv'
  BY <1>0, <1>8, <1>9 DEF HandlerInv, Account
<1>12. AccountInv'
  BY <1>0, <1>1, <1>8, <1>9 DEF AccountInv, Account, OneHolder
<1>13. ClaimInv'
  BY <1>0, <1>1, <1>8, <1>9 DEF ClaimInv
<1> QED BY <1>10, <1>11, <1>12, <1>13 DEF CustomersInd

\* Every step keeps the invariant.
LEMMA CustomersStep == CustomersInd /\ [CustomersNext]_customersVars => CustomersInd'
<1> SUFFICES ASSUME CustomersInd, [CustomersNext]_customersVars PROVE CustomersInd'
  OBVIOUS
<1>0. CustomersTypes
  BY DEF CustomersInd
<1>d. Deeds => deeds \in Nat /\ deeds' \in 0..MaxDeeds
  BY <1>0, CustomersAssumption DEF Deeds, CustomersTypes
<1>1. CASE UNCHANGED customersVars
  BY <1>0, <1>1, ShopperActs DEF customersVars, CustomersTypes
<1>2. ASSUME NEW a \in Accounts, PlaceOrder(a) PROVE CustomersInd'
  <2> DEFINE letter == [topic |-> "order", account |-> a, profile |-> Blank, nr |-> deeds]
  <2>1. Blank \in Profiles
    BY DEF Blank, Profiles
  <2>2. letter \in Letters
    BY <1>2, <1>d, <2>1 DEF PlaceOrder, Letters
  <2>3. letters' \in SUBSET Letters
    BY <1>0, <1>2, <2>2 DEF PlaceOrder, CustomersTypes
  <2> QED BY <1>0, <1>2, <1>d, <2>3, ShopperActs DEF PlaceOrder, CustomersTypes
<1>3. ASSUME NEW a \in Accounts, NEW p \in Profiles, EditProfile(a, p) PROVE CustomersInd'
  <2> DEFINE letter == [topic |-> "customer", account |-> a, profile |-> p, nr |-> deeds]
  <2>1. letter \in Letters
    BY <1>3, <1>d DEF EditProfile, Letters
  <2>2. letters' \in SUBSET Letters
    BY <1>0, <1>3, <2>1 DEF EditProfile, CustomersTypes
  <2>3. profile' \in [Accounts -> Profiles]
    BY <1>0, <1>3 DEF EditProfile, CustomersTypes
  <2> QED BY <1>3, <1>d, <2>2, <2>3, ShopperActs DEF EditProfile
<1>4. ASSUME NEW w \in Clerks, book_order(w) PROVE CustomersInd'
  <2>1. PICK r \in resolve_customer(w) :
          /\ desk[w].view[r[1]].disabled = "no"
          /\ customers' = [customers EXCEPT ![r[1]] = [r[2] EXCEPT !.booked = TRUE]]
          /\ Leaves(w, touched(w, r[1]))
    BY <1>4 DEF book_order
  <2>2. AtWork(w) /\ UNCHANGED <<match_existing, profile, letters, met, deeds>>
    BY <1>4 DEF book_order, AtWork
  <2> QED BY <2>1, <2>2, ResolvesOne
<1>5. ASSUME NEW w \in Clerks, create_customer(w) PROVE CustomersInd'
  <2>1. PICK r \in resolve_customer(w) :
          /\ customers' = [customers EXCEPT ![r[1]] = r[2]]
          /\ Leaves(w, touched(w, r[1]))
    BY <1>5 DEF create_customer
  <2>2. AtWork(w) /\ UNCHANGED <<match_existing, profile, letters, met, deeds>>
    BY <1>5 DEF create_customer, AtWork
  <2>3. r[2] \in Entries
    BY <2>2, ResolvedIs
  <2>4. r[2].booked \in BOOLEAN /\ r[2] = [r[2] EXCEPT !.booked = r[2].booked]
    BY <2>3 DEF Entries
  <2>5. customers' = [customers EXCEPT ![r[1]] = [r[2] EXCEPT !.booked = r[2].booked]]
    BY <2>1, <2>4
  <2> QED BY <2>1, <2>2, <2>4, <2>5, ResolvesOne
<1>6. ASSUME NEW w \in Clerks, handler_fails(w) PROVE CustomersInd'
  <2>1. AtWork(w) /\ letters' = letters \cup {desk[w].letter} /\ desk' = [desk EXCEPT ![w] = AtRest]
        /\ UNCHANGED <<match_existing, customers, profile, met, deeds>>
    BY <1>6 DEF handler_fails, AtWork
  <2>2. letters' \in SUBSET Letters
    BY <1>0, <2>1, AtWorkIs DEF CustomersTypes, AtWorks
  <2> QED BY <2>1, <2>2, HandlerGivesUp
<1>7. ASSUME NEW w \in Clerks, order_refused(w) PROVE CustomersInd'
  BY <1>0, <1>7, HandlerGivesUp DEF order_refused, AtWork, CustomersTypes
<1>8. ASSUME NEW a \in Accounts, NEW m \in Mobiles \cup {NoDetail}, NEW e \in Emails \cup {NoDetail},
             EditProfile(a, [mobile |-> m, email |-> e])
      PROVE  CustomersInd'
  <2>1. [mobile |-> m, email |-> e] \in Profiles
    BY DEF Profiles
  <2> QED BY <1>3, <1>8, <2>1
<1> QED BY <1>1, <1>2, <1>4, <1>5, <1>6, <1>7, <1>8, StaffActs, HandlerBegins, UpdatesOne DEF CustomersNext

\* customer.py:3, resolve_customer and claim_existing_customer: an account is on
\* one customer, whatever handlers of other accounts do beside its own, unless
\* two of its own ran at once, and what a claim gives up has nothing booked.
THEOREM AccountsStayWhole == CustomersSpec => []AccountsMoveWhole
<1>1. CustomersInd => AccountsMoveWhole
  BY CustomersAre
<1> QED BY <1>1, CustomersStart, CustomersStep, PTL DEF CustomersSpec

------------------------------------------------------------------------------
(* Bulk imports.                                                              *)

ExportStates == {"none", "CREATED", "RUNNING", "CANCELING", "COMPLETED", "FAILED", "PARTIAL", "CANCELED"}
Statuses == {"none", "Created", "Running", "Completed", "Failed", "Cancelled"}
Size == 0..Len(Lines)
Catalogues == UNION {[P -> SUBSET Nat] : P \in SUBSET Products}
Documents == [status : Statuses, file : Size \cup {NoFile}, consumed : Size, processed : Nat]
Answers == [op : Operations, about : Operations, status : ExportStates \ {"none"}]
Runs == [op : Operations, at : Size, applied : Nat, since : Nat, wrote : Catalogues, failed : SUBSET Products]

BulkTypes ==
    /\ exports \in [Operations -> ExportStates] /\ latest \in Operations \cup {NoOperation}
    /\ cut_at \in 1..Len(Lines)
    /\ op \in [Operations -> Documents]
    /\ polls \subseteq Operations /\ jobs \subseteq Operations
    /\ answer = NoAnswer \/ answer \in Answers
    /\ worker = NoWorker \/ worker \in Runs
    /\ imported \in Catalogues /\ rejected \subseteq Products
    /\ crashes \in 0..MaxCrashes

\* Something has been started before anybody asks about it.
LatestInv ==
    /\ latest \in Operations => exports[latest] # "none"
    /\ latest \in Operations \/ (polls = {} /\ answer = NoAnswer /\ \A o \in Operations : op[o].status = "none")

\* The file of an operation is what its export left, and that no longer changes.
FileInv ==
    /\ \A o \in Operations :
          /\ op[o].file # NoFile => /\ exports[o] \in {"COMPLETED", "PARTIAL"}
                                    /\ op[o].file = IF exports[o] = "COMPLETED" THEN Len(Lines) ELSE cut_at
                                    /\ op[o].consumed <= op[o].file
          /\ op[o].file = NoFile => op[o].consumed = 0 /\ op[o].processed = 0 /\ o \notin jobs
    /\ answer # NoAnswer =>
          /\ answer.status \in {"COMPLETED", "PARTIAL"} => exports[answer.about] = answer.status
          /\ op[answer.about].file # NoFile => exports[answer.about] = answer.status

VariantsIn(size, r) == {i \in 0..(size - 1) : Line(i) = [Line(r) EXCEPT !.kind = "variant"]}

RootOf(p, r) == r \in Roots(Len(Lines), 0) /\ p = Line(r).product

\* What a run has done since its checkpoint: every root line it has passed, one
\* of its own for each product it wrote.
Ran(o, at, applied, wrote, failed) ==
    /\ op[o].file # NoFile /\ op[o].consumed <= at /\ at <= op[o].file
    /\ \A r \in Roots(op[o].file, 0) : r < at =>
          \/ r < op[o].consumed
          \/ Line(r).product \in failed
          \/ Line(r).product \in DOMAIN wrote /\ VariantsIn(op[o].file, r) \subseteq wrote[Line(r).product]
    /\ \A p \in DOMAIN wrote : \E r \in op[o].consumed..(at - 1) : RootOf(p, r)
    /\ applied = op[o].processed + Cardinality(DOMAIN wrote)

RunInv == worker # NoWorker => Ran(worker.op, worker.at, worker.applied, worker.wrote, worker.failed)

\* The only operation that has counted anything has counted everything.
Sole(o) == \A x \in Operations \ {o} : op[x].processed = 0

CountInv ==
    \A o \in Operations : Sole(o) =>
        /\ op[o].processed = Cardinality(DOMAIN imported)
        /\ \A p \in DOMAIN imported : \E r \in 0..(op[o].consumed - 1) : RootOf(p, r)

BulkInd == BulkTypes /\ LatestInv /\ FileInv /\ CheckpointIsExact /\ RunInv /\ CountInv

Kinds == {"root", "variant", "other", "bad"}

\* A file has lines, each of a kind and of a product.
LEMMA LinesAre == /\ Len(Lines) \in Nat
                  /\ \A i \in 0..(Len(Lines) - 1) :
                        /\ i + 1 \in DOMAIN Lines /\ Line(i) = Lines[i + 1]
                        /\ Line(i) \in [kind : Kinds, product : Products]
<1>1. Lines \in Seq([kind : Kinds, product : Products])
  BY BulkAssumption DEF Kinds, Products
<1> DEFINE S == [kind : Kinds, product : Products]
<1>2. Len(Lines) \in Nat /\ DOMAIN Lines = 1..Len(Lines)
  BY <1>1
<1>3. \A i \in DOMAIN Lines : Lines[i] \in S
  <2> HIDE DEF S
  <2>1. Lines \in Seq(S)
    BY <1>1 DEF S
  <2> QED BY <2>1
<1>4. \A i \in 0..(Len(Lines) - 1) : i + 1 \in DOMAIN Lines
  BY <1>2
<1> QED BY <1>2, <1>3, <1>4 DEF Line

\* A file has finitely many products.
LEMMA ProductsAre == IsFiniteSet(Products)
<1>1. Lines \in Seq([kind : Kinds, product : Products])
  BY BulkAssumption DEF Kinds, Products
<1>2. DOMAIN Lines = 1..Len(Lines) /\ Len(Lines) \in Nat
  BY <1>1
<1>3. IsFiniteSet(DOMAIN Lines)
  <2>1. \A b \in Int : IsFiniteSet(1..b)
    BY FS_Interval
  <2> QED BY <1>2, <2>1
<1> DEFINE f == [i \in DOMAIN Lines |-> Lines[i].product]
<1>4. DOMAIN f = DOMAIN Lines /\ Products = {f[i] : i \in DOMAIN Lines}
  BY DEF Products
<1> HIDE DEF f
<1> QED BY <1>3, <1>4, ImageIsFinite

\* The root lines of a file are among its lines.
LEMMA RootsAre ==
  ASSUME NEW size \in Size, NEW at \in Nat
  PROVE  \A r : r \in Roots(size, at) <=> r \in Nat /\ at <= r /\ r < size /\ Line(r).kind = "root"
<1>1. size \in Nat
  BY LinesAre DEF Size
<1> QED BY <1>1 DEF Roots

\* A product has one root line.
LEMMA RootsApart == \A r, q \in Roots(Len(Lines), 0) : Line(r).product = Line(q).product => r = q
<1> SUFFICES ASSUME NEW r \in Roots(Len(Lines), 0), NEW q \in Roots(Len(Lines), 0), Line(r).product = Line(q).product
             PROVE  r = q
  OBVIOUS
<1>1. r \in 0..(Len(Lines) - 1) /\ q \in 0..(Len(Lines) - 1) /\ Line(r).kind = "root" /\ Line(q).kind = "root"
  BY DEF Roots
<1>2. r + 1 \in DOMAIN Lines /\ q + 1 \in DOMAIN Lines /\ Line(r) = Lines[r + 1] /\ Line(q) = Lines[q + 1]
  BY <1>1, LinesAre
<1>3. r + 1 = q + 1
  BY <1>1, <1>2, FileAssumption
<1> QED BY <1>1, <1>3

\* The line a product is read from is one of the roots still to come, and what
\* is accounted for with it reaches up to the next root.
LEMMA GroupIs ==
  ASSUME NEW size \in Size, NEW at \in 0..size, Roots(size, at) # {}, NEW r, r = next_root(size, at)
  PROVE  /\ r \in Roots(size, 0) /\ r \in Roots(Len(Lines), 0) /\ at <= r /\ r \in Nat
         /\ lines_done(size, r) \in Nat /\ r < lines_done(size, r) /\ lines_done(size, r) <= size
         /\ \A q \in Roots(size, 0) : q < lines_done(size, r) => q < at \/ q = r
         /\ VariantsIn(size, r) \subseteq variants_of(size, r)
         /\ variants_of(size, r) \in SUBSET Nat
<1>1. size \in Nat /\ Len(Lines) \in Nat /\ size <= Len(Lines) /\ at \in Nat /\ at <= size
  BY LinesAre DEF Size
<1> DEFINE done == lines_done(size, r)
           later == Roots(size, r + 1)
<1>2. r \in Roots(size, at) /\ \A j \in Roots(size, at) : r <= j
  <2>1. Roots(size, at) \in SUBSET Nat
    BY <1>1 DEF Roots
  <2>2. \E x \in Roots(size, at) : \A y \in Roots(size, at) : x <= y
    BY <2>1, LeastNatural
  <2> QED BY <2>2 DEF next_root
<1>3. r \in Nat /\ at <= r /\ r < size /\ Line(r).kind = "root"
  BY <1>1, <1>2, RootsAre
<1>4. r \in Roots(size, 0) /\ r \in Roots(Len(Lines), 0)
  BY <1>1, <1>3 DEF Roots
<1>5. /\ done \in Nat /\ r < done /\ done <= size /\ (later # {} => done \in later)
      /\ \A q \in later : done <= q
      /\ \A j \in done..(size - 1) : later = {} => Line(j).kind = "bad"
  <2>1. CASE later # {}
    <3>1. later \in SUBSET Nat
      BY <1>3 DEF Roots
    <3>2. \E x \in later : \A y \in later : x <= y
      BY <2>1, <3>1, LeastNatural
    <3>3. done = CHOOSE i \in later : \A j \in later : i <= j
      BY <2>1 DEF lines_done
    <3>4. done \in later /\ \A q \in later : done <= q
      BY <3>2, <3>3
    <3>5. done \in Nat /\ r + 1 <= done /\ done < size
      BY <1>1, <1>3, <3>4, RootsAre
    <3> QED BY <1>1, <1>3, <2>1, <3>4, <3>5
  <2>2. CASE later = {}
    <3> DEFINE good == {i \in r..(size - 1) : Line(i).kind # "bad"}
               last == CHOOSE i \in r..(size - 1) :
                          /\ Line(i).kind # "bad"
                          /\ \A j \in (i + 1)..(size - 1) : Line(j).kind = "bad"
    <3>1. good \in SUBSET Nat /\ r \in good /\ IsFiniteSet(good)
      <4>1. \A a, b \in Int : IsFiniteSet(a..b)
        BY FS_Interval
      <4>2. IsFiniteSet(r..(size - 1)) /\ good \in SUBSET (r..(size - 1))
        BY <1>1, <1>3, <4>1
      <4> QED BY <1>1, <1>3, <4>2, FS_Subset
    <3>2. PICK x \in good : \A y \in good : y <= x
      BY <3>1, LargestNatural
    <3>3. \A j \in (x + 1)..(size - 1) : Line(j).kind = "bad"
      <4> SUFFICES ASSUME NEW j \in (x + 1)..(size - 1), Line(j).kind # "bad" PROVE FALSE
        OBVIOUS
      <4>1. x \in Nat /\ r <= x /\ j \in Nat /\ x < j /\ j <= size - 1
        BY <1>1, <1>3, <3>1
      <4>2. j \in good
        BY <1>1, <1>3, <4>1
      <4> QED BY <3>2, <4>1, <4>2
    <3>4. x \in r..(size - 1) /\ Line(x).kind # "bad"
      OBVIOUS
    <3>5. last \in r..(size - 1) /\ \A j \in (last + 1)..(size - 1) : Line(j).kind = "bad"
      BY <3>3, <3>4
    <3>6. done = last + 1
      BY <2>2 DEF lines_done
    <3> HIDE DEF last, good, done
    <3> QED BY <1>1, <1>3, <2>2, <3>5, <3>6
  <2> QED BY <2>1, <2>2
<1> HIDE DEF done, later
<1>6. ASSUME NEW q \in Roots(size, 0), q < done, ~(q < at) PROVE q = r
  <2>1. q \in Nat /\ q < size /\ Line(q).kind = "root"
    BY <1>1, <1>6, RootsAre
  <2>2. r <= q
    BY <1>1, <1>2, <1>6, <2>1, RootsAre
  <2>3. ~(r + 1 <= q)
    <3>1. r + 1 <= q => q \in later
      BY <1>1, <1>3, <2>1, RootsAre DEF later
    <3> QED BY <1>3, <1>5, <1>6, <2>1, <3>1
  <2> QED BY <1>3, <2>1, <2>2, <2>3
<1>7. ASSUME NEW i \in VariantsIn(size, r) PROVE i \in variants_of(size, r)
  <2>1. i \in Nat /\ i < size /\ Line(i) = [Line(r) EXCEPT !.kind = "variant"]
    BY <1>1 DEF VariantsIn
  <2>2. r \in 0..(Len(Lines) - 1) /\ i \in 0..(Len(Lines) - 1)
    BY <1>1, <1>3, <2>1
  <2>3. Line(r) \in [kind : Kinds, product : Products]
    BY <2>2, LinesAre
  <2>4. Line(i).kind = "variant" /\ Line(i).product = Line(r).product
    BY <2>1, <2>3
  <2>5. i + 1 \in DOMAIN Lines /\ r + 1 \in DOMAIN Lines /\ Line(i) = Lines[i + 1] /\ Line(r) = Lines[r + 1]
    BY <2>2, LinesAre
  <2>6. r + 1 < i + 1 /\ \A k \in (r + 2)..(i + 1) : Lines[k].kind # "root"
    <3>1. \A a, b \in DOMAIN Lines :
              Lines[a].kind = "root" /\ Lines[b].kind = "variant" /\ Lines[b].product = Lines[a].product
                 => a < b /\ \A k \in (a + 1)..b : Lines[k].kind # "root"
      BY FileAssumption
    <3>2. r + 1 < i + 1 /\ \A k \in ((r + 1) + 1)..(i + 1) : Lines[k].kind # "root"
      BY <1>3, <2>4, <2>5, <3>1
    <3>3. (r + 1) + 1 = r + 2
      BY <1>3
    <3> QED BY <3>2, <3>3
  <2>7. i < done
    <3>1. CASE later # {}
      <4>1. done \in Nat /\ r + 1 <= done /\ done < size /\ Line(done).kind = "root"
        <5>1. r + 1 \in Nat
          BY <1>3
        <5> QED BY <1>5, <3>1, <5>1, RootsAre DEF later
      <4>2. Line(done) = Lines[done + 1]
        BY DEF Line
      <4>3. ~(done <= i)
        <5> SUFFICES ASSUME done <= i PROVE FALSE
          OBVIOUS
        <5>1. done + 1 \in (r + 2)..(i + 1)
          BY <1>3, <2>1, <4>1
        <5> QED BY <2>6, <4>1, <4>2, <5>1
      <4> QED BY <2>1, <4>1, <4>3
    <3>2. CASE later = {}
      <4> SUFFICES ASSUME ~(i < done) PROVE FALSE
        OBVIOUS
      <4>1. i \in done..(size - 1)
        BY <1>1, <1>5, <2>1
      <4>2. \A j \in done..(size - 1) : Line(j).kind = "bad"
        BY <1>5, <3>2
      <4>3. Line(i).kind = "bad"
        BY <4>1, <4>2
      <4> QED BY <2>4, <4>3
    <3> QED BY <3>1, <3>2
  <2>8. i \in (r + 1)..(done - 1)
    BY <1>3, <1>5, <2>1, <2>6, <2>7
  <2> QED BY <2>4, <2>8 DEF variants_of, done
<1>8. variants_of(size, r) \in SUBSET Nat
  BY <1>3, <1>5 DEF variants_of, done
<1> QED BY <1>3, <1>4, <1>5, <1>6, <1>7, <1>8 DEF done

\* A catalogue gives each product that it has its variants.
LEMMA CatalogueIs ==
  ASSUME NEW c \in Catalogues
  PROVE  /\ DOMAIN c \in SUBSET Products /\ IsFiniteSet(DOMAIN c) /\ Cardinality(DOMAIN c) \in Nat
         /\ \A p : Of(c, p) \in SUBSET Nat
         /\ \A p \in DOMAIN c : Of(c, p) = c[p]
<1>1. PICK P \in SUBSET Products : c \in [P -> SUBSET Nat]
  BY DEF Catalogues
<1>2. DOMAIN c = P /\ \A p \in P : c[p] \in SUBSET Nat
  BY <1>1
<1>3. IsFiniteSet(DOMAIN c) /\ Cardinality(DOMAIN c) \in Nat
  BY <1>2, ProductsAre, FS_Subset, FS_CardinalityType
<1> QED BY <1>2, <1>3 DEF Of

\* And whatever does is one.
LEMMA CatalogueOf == ASSUME NEW P \in SUBSET Products, NEW c \in [P -> SUBSET Nat] PROVE c \in Catalogues
BY DEF Catalogues

\* Importing adds products and variants; it takes nothing away.
LEMMA MergedIs ==
  ASSUME imported \in Catalogues, NEW wrote \in Catalogues
  PROVE  /\ Merged(wrote) \in Catalogues
         /\ DOMAIN Merged(wrote) = DOMAIN imported \cup DOMAIN wrote
         /\ \A p \in DOMAIN imported : imported[p] \subseteq Merged(wrote)[p]
         /\ \A p \in DOMAIN wrote : wrote[p] \subseteq Merged(wrote)[p]
<1> DEFINE P == DOMAIN imported \cup DOMAIN wrote
<1>1. P \in SUBSET Products
  BY CatalogueIs
<1>2. Merged(wrote) = [p \in P |-> Of(imported, p) \cup Of(wrote, p)]
  BY DEF Merged
<1>3. \A p \in P : Of(imported, p) \in SUBSET Nat /\ Of(wrote, p) \in SUBSET Nat
  BY CatalogueIs
<1> HIDE DEF P
<1>4. Merged(wrote) \in [P -> SUBSET Nat]
  BY <1>2, <1>3
<1>5. Merged(wrote) \in Catalogues
  BY <1>1, <1>4, CatalogueOf
<1>6. \A p \in P : Merged(wrote)[p] = Of(imported, p) \cup Of(wrote, p)
  BY <1>2
<1>7. (\A p \in DOMAIN imported : Of(imported, p) = imported[p]) /\ (\A p \in DOMAIN wrote : Of(wrote, p) = wrote[p])
  BY CatalogueIs
<1> QED BY <1>4, <1>5, <1>6, <1>7 DEF P

\* Nothing imported is a catalogue.
LEMMA NothingIs == NotImported \in Catalogues /\ DOMAIN NotImported = {}
<1>1. NotImported \in [{} -> SUBSET Nat] /\ {} \in SUBSET Products /\ DOMAIN NotImported = {}
  BY DEF NotImported
<1> QED BY <1>1, CatalogueOf

\* An operation has its document.
LEMMA DocumentIs ==
  ASSUME BulkTypes, NEW o \in Operations
  PROVE  /\ op[o] \in Documents /\ op[o].status \in Statuses /\ op[o].file \in Size \cup {NoFile}
         /\ op[o].consumed \in Size /\ op[o].processed \in Nat
<1>1. op[o] \in Documents
  BY DEF BulkTypes
<1> QED BY <1>1 DEF Documents

\* No worker has done anything.
LEMMA NoWorkerIs == /\ NoWorker.op = NoOperation /\ NoWorker.wrote = NotImported /\ NoWorker.failed = {}
                    /\ NoWorker \notin Runs /\ NoAnswer \notin Answers
                    /\ \A w \in Runs : w.op \in Operations /\ w # NoWorker
                    /\ \A a \in Answers : a.op \in Operations /\ a # NoAnswer
<1>1. NoWorker.op = NoOperation /\ NoAnswer.op = NoOperation
  BY DEF NoWorker, NoAnswer
<1>2. (\A w \in Runs : w.op \in Operations) /\ (\A a \in Answers : a.op \in Operations)
  BY DEF Runs, Answers
<1>3. NoOperation \notin Operations
  BY BulkAssumption
<1>4. NoWorker.wrote = NotImported /\ NoWorker.failed = {}
  BY DEF NoWorker
<1> QED BY <1>1, <1>2, <1>3, <1>4

\* What an operation's file is, in lines.
LEMMA FileIs ==
  ASSUME BulkTypes, NEW o \in Operations, op[o].file # NoFile
  PROVE  op[o].file \in Size /\ op[o].file \in Nat /\ op[o].file <= Len(Lines) /\ Len(Lines) \in Nat
<1>1. op[o].file \in Size
  BY DocumentIs
<1> QED BY <1>1, LinesAre DEF Size

\* The checkpoint: what a run has done is committed and counted together.
LEMMA Commits ==
  ASSUME BulkInd, NEW o \in Operations, NEW at \in Size, NEW applied \in Nat, NEW wrote \in Catalogues,
         NEW failed \in SUBSET Products, Ran(o, at, applied, wrote, failed),
         imported' = Merged(wrote), rejected' = rejected \cup failed,
         op' = [op EXCEPT ![o].consumed = at, ![o].processed = applied],
         UNCHANGED <<exports, latest, cut_at, polls, answer, jobs, crashes>>,
         worker' = NoWorker \/ worker' \in Runs, RunInv'
  PROVE  BulkInd'
<1>0. BulkTypes
  BY DEF BulkInd
<1>1. /\ op[o] \in Documents /\ op[o].file \in Size /\ op[o].file \in Nat /\ op[o].file <= Len(Lines)
      /\ Len(Lines) \in Nat /\ op[o].consumed \in Nat /\ op[o].processed \in Nat /\ at \in Nat
      /\ op[o].consumed <= at /\ at <= op[o].file
  BY <1>0, DocumentIs, FileIs DEF Ran, Size
<1>2. op \in [Operations -> Documents]
  BY <1>0 DEF BulkTypes
<1> DEFINE doc == [op[o] EXCEPT !.consumed = at, !.processed = applied]
<1>3. doc \in Documents /\ doc.consumed = at /\ doc.processed = applied /\ doc.file = op[o].file /\ doc.status = op[o].status
  BY <1>1 DEF Documents
<1>4. op' = [op EXCEPT ![o] = doc]
  BY <1>1, <1>2 DEF Documents
<1> HIDE DEF doc
<1>5. op' \in [Operations -> Documents] /\ op'[o] = doc /\ \A x \in Operations \ {o} : op'[x] = op[x]
  BY <1>2, <1>3, <1>4
<1>6. imported \in Catalogues
  BY <1>0 DEF BulkTypes
<1>7. /\ imported' \in Catalogues /\ DOMAIN imported' = DOMAIN imported \cup DOMAIN wrote
      /\ \A p \in DOMAIN imported : imported[p] \subseteq imported'[p]
      /\ \A p \in DOMAIN wrote : wrote[p] \subseteq imported'[p]
  BY <1>6, MergedIs
<1>8. BulkTypes'
  BY <1>0, <1>5, <1>7 DEF BulkTypes
<1>9. LatestInv'
  BY <1>3, <1>5 DEF BulkInd, LatestInv
<1>10. FileInv'
  <2>1. \A x \in Operations : op'[x].file = op[x].file
    BY <1>3, <1>5
  <2>2. answer # NoAnswer => answer.about \in Operations
    BY <1>0 DEF BulkTypes, Answers
  <2>3. \A x \in Operations :
          /\ op'[x].file # NoFile => /\ exports[x] \in {"COMPLETED", "PARTIAL"}
                                     /\ op'[x].file = IF exports[x] = "COMPLETED" THEN Len(Lines) ELSE cut_at
                                     /\ op'[x].consumed <= op'[x].file
          /\ op'[x].file = NoFile => op'[x].consumed = 0 /\ op'[x].processed = 0 /\ x \notin jobs
    <3> SUFFICES ASSUME NEW x \in Operations
                 PROVE  /\ op'[x].file # NoFile => /\ exports[x] \in {"COMPLETED", "PARTIAL"}
                                                   /\ op'[x].file = IF exports[x] = "COMPLETED" THEN Len(Lines) ELSE cut_at
                                                   /\ op'[x].consumed <= op'[x].file
                        /\ op'[x].file = NoFile => op'[x].consumed = 0 /\ op'[x].processed = 0 /\ x \notin jobs
      OBVIOUS
    <3>1. CASE x = o
      <4>1. op[o].file # NoFile
        BY DEF Ran
      <4> QED BY <1>1, <1>3, <1>5, <3>1, <4>1 DEF BulkInd, FileInv
    <3>2. CASE x # o
      BY <1>5, <3>2 DEF BulkInd, FileInv
    <3> QED BY <3>1, <3>2
  <2> QED BY <2>1, <2>2, <2>3 DEF BulkInd, FileInv
<1>11. CheckpointIsExact'
  <2> SUFFICES ASSUME NEW x \in Operations, op'[x].file # NoFile, NEW r \in Roots(op'[x].file, 0), r < op'[x].consumed,
                      Line(r).product \notin rejected'
               PROVE  /\ Line(r).product \in DOMAIN imported'
                      /\ VariantsIn(op'[x].file, r) \subseteq imported'[Line(r).product]
    BY DEF CheckpointIsExact, VariantsIn, Line, Roots
  <2>1. op'[x].file = op[x].file /\ op[x].file # NoFile
    BY <1>3, <1>5
  <2>2. CASE r < op[x].consumed
    <3>1. /\ Line(r).product \in DOMAIN imported
          /\ VariantsIn(op[x].file, r) \subseteq imported[Line(r).product]
      BY <2>1, <2>2 DEF BulkInd, CheckpointIsExact, VariantsIn
    <3> QED BY <1>7, <2>1, <3>1
  <2>3. CASE ~(r < op[x].consumed)
    <3>1. x = o /\ r < at
      BY <1>3, <1>5, <2>3
    <3>2. Line(r).product \in DOMAIN wrote /\ VariantsIn(op[o].file, r) \subseteq wrote[Line(r).product]
      BY <2>1, <2>3, <3>1 DEF Ran
    <3> QED BY <1>7, <2>1, <3>1, <3>2
  <2> QED BY <2>2, <2>3
<1>12. CountInv'
  <2> SUFFICES ASSUME NEW x \in Operations, \A y \in Operations \ {x} : op'[y].processed = 0
               PROVE  /\ op'[x].processed = Cardinality(DOMAIN imported')
                      /\ \A p \in DOMAIN imported' : \E r \in 0..(op'[x].consumed - 1) : RootOf(p, r)
    BY DEF CountInv, Sole
  <2>1. IsFiniteSet(DOMAIN wrote) /\ IsFiniteSet(DOMAIN imported) /\ Cardinality(DOMAIN wrote) \in Nat /\ Cardinality(DOMAIN imported) \in Nat
    BY <1>6, CatalogueIs
  <2>2. applied = op[o].processed + Cardinality(DOMAIN wrote)
        /\ \A p \in DOMAIN wrote : \E r \in op[o].consumed..(at - 1) : RootOf(p, r)
    BY DEF Ran
  <2>3. CASE x = o
    <3>1. Sole(o)
      BY <1>5, <2>3 DEF Sole
    <3>2. op[o].processed = Cardinality(DOMAIN imported)
          /\ \A p \in DOMAIN imported : \E r \in 0..(op[o].consumed - 1) : RootOf(p, r)
      BY <3>1 DEF BulkInd, CountInv
    <3>3. DOMAIN imported \cap DOMAIN wrote = {}
      <4> SUFFICES ASSUME NEW p \in DOMAIN imported, p \in DOMAIN wrote PROVE FALSE
        OBVIOUS
      <4>1. PICK r \in 0..(op[o].consumed - 1) : RootOf(p, r)
        BY <3>2
      <4>2. PICK q \in op[o].consumed..(at - 1) : RootOf(p, q)
        BY <2>2
      <4>3. r = q
        BY <4>1, <4>2, RootsApart DEF RootOf
      <4> QED BY <1>1, <4>1, <4>2, <4>3
    <3>4. Cardinality(DOMAIN imported') = Cardinality(DOMAIN imported) + Cardinality(DOMAIN wrote)
      <4>1. Cardinality(DOMAIN imported \cup DOMAIN wrote)
              = Cardinality(DOMAIN imported) + Cardinality(DOMAIN wrote) - Cardinality(DOMAIN imported \cap DOMAIN wrote)
        BY <2>1, FS_Union
      <4>2. Cardinality(DOMAIN imported \cap DOMAIN wrote) = 0
        BY <3>3, FS_EmptySet
      <4>3. \A a, b, c, d \in Nat : d = 0 => a + b - d = a + b
        OBVIOUS
      <4>4. DOMAIN imported' = DOMAIN imported \cup DOMAIN wrote
        BY <1>7
      <4> QED BY <2>1, <4>1, <4>2, <4>3, <4>4
    <3>5. ASSUME NEW p \in DOMAIN imported' PROVE \E r \in 0..(at - 1) : RootOf(p, r)
      <4>1. CASE p \in DOMAIN imported
        <5>1. PICK r \in 0..(op[o].consumed - 1) : RootOf(p, r)
          BY <3>2, <4>1
        <5>2. r \in 0..(at - 1)
          BY <1>1
        <5> QED BY <5>1, <5>2
      <4>2. CASE p \in DOMAIN wrote
        <5>1. PICK r \in op[o].consumed..(at - 1) : RootOf(p, r)
          BY <2>2, <4>2
        <5>2. r \in 0..(at - 1)
          BY <1>1
        <5> QED BY <5>1, <5>2
      <4> QED BY <1>7, <4>1, <4>2
    <3> QED BY <1>3, <1>5, <2>2, <2>3, <3>2, <3>4, <3>5
  <2>4. CASE x # o
    <3>1. applied = 0
      BY <1>3, <1>5, <2>4
    <3>2. op[o].processed = 0 /\ Cardinality(DOMAIN wrote) = 0
      BY <1>1, <2>1, <2>2, <3>1
    <3>3. DOMAIN wrote = {}
      BY <2>1, <3>2, FS_EmptySet
    <3>4. DOMAIN imported' = DOMAIN imported /\ op'[x] = op[x]
      BY <1>5, <1>7, <2>4, <3>3
    <3>5. Sole(x)
      BY <1>5, <2>4, <3>2 DEF Sole
    <3> QED BY <3>4, <3>5 DEF BulkInd, CountInv
  <2> QED BY <2>3, <2>4
<1> QED BY <1>8, <1>9, <1>10, <1>11, <1>12 DEF BulkInd

\* What a run has once it has applied the product of its next root line.
NextRoot == next_root(op[worker.op].file, worker.at)
Applied(fails) == worker.applied + (IF fails THEN 0 ELSE 1)
Wrote(fails) ==
    IF fails THEN worker.wrote
    ELSE [q \in DOMAIN worker.wrote \cup {Line(NextRoot).product} |->
            IF q = Line(NextRoot).product THEN variants_of(op[worker.op].file, NextRoot) ELSE worker.wrote[q]]
FailedNow(fails) == IF fails THEN worker.failed \cup {Line(NextRoot).product} ELSE worker.failed

\* One product more: the next root line of the file.
LEMMA Applies ==
  ASSUME BulkInd, worker # NoWorker, NEW fails \in BOOLEAN, Roots(op[worker.op].file, worker.at) # {}
  PROVE  /\ worker.op \in Operations /\ lines_done(op[worker.op].file, NextRoot) \in Size /\ Applied(fails) \in Nat
         /\ Wrote(fails) \in Catalogues /\ FailedNow(fails) \in SUBSET Products
         /\ Ran(worker.op, lines_done(op[worker.op].file, NextRoot), Applied(fails), Wrote(fails), FailedNow(fails))
<1> DEFINE o == worker.op
           size == op[o].file
           r == NextRoot
           p == Line(r).product
           wrote == Wrote(fails)
           failed == FailedNow(fails)
           applied == Applied(fails)
<1>00. /\ o = worker.op /\ size = op[o].file /\ Roots(size, worker.at) # {} /\ r = next_root(size, worker.at)
       /\ p = Line(r).product
       /\ wrote = IF fails THEN worker.wrote
                  ELSE [q \in DOMAIN worker.wrote \cup {p} |->
                          IF q = p THEN variants_of(size, r) ELSE worker.wrote[q]]
       /\ failed = IF fails THEN worker.failed \cup {p} ELSE worker.failed
       /\ applied = worker.applied + (IF fails THEN 0 ELSE 1)
  BY DEF NextRoot, Wrote, FailedNow, Applied
<1> SUFFICES /\ o \in Operations /\ lines_done(size, r) \in Size /\ applied \in Nat
             /\ wrote \in Catalogues /\ failed \in SUBSET Products
             /\ Ran(o, lines_done(size, r), applied, wrote, failed)
  OBVIOUS
<1> HIDE DEF o, size, r, p, wrote, failed, applied
<1> USE <1>00
<1>0. BulkTypes
  BY DEF BulkInd
<1> DEFINE done == lines_done(size, r)
<1>1. /\ worker \in Runs /\ o \in Operations /\ worker.at \in Size /\ worker.applied \in Nat
      /\ worker.wrote \in Catalogues /\ worker.failed \in SUBSET Products
  BY <1>0 DEF BulkTypes, Runs
<1>2. Ran(o, worker.at, worker.applied, worker.wrote, worker.failed)
  BY DEF BulkInd, RunInv
<1>3. op[o].file # NoFile /\ size # NoFile
  BY <1>2 DEF Ran
<1>4. /\ size \in Size /\ size \in Nat /\ size <= Len(Lines) /\ Len(Lines) \in Nat
      /\ op[o].consumed \in Nat /\ op[o].processed \in Nat /\ worker.at \in Nat
  <2>1. size \in Size /\ size \in Nat /\ size <= Len(Lines) /\ Len(Lines) \in Nat
    BY <1>0, <1>1, <1>3, FileIs
  <2>2. op[o].consumed \in Size /\ op[o].processed \in Nat
    BY <1>0, <1>1, DocumentIs
  <2> QED BY <1>1, <2>1, <2>2 DEF Size
<1>5. op[o].consumed <= worker.at /\ worker.at <= size /\ worker.at \in 0..size
  BY <1>2, <1>4 DEF Ran
<1>6. /\ r \in Roots(size, 0) /\ r \in Roots(Len(Lines), 0) /\ worker.at <= r /\ r \in Nat
      /\ done \in Nat /\ r < done /\ done <= size
      /\ \A q \in Roots(size, 0) : q < done => q < worker.at \/ q = r
      /\ VariantsIn(size, r) \subseteq variants_of(size, r)
      /\ variants_of(size, r) \in SUBSET Nat
  BY <1>4, <1>5, GroupIs
<1> HIDE DEF done
<1>7. p \in Products /\ RootOf(p, r)
  <2>1. r \in 0..(Len(Lines) - 1)
    BY <1>4, <1>6 DEF Roots
  <2>2. Line(r) \in [kind : Kinds, product : Products]
    BY <2>1, LinesAre
  <2> QED BY <1>6, <2>2 DEF RootOf
<1>8. /\ DOMAIN worker.wrote \in SUBSET Products /\ IsFiniteSet(DOMAIN worker.wrote)
      /\ Cardinality(DOMAIN worker.wrote) \in Nat
  BY <1>1, CatalogueIs
<1>9. p \notin DOMAIN worker.wrote
  <2> SUFFICES ASSUME p \in DOMAIN worker.wrote PROVE FALSE
    OBVIOUS
  <2>1. PICK q \in op[o].consumed..(worker.at - 1) : RootOf(p, q)
    BY <1>2 DEF Ran
  <2>2. q = r
    BY <1>7, <2>1, RootsApart DEF RootOf
  <2> QED BY <1>4, <1>6, <2>1, <2>2
<1>10. ASSUME NEW q \in Roots(size, 0), q < worker.at
       PROVE  \/ q < op[o].consumed \/ Line(q).product \in worker.failed
              \/ Line(q).product \in DOMAIN worker.wrote /\ VariantsIn(size, q) \subseteq worker.wrote[Line(q).product]
  BY <1>2, <1>10 DEF Ran
<1>11. \A q \in DOMAIN worker.wrote : \E x \in op[o].consumed..(done - 1) : RootOf(q, x)
  <2> SUFFICES ASSUME NEW q \in DOMAIN worker.wrote PROVE \E x \in op[o].consumed..(done - 1) : RootOf(q, x)
    OBVIOUS
  <2>1. PICK x \in op[o].consumed..(worker.at - 1) : RootOf(q, x)
    BY <1>2 DEF Ran
  <2>2. x \in op[o].consumed..(done - 1)
    BY <1>4, <1>6
  <2> QED BY <2>1, <2>2
<1>12. worker.applied = op[o].processed + Cardinality(DOMAIN worker.wrote)
  BY <1>2 DEF Ran
<1>13. op[o].consumed <= done /\ done \in Size
  BY <1>4, <1>5, <1>6 DEF Size
<1>14. CASE fails
  <2>1. wrote = worker.wrote /\ failed = worker.failed \cup {p} /\ applied = worker.applied
    BY <1>1, <1>14
  <2>2. \A q \in Roots(size, 0) : q < done =>
          \/ q < op[o].consumed \/ Line(q).product \in failed
          \/ Line(q).product \in DOMAIN wrote /\ VariantsIn(size, q) \subseteq wrote[Line(q).product]
    BY <1>6, <1>10, <2>1
  <2>3. Ran(o, done, applied, wrote, failed)
    BY <1>3, <1>6, <1>11, <1>12, <1>13, <2>1, <2>2 DEF Ran
  <2> QED BY <1>1, <1>7, <1>13, <2>1, <2>3 DEF done
<1>15. CASE ~fails
  <2> DEFINE D == DOMAIN worker.wrote \cup {p}
  <2>1. wrote = [q \in D |-> IF q = p THEN variants_of(size, r) ELSE worker.wrote[q]]
        /\ failed = worker.failed /\ applied = worker.applied + 1
    BY <1>1, <1>15
  <2>2. D \in SUBSET Products
    BY <1>7, <1>8
  <2>3. \A q \in DOMAIN worker.wrote : worker.wrote[q] \in SUBSET Nat
    BY <1>1 DEF Catalogues
  <2>4. wrote \in [D -> SUBSET Nat]
    BY <1>6, <2>1, <2>3
  <2>5. wrote \in Catalogues
    BY <2>2, <2>4, CatalogueOf
  <2>6. DOMAIN wrote = D /\ wrote[p] = variants_of(size, r) /\ \A q \in DOMAIN worker.wrote : wrote[q] = worker.wrote[q]
    BY <1>9, <2>1
  <2>7. Cardinality(DOMAIN wrote) = Cardinality(DOMAIN worker.wrote) + 1
    BY <1>8, <1>9, <2>6, FS_AddElement
  <2>8. \A q \in Roots(size, 0) : q < done =>
          \/ q < op[o].consumed \/ Line(q).product \in failed
          \/ Line(q).product \in DOMAIN wrote /\ VariantsIn(size, q) \subseteq wrote[Line(q).product]
    <3> SUFFICES ASSUME NEW q \in Roots(size, 0), q < done, ~(q < op[o].consumed), Line(q).product \notin failed
                 PROVE  Line(q).product \in DOMAIN wrote /\ VariantsIn(size, q) \subseteq wrote[Line(q).product]
      OBVIOUS
    <3>1. CASE q = r
      BY <1>6, <2>6, <3>1
    <3>2. CASE q < worker.at
      BY <1>10, <2>1, <2>6, <3>2
    <3> QED BY <1>6, <3>1, <3>2
  <2>9. \A q \in DOMAIN wrote : \E x \in op[o].consumed..(done - 1) : RootOf(q, x)
    <3>1. r \in op[o].consumed..(done - 1)
      BY <1>4, <1>5, <1>6
    <3> QED BY <1>7, <1>11, <2>6, <3>1
  <2>10. applied = op[o].processed + Cardinality(DOMAIN wrote)
    BY <1>4, <1>8, <1>12, <2>1, <2>7
  <2>11. Ran(o, done, applied, wrote, failed)
    BY <1>3, <1>6, <1>13, <2>8, <2>9, <2>10 DEF Ran
  <2>12. applied \in Nat
    BY <1>1, <2>1
  <2> QED BY <1>1, <1>13, <2>1, <2>5, <2>11, <2>12 DEF done
<1> QED BY <1>14, <1>15

\* A product is imported.
LEMMA StepApply == ASSUME BulkInd, NEW fails \in BOOLEAN, apply(fails) PROVE BulkInd'
<1>0. BulkTypes /\ worker # NoWorker
  BY DEF BulkInd, apply
<1> DEFINE o == worker.op
           done == lines_done(op[o].file, NextRoot)
           applied == Applied(fails)
           wrote == Wrote(fails)
           failed == FailedNow(fails)
<1>1. /\ o \in Operations /\ done \in Size /\ applied \in Nat
      /\ wrote \in Catalogues /\ failed \in SUBSET Products
      /\ Ran(o, done, applied, wrote, failed)
  <2>1. Roots(op[worker.op].file, worker.at) # {}
    BY DEF apply
  <2> QED BY <1>0, <2>1, Applies
<1>2. UNCHANGED <<exports, latest, cut_at, polls, answer, jobs, crashes>>
  BY DEF apply
<1>3. \/ /\ imported' = Merged(wrote) /\ rejected' = rejected \cup failed
         /\ op' = [op EXCEPT ![o].consumed = done, ![o].processed = applied]
         /\ worker' = [NoWorker EXCEPT !.op = o, !.at = done, !.applied = applied]
      \/ /\ worker' = [worker EXCEPT !.at = done, !.applied = applied, !.since = @ + 1, !.wrote = wrote, !.failed = failed]
         /\ UNCHANGED <<imported, rejected, op>>
  BY DEF apply, NextRoot, Applied, Wrote, FailedNow
<1> HIDE DEF done, applied, wrote, failed
<1>4. CASE /\ imported' = Merged(wrote) /\ rejected' = rejected \cup failed
           /\ op' = [op EXCEPT ![o].consumed = done, ![o].processed = applied]
           /\ worker' = [NoWorker EXCEPT !.op = o, !.at = done, !.applied = applied]
  <2>1. worker' = [op |-> o, at |-> done, applied |-> applied, since |-> 0, wrote |-> NotImported, failed |-> {}]
    BY <1>4 DEF NoWorker
  <2>2. worker' \in Runs
    BY <1>1, <2>1, NothingIs DEF Runs
  <2>3. /\ op[o] \in Documents /\ op \in [Operations -> Documents]
    BY <1>0, <1>1, DocumentIs DEF BulkTypes
  <2>4. op'[o].file = op[o].file /\ op'[o].consumed = done /\ op'[o].processed = applied
    BY <1>1, <1>4, <2>3 DEF Documents
  <2>5. op[o].file # NoFile /\ done <= op[o].file /\ done \in Nat
    BY <1>1, LinesAre DEF Ran, Size
  <2>6. DOMAIN worker'.wrote = {} /\ worker'.op = o /\ worker'.at = done /\ worker'.applied = applied
    BY <2>1, NothingIs
  <2>7. applied = applied + Cardinality(DOMAIN worker'.wrote)
    <3>1. Cardinality(DOMAIN worker'.wrote) = 0
      BY <2>6, FS_EmptySet
    <3> QED BY <1>1, <3>1
  <2>8. done <= done
    BY <2>5
  <2>9. \A q \in Roots(op'[o].file, 0) : q < done => q < op'[o].consumed
    BY <2>4
  <2>10. RunInv'
    BY <2>4, <2>5, <2>6, <2>7, <2>8, <2>9 DEF RunInv, Ran
  <2> QED BY <1>1, <1>2, <1>4, <2>2, <2>10, Commits
<1>5. CASE /\ worker' = [worker EXCEPT !.at = done, !.applied = applied, !.since = @ + 1, !.wrote = wrote, !.failed = failed]
           /\ UNCHANGED <<imported, rejected, op>>
  <2>1. worker \in Runs
    BY <1>0 DEF BulkTypes
  <2>2. worker' \in Runs
    <3>1. worker.since \in Nat /\ worker.since + 1 \in Nat
      BY <2>1 DEF Runs
    <3>2. worker' = [worker EXCEPT !.at = done, !.applied = applied, !.since = worker.since + 1,
                                   !.wrote = wrote, !.failed = failed]
      BY <1>5
    <3> QED BY <1>1, <2>1, <3>1, <3>2 DEF Runs
  <2>3. worker'.op = o /\ worker'.at = done /\ worker'.applied = applied /\ worker'.wrote = wrote /\ worker'.failed = failed
    BY <1>5, <2>1 DEF Runs
  <2>4. BulkTypes'
    BY <1>0, <1>2, <1>5, <2>2 DEF BulkTypes
  <2>5. RunInv'
    BY <1>1, <1>5, <2>3 DEF RunInv, Ran
  <2>6. LatestInv' /\ FileInv'
    BY <1>2, <1>5 DEF BulkInd, LatestInv, FileInv
  <2>7. CheckpointIsExact' /\ CountInv'
    BY <1>5 DEF BulkInd, CheckpointIsExact, CountInv, Sole
  <2> QED BY <2>4, <2>5, <2>6, <2>7 DEF BulkInd
<1> QED BY <1>3, <1>4, <1>5

\* A run ends.
LEMMA StepEnds == ASSUME BulkInd, process_ends PROVE BulkInd'
<1>0. BulkTypes /\ worker # NoWorker
  BY DEF BulkInd, process_ends
<1> DEFINE o == worker.op
           size == op[o].file
<1>1. /\ worker \in Runs /\ o \in Operations /\ worker.at \in Size /\ worker.applied \in Nat
      /\ worker.wrote \in Catalogues /\ worker.failed \in SUBSET Products
  BY <1>0 DEF BulkTypes, Runs
<1>2. Ran(o, worker.at, worker.applied, worker.wrote, worker.failed)
  BY <1>0 DEF BulkInd, RunInv
<1>3. /\ Roots(size, worker.at) = {}
      /\ op' = [op EXCEPT ![o].consumed = size, ![o].processed = worker.applied]
      /\ imported' = Merged(worker.wrote) /\ rejected' = rejected \cup worker.failed /\ worker' = NoWorker
      /\ UNCHANGED <<exports, latest, cut_at, polls, answer, jobs, crashes>>
  BY DEF process_ends
<1>4. size # NoFile
  BY <1>2 DEF Ran
<1>5. size \in Size /\ size \in Nat /\ worker.at \in Nat /\ op[o].consumed \in Nat
  <2>1. op[o].consumed \in Size /\ Len(Lines) \in Nat
    BY <1>0, <1>1, DocumentIs, LinesAre
  <2> QED BY <1>0, <1>1, <1>4, <2>1, FileIs DEF Size
<1>6. op[o].consumed <= worker.at /\ worker.at <= size
  BY <1>2 DEF Ran
<1>7. \A q \in Roots(size, 0) : q < size => q < worker.at
  <2> SUFFICES ASSUME NEW q \in Roots(size, 0), ~(q < worker.at) PROVE FALSE
    OBVIOUS
  <2>1. q \in Nat /\ q < size /\ Line(q).kind = "root"
    BY <1>5, RootsAre
  <2>2. q \in Roots(size, worker.at)
    BY <1>5, <2>1, RootsAre
  <2> QED BY <1>3, <2>2
<1>8. \A p \in DOMAIN worker.wrote : \E x \in op[o].consumed..(size - 1) : RootOf(p, x)
  <2> SUFFICES ASSUME NEW p \in DOMAIN worker.wrote PROVE \E x \in op[o].consumed..(size - 1) : RootOf(p, x)
    OBVIOUS
  <2>1. PICK x \in op[o].consumed..(worker.at - 1) : RootOf(p, x)
    BY <1>2 DEF Ran
  <2>2. x \in op[o].consumed..(size - 1)
    BY <1>5, <1>6
  <2> QED BY <2>1, <2>2
<1>9. op[o].consumed <= size /\ size <= size
  BY <1>5, <1>6
<1>10. Ran(o, size, worker.applied, worker.wrote, worker.failed)
  BY <1>2, <1>4, <1>7, <1>8, <1>9 DEF Ran
<1>11. RunInv'
  BY <1>3 DEF RunInv
<1> HIDE DEF size
<1> QED BY <1>1, <1>3, <1>5, <1>10, <1>11, Commits

\* What no run and no checkpoint has touched stays counted.
LEMMA WorkKeeps ==
  ASSUME BulkInd, UNCHANGED <<imported, rejected>>, worker' = worker \/ worker' = NoWorker,
         \A o \in Operations : /\ op'[o].consumed = op[o].consumed /\ op'[o].processed = op[o].processed
                               /\ op[o].file # NoFile => op'[o].file = op[o].file
  PROVE  CheckpointIsExact' /\ RunInv' /\ CountInv'
<1>0. BulkTypes
  BY DEF BulkInd
<1>1. CheckpointIsExact'
  <2> SUFFICES ASSUME NEW o \in Operations, op'[o].file # NoFile, NEW r \in Roots(op'[o].file, 0), r < op'[o].consumed
               PROVE  \/ Line(r).product \in rejected'
                      \/ /\ Line(r).product \in DOMAIN imported'
                         /\ VariantsIn(op'[o].file, r) \subseteq imported'[Line(r).product]
    BY DEF CheckpointIsExact, VariantsIn, Line, Roots
  <2>1. CASE op[o].file # NoFile
    <3>1. op'[o].file = op[o].file /\ op'[o].consumed = op[o].consumed
      BY <2>1
    <3> QED BY <2>1, <3>1 DEF BulkInd, CheckpointIsExact, VariantsIn
  <2>2. CASE op[o].file = NoFile
    <3>1. op'[o].consumed = 0
      BY <2>2 DEF BulkInd, FileInv
    <3>2. r \in Nat
      BY DEF Roots
    <3> QED BY <3>1, <3>2
  <2> QED BY <2>1, <2>2
<1>2. RunInv'
  <2> SUFFICES ASSUME worker # NoWorker, worker' = worker
               PROVE  Ran(worker.op, worker.at, worker.applied, worker.wrote, worker.failed)'
    BY DEF RunInv
  <2> DEFINE o == worker.op
  <2>1. o \in Operations
    BY <1>0, NoWorkerIs DEF BulkTypes
  <2>2. Ran(o, worker.at, worker.applied, worker.wrote, worker.failed)
    BY DEF BulkInd, RunInv
  <2>3. op'[o].file = op[o].file /\ op'[o].consumed = op[o].consumed /\ op'[o].processed = op[o].processed
    BY <2>1, <2>2 DEF Ran
  <2> QED BY <2>2, <2>3 DEF Ran
<1>3. CountInv'
  <2> SUFFICES ASSUME NEW o \in Operations, \A x \in Operations \ {o} : op'[x].processed = 0
               PROVE  /\ op'[o].processed = Cardinality(DOMAIN imported')
                      /\ \A p \in DOMAIN imported' : \E r \in 0..(op'[o].consumed - 1) : RootOf(p, r)
    BY DEF CountInv, Sole
  <2>1. Sole(o)
    BY DEF Sole
  <2> QED BY <2>1 DEF BulkInd, CountInv
<1> QED BY <1>1, <1>2, <1>3

\* What touches no run, file or count.
LEMMA SameWork ==
  ASSUME BulkInd, UNCHANGED <<imported, rejected, op>>, worker' = worker \/ worker' = NoWorker
  PROVE  CheckpointIsExact' /\ RunInv' /\ CountInv'
BY WorkKeeps

\* A status alone.
LEMMA StatusOnly ==
  ASSUME BulkTypes, NEW o \in Operations, NEW s \in Statuses, op' = [op EXCEPT ![o].status = s]
  PROVE  /\ op' \in [Operations -> Documents] /\ op'[o].status = s
         /\ \A x \in Operations \ {o} : op'[x] = op[x]
         /\ \A x \in Operations : /\ op'[x].consumed = op[x].consumed /\ op'[x].processed = op[x].processed
                                  /\ op'[x].file = op[x].file
<1>1. op \in [Operations -> Documents] /\ op[o] \in Documents
  BY DEF BulkTypes
<1> DEFINE doc == [op[o] EXCEPT !.status = s]
<1>2. doc \in Documents /\ doc.status = s /\ doc.consumed = op[o].consumed /\ doc.processed = op[o].processed
      /\ doc.file = op[o].file
  BY <1>1 DEF Documents
<1>3. op' = [op EXCEPT ![o] = doc]
  BY <1>1
<1> HIDE DEF doc
<1> QED BY <1>1, <1>2, <1>3

\* An import is asked for.
LEMMA StepStart == ASSUME BulkInd, NEW o \in Operations, start_import(o) PROVE BulkInd'
<1>0. BulkTypes
  BY DEF BulkInd
<1>1. /\ exports[o] = "none" /\ exports' = [exports EXCEPT ![o] = "CREATED"] /\ latest' = o
      /\ op' = [op EXCEPT ![o].status = "Created"] /\ polls' = polls \cup {o}
      /\ UNCHANGED <<cut_at, answer, jobs, worker, imported, rejected, crashes>>
  BY DEF start_import
<1>2. "Created" \in Statuses /\ "CREATED" \in ExportStates
  BY DEF Statuses, ExportStates
<1>3. /\ op' \in [Operations -> Documents] /\ \A x \in Operations \ {o} : op'[x] = op[x]
      /\ \A x \in Operations : /\ op'[x].consumed = op[x].consumed /\ op'[x].processed = op[x].processed
                               /\ op'[x].file = op[x].file
  BY <1>0, <1>1, <1>2, StatusOnly
<1>4. exports \in [Operations -> ExportStates]
  BY <1>0 DEF BulkTypes
<1>5. exports' \in [Operations -> ExportStates] /\ exports'[o] = "CREATED" /\ \A x \in Operations \ {o} : exports'[x] = exports[x]
  BY <1>1, <1>2, <1>4
<1>6. BulkTypes'
  BY <1>0, <1>1, <1>3, <1>5 DEF BulkTypes
<1>7. LatestInv'
  BY <1>1, <1>5 DEF LatestInv
<1>8. FileInv'
  <2>1. op[o].file = NoFile
    BY <1>1 DEF BulkInd, FileInv
  <2>2. \A x \in Operations \ {o} : exports'[x] = exports[x]
    BY <1>5
  <2>3. answer # NoAnswer => answer.about \in Operations /\ answer.status # "none"
    BY <1>0 DEF BulkTypes, Answers
  <2>4. answer # NoAnswer => answer.about # o \/ answer.status \notin {"COMPLETED", "PARTIAL"}
    BY <1>1 DEF BulkInd, FileInv
  <2> QED BY <1>1, <1>3, <2>1, <2>2, <2>3, <2>4 DEF BulkInd, FileInv
<1>9. CheckpointIsExact' /\ RunInv' /\ CountInv'
  BY <1>1, <1>3, WorkKeeps
<1> QED BY <1>6, <1>7, <1>8, <1>9 DEF BulkInd

\* An export moves on, as long as it has left no file.
LEMMA ExportMoves ==
  ASSUME BulkInd, NEW o \in Operations, NEW s \in ExportStates \ {"none"},
         exports[o] \notin {"none", "COMPLETED", "PARTIAL"}, exports' = [exports EXCEPT ![o] = s],
         UNCHANGED <<latest, cut_at, polls, answer, jobs, worker, imported, rejected, crashes>>,
         op' \in [Operations -> Documents],
         \A x \in Operations : /\ op'[x].consumed = op[x].consumed /\ op'[x].processed = op[x].processed
                               /\ op'[x].file = op[x].file
                               /\ op[x].status = "none" => op'[x].status = "none"
  PROVE  BulkInd'
<1>0. BulkTypes
  BY DEF BulkInd
<1>1. exports \in [Operations -> ExportStates]
  BY <1>0 DEF BulkTypes
<1>2. exports' \in [Operations -> ExportStates] /\ exports'[o] = s /\ \A x \in Operations \ {o} : exports'[x] = exports[x]
  BY <1>1
<1>3. BulkTypes'
  BY <1>0, <1>2 DEF BulkTypes
<1>4. LatestInv'
  BY <1>2 DEF BulkInd, LatestInv
<1>5. FileInv'
  <2>1. op[o].file = NoFile
    BY DEF BulkInd, FileInv
  <2>2. answer # NoAnswer => answer.about \in Operations
    BY <1>0 DEF BulkTypes, Answers
  <2>3. answer # NoAnswer => answer.about # o \/ answer.status \notin {"COMPLETED", "PARTIAL"}
    BY DEF BulkInd, FileInv
  <2> QED BY <1>2, <2>1, <2>2, <2>3 DEF BulkInd, FileInv
<1>6. CheckpointIsExact' /\ RunInv' /\ CountInv'
  BY WorkKeeps
<1> QED BY <1>3, <1>4, <1>5, <1>6 DEF BulkInd

\* Shopify writes the export.
LEMMA StepExporting ==
  ASSUME BulkInd, NEW o \in Operations, NEW s \in {"RUNNING", "COMPLETED", "FAILED", "PARTIAL", "CANCELED"}, Exporting(o, s)
  PROVE  BulkInd'
<1>1. s \in ExportStates \ {"none"}
  BY DEF ExportStates
<1>2. exports[o] \notin {"none", "COMPLETED", "PARTIAL"}
  BY DEF Exporting
<1>3. exports' = [exports EXCEPT ![o] = s]
      /\ UNCHANGED <<latest, cut_at, op, polls, answer, jobs, worker, imported, rejected, crashes>>
  BY DEF Exporting
<1>4. op' \in [Operations -> Documents]
  BY <1>3 DEF BulkInd, BulkTypes
<1> QED BY <1>1, <1>2, <1>3, <1>4, ExportMoves

\* Staff cancel an operation.
LEMMA StepCancel == ASSUME BulkInd, NEW o \in Operations, cancel(o) PROVE BulkInd'
<1>1. "CANCELING" \in ExportStates \ {"none"} /\ "Cancelled" \in Statuses
  BY DEF ExportStates, Statuses
<1>2. exports[o] \notin {"none", "COMPLETED", "PARTIAL"} /\ op[o].status # "none"
  BY DEF cancel, ACTIVE_STATUSES
<1>3. exports' = [exports EXCEPT ![o] = "CANCELING"] /\ op' = [op EXCEPT ![o].status = "Cancelled"]
      /\ UNCHANGED <<latest, cut_at, polls, answer, jobs, worker, imported, rejected, crashes>>
  BY DEF cancel
<1>4. /\ op' \in [Operations -> Documents] /\ \A x \in Operations \ {o} : op'[x] = op[x]
      /\ \A x \in Operations : /\ op'[x].consumed = op[x].consumed /\ op'[x].processed = op[x].processed
                               /\ op'[x].file = op[x].file
  BY <1>1, <1>3, StatusOnly DEF BulkInd
<1>5. \A x \in Operations : op[x].status = "none" => op'[x].status = "none"
  BY <1>2, <1>4
<1> QED BY <1>1, <1>2, <1>3, <1>4, <1>5, ExportMoves

\* The sweep queues polls.
LEMMA StepSweep == ASSUME BulkInd, poll_running_operations PROVE BulkInd'
<1>0. BulkTypes
  BY DEF BulkInd
<1>1. polls' = polls \cup active_operation /\ active_operation # {}
      /\ UNCHANGED <<exports, latest, cut_at, op, answer, jobs, worker, imported, rejected, crashes>>
  BY DEF poll_running_operations
<1>2. active_operation \subseteq Operations /\ \E o \in Operations : op[o].status # "none"
  BY <1>1 DEF active_operation, ACTIVE_STATUSES
<1>3. BulkTypes'
  BY <1>0, <1>1, <1>2 DEF BulkTypes
<1>4. LatestInv'
  BY <1>1, <1>2 DEF BulkInd, LatestInv
<1>5. FileInv'
  BY <1>1 DEF BulkInd, FileInv
<1> QED BY <1>1, <1>3, <1>4, <1>5, SameWork DEF BulkInd

\* A poll asks.
LEMMA StepPoll == ASSUME BulkInd, NEW o \in Operations, poll(o) PROVE BulkInd'
<1>0. BulkTypes
  BY DEF BulkInd
<1>1. /\ o \in polls /\ answer' = [op |-> o, about |-> latest, status |-> exports[latest]]
      /\ UNCHANGED <<exports, latest, cut_at, op, polls, jobs, worker, imported, rejected, crashes>>
  BY DEF poll
<1>2. latest \in Operations /\ exports[latest] # "none"
  BY <1>1 DEF BulkInd, LatestInv
<1>3. exports[latest] \in ExportStates \ {"none"}
  BY <1>0, <1>2 DEF BulkTypes
<1>4. answer' \in Answers
  BY <1>1, <1>2, <1>3 DEF Answers
<1>5. BulkTypes'
  BY <1>0, <1>1, <1>4 DEF BulkTypes
<1>6. LatestInv'
  BY <1>1 DEF BulkInd, LatestInv
<1>7. answer'.about = latest /\ answer'.status = exports[latest]
  BY <1>1
<1>8. FileInv'
  BY <1>1, <1>2, <1>7 DEF BulkInd, FileInv
<1> QED BY <1>1, <1>5, <1>6, <1>8, SameWork DEF BulkInd

\* And records the answer.
LEMMA StepAnswered == ASSUME BulkInd, poll_answered PROVE BulkInd'
<1>0. BulkTypes
  BY DEF BulkInd
<1> DEFINE o == answer.op
           mine == answer.about = o
           s == IF mine THEN SHOPIFY_STATUS_MAP(answer.status) ELSE "Failed"
           lines == CASE answer.status = "COMPLETED" -> Len(Lines)
                      [] answer.status = "PARTIAL" -> cut_at
                      [] OTHER -> NoFile
           file == IF mine THEN lines ELSE op[o].file
<1>1. answer # NoAnswer /\ answer \in Answers /\ o \in Operations /\ answer.about \in Operations
      /\ answer.status \in ExportStates \ {"none"}
  BY <1>0 DEF BulkTypes, Answers, poll_answered
<1>2. /\ op' = [op EXCEPT ![o].status = s, ![o].file = IF mine THEN lines ELSE @]
      /\ polls' = polls \ {o} /\ jobs' = IF mine /\ lines # NoFile THEN jobs \cup {o} ELSE jobs
      /\ answer' = NoAnswer
      /\ UNCHANGED <<exports, latest, cut_at, worker, imported, rejected, crashes>>
  BY DEF poll_answered
<1>3. op \in [Operations -> Documents] /\ op[o] \in Documents /\ exports \in [Operations -> ExportStates]
  BY <1>0, <1>1 DEF BulkTypes
<1>4. s \in Statuses
  <2>1. "Failed" \in Statuses
    BY DEF Statuses
  <2>2. SHOPIFY_STATUS_MAP(answer.status) \in Statuses
    BY <1>1 DEF SHOPIFY_STATUS_MAP, Statuses, ExportStates
  <2> QED BY <2>1, <2>2
<1>5. lines \in Size \cup {NoFile}
  <2>1. Len(Lines) \in Size /\ cut_at \in Size
    <3>1. Len(Lines) \in Nat /\ cut_at \in 1..Len(Lines)
      BY <1>0, LinesAre DEF BulkTypes
    <3> QED BY <3>1 DEF Size
  <2> QED BY <2>1
<1>6. lines = IF answer.status = "COMPLETED" THEN Len(Lines) ELSE IF answer.status = "PARTIAL" THEN cut_at ELSE NoFile
  OBVIOUS
<1> HIDE DEF lines, s
<1>7. file \in Size \cup {NoFile}
  BY <1>3, <1>5 DEF Documents
<1> DEFINE doc == [op[o] EXCEPT !.status = s, !.file = file]
<1>8. /\ doc \in Documents /\ doc.file = file /\ doc.status = s
      /\ doc.consumed = op[o].consumed /\ doc.processed = op[o].processed
  BY <1>3, <1>4, <1>7 DEF Documents
<1>9. op' = [op EXCEPT ![o] = doc]
  BY <1>2, <1>3 DEF Documents
<1> HIDE DEF doc
<1>10. op' \in [Operations -> Documents] /\ op'[o] = doc /\ \A x \in Operations \ {o} : op'[x] = op[x]
  BY <1>1, <1>3, <1>8, <1>9
\* A file that is there is the one the answer names.
<1>11. /\ op[o].file # NoFile => file = op[o].file
       /\ mine /\ lines # NoFile => /\ exports[o] \in {"COMPLETED", "PARTIAL"}
                                    /\ lines = IF exports[o] = "COMPLETED" THEN Len(Lines) ELSE cut_at
                                    /\ lines \in Size
  <2>1. CASE ~mine
    BY <2>1
  <2>2. CASE mine
    <3>1. /\ answer.status \in {"COMPLETED", "PARTIAL"} => exports[o] = answer.status
          /\ op[o].file # NoFile => exports[o] = answer.status
      BY <1>1, <2>2 DEF BulkInd, FileInv
    <3>2. op[o].file # NoFile => /\ exports[o] \in {"COMPLETED", "PARTIAL"}
                                 /\ op[o].file = IF exports[o] = "COMPLETED" THEN Len(Lines) ELSE cut_at
      BY <1>1 DEF BulkInd, FileInv
    <3>3. lines # NoFile => answer.status \in {"COMPLETED", "PARTIAL"}
      BY <1>6
    <3> QED BY <1>5, <1>6, <2>2, <3>1, <3>2, <3>3
  <2> QED BY <2>1, <2>2
<1>12. BulkTypes'
  BY <1>0, <1>1, <1>2, <1>10 DEF BulkTypes
<1>13. LatestInv'
  <2>1. latest \in Operations
    BY <1>1 DEF BulkInd, LatestInv
  <2> QED BY <1>2, <2>1 DEF BulkInd, LatestInv
<1>14. FileInv'
  <2> SUFFICES ASSUME NEW x \in Operations
               PROVE  /\ op'[x].file # NoFile => /\ exports[x] \in {"COMPLETED", "PARTIAL"}
                                                 /\ op'[x].file = IF exports[x] = "COMPLETED" THEN Len(Lines) ELSE cut_at
                                                 /\ op'[x].consumed <= op'[x].file
                      /\ op'[x].file = NoFile => op'[x].consumed = 0 /\ op'[x].processed = 0 /\ x \notin jobs'
    BY <1>2 DEF FileInv
  <2>1. CASE x # o
    BY <1>2, <1>10, <2>1 DEF BulkInd, FileInv
  <2>2. CASE x = o /\ op[o].file # NoFile
    BY <1>2, <1>8, <1>10, <1>11, <2>2 DEF BulkInd, FileInv
  <2>3. CASE x = o /\ op[o].file = NoFile
    <3>1. op[o].consumed = 0 /\ op[o].processed = 0 /\ o \notin jobs
      BY <2>3 DEF BulkInd, FileInv
    <3>2. CASE mine /\ lines # NoFile
      <4>1. op'[o].file = lines /\ 0 <= lines
        BY <1>8, <1>10, <1>11, <3>2, LinesAre DEF Size
      <4> QED BY <1>8, <1>10, <1>11, <2>3, <3>1, <3>2, <4>1
    <3>3. CASE ~(mine /\ lines # NoFile)
      BY <1>2, <1>8, <1>10, <2>3, <3>1, <3>3
    <3> QED BY <3>2, <3>3
  <2> QED BY <2>1, <2>2, <2>3
<1>15. CheckpointIsExact' /\ RunInv' /\ CountInv'
  BY <1>2, <1>8, <1>10, <1>11, WorkKeeps
<1> QED BY <1>12, <1>13, <1>14, <1>15 DEF BulkInd

\* A run starts at the checkpoint.
LEMMA StepProcess == ASSUME BulkInd, NEW o \in Operations, process(o) PROVE BulkInd'
<1>0. BulkTypes
  BY DEF BulkInd
<1>1. /\ o \in jobs \/ op[o].file # NoFile
      /\ jobs' = jobs \ {o} /\ worker' = resumed(o)
      /\ UNCHANGED <<exports, latest, cut_at, op, polls, answer, imported, rejected, crashes>>
  BY DEF process
<1>2. op[o].file # NoFile
  BY <1>1 DEF BulkInd, FileInv
<1>3. /\ op[o].consumed \in Size /\ op[o].processed \in Nat /\ op[o].consumed <= op[o].file /\ op[o].consumed \in Nat
  <2>1. op[o].consumed \in Size /\ op[o].processed \in Nat
    BY <1>0, DocumentIs
  <2>2. op[o].consumed <= op[o].file
    BY <1>2 DEF BulkInd, FileInv
  <2> QED BY <2>1, <2>2, LinesAre DEF Size
<1>4. worker' = [op |-> o, at |-> op[o].consumed, applied |-> op[o].processed, since |-> 0,
                 wrote |-> NotImported, failed |-> {}]
  BY <1>1 DEF resumed, restarted, NoWorker
<1>5. worker' \in Runs
  BY <1>3, <1>4, NothingIs DEF Runs
<1>6. BulkTypes'
  BY <1>0, <1>1, <1>5 DEF BulkTypes
<1>7. LatestInv' /\ FileInv'
  BY <1>1 DEF BulkInd, LatestInv, FileInv
<1>8. CheckpointIsExact' /\ CountInv'
  BY <1>1 DEF BulkInd, CheckpointIsExact, CountInv, Sole
<1>9. RunInv'
  <2>1. worker'.op = o /\ worker'.at = op[o].consumed /\ worker'.applied = op[o].processed /\ DOMAIN worker'.wrote = {}
    BY <1>4, NothingIs
  <2>2. Cardinality(DOMAIN worker'.wrote) = 0
    BY <2>1, FS_EmptySet
  <2>3. worker'.applied = op[o].processed + Cardinality(DOMAIN worker'.wrote) /\ op[o].consumed <= op[o].consumed
    BY <1>3, <2>1, <2>2
  <2> QED BY <1>1, <1>2, <1>3, <2>1, <2>3 DEF RunInv, Ran
<1> QED BY <1>6, <1>7, <1>8, <1>9 DEF BulkInd

\* A run dies, and what it had not committed is undone.
LEMMA StepCrash == ASSUME BulkInd, BulkCrash PROVE BulkInd'
<1>0. BulkTypes
  BY DEF BulkInd
<1>1. /\ worker' = worker \/ worker' = NoWorker
      /\ answer' = answer \/ answer' = NoAnswer
      /\ polls' \subseteq polls
      /\ UNCHANGED <<exports, latest, cut_at, op, jobs, imported, rejected>>
  BY DEF BulkCrash
<1>2. crashes' \in 0..MaxCrashes
  <2>1. \A m \in 0..MaxCrashes : m < MaxCrashes => m + 1 \in 0..MaxCrashes
    BY BulkAssumption
  <2> QED BY <1>0, <2>1 DEF BulkTypes, BulkCrash
<1>3. BulkTypes'
  BY <1>0, <1>1, <1>2 DEF BulkTypes
<1>4. LatestInv' /\ FileInv'
  BY <1>1 DEF BulkInd, LatestInv, FileInv
<1> QED BY <1>1, <1>3, <1>4, SameWork DEF BulkInd

\* The invariant holds at the start.
LEMMA BulkStarts == BulkInit => BulkInd
<1> SUFFICES ASSUME BulkInit PROVE BulkInd
  OBVIOUS
<1>1. Unstarted \in Documents /\ Unstarted.file = NoFile /\ Unstarted.consumed = 0 /\ Unstarted.processed = 0
      /\ Unstarted.status = "none"
  <2>1. 0 \in Size /\ "none" \in Statuses
    BY LinesAre DEF Size, Statuses
  <2> QED BY <2>1 DEF Unstarted, Documents
<1>2. cut_at \in 1..Len(Lines) /\ imported = NotImported /\ "none" \in ExportStates /\ 0 \in 0..MaxCrashes
  BY BulkAssumption DEF BulkInit, ExportStates
<1>3. BulkTypes
  BY <1>1, <1>2, NothingIs DEF BulkInit, BulkTypes
<1>4. \A o \in Operations : op[o] = Unstarted /\ exports[o] = "none"
  BY DEF BulkInit
<1>5. LatestInv /\ FileInv
  BY <1>1, <1>4, BulkAssumption DEF BulkInit, LatestInv, FileInv
<1>6. CheckpointIsExact /\ RunInv
  BY <1>1, <1>4 DEF BulkInit, CheckpointIsExact, RunInv
<1>7. CountInv
  <2>1. DOMAIN imported = {} /\ Cardinality(DOMAIN imported) = 0
    BY <1>2, NothingIs, FS_EmptySet
  <2> QED BY <1>1, <1>4, <2>1 DEF CountInv
<1> QED BY <1>3, <1>5, <1>6, <1>7 DEF BulkInd

\* Every step keeps the invariant.
LEMMA BulkStep == BulkInd /\ [BulkNext]_bulkVars => BulkInd'
<1> SUFFICES ASSUME BulkInd, [BulkNext]_bulkVars PROVE BulkInd'
  OBVIOUS
<1>1. ASSUME NEW o \in Operations, start_import(o) \/ poll(o) \/ cancel(o) \/ process(o) PROVE BulkInd'
  BY <1>1, StepStart, StepPoll, StepCancel, StepProcess
<1>2. ASSUME NEW o \in Operations, NEW s \in {"RUNNING", "COMPLETED", "FAILED", "PARTIAL", "CANCELED"}, Exporting(o, s)
      PROVE  BulkInd'
  BY <1>2, StepExporting
<1>3. CASE poll_running_operations
  BY <1>3, StepSweep
<1>4. CASE poll_answered
  BY <1>4, StepAnswered
<1>5. ASSUME NEW fails \in BOOLEAN, apply(fails) PROVE BulkInd'
  BY <1>5, StepApply
<1>6. CASE process_ends
  BY <1>6, StepEnds
<1>7. CASE BulkCrash
  BY <1>7, StepCrash
<1>8. CASE UNCHANGED bulkVars
  <2>1. UNCHANGED <<exports, latest, cut_at, op, polls, answer, jobs, worker, imported, rejected, crashes>>
    BY <1>8 DEF bulkVars
  <2>2. BulkTypes' /\ LatestInv' /\ FileInv'
    BY <2>1 DEF BulkInd, BulkTypes, LatestInv, FileInv
  <2> QED BY <2>1, <2>2, SameWork DEF BulkInd
<1> QED BY <1>1, <1>2, <1>3, <1>4, <1>5, <1>6, <1>7, <1>8 DEF BulkNext

\* What the invariant says of the part's own properties.
LEMMA BulkIs == BulkInd => BulkTypeOK /\ ImportIsExact
<1> SUFFICES ASSUME BulkInd PROVE BulkTypeOK /\ ImportIsExact
  OBVIOUS
<1>0. BulkTypes
  BY DEF BulkInd
<1>1. \A o \in Operations : /\ op[o].status \in {"none", "Created", "Running", "Completed", "Failed", "Cancelled"}
                            /\ op[o].consumed \in 0..Len(Lines) /\ op[o].processed \in Nat
  BY <1>0, DocumentIs DEF Statuses, Size
<1>2. DOMAIN imported \subseteq Products
  BY <1>0, CatalogueIs DEF BulkTypes
<1>3. BulkTypeOK
  BY <1>0, <1>1, <1>2 DEF BulkTypes, BulkTypeOK
<1>4. CountIsExact
  BY DEF BulkInd, CountInv, Sole, CountIsExact
<1> QED BY <1>3, <1>4 DEF BulkInd, ImportIsExact

\* Wherever runs of the bulk import die, what a checkpoint counts as consumed
\* is in ERPNext or was rejected, with every variant line the file has of it,
\* and what it counts as processed is what is there: apply commits the products
\* and the checkpoint of api/bulk.py together.
THEOREM ImportStaysExact == BulkSpec => []ImportIsExact
<1>1. BulkInit => BulkInd
  BY BulkStarts
<1>2. BulkInd /\ [BulkNext]_bulkVars => BulkInd'
  BY BulkStep
<1>3. BulkInd => ImportIsExact
  BY BulkIs
<1> QED BY <1>1, <1>2, <1>3, PTL DEF BulkSpec

------------------------------------------------------------------------------
(* Webhook registration.                                                      *)

TopicSet == {Topics[i] : i \in DOMAIN Topics}
Subscriptions == [id : Nat \ {0}, topic : TopicSet, url : Sites]

TopicsIn(s) == {s[i] : i \in DOMAIN s}
Distinct(s) == \A i, j \in DOMAIN s : s[i] = s[j] => i = j
UniqueIds(S) == \A x, y \in S : x.id = y.id => x = y

\* What register keeps of a topic's subscriptions: the first that posts here.
Kept(x) == /\ runner.pc = "register" /\ x \in runner.existing /\ x.url = runner.target
           /\ \A y \in runner.existing : y.topic = x.topic /\ y.url = runner.target => x.id <= y.id

\* What a job leaves a topic as.
Cured(t) ==
    \/ t \in runner.failed
    \/ runner.pc = "unregister" /\ On(t) = {}
    \/ /\ runner.pc = "register"
       /\ On(t) # {} /\ \A x \in On(t) : x.url = runner.target
       /\ Cardinality(On(t) \cap runner.existing) <= 1

\* The job has deleted what it deleted and nothing that it keeps; the topics it
\* has not come to are as it found them, those it is through with are cured.
RunnerInv == runner.pc # "idle" =>
    /\ IsFiniteSet(runner.existing) /\ UniqueIds(runner.existing)
    /\ Distinct(runner.todo)
    /\ \A t \in TopicsIn(runner.todo) :
          On(t) = {x \in runner.existing : x.topic = t} \ runner.gone
    /\ \A x \in runner.gone : ~Kept(x)
    /\ \A t \in TopicSet \ TopicsIn(runner.todo) : Cured(t)

Runners == [pc : {"idle", "register", "unregister"}, todo : Seq(TopicSet),
            existing : SUBSET Subscriptions, target : Sites \cup {""},
            gone : SUBSET Subscriptions, failed : SUBSET TopicSet]

RegistrationInd ==
    /\ enabled \in BOOLEAN /\ site \in Sites
    /\ flips \in 0..MaxFlips /\ lost \in 0..MaxLost
    /\ registration \in {"none", "register", "unregister"}
    /\ runner \in Runners /\ runner.pc \in {"idle", registration}
    /\ runner.pc = "idle" => runner = NoRunner
    /\ runner.pc # "idle" => runner.target \in Sites
    /\ subs \subseteq Subscriptions /\ IsFiniteSet(subs) /\ UniqueIds(subs)
    /\ RunnerInv

\* The topics still to do, taken one by one.
LEMMA Topicwise ==
  ASSUME NEW s \in Seq(TopicSet), s # <<>>, Distinct(s)
  PROVE  /\ Head(s) \in TopicSet /\ Tail(s) \in Seq(TopicSet) /\ Distinct(Tail(s))
         /\ TopicsIn(s) = {Head(s)} \cup TopicsIn(Tail(s)) /\ Head(s) \notin TopicsIn(Tail(s))
<1>1. Head(s) = s[1] /\ 1 \in DOMAIN s
  OBVIOUS
<1>2. Tail(s) \in Seq(TopicSet) /\ DOMAIN Tail(s) = 1..(Len(s) - 1) /\ DOMAIN s = 1..Len(s)
  OBVIOUS
<1>3. \A i \in DOMAIN Tail(s) : i + 1 \in DOMAIN s /\ Tail(s)[i] = s[i + 1]
  BY <1>2
<1>4. Distinct(Tail(s))
  BY <1>2, <1>3 DEF Distinct
<1>5. \A i \in DOMAIN s : i = 1 \/ (i - 1 \in DOMAIN Tail(s) /\ s[i] = Tail(s)[i - 1])
  BY <1>2
<1>6. TopicsIn(s) = {Head(s)} \cup TopicsIn(Tail(s))
  <2>1. \A i \in DOMAIN s : s[i] \in {Head(s)} \cup TopicsIn(Tail(s))
    BY <1>1, <1>5 DEF TopicsIn
  <2>2. \A t \in TopicsIn(Tail(s)) : t \in TopicsIn(s)
    BY <1>3 DEF TopicsIn
  <2>3. Head(s) \in TopicsIn(s)
    BY <1>1 DEF TopicsIn
  <2>4. \A t \in TopicsIn(s) : t \in {Head(s)} \cup TopicsIn(Tail(s))
    BY <2>1 DEF TopicsIn
  <2> QED BY <2>2, <2>3, <2>4
<1>7. Head(s) \notin TopicsIn(Tail(s))
  BY <1>1, <1>2, <1>3 DEF TopicsIn, Distinct
<1> QED BY <1>1, <1>2, <1>4, <1>6, <1>7

\* A job starts with every topic, each once.
LEMMA TopicsAreListed == Topics \in Seq(TopicSet) /\ Distinct(Topics) /\ TopicsIn(Topics) = TopicSet
BY RegistrationAssumption DEF TopicSet, Distinct, TopicsIn

\* Numbers that are not taken: there are some.
LEMMA FreshIds ==
  ASSUME NEW T \in SUBSET Nat, IsFiniteSet(T), NEW n \in Nat \ {0}
  PROVE  LET free == (1..(Cardinality(T) + n)) \ T
             ids == {i \in free : Cardinality({j \in free : j < i}) < n}
         IN  ids # {} /\ IsFiniteSet(ids) /\ ids \subseteq (Nat \ {0}) \ T
<1> DEFINE all == 1..(Cardinality(T) + n)
           free == all \ T
           ids == {i \in free : Cardinality({j \in free : j < i}) < n}
<1>1. Cardinality(T) \in Nat
  BY FS_CardinalityType
<1>2. IsFiniteSet(all) /\ Cardinality(all) = Cardinality(T) + n
  BY <1>1, FS_Interval
<1>3. IsFiniteSet(free)
  BY <1>2, FS_Difference
<1>4. Cardinality(all \cap T) <= Cardinality(T)
  BY <1>2, FS_Intersection
<1>5. free # {}
  <2>1. SUFFICES ASSUME all \subseteq T PROVE FALSE
    OBVIOUS
  <2>2. Cardinality(all) <= Cardinality(T)
    BY <2>1, FS_Subset
  <2> QED BY <1>1, <1>2, <2>2
<1>6. PICK i \in free : \A j \in free : i <= j
  <2>1. free \subseteq Nat
    OBVIOUS
  <2> HIDE DEF free
  <2> QED BY <2>1, <1>5, LeastNatural
<1>7. {j \in free : j < i} = {}
  BY <1>1, <1>6
<1>8. i \in ids
  BY <1>7, FS_EmptySet
<1>9. IsFiniteSet(ids)
  BY <1>3, FS_Subset
<1> QED BY <1>1, <1>8, <1>9

\* No job is a job of the right type.
LEMMA NoRunnerIs == NoRunner \in Runners /\ NoRunner.pc = "idle" /\ NoRunner.todo = <<>>
<1>1. <<>> \in Seq(TopicSet)
  OBVIOUS
<1>2. "idle" \in {"idle", "register", "unregister"} /\ "" \in Sites \cup {""}
      /\ {} \in SUBSET Subscriptions /\ {} \in SUBSET TopicSet
  OBVIOUS
<1> QED BY <1>1, <1>2 DEF NoRunner, Runners

\* Before the first job.
LEMMA RegistrationStarts == RegistrationInit => RegistrationInd
<1> SUFFICES ASSUME RegistrationInit PROVE RegistrationInd
  OBVIOUS
<1>1. NoRunner \in Runners /\ NoRunner.pc = "idle" /\ runner = NoRunner
  BY NoRunnerIs DEF RegistrationInit
<1>2. IsFiniteSet({}) /\ UniqueIds({})
  BY FS_EmptySet DEF UniqueIds
<1>3. 0 \in 0..MaxFlips /\ 0 \in 0..MaxLost
  BY RegistrationAssumption
<1>4. RunnerInv
  BY <1>1 DEF RunnerInv
<1> QED BY <1>1, <1>2, <1>3, <1>4 DEF RegistrationInit, RegistrationInd

\* What the invariant says is what the property asks at a job's end.
LEMMA RegistrationIs == RegistrationInd => RegistrationTypeOK /\ RegistrationHeals
<1> SUFFICES ASSUME RegistrationInd PROVE RegistrationTypeOK /\ RegistrationHeals
  OBVIOUS
<1>1. RegistrationTypeOK
  BY DEF RegistrationInd, RegistrationTypeOK, Runners, TopicSet, Subscriptions, UniqueIds
<1>2. ASSUME runner.pc # "idle", runner.todo = <<>>, NEW i \in DOMAIN Topics
      PROVE  Cured(Topics[i])
  <2>1. TopicsIn(runner.todo) = {}
    BY <1>2 DEF TopicsIn
  <2> QED BY <1>2, <2>1 DEF RegistrationInd, RunnerInv, TopicSet
<1> QED BY <1>1, <1>2 DEF RegistrationHeals, Working, Cured

\* A step that the job is not in.
LEMMA JobUntouched ==
  ASSUME RegistrationInd, UNCHANGED <<subs, runner>>
  PROVE  RunnerInv' /\ subs' \subseteq Subscriptions /\ IsFiniteSet(subs') /\ UniqueIds(subs')
         /\ runner' \in Runners
BY DEF RegistrationInd, RunnerInv, On, Kept, Cured

\* A step that ends the job, whatever it left behind.
LEMMA JobOver ==
  ASSUME EndRun
  PROVE  RunnerInv' /\ runner' \in Runners /\ runner' = NoRunner /\ runner'.pc = "idle"
         /\ registration' = "none"
BY NoRunnerIs DEF EndRun, RunnerInv

\* The first topic in hand: what there is of it and what is kept.
LEMMA InHandTopic ==
  ASSUME RegistrationInd, Working
  PROVE  /\ runner.pc \in {"register", "unregister"} /\ registration = runner.pc
         /\ runner \in Runners /\ topic \in TopicsIn(runner.todo) /\ topic \in TopicSet
         /\ TopicsIn(Tail(runner.todo)) = TopicsIn(runner.todo) \ {topic}
         /\ Tail(runner.todo) \in Seq(TopicSet) /\ Distinct(Tail(runner.todo))
         /\ On(topic) = current \ runner.gone
         /\ keep = {x \in current : Kept(x)}
<1>1. runner \in Runners /\ runner.todo \in Seq(TopicSet) /\ runner.todo # <<>>
  BY DEF RegistrationInd, Runners, Working
<1>2. runner.pc # "idle"
  BY <1>1, NoRunnerIs DEF RegistrationInd
<1>3. runner.pc \in {"register", "unregister"} /\ registration = runner.pc
  BY <1>1, <1>2 DEF RegistrationInd, Runners
<1>4. Distinct(runner.todo)
  BY <1>2 DEF RegistrationInd, RunnerInv
<1>5. /\ topic \in TopicsIn(runner.todo) /\ topic \in TopicSet
      /\ TopicsIn(Tail(runner.todo)) = TopicsIn(runner.todo) \ {topic}
      /\ Tail(runner.todo) \in Seq(TopicSet) /\ Distinct(Tail(runner.todo))
  BY <1>1, <1>4, Topicwise DEF topic
<1>6. On(topic) = current \ runner.gone
  BY <1>2, <1>5 DEF RegistrationInd, RunnerInv, current
<1>7. keep = {x \in current : Kept(x)}
  BY <1>3 DEF keep, Kept, current
<1> QED BY <1>1, <1>3, <1>5, <1>6, <1>7

\* The job goes on to the next topic and leaves this one cured.
LEMMA TopicDone ==
  ASSUME RegistrationInd, Working, NEW F \in SUBSET TopicSet, NextTopic(F),
         NEW head, head = topic, \A t \in TopicSet \ {head} : On(t)' = On(t), Cured(head)'
  PROVE  /\ RunnerInv' /\ runner' \in Runners /\ runner'.pc = runner.pc /\ runner'.pc # "idle"
         /\ runner'.target \in Sites
<1>1. /\ runner \in Runners /\ runner.pc \in {"register", "unregister"}
      /\ head \in TopicsIn(runner.todo) /\ head \in TopicSet
      /\ TopicsIn(Tail(runner.todo)) = TopicsIn(runner.todo) \ {head}
      /\ Tail(runner.todo) \in Seq(TopicSet) /\ Distinct(Tail(runner.todo))
  BY InHandTopic
<1>2. Cured(head)' /\ \A t \in TopicSet \ {head} : On(t)' = On(t)
  OBVIOUS
<1>3. TopicsIn(runner.todo) \subseteq TopicSet
  <2>1. runner.todo \in Seq(TopicSet)
    BY <1>1 DEF Runners
  <2> QED BY <2>1 DEF TopicsIn
<1>4. /\ runner'.pc = runner.pc /\ runner'.todo = Tail(runner.todo)
      /\ runner'.existing = runner.existing /\ runner'.target = runner.target
      /\ runner'.gone = runner.gone /\ runner'.failed = runner.failed \cup F
      /\ runner' \in Runners
  BY <1>1 DEF NextTopic, Runners
<1>5. runner.pc # "idle" /\ runner.target \in Sites
  BY <1>1 DEF RegistrationInd
<1>6. RunnerInv'
  <2>1. RunnerInv
    BY DEF RegistrationInd
  <2>2. IsFiniteSet(runner'.existing) /\ UniqueIds(runner'.existing) /\ Distinct(runner'.todo)
    BY <1>1, <1>4, <1>5, <2>1 DEF RunnerInv
  <2>3. ASSUME NEW t \in TopicsIn(runner'.todo)
        PROVE  On(t)' = {x \in runner'.existing : x.topic = t} \ runner'.gone
    <3>1. t \in TopicsIn(runner.todo) /\ t # head /\ t \in TopicSet
      BY <2>3, <1>1, <1>4, <1>3
    <3> QED BY <3>1, <1>2, <1>4, <1>5, <2>1 DEF RunnerInv
  <2>4. \A x \in runner'.gone : ~Kept(x)'
    BY <1>4, <1>5, <2>1 DEF RunnerInv, Kept
  <2>5. ASSUME NEW t \in TopicSet \ TopicsIn(runner'.todo)
        PROVE  Cured(t)'
    <3>1. CASE t = head
      BY <3>1, <1>2
    <3>2. CASE t # head
      <4>1. Cured(t) /\ On(t)' = On(t)
        BY <3>2, <2>5, <1>1, <1>2, <1>4, <1>5, <2>1 DEF RunnerInv
      <4> QED BY <4>1, <1>4 DEF Cured
    <3> QED BY <3>1, <3>2
  <2> QED BY <2>2, <2>3, <2>4, <2>5 DEF RunnerInv
<1> QED BY <1>4, <1>5, <1>6

\* A deletion that is heard of.
LEMMA DeletedOne ==
  ASSUME RegistrationInd, NEW x, delete_extra(x)
  PROVE  /\ RunnerInv' /\ runner' \in Runners /\ runner'.pc = runner.pc /\ runner'.pc # "idle"
         /\ runner'.target \in Sites
<1> DEFINE head == topic
<1>1. /\ runner \in Runners /\ runner.pc \in {"register", "unregister"}
      /\ head \in TopicsIn(runner.todo) /\ head \in TopicSet
      /\ On(head) = current \ runner.gone
      /\ keep = {y \in current : Kept(y)}
  BY InHandTopic DEF delete_extra
<1>2. x \in current /\ x \notin keep /\ x \in runner.existing /\ x.topic = head
  BY DEF delete_extra, extra, current
<1> HIDE DEF head
<1>3. /\ runner'.pc = runner.pc /\ runner'.todo = runner.todo
      /\ runner'.existing = runner.existing /\ runner'.target = runner.target
      /\ runner'.gone = runner.gone \cup {x} /\ runner'.failed = runner.failed
      /\ runner' \in Runners
  BY <1>1, <1>2 DEF delete_extra, Runners
<1>4. runner.pc # "idle" /\ runner.target \in Sites /\ RunnerInv
  BY <1>1 DEF RegistrationInd
<1>5. ~Kept(x)
  BY <1>1, <1>2
<1>6. \A t : On(t)' = On(t) \ {x}
  BY DEF delete_extra, On
<1>7. RunnerInv'
  <2>1. IsFiniteSet(runner'.existing) /\ UniqueIds(runner'.existing) /\ Distinct(runner'.todo)
    BY <1>3, <1>4 DEF RunnerInv
  <2>2. ASSUME NEW t \in TopicsIn(runner'.todo)
        PROVE  On(t)' = {y \in runner'.existing : y.topic = t} \ runner'.gone
    <3>1. On(t) = {y \in runner.existing : y.topic = t} \ runner.gone
      BY <1>3, <1>4 DEF RunnerInv
    <3> QED BY <3>1, <1>3, <1>6
  <2>3. \A y \in runner'.gone : ~Kept(y)'
    BY <1>3, <1>4, <1>5 DEF RunnerInv, Kept
  <2>4. ASSUME NEW t \in TopicSet \ TopicsIn(runner'.todo)
        PROVE  Cured(t)'
    <3>1. Cured(t) /\ t # head
      BY <1>1, <1>3, <1>4 DEF RunnerInv
    <3>2. x \notin On(t)
      BY <3>1, <1>2 DEF On
    <3>3. On(t)' = On(t)
      BY <3>2, <1>6
    <3> QED BY <3>1, <3>3, <1>3 DEF Cured
  <2> QED BY <2>1, <2>2, <2>3, <2>4 DEF RunnerInv
<1> QED BY <1>3, <1>4, <1>7

\* A topic with one that posts here: it is the only one left of the topic.
LEMMA KeptIsLast ==
  ASSUME RegistrationInd, Working, extra = {}
  PROVE  /\ runner.pc = "unregister" => On(topic) = {}
         /\ runner.pc = "register" =>
              /\ keep = {} => On(topic) = {}
              /\ keep # {} => /\ On(topic) # {} /\ \A x \in On(topic) : x.url = runner.target
                             /\ Cardinality(On(topic) \cap runner.existing) <= 1
<1> DEFINE head == topic
<1>1. /\ runner \in Runners /\ runner.pc \in {"register", "unregister"}
      /\ On(head) = current \ runner.gone
      /\ keep = {y \in current : Kept(y)} /\ RunnerInv
  BY InHandTopic DEF RegistrationInd
<1>2. On(head) \subseteq keep
  BY <1>1 DEF extra
<1>3. runner.pc = "unregister" => keep = {}
  BY DEF keep
<1>4. ASSUME NEW k \in keep
      PROVE  /\ On(head) = {k} /\ k.url = runner.target /\ Cardinality(On(head) \cap runner.existing) <= 1
  <2>1. k \in current /\ Kept(k) /\ k \notin runner.gone
    BY <1>1, <1>4 DEF RunnerInv
  <2>2. ASSUME NEW y \in keep PROVE y = k
    <3>1. y \in current /\ Kept(y)
      BY <1>1, <2>2
    <3>2. y.topic = k.topic /\ y.url = k.url /\ y \in runner.existing /\ k \in runner.existing
      BY <2>1, <3>1 DEF current, Kept
    <3>3. y.id <= k.id /\ k.id <= y.id
      BY <2>1, <3>1, <3>2 DEF Kept
    <3>4. y.id \in Nat /\ k.id \in Nat
      BY <3>2, <1>1 DEF Runners, Subscriptions
    <3>5. UniqueIds(runner.existing)
      BY <1>1 DEF RunnerInv
    <3> QED BY <3>2, <3>3, <3>4, <3>5 DEF UniqueIds
  <2>3. On(head) = {k}
    BY <1>1, <1>2, <2>1, <2>2
  <2>4. k \in runner.existing /\ k.url = runner.target
    BY <2>1 DEF Kept
  <2>5. Cardinality(On(head) \cap runner.existing) = 1
    <3>1. On(head) \cap runner.existing = {k}
      BY <2>3, <2>4
    <3> QED BY <3>1, FS_Singleton
  <2> QED BY <2>3, <2>4, <2>5
<1> QED BY <1>1, <1>2, <1>3, <1>4

\* The image of a finite set under a function is finite.
\* What a create adds: subscriptions of the topic that post here, with new ids.
LEMMA CreatesFresh ==
  ASSUME RegistrationInd, Working, NEW n \in Nat \ {0}
  PROVE  /\ fresh(n) # {} /\ IsFiniteSet(fresh(n)) /\ fresh(n) \subseteq Subscriptions
         /\ \A x \in fresh(n) : x.topic = topic /\ x.url = runner.target
         /\ fresh(n) \cap runner.existing = {}
         /\ UniqueIds(subs \cup fresh(n))
<1> DEFINE taken == {x.id : x \in subs \cup runner.existing}
           free == (1..(Cardinality(taken) + n)) \ taken
           ids == {i \in free : Cardinality({j \in free : j < i}) < n}
<1>1. /\ runner \in Runners /\ runner.pc # "idle" /\ topic \in TopicSet
      /\ runner.target \in Sites /\ RunnerInv
  BY InHandTopic DEF RegistrationInd
<1>2. subs \cup runner.existing \subseteq Subscriptions
  BY <1>1 DEF RegistrationInd, Runners
<1>3. IsFiniteSet(subs \cup runner.existing)
  BY <1>1, FS_Union DEF RegistrationInd, RunnerInv
<1>4. taken \in SUBSET Nat
  BY <1>2 DEF Subscriptions
<1>5. IsFiniteSet(taken)
  <2> DEFINE f == [x \in subs \cup runner.existing |-> x.id]
  <2>1. IsFiniteSet({f[x] : x \in subs \cup runner.existing})
    BY <1>3, ImageIsFinite
  <2>2. taken = {f[x] : x \in subs \cup runner.existing}
    OBVIOUS
  <2> QED BY <2>1, <2>2
<1>6. fresh(n) = {[id |-> i, topic |-> topic, url |-> runner.target] : i \in ids}
  BY DEF fresh
<1>7. ids # {} /\ IsFiniteSet(ids) /\ ids \subseteq (Nat \ {0}) \ taken
  <2> HIDE DEF taken
  <2> QED BY <1>4, <1>5, FreshIds
<1> HIDE DEF ids
<1>8. \A x \in fresh(n) : /\ x.id \in ids /\ x.topic = topic /\ x.url = runner.target
                          /\ x = [id |-> x.id, topic |-> topic, url |-> runner.target]
                          /\ x \in Subscriptions
  BY <1>1, <1>6, <1>7 DEF Subscriptions
<1>9. fresh(n) # {}
  BY <1>6, <1>7
<1>10. IsFiniteSet(fresh(n))
  <2> DEFINE f == [i \in ids |-> [id |-> i, topic |-> topic, url |-> runner.target]]
  <2>1. IsFiniteSet({f[i] : i \in ids})
    BY <1>7, ImageIsFinite
  <2>2. fresh(n) = {f[i] : i \in ids}
    BY <1>6
  <2> QED BY <2>1, <2>2
<1>11. \A x \in subs \cup runner.existing : x.id \notin ids
  BY <1>7
<1>12. fresh(n) \cap runner.existing = {}
  BY <1>8, <1>11
<1>13. UniqueIds(subs \cup fresh(n))
  <2>1. UniqueIds(subs)
    BY DEF RegistrationInd
  <2> QED BY <2>1, <1>8, <1>11 DEF UniqueIds
<1> QED BY <1>8, <1>9, <1>10, <1>12, <1>13

\* What is left when one subscription is taken away.
LEMMA OneLess ==
  ASSUME RegistrationInd, NEW x
  PROVE  /\ subs \ {x} \subseteq Subscriptions /\ IsFiniteSet(subs \ {x}) /\ UniqueIds(subs \ {x})
<1>1. IsFiniteSet(subs \ {x})
  BY FS_RemoveElement DEF RegistrationInd
<1> QED BY <1>1 DEF RegistrationInd, UniqueIds

\* Every step keeps the invariant.
LEMMA RegistrationStep == RegistrationInd /\ [RegistrationNext]_registrationVars => RegistrationInd'
<1> SUFFICES ASSUME RegistrationInd, [RegistrationNext]_registrationVars PROVE RegistrationInd'
  OBVIOUS
<1>0. /\ enabled \in BOOLEAN /\ site \in Sites
      /\ flips \in 0..MaxFlips /\ lost \in 0..MaxLost
      /\ registration \in {"none", "register", "unregister"}
      /\ runner \in Runners /\ runner.pc \in {"idle", registration}
      /\ runner.pc = "idle" => runner = NoRunner
      /\ runner.pc # "idle" => runner.target \in Sites
      /\ subs \subseteq Subscriptions /\ IsFiniteSet(subs) /\ UniqueIds(subs)
      /\ RunnerInv
  BY DEF RegistrationInd
<1>f. Flips => flips' \in 0..MaxFlips
  BY <1>0, RegistrationAssumption DEF Flips
<1>l. Loses => lost' \in 0..MaxLost
  BY <1>0, RegistrationAssumption DEF Loses
<1> DEFINE Shops == subs' \subseteq Subscriptions /\ IsFiniteSet(subs') /\ UniqueIds(subs')
\* Where the counters and the store keep their types and the job went on ...
<1>on. ASSUME UNCHANGED <<enabled, site, registration, flips>>, lost' \in 0..MaxLost, Shops, RunnerInv',
              Working, runner' \in Runners, runner'.pc = runner.pc, runner'.target \in Sites
       PROVE  RegistrationInd'
  <2>1. runner.pc # "idle"
    BY <1>on, InHandTopic
  <2> QED BY <2>1, <1>on, <1>0 DEF RegistrationInd
\* ... or is over.
<1>over. ASSUME UNCHANGED <<enabled, site>>, flips' = flips, lost' \in 0..MaxLost, Shops, EndRun
         PROVE  RegistrationInd'
  BY <1>over, <1>0, JobOver DEF RegistrationInd
<1>1. CASE UNCHANGED registrationVars
  BY <1>1, <1>0, JobUntouched DEF registrationVars, RegistrationInd
<1>2. CASE on_update
  <2>1. flips' \in 0..MaxFlips /\ UNCHANGED <<site, subs, runner, lost>> /\ enabled' \in BOOLEAN
    BY <1>0, <1>2, <1>f DEF on_update
  <2>2. registration' \in {"none", "register", "unregister"} /\ runner.pc \in {"idle", registration'}
    <3>1. registration # "none" => registration' = registration
      BY <1>2 DEF on_update
    <3>2. registration = "none" => registration' \in {"register", "unregister"}
      BY <1>2 DEF on_update
    <3>3. registration = "none" => runner.pc = "idle"
      BY <1>0 DEF Runners
    <3> QED BY <1>0, <3>1, <3>2, <3>3
  <2> QED BY <1>0, <2>1, <2>2, JobUntouched DEF RegistrationInd
<1>3. CASE \E s \in Sites : MoveSite(s)
  <2>1. flips' \in 0..MaxFlips /\ UNCHANGED <<enabled, subs, registration, runner, lost>> /\ site' \in Sites
    BY <1>0, <1>3, <1>f DEF MoveSite
  <2> QED BY <1>0, <2>1, JobUntouched DEF RegistrationInd
<1>4. CASE start_job
  <2>1. UNCHANGED <<enabled, site, subs, flips, lost>> /\ registration # "none" /\ runner = NoRunner
    BY <1>4 DEF start_job
  <2>2. CASE EndRun
    BY <1>0, <2>1, <2>2, <1>over
  <2>3. CASE ~EndRun
    <3>1. /\ runner' = [NoRunner EXCEPT !.pc = registration, !.todo = Topics, !.existing = subs,
                                       !.target = site]
          /\ registration' = registration
      BY <1>4, <2>3 DEF start_job
    <3>2. /\ runner'.pc = registration /\ runner'.todo = Topics /\ runner'.existing = subs
          /\ runner'.target = site /\ runner'.gone = {} /\ runner'.failed = {}
          /\ runner' \in Runners
      <4>1. Topics \in Seq(TopicSet) /\ registration \in {"idle", "register", "unregister"}
            /\ site \in Sites \cup {""} /\ subs \in SUBSET Subscriptions /\ {} \in SUBSET TopicSet
            /\ {} \in SUBSET Subscriptions
        BY <1>0, <2>1, TopicsAreListed
      <4> QED BY <3>1, <4>1 DEF NoRunner, Runners
    <3>3. RunnerInv'
      <4>1. \A t : On(t)' = {x \in runner'.existing : x.topic = t} \ runner'.gone
        BY <2>1, <3>2 DEF On
      <4>2. Distinct(runner'.todo) /\ TopicSet \ TopicsIn(runner'.todo) = {}
        BY <3>2, TopicsAreListed
      <4>3. IsFiniteSet(runner'.existing) /\ UniqueIds(runner'.existing)
        BY <1>0, <3>2
      <4> QED BY <3>2, <4>1, <4>2, <4>3 DEF RunnerInv
    <3> QED BY <1>0, <2>1, <3>1, <3>2, <3>3 DEF RegistrationInd
  <2> QED BY <2>2, <2>3
<1>5. CASE create_refused
  <2>1. Working /\ NextTopic({topic}) /\ UNCHANGED <<enabled, site, subs, registration, flips, lost>>
    BY <1>5 DEF create_refused, ToCreate
  <2>2. topic \in TopicSet /\ runner \in Runners
    BY <2>1, InHandTopic
  <2> DEFINE head == topic
  <2>3. \A t : On(t)' = On(t)
    BY <2>1 DEF On
  <2> SUFFICES ASSUME NEW t0, t0 = topic PROVE RegistrationInd'
    OBVIOUS
  <2>4. Cured(t0)'
    BY <2>1, <2>2 DEF NextTopic, Cured, Runners
  <2>5. RunnerInv' /\ runner' \in Runners /\ runner'.pc = runner.pc /\ runner'.target \in Sites
    BY <2>1, <2>2, <2>3, <2>4, TopicDone
  <2> QED BY <1>0, <2>1, <2>5, <1>on
<1>6. CASE topic_unchanged
  <2>1. /\ Working /\ extra = {} /\ (keep # {} \/ runner.pc = "unregister") /\ NextTopic({})
        /\ UNCHANGED <<enabled, site, subs, registration, flips, lost>>
    BY <1>6 DEF topic_unchanged
  <2>2. \A t : On(t)' = On(t)
    BY <2>1 DEF On
  <2> SUFFICES ASSUME NEW t0, t0 = topic PROVE RegistrationInd'
    OBVIOUS
  <2>3. Cured(t0)
    BY <2>1, KeptIsLast, InHandTopic DEF Cured
  <2>4. Cured(t0)'
    BY <2>1, <2>2, <2>3, <1>0 DEF NextTopic, Cured, Runners
  <2>5. RunnerInv' /\ runner' \in Runners /\ runner'.pc = runner.pc /\ runner'.target \in Sites
    BY <2>1, <2>2, <2>4, TopicDone
  <2> QED BY <1>0, <2>1, <2>5, <1>on
<1>7. CASE job_dies
  <2>1. /\ EndRun /\ UNCHANGED <<enabled, site, flips>> /\ lost' \in 0..MaxLost
        /\ \/ subs' = subs \/ \E x \in IF Working THEN extra ELSE {} : subs' = subs \ {x}
           \/ Working /\ subs' = subs \cup fresh(1)
    BY <1>7, <1>l DEF job_dies, ToCreate
  <2>2. Shops
    <3>1. CASE subs' = subs
      BY <3>1, <1>0
    <3>2. CASE \E x \in IF Working THEN extra ELSE {} : subs' = subs \ {x}
      BY <3>2, OneLess
    <3>3. CASE Working /\ subs' = subs \cup fresh(1)
      <4>1. 1 \in Nat \ {0}
        OBVIOUS
      <4>2. /\ fresh(1) \subseteq Subscriptions /\ IsFiniteSet(fresh(1))
            /\ UniqueIds(subs \cup fresh(1))
        BY <3>3, <4>1, CreatesFresh
      <4> QED BY <3>3, <4>2, <1>0, FS_Union
    <3> QED BY <2>1, <3>1, <3>2, <3>3
  <2> QED BY <2>1, <2>2, <1>over
<1>8. CASE job_ends
  BY <1>8, <1>0, <1>over DEF job_ends
<1>9. ASSUME NEW x \in runner.existing, delete_extra(x) PROVE RegistrationInd'
  <2>1. RunnerInv' /\ runner' \in Runners /\ runner'.pc = runner.pc /\ runner'.target \in Sites
    BY <1>9, DeletedOne
  <2>2. Shops
    BY <1>9, OneLess DEF delete_extra
  <2>3. Working /\ UNCHANGED <<enabled, site, registration, flips, lost>>
    BY <1>9 DEF delete_extra
  <2> QED BY <1>0, <1>on, <2>1, <2>2, <2>3
<1>10. ASSUME NEW x \in runner.existing, delete_unheard(x) PROVE RegistrationInd'
  <2>1. /\ Working /\ x \in extra /\ lost' \in 0..MaxLost /\ subs' = subs \ {x}
        /\ UNCHANGED <<enabled, site, flips>>
        /\ IF runner.pc = "register" THEN NextTopic({topic}) /\ UNCHANGED registration ELSE EndRun
    BY <1>10, <1>l DEF delete_unheard
  <2>2. Shops
    BY <2>1, OneLess
  <2>3. CASE runner.pc # "register"
    BY <2>1, <2>2, <2>3, <1>over
  <2>4. CASE runner.pc = "register"
    <3>1. topic \in TopicSet /\ x.topic = topic /\ NextTopic({topic})
      BY <2>1, <2>4, InHandTopic DEF extra, current
    <3> SUFFICES ASSUME NEW t0, t0 = topic PROVE RegistrationInd'
      OBVIOUS
    <3>2. \A t \in TopicSet \ {t0} : On(t)' = On(t)
      BY <2>1, <3>1 DEF On
    <3>3. Cured(t0)'
      BY <3>1, <1>0 DEF NextTopic, Cured, Runners
    <3>4. RunnerInv' /\ runner' \in Runners /\ runner'.pc = runner.pc /\ runner'.target \in Sites
      BY <2>1, <3>1, <3>2, <3>3, TopicDone
    <3> QED BY <2>1, <2>2, <2>4, <3>4, <1>on
  <2> QED BY <2>3, <2>4
<1>11. ASSUME NEW n \in {1, 2}, create_subscription(n) PROVE RegistrationInd'
  <2>1. /\ Working /\ runner.pc = "register" /\ extra = {} /\ keep = {} /\ lost' \in 0..MaxLost
        /\ subs' = subs \cup fresh(n) /\ NextTopic({})
        /\ UNCHANGED <<enabled, site, registration, flips>>
    BY <1>11, <1>0, <1>l DEF create_subscription, ToCreate
  <2>2. /\ fresh(n) # {} /\ IsFiniteSet(fresh(n)) /\ fresh(n) \subseteq Subscriptions
        /\ \A x \in fresh(n) : x.topic = topic /\ x.url = runner.target
        /\ fresh(n) \cap runner.existing = {}
        /\ UniqueIds(subs \cup fresh(n))
    BY <2>1, CreatesFresh
  <2>3. Shops
    BY <1>0, <2>1, <2>2, FS_Union
  <2> SUFFICES ASSUME NEW t0, t0 = topic PROVE RegistrationInd'
    OBVIOUS
  <2>4. On(t0) = {}
    BY <2>1, KeptIsLast
  <2>5. \A t \in TopicSet \ {t0} : On(t)' = On(t)
    BY <2>1, <2>2 DEF On
  <2>6. On(t0)' = fresh(n)
    BY <2>1, <2>2, <2>4 DEF On
  <2>7. runner'.pc = "register" /\ runner'.existing = runner.existing /\ runner'.target = runner.target
    BY <2>1, <1>0 DEF NextTopic, Runners
  <2>8. Cured(t0)'
    <3>1. On(t0)' \cap runner'.existing = {}
      BY <2>2, <2>6, <2>7
    <3>2. Cardinality(On(t0)' \cap runner'.existing) = 0
      BY <3>1, FS_EmptySet
    <3> QED BY <2>2, <2>6, <2>7, <3>2 DEF Cured
  <2>9. RunnerInv' /\ runner' \in Runners /\ runner'.pc = runner.pc /\ runner'.target \in Sites
    BY <2>1, <2>5, <2>8, TopicDone
  <2> QED BY <2>1, <2>3, <2>9, <1>on
<1> QED BY <1>1, <1>2, <1>3, <1>4, <1>5, <1>6, <1>7, <1>8, <1>9, <1>10, <1>11 DEF RegistrationNext

\* registration.py's register and unregister: a job that is let finish leaves
\* every topic with the one subscription the site has, or none, whatever other
\* sites and lost replies left there before it.
THEOREM JobHeals == RegistrationSpec => []RegistrationHeals
<1>1. RegistrationInd /\ [RegistrationNext]_registrationVars => RegistrationInd'
  BY RegistrationStep
<1>2. RegistrationInd => RegistrationHeals
  BY RegistrationIs
<1> QED BY <1>1, <1>2, RegistrationStarts, PTL DEF RegistrationSpec
==============================================================================
