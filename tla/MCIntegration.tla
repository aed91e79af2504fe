---------------------------- MODULE MCIntegration ----------------------------
(***************************************************************************)
(* Nine parts of the integration that share no variable, on small         *)
(* instances, in one run: `part` says which of them a behaviour is about,  *)
(* and the others stay where they start.                                   *)
(***************************************************************************)
EXTENDS Listing, Stock, BulkImport, Throttle, Registration, Media, Fulfilment, Pricing,
        Customers, TLC

CONSTANTS k1, k2, shelf1, shelf2, n1, n2, f1, f2

VARIABLE part

Parted == {"listing", "stock", "bulk", "throttle", "registration", "media", "fulfilment",
           "pricing", "customers"}

------------------------------------------------------------------------------
(* The instances.                                                           *)

MCFeeds == shelf1 :> k1 @@ shelf2 :> k2

\* Three products: children of the first kind, a line that cannot be read
\* before a variant, and one that ends the file.
MCLines ==
    LET line(k, p) == [kind |-> k, product |-> p]
    IN  <<line("root", 1), line("variant", 1), line("other", 1),
          line("root", 2), line("variant", 2), line("bad", 2), line("variant", 2),
          line("root", 3), line("variant", 3), line("bad", 3)>>

MCTopics == <<"orders", "products", "refunds">>

MCUnits == n1 :> 1 @@ n2 :> 2
MCOwes == f1 :> 1 @@ f2 :> 2

\* Two bands with a collection each; or one with, one without and none at all.
MCRules == {0 :> "t5" @@ 1 :> "t5" @@ 2 :> "t18", 0 :> "none" @@ 1 :> "t5" @@ 2 :> "t0"}

------------------------------------------------------------------------------

MCInit ==
    /\ part \in Parted
    /\ ListingInit /\ (part # "listing" => ~templated /\ priced = {})
    /\ StockInit /\ level[k2] = NoLevel /\ (part # "stock" => ~verify /\ level[k1] = NoLevel)
    /\ BulkInit /\ (part # "bulk" => cut_at = Len(Lines))
    /\ ThrottleInit
    /\ RegistrationInit /\ (part # "registration" => site = CHOOSE s \in Sites : TRUE)
    /\ MediaInit /\ (part # "media" => files = {})
    /\ FulfilmentInit
    /\ PricingInit
    /\ part # "pricing" => /\ rules = CHOOSE r \in Rules : TRUE
                           /\ standard = [p \in Pieces |-> CHOOSE r \in Rates : TRUE]
    /\ CustomersInit
    /\ part # "customers" => match_existing /\ \A c \in People : customers[c].reach = {}

MCNext ==
    /\ UNCHANGED part
    /\ \/ part = "listing" /\ ListingNext
          /\ UNCHANGED <<stockVars, bulkVars, throttleVars, registrationVars,
                       mediaVars, fulfilmentVars, pricingVars, customersVars>>
       \/ part = "stock" /\ StockNext
          /\ UNCHANGED <<listingVars, bulkVars, throttleVars, registrationVars,
                       mediaVars, fulfilmentVars, pricingVars, customersVars>>
       \/ part = "bulk" /\ BulkNext
          /\ UNCHANGED <<listingVars, stockVars, throttleVars, registrationVars,
                       mediaVars, fulfilmentVars, pricingVars, customersVars>>
       \/ part = "throttle" /\ ThrottleNext
          /\ UNCHANGED <<listingVars, stockVars, bulkVars, registrationVars,
                       mediaVars, fulfilmentVars, pricingVars, customersVars>>
       \/ part = "registration" /\ RegistrationNext
          /\ UNCHANGED <<listingVars, stockVars, bulkVars, throttleVars, mediaVars,
                       fulfilmentVars, pricingVars, customersVars>>
       \/ part = "media" /\ MediaNext
          /\ UNCHANGED <<listingVars, stockVars, bulkVars, throttleVars,
                       registrationVars, fulfilmentVars, pricingVars, customersVars>>
       \/ part = "fulfilment" /\ FulfilmentNext
          /\ UNCHANGED <<listingVars, stockVars, bulkVars, throttleVars,
                       registrationVars, mediaVars, pricingVars, customersVars>>
       \/ part = "pricing" /\ PricingNext
          /\ UNCHANGED <<listingVars, stockVars, bulkVars, throttleVars,
                       registrationVars, mediaVars, fulfilmentVars, customersVars>>
       \/ part = "customers" /\ CustomersNext
          /\ UNCHANGED <<listingVars, stockVars, bulkVars, throttleVars,
                       registrationVars, mediaVars, fulfilmentVars, pricingVars>>

MCSpec == MCInit /\ [][MCNext]_<<part, listingVars, stockVars, bulkVars, throttleVars,
                                 registrationVars, mediaVars, fulfilmentVars, pricingVars,
                                 customersVars>>

\* Every variable of the part that moves stays within its type.
TypesOK ==
    CASE part = "listing" -> ListingTypeOK
      [] part = "stock" -> StockTypeOK
      [] part = "bulk" -> BulkTypeOK
      [] part = "throttle" -> ThrottleTypeOK
      [] part = "registration" -> RegistrationTypeOK
      [] part = "media" -> MediaTypeOK
      [] part = "fulfilment" -> FulfilmentTypeOK
      [] part = "pricing" -> PricingTypeOK
      [] part = "customers" -> CustomersTypeOK
==============================================================================
