-------------------------- MODULE IntegrationProofs --------------------------
(***************************************************************************)
(* The nine parts of the integration that share no variable, taken         *)
(* together as MCIntegration runs them: what the run checks on a small     *)
(* instance holds for every instance, since a step of one part is a step   *)
(* of its own specification and leaves the others where they are.          *)
(***************************************************************************)
EXTENDS MCIntegration, OutboundProofs, InboundProofs, ListingProofs

mcVars == <<part, listingVars, stockVars, bulkVars, throttleVars, registrationVars, mediaVars,
            fulfilmentVars, pricingVars, customersVars>>

\* The parts' invariants, side by side.
IntegrationInd ==
    /\ part \in Parted
    /\ (ListingInd /\ ContentInd) /\ StockInd /\ BulkInd /\ (ThrottleInd /\ NeverOvercounted)
    /\ RegistrationInd /\ MediaInd /\ FulfilmentInd /\ PricingInd /\ CustomersInd

\* A step of the whole is a step of each part, or leaves the part alone.
LEMMA PartsStep ==
  ASSUME [MCNext]_mcVars
  PROVE  /\ part' = part
         /\ [ListingNext]_listingVars /\ [StockNext]_stockVars /\ [BulkNext]_bulkVars
         /\ [ThrottleNext]_throttleVars /\ [RegistrationNext]_registrationVars
         /\ [MediaNext]_mediaVars /\ [FulfilmentNext]_fulfilmentVars
         /\ [PricingNext]_pricingVars /\ [CustomersNext]_customersVars
<1>1. CASE MCNext
  BY <1>1 DEF MCNext
<1>2. CASE UNCHANGED mcVars
  BY <1>2 DEF mcVars
<1> QED BY <1>1, <1>2

LEMMA IntegrationStarts == MCInit => IntegrationInd
<1> SUFFICES ASSUME MCInit PROVE IntegrationInd
  OBVIOUS
<1>1. /\ part \in Parted /\ ListingInit /\ StockInit /\ BulkInit /\ ThrottleInit /\ RegistrationInit
      /\ MediaInit /\ FulfilmentInit /\ PricingInit /\ CustomersInit
  BY DEF MCInit
<1> QED BY <1>1, ListingStarts, ContentStarts, StockStarts, BulkStarts, ThrottleStarts,
           RegistrationStarts, MediaStarts, FulfilmentStarts, PricingStarts, CustomersStart
       DEF IntegrationInd

LEMMA IntegrationStep == IntegrationInd /\ [MCNext]_mcVars => IntegrationInd'
<1> SUFFICES ASSUME IntegrationInd, [MCNext]_mcVars PROVE IntegrationInd'
  OBVIOUS
<1>1. /\ part' = part
      /\ [ListingNext]_listingVars /\ [StockNext]_stockVars /\ [BulkNext]_bulkVars
      /\ [ThrottleNext]_throttleVars /\ [RegistrationNext]_registrationVars
      /\ [MediaNext]_mediaVars /\ [FulfilmentNext]_fulfilmentVars
      /\ [PricingNext]_pricingVars /\ [CustomersNext]_customersVars
  BY PartsStep
<1>2. ListingInd' /\ ContentInd' /\ StockInd' /\ BulkInd'
  BY <1>1, ListingStep, ContentStep, StockStep, BulkStep DEF IntegrationInd
<1>3. ThrottleInd' /\ NeverOvercounted' /\ RegistrationInd' /\ MediaInd'
  BY <1>1, ThrottleStep, RegistrationStep, MediaStep DEF IntegrationInd
<1>4. FulfilmentInd' /\ PricingInd' /\ CustomersInd'
  BY <1>1, FulfilmentStep, PricingStep, CustomersStep DEF IntegrationInd
<1>5. (part \in Parted)'
  BY <1>1 DEF IntegrationInd, Parted
<1> QED BY <1>2, <1>3, <1>4, <1>5 DEF IntegrationInd

\* Every document and record of the nine parts keeps the fields and values that
\* the code gives them.
LEMMA IntegrationTypes == IntegrationInd => TypesOK
<1> SUFFICES ASSUME IntegrationInd PROVE TypesOK
  OBVIOUS
<1>1. ListingTypeOK /\ StockTypeOK /\ BulkTypeOK
  BY ListingIs, StockIs, BulkIs DEF IntegrationInd, ContentInd
<1>2. ThrottleTypeOK /\ RegistrationTypeOK /\ MediaTypeOK
  BY ThrottleTypes, RegistrationIs, MediaIs DEF IntegrationInd
<1>3. FulfilmentTypeOK /\ PricingTypeOK /\ CustomersTypeOK
  BY FulfilmentIs, PricingIs, CustomersAre DEF IntegrationInd
<1> QED BY <1>1, <1>2, <1>3 DEF TypesOK, IntegrationInd, Parted

\* What the parts promise.
Promises ==
    /\ OneListing /\ OpeningPushQueued /\ ContentIsOurs
    /\ SettledIsEqual /\ NeverOversells
    /\ ImportIsExact /\ NeverOvercounted /\ RegistrationHeals
    /\ OneCopyEach /\ OursAreRecorded
    /\ ANoteShipsOnce /\ TrackingArrives
    /\ ShopChargesAsBooked /\ AccountsMoveWhole

LEMMA IntegrationPromises == IntegrationInd => Promises
<1> SUFFICES ASSUME IntegrationInd PROVE Promises
  OBVIOUS
<1>1. OneListing /\ OpeningPushQueued /\ ContentIsOurs
  BY ListingIs DEF IntegrationInd, ContentInd
<1>2. SettledIsEqual /\ NeverOversells
  BY StockIs, EqualIsBacked DEF IntegrationInd, StockInd
<1>3. ImportIsExact /\ NeverOvercounted /\ RegistrationHeals
  BY BulkIs, RegistrationIs DEF IntegrationInd
<1>4. OneCopyEach /\ OursAreRecorded /\ ANoteShipsOnce /\ TrackingArrives
  BY MediaIs, FulfilmentIs DEF IntegrationInd
<1>5. ShopChargesAsBooked /\ AccountsMoveWhole
  BY PricingIs, CustomersAre DEF IntegrationInd
<1> QED BY <1>1, <1>2, <1>3, <1>4, <1>5 DEF Promises

\* The documents, queue rows and Shopify records of every part stay of the shape
\* that the code gives them, whichever part moves.
THEOREM TypesStay == MCSpec => []TypesOK
<1>1. IntegrationInd => TypesOK
  BY IntegrationTypes
<1> QED BY <1>1, IntegrationStarts, IntegrationStep, PTL DEF MCSpec, mcVars

\* All that the nine parts promise of the code they model holds together.
THEOREM PromisesKept == MCSpec => []Promises
<1>1. IntegrationInd => Promises
  BY IntegrationPromises
<1> QED BY <1>1, IntegrationStarts, IntegrationStep, PTL DEF MCSpec, mcVars
==============================================================================
