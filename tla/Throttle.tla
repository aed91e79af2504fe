------------------------------ MODULE Throttle ------------------------------
(***************************************************************************)
(* Calls to one store: ShopifyClient.execute (api/client.py) behind        *)
(* AdaptiveThrottle (api/throttle.py).  The workers share a snapshot of    *)
(* Shopify's bucket and a count of reserved points, two Redis keys.        *)
(*                                                                         *)
(* A step of Redis is a step here: what the throttle reads and writes in   *)
(* two commands is two steps.  Time goes in whole seconds; points are      *)
(* counted in units of what Shopify restores in one.                       *)
(***************************************************************************)
EXTENDS Integers, FiniteSetsExt

CONSTANTS
    Workers,
    Maximum,        \* the bucket, and what is assumed of an unknown one
    Floor,          \* DEFAULT_FLOOR_RATIO of it
    Cost,           \* cost_hint of a call
    MaxAttempts,    \* DEFAULT_MAX_ATTEMPTS
    MaxWait,        \* MAX_TOTAL_WAIT_SECONDS
    TTL,            \* IN_FLIGHT_TTL_SECONDS
    MaxTime,        \* bound: seconds the model runs for
    NoKey           \* a Redis key that is not there

ASSUME ThrottleAssumption ==
    /\ IsFiniteSet(Workers) /\ NoKey \notin Int
    /\ Maximum \in Nat /\ Floor \in 0..Maximum /\ Cost \in Nat \ {0}
    /\ MaxAttempts \in Nat \ {0} /\ MaxWait \in Nat /\ TTL \in Nat \ {0}
    /\ MaxTime \in Nat

VARIABLES
    clock,
    bucket,      \* Shopify: points left
    snapshot,    \* the state key: [available, at]
    in_flight,   \* the in-flight key
    expires,     \* ... and when it goes
    call         \* what each worker is doing

throttleVars == <<clock, bucket, snapshot, in_flight, expires, call>>

Idle == [pc |-> "idle", attempt |-> 0, waited |-> 0, outcome |-> "none",
         told |-> NoKey]

ThrottleInit ==
    /\ clock = 0 /\ bucket = Maximum
    /\ snapshot = NoKey /\ in_flight = NoKey /\ expires = NoKey
    /\ call = [w \in Workers |-> Idle]

At(w, pc) == call[w].pc = pc
Goto(w, pc) == call' = [call EXCEPT ![w].pc = pc]

Lesser(a, b) == IF a < b THEN a ELSE b
Greater(a, b) == IF a < b THEN b ELSE a

projected_available ==
    IF snapshot = NoKey THEN Maximum
    ELSE Lesser(Maximum, snapshot.available + Greater(0, clock - snapshot.at))

read_in_flight == IF in_flight = NoKey THEN 0 ELSE Greater(0, in_flight)

headroom == projected_available - read_in_flight - Floor

incrbyfloat(d) == (IF in_flight = NoKey THEN 0 ELSE in_flight) + d

-----------------------------------------------------------------------------
(* acquire: look, wait, look again; then reserve, granted or not.           *)

execute(w) ==
    /\ At(w, "idle")
    /\ call' = [call EXCEPT ![w] = [Idle EXCEPT !.pc = "look", !.attempt = 1]]
    /\ UNCHANGED <<clock, bucket, snapshot, in_flight, expires>>

look_at_headroom(w) ==
    /\ At(w, "look")
    /\ Goto(w, IF call[w].waited >= MaxWait \/ headroom >= Cost THEN "reserve" ELSE "nap")
    /\ UNCHANGED <<clock, bucket, snapshot, in_flight, expires>>

\* INCRBYFLOAT, which keeps the key's time to live ...
reserve(w) ==
    /\ At(w, "reserve")
    /\ in_flight' = incrbyfloat(Cost)
    /\ Goto(w, "expire")
    /\ UNCHANGED <<clock, bucket, snapshot, expires>>

\* ... and EXPIRE.
expire(w) ==
    /\ At(w, "expire")
    /\ expires' = IF in_flight = NoKey THEN NoKey ELSE clock + TTL
    /\ Goto(w, "post")
    /\ UNCHANGED <<clock, bucket, snapshot, in_flight>>

-----------------------------------------------------------------------------
(* One HTTP round trip, and the ways it ends.                               *)

\* Variant: one attempt more.
may_retry_again(w) == call[w].attempt <= MaxAttempts

may_retry(w) == call[w].attempt < MaxAttempts

\* Variant: a failed call goes on to its retry without giving its points back.
Ends_unreleased(w, outcome, available) ==
    call' = [call EXCEPT ![w].pc = IF outcome = "failed" THEN "interpret" ELSE "release",
                         ![w].outcome = outcome, ![w].told = available]

Ends(w, outcome, available) ==
    call' = [call EXCEPT ![w].pc = IF outcome = "failed" /\ may_retry(w)
                                   THEN "backoff" ELSE "release",
                         ![w].outcome = outcome, ![w].told = available]

\* Carried out, and answered with what is left in the bucket.
Answered(w) ==
    /\ At(w, "post") /\ bucket >= Cost
    /\ bucket' = bucket - Cost
    /\ Ends(w, "answered", bucket - Cost)
    /\ UNCHANGED <<clock, snapshot, in_flight, expires>>

\* THROTTLED comes with the telemetry, HTTP 429 without: penalise writes an
\* empty bucket into the snapshot.
Throttled(w) ==
    /\ At(w, "post") /\ bucket < Cost
    /\ \/ Ends(w, "throttled", bucket) /\ UNCHANGED snapshot
       \/ Ends(w, "failed", NoKey) /\ snapshot' = [available |-> 0, at |-> clock]
    /\ UNCHANGED <<clock, bucket, in_flight, expires>>

\* ShopifyTransportError: before Shopify saw the request, or after it.
Lost(w) ==
    /\ At(w, "post")
    /\ bucket' = bucket \/ (bucket >= Cost /\ bucket' = bucket - Cost)
    /\ Ends(w, "failed", NoKey)
    /\ UNCHANGED <<clock, snapshot, in_flight, expires>>

\* An answer that no retry helps: GraphQL errors, a 4xx.
Refused(w) ==
    /\ At(w, "post")
    /\ Ends(w, "refused", NoKey)
    /\ UNCHANGED <<clock, bucket, snapshot, in_flight, expires>>

\* What _post raised is slept off before the finally: the points stay reserved.
backoff(w) ==
    /\ At(w, "backoff")
    /\ Goto(w, "release")
    /\ UNCHANGED <<clock, bucket, snapshot, in_flight, expires>>

\* release: INCRBYFLOAT of -cost, and of a result below zero ...
release(w) ==
    /\ At(w, "release")
    /\ in_flight' = incrbyfloat(-Cost)
    /\ Goto(w, IF incrbyfloat(-Cost) < 0 THEN "clamp" ELSE "interpret")
    /\ UNCHANGED <<clock, bucket, snapshot, expires>>

\* ... SET 0, which takes the time to live away.
clamp(w) ==
    /\ At(w, "clamp")
    /\ in_flight' = 0 /\ expires' = NoKey
    /\ Goto(w, "interpret")
    /\ UNCHANGED <<clock, bucket, snapshot>>

\* observe, then _interpret.  A THROTTLED answer backs off here.
interpret(w) ==
    /\ At(w, "interpret")
    /\ snapshot' = IF call[w].told = NoKey THEN snapshot
                   ELSE [available |-> call[w].told, at |-> clock]
    /\ call' = [call EXCEPT ![w] =
                  IF @.outcome \in {"throttled", "failed"} /\ may_retry(w)
                  THEN [Idle EXCEPT !.pc = "look", !.attempt = @ + call[w].attempt + 1]
                  ELSE Idle]
    /\ UNCHANGED <<clock, bucket, in_flight, expires>>

\* The worker is killed; what it reserved goes when the key does.
Dies(w) ==
    /\ call[w].pc \notin {"idle", "dead"}
    /\ call' = [call EXCEPT ![w] = [Idle EXCEPT !.pc = "dead", !.outcome = call[w].pc]]
    /\ UNCHANGED <<clock, bucket, snapshot, in_flight, expires>>

\* A second: the bucket refills, naps end, the key may expire.
Tick ==
    /\ clock < MaxTime
    /\ clock' = clock + 1
    /\ bucket' = Lesser(Maximum, bucket + 1)
    /\ call' = [w \in Workers |-> IF At(w, "nap")
                                  THEN [call[w] EXCEPT !.pc = "look", !.waited = @ + 1]
                                  ELSE call[w]]
    /\ LET gone == expires # NoKey /\ clock + 1 >= expires
       IN  /\ in_flight' = IF gone THEN NoKey ELSE in_flight
           /\ expires' = IF gone THEN NoKey ELSE expires
    /\ UNCHANGED <<snapshot>>

ThrottleNext ==
    \/ Tick
    \/ \E w \in Workers :
          \/ execute(w) \/ look_at_headroom(w) \/ reserve(w) \/ expire(w)
          \/ Answered(w) \/ Throttled(w) \/ Lost(w) \/ Refused(w)
          \/ backoff(w) \/ release(w) \/ clamp(w) \/ interpret(w) \/ Dies(w)

ThrottleSpec == ThrottleInit /\ [][ThrottleNext]_throttleVars

-----------------------------------------------------------------------------

ThrottleTypeOK ==
    /\ clock \in 0..MaxTime /\ bucket \in 0..Maximum
    /\ in_flight \in Int \cup {NoKey} /\ expires \in Nat \cup {NoKey}
    /\ \A w \in Workers : call[w].attempt \in 0..MaxAttempts /\ call[w].waited \in 0..MaxWait

Steps == [w \in Workers |-> IF At(w, "dead") THEN call[w].outcome ELSE call[w].pc]

\* Points a worker has reserved and not given back; a killed one never does.
Holding == {w \in Workers : Steps[w] \in {"expire", "post", "backoff", "release"}}

\* No retry, failed call, expired key or clamp that comes late leaves points
\* counted that nobody holds: what is left over would shrink the headroom of
\* every later call to the store.  (It may count too little.)
NeverOvercounted == read_in_flight <= Cost * Cardinality(Holding)
=============================================================================
