---------------------------- MODULE Registration ----------------------------
(***************************************************************************)
(* The webhook subscriptions of one store: on_update of Shopify Store      *)
(* queues register or unregister (api/webhooks.py) when `enabled` flips.   *)
(*                                                                         *)
(* A call to Shopify takes no idempotency key and the client repeats it    *)
(* when no reply comes, so a create may be carried out twice, and a delete *)
(* answered "no such subscription" although it is what deleted it.         *)
(***************************************************************************)
EXTENDS Naturals, FiniteSets, Sequences

CONSTANTS
    Topics,      \* REQUIRED_TOPICS, in their order
    Sites,       \* the URLs the site may be reached at
    Unapproved,  \* topics Shopify refuses: Protected Customer Data
    MaxFlips,    \* bound: saves that flip enabled, and moves of the site
    MaxLost      \* bound: replies lost, and jobs that die

ASSUME RegistrationAssumption ==
    /\ Topics \in Seq({Topics[i] : i \in DOMAIN Topics})
    /\ \A i, j \in DOMAIN Topics : Topics[i] = Topics[j] => i = j
    /\ Unapproved \subseteq {Topics[i] : i \in DOMAIN Topics}
    /\ MaxFlips \in Nat /\ MaxLost \in Nat

VARIABLES
    enabled,
    site,          \* get_url()
    subs,          \* Shopify: the app's subscriptions
    registration,  \* the method queued or running under the store's job_id
    runner,        \* that job while it runs
    flips, lost

registrationVars == <<enabled, site, subs, registration, runner, flips, lost>>

NoRunner == [pc |-> "idle", todo |-> <<>>, existing |-> {}, target |-> "", gone |-> {},
             failed |-> {}]

RegistrationInit ==
    /\ enabled = FALSE /\ site \in Sites /\ subs = {}
    /\ registration = "none" /\ runner = NoRunner
    /\ flips = 0 /\ lost = 0

Flips == flips < MaxFlips /\ flips' = flips + 1
Loses == lost < MaxLost /\ lost' = lost + 1

\* Store.on_update.  A job queued or running under the same id swallows this.
on_update ==
    /\ Flips
    /\ enabled' = ~enabled
    /\ registration' = IF registration # "none" THEN registration
                       ELSE IF enabled THEN "unregister" ELSE "register"
    /\ UNCHANGED <<site, subs, runner, lost>>

\* Another host name, a tunnel that is recreated.
MoveSite(s) ==
    /\ Flips
    /\ s # site /\ site' = s
    /\ UNCHANGED <<enabled, subs, registration, runner, lost>>

-----------------------------------------------------------------------------

EndRun == runner' = NoRunner /\ registration' = "none"

\* existing_subscriptions, once.  register asks for the credentials of a store,
\* and a disabled one has none.
start_job ==
    /\ registration # "none" /\ runner = NoRunner
    /\ IF registration = "register" /\ ~enabled THEN EndRun
       ELSE /\ runner' = [NoRunner EXCEPT !.pc = registration, !.todo = Topics,
                                          !.existing = subs, !.target = site]
            /\ UNCHANGED registration
    /\ UNCHANGED <<enabled, site, subs, flips, lost>>

Working == runner.todo # <<>>
topic == Head(runner.todo)

\* Variant: of a topic's subscriptions only the last is looked at.
current_last ==
    {x \in runner.existing : x.topic = topic /\ \A y \in runner.existing :
                                x.topic = y.topic => x.id >= y.id}

current == {x \in runner.existing : x.topic = topic}

\* The first of them that posts here; unregister keeps none.
keep ==
    LET here == {x \in current : x.url = runner.target}
    IN  IF runner.pc = "unregister" THEN {}
        ELSE {x \in here : \A y \in here : x.id <= y.id}

extra == (current \ keep) \ runner.gone

NextTopic(failed) ==
    runner' = [runner EXCEPT !.todo = Tail(@), !.failed = @ \cup failed]

delete_extra(x) ==
    /\ Working /\ x \in extra
    /\ subs' = subs \ {x}
    /\ runner' = [runner EXCEPT !.gone = @ \cup {x}]
    /\ UNCHANGED <<enabled, site, registration, flips, lost>>

\* The retry is a ShopifyUserError, and that is the end of this topic for
\* register, whatever is left to do for it, and of everything for unregister.
delete_unheard(x) ==
    /\ Working /\ x \in extra /\ Loses
    /\ subs' = subs \ {x}
    /\ IF runner.pc = "register" THEN NextTopic({topic}) /\ UNCHANGED registration ELSE EndRun
    /\ UNCHANGED <<enabled, site, flips>>

ToCreate == Working /\ runner.pc = "register" /\ extra = {} /\ keep = {}

fresh(n) ==
    LET taken == {x.id : x \in subs \cup runner.existing}
        free == (1..(Cardinality(taken) + n)) \ taken
        ids == {i \in free : Cardinality({j \in free : j < i}) < n}
    IN  {[id |-> i, topic |-> topic, url |-> runner.target] : i \in ids}

\* Once; or twice, when the first reply was lost.
create_subscription(times) ==
    /\ ToCreate /\ topic \notin Unapproved
    /\ IF times = 1 THEN UNCHANGED lost ELSE Loses
    /\ subs' = subs \cup fresh(times)
    /\ NextTopic({})
    /\ UNCHANGED <<enabled, site, registration, flips>>

\* One topic that is refused does not cost the others.
create_refused ==
    /\ ToCreate /\ topic \in Unapproved
    /\ NextTopic({topic})
    /\ UNCHANGED <<enabled, site, subs, registration, flips, lost>>

\* One that posts here already, or none to remove.
topic_unchanged ==
    /\ Working /\ extra = {} /\ (keep # {} \/ runner.pc = "unregister")
    /\ NextTopic({})
    /\ UNCHANGED <<enabled, site, subs, registration, flips, lost>>

\* Every attempt lost, or the worker killed: what the last call did stays.
job_dies ==
    /\ runner # NoRunner /\ Loses
    /\ \/ UNCHANGED subs
       \/ \E x \in IF Working THEN extra ELSE {} : subs' = subs \ {x}
       \/ ToCreate /\ topic \notin Unapproved /\ subs' = subs \cup fresh(1)
    /\ EndRun
    /\ UNCHANGED <<enabled, site, flips>>

job_ends ==
    /\ runner # NoRunner /\ ~Working
    /\ EndRun
    /\ UNCHANGED <<enabled, site, subs, flips, lost>>

RegistrationNext ==
    \/ on_update \/ \E s \in Sites : MoveSite(s)
    \/ start_job \/ create_refused \/ topic_unchanged \/ job_dies \/ job_ends
    \/ \E x \in runner.existing : delete_extra(x) \/ delete_unheard(x)
    \/ \E n \in {1, 2} : create_subscription(n)

RegistrationSpec == RegistrationInit /\ [][RegistrationNext]_registrationVars

-----------------------------------------------------------------------------

RegistrationTypeOK ==
    /\ enabled \in BOOLEAN /\ site \in Sites
    /\ registration \in {"none", "register", "unregister"}
    /\ runner.pc \in {"idle", registration}
    /\ \A x, y \in subs : x.id = y.id => x = y
    /\ \A x \in subs : x.url \in Sites /\ \E i \in DOMAIN Topics : x.topic = Topics[i]
    /\ runner.failed \subseteq {Topics[i] : i \in DOMAIN Topics}
    /\ flips \in 0..MaxFlips /\ lost \in 0..MaxLost

On(t) == {x \in subs : x.topic = t}

\* A job that reaches its end has cured what earlier ones left, lost replies,
\* deaths half way and a site that moved included: unregister leaves nothing
\* posting; register leaves every topic it did not report as failed posting
\* here and nowhere else, with at most one subscription older than itself, so
\* no sale is delivered twice for longer than to the next registration.
RegistrationHeals ==
    runner.pc # "idle" /\ ~Working =>
        \A i \in DOMAIN Topics :
            LET t == Topics[i]
            IN  \/ t \in runner.failed
                \/ runner.pc = "unregister" /\ On(t) = {}
                \/ /\ runner.pc = "register"
                   /\ On(t) # {} /\ \A x \in On(t) : x.url = runner.target
                   /\ Cardinality(On(t) \cap runner.existing) <= 1
=============================================================================
