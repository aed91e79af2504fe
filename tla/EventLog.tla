----------------------------- MODULE EventLog -----------------------------
(***************************************************************************)
(* How an order reaches ERPNext: inbound/webhook.py receives and logs, a   *)
(* worker runs the topic's handler, Shopify Event Log records the outcome, *)
(* a sweep brings failed events round again, an operator may press Retry,  *)
(* and the nightly reconciliation replays orders nobody told ERPNext of.   *)
(*                                                                         *)
(* An event is a row of the log: a webhook, or the replay of an order (its *)
(* webhook_id is reconcile::<order>).  Every handler here ends in one      *)
(* order being booked; what it books is the subject of OrderLifecycle.     *)
(***************************************************************************)
EXTENDS Naturals, FiniteSets

CONSTANTS
    Orders,
    Webhooks, Replays,   \* the events
    OrderOf,             \* [Webhooks \cup Replays -> Orders]
    Unhandled,           \* webhooks of a topic without a handler
    Gone,                \* orders fetch_order answers None for: deleted, or tests
    Requests, Workers,
    MaxAttempts,         \* MAX_ATTEMPTS
    Limit,               \* events per sweep
    MaxUpsets,           \* bound: killed requests, workers and reconciliations
    MaxPresses,          \* bound: an operator's retries
    NoEvent

Events == Webhooks \cup Replays

ASSUME EventsAssumption ==
    /\ OrderOf \in [Events -> Orders]
    /\ Webhooks \cap Replays = {}
    /\ \A o \in Orders : \E e \in Replays : OrderOf[e] = o
    /\ \A e, f \in Replays : OrderOf[e] = OrderOf[f] => e = f
    /\ Unhandled \subseteq Webhooks /\ Gone \subseteq Orders /\ NoEvent \notin Events
ASSUME CountsAssumption ==
    /\ MaxAttempts \in Nat \ {0} /\ Limit \in Nat \ {0}
    /\ MaxUpsets \in Nat /\ MaxPresses \in Nat

VARIABLES
    placed,    \* orders placed on the shop
    acked,     \* webhooks Shopify has an answer 200 for
    req,       \* each request being served
    log,       \* the committed event log
    job,       \* the background job of an event, by the kind of its job id
    run,       \* what each worker runs; attempts is the handler's own copy
    sweep,     \* events the sweep has listed
    recon,     \* the reconciliation's pass
    fresh,     \* orders placed since last_reconciled_on
    booked,    \* orders with a Sales Order
    upsets, presses,
    tries      \* how often an event's handler was started (not in the code)

vars == <<placed, acked, req, log, job, run, sweep, recon, fresh, booked, upsets, presses, tries>>

Kinds == {"webhook", "retry", "replay"}

ReplayOf(o) == CHOOSE e \in Replays : OrderOf[e] = o

NoRow == [status |-> "none", attempts |-> 0, next |-> "none"]
Queued == [status |-> "Queued", attempts |-> 0, next |-> "none"]
Skipped == [status |-> "Skipped", attempts |-> 0, next |-> "none"]

NoRequest == [at |-> "idle", event |-> NoEvent]
NoRun == [at |-> "idle", event |-> NoEvent, kind |-> "webhook", attempts |-> 0]
NoPass == [on |-> FALSE, window |-> {}, todo |-> {}, unsent |-> {}]

Init ==
    /\ placed = {}
    /\ acked = {}
    /\ req = [q \in Requests |-> NoRequest]
    /\ log = [e \in Events |-> NoRow]
    /\ job = [e \in Events |-> [k \in Kinds |-> "none"]]
    /\ run = [w \in Workers |-> NoRun]
    /\ sweep = {}
    /\ recon = NoPass
    /\ fresh = {}
    /\ booked = {}
    /\ upsets = 0
    /\ presses = 0
    /\ tries = [e \in Events |-> 0]

Upset == upsets < MaxUpsets /\ upsets' = upsets + 1

\* deduplicate=True: refused while the job id is queued or started.
Enqueued(E, k) == [e \in Events |-> IF e \in E /\ job[e][k] = "none"
                                    THEN [job[e] EXCEPT ![k] = "queued"] ELSE job[e]]

PlaceOrder(o) ==
    /\ o \notin placed
    /\ placed' = placed \cup {o}
    /\ fresh' = fresh \cup {o}
    /\ UNCHANGED <<acked, req, log, job, run, sweep, recon, booked, upsets, presses, tries>>

-----------------------------------------------------------------------------
(* The receiver.  Shopify sends an event until it has been answered, and    *)
(* sometimes twice at once.                                                 *)

\* Variant: a copy is answered while the first one is still being logged.
webhook_early(q, e) ==
    /\ req[q].at = "idle"
    /\ OrderOf[e] \in placed /\ e \notin acked
    /\ IF log[e].status # "none" \/ \E p \in Requests : req[p].event = e
       THEN acked' = acked \cup {e} /\ UNCHANGED req
       ELSE req' = [req EXCEPT ![q] = [at |-> "checked", event |-> e]] /\ UNCHANGED acked
    /\ UNCHANGED <<placed, log, job, run, sweep, recon, fresh, booked, upsets, presses, tries>>

webhook(q, e) ==
    /\ req[q].at = "idle"
    /\ OrderOf[e] \in placed /\ e \notin acked
    /\ IF log[e].status # "none"
       THEN acked' = acked \cup {e} /\ UNCHANGED req
       ELSE req' = [req EXCEPT ![q] = [at |-> "checked", event |-> e]] /\ UNCHANGED acked
    /\ UNCHANGED <<placed, log, job, run, sweep, recon, fresh, booked, upsets, presses, tries>>

\* _log_event inserts and commits; the loser of two copies meets the unique
\* index on webhook_id and answers 200 as well.
log_event(q) ==
    LET e == req[q].event
        answered == log[e].status # "none" \/ e \in Unhandled
    IN  /\ req[q].at = "checked"
        /\ log' = IF log[e].status # "none" THEN log
                  ELSE [log EXCEPT ![e] = IF e \in Unhandled
                                          THEN Skipped ELSE Queued]
        /\ acked' = IF answered THEN acked \cup {e} ELSE acked
        /\ req' = [req EXCEPT ![q] = IF answered THEN NoRequest ELSE [at |-> "logged", event |-> e]]
        /\ UNCHANGED <<placed, job, run, sweep, recon, fresh, booked, upsets, presses, tries>>

\* The job is enqueued after the commit, and Shopify has its answer.
respond(q) ==
    /\ req[q].at = "logged"
    /\ job' = Enqueued({req[q].event}, "webhook")
    /\ acked' = acked \cup {req[q].event}
    /\ req' = [req EXCEPT ![q] = NoRequest]
    /\ UNCHANGED <<placed, log, run, sweep, recon, fresh, booked, upsets, presses, tries>>

\* The web worker is killed, or Redis cannot be reached: no job and no 200.
RequestDies(q) ==
    /\ req[q].at # "idle"
    /\ Upset
    /\ req' = [req EXCEPT ![q] = NoRequest]
    /\ UNCHANGED <<placed, acked, log, job, run, sweep, recon, fresh, booked, presses, tries>>

-----------------------------------------------------------------------------
(* The worker *)

\* The handler begins by reading its row of the log.
run_handler(w, e, k) ==
    /\ run[w].at = "idle"
    /\ job[e][k] = "queued"
    /\ job' = [job EXCEPT ![e][k] = "started"]
    /\ run' = [run EXCEPT ![w] = [at |-> "running", event |-> e, kind |-> k,
                                  attempts |-> log[e].attempts]]
    /\ tries' = [tries EXCEPT ![e] = @ + 1]
    /\ UNCHANGED <<placed, acked, req, log, sweep, recon, fresh, booked, upsets, presses>>

\* The documents are committed before the log is written.
HandlerCommits(w) ==
    /\ run[w].at = "running"
    /\ booked' = booked \cup ({OrderOf[run[w].event]} \ Gone)
    /\ run' = [run EXCEPT ![w].at = "committed"]
    /\ UNCHANGED <<placed, acked, req, log, job, sweep, recon, fresh, upsets, presses, tries>>

\* Variant: the log says Success before the documents are committed.
mark_success_early(w) ==
    /\ run[w].at \in {"running", "committed"}
    /\ log' = [log EXCEPT ![run[w].event].status = "Success"]
    /\ run' = [run EXCEPT ![w].at = "marked"]
    /\ UNCHANGED <<placed, acked, req, job, sweep, recon, fresh, booked, upsets, presses, tries>>

mark_success(w) ==
    /\ run[w].at = "committed"
    /\ log' = [log EXCEPT ![run[w].event].status = "Success"]
    /\ run' = [run EXCEPT ![w].at = "marked"]
    /\ UNCHANGED <<placed, acked, req, job, sweep, recon, fresh, booked, upsets, presses, tries>>

\* Variant: the queue's word for a failure, which the log's status does not have.
due_again_misnamed(n) ==
    [status |-> "Failed", attempts |-> n + 1,
     next |-> IF n + 1 < MaxAttempts THEN "waiting" ELSE "none"]

\* Variant: the failure is not counted.
due_again_uncounted(n) == [status |-> "Error", attempts |-> n, next |-> "waiting"]

\* Variant: the last attempt but one is given up without counting it.
due_again_short(n) ==
    [status |-> "Error", attempts |-> n + 1,
     next |-> IF n + 2 < MaxAttempts THEN "waiting" ELSE "none"]

due_again(n) ==
    [status |-> "Error", attempts |-> n + 1,
     next |-> IF n + 1 < MaxAttempts THEN "waiting" ELSE "none"]

\* mark_error rolls back, then counts from the attempts the handler once read.
mark_error(w) ==
    /\ run[w].at \in {"running", "committed"}
    /\ log' = [log EXCEPT ![run[w].event] = due_again(run[w].attempts)]
    /\ run' = [run EXCEPT ![w].at = "marked"]
    /\ UNCHANGED <<placed, acked, req, job, sweep, recon, fresh, booked, upsets, presses, tries>>

JobEnds(w) ==
    /\ job' = [job EXCEPT ![run[w].event][run[w].kind] =
                 IF @ = "started" THEN "none" ELSE @]
    /\ run' = [run EXCEPT ![w] = NoRun]
    /\ UNCHANGED <<placed, acked, req, log, sweep, recon, fresh, booked, presses, tries>>

WorkerReturns(w) ==
    /\ run[w].at = "marked"
    /\ JobEnds(w)
    /\ UNCHANGED upsets

WorkerDies(w) ==
    /\ run[w].at # "idle"
    /\ Upset
    /\ JobEnds(w)

-----------------------------------------------------------------------------
(* Failed events come round again *)

\* backoff_seconds has passed.
BecomeDue(e) ==
    /\ log[e].next = "waiting"
    /\ log' = [log EXCEPT ![e].next = "due"]
    /\ UNCHANGED <<placed, acked, req, job, run, sweep, recon, fresh, booked, upsets, presses, tries>>

\* Variant: the sweep stops one attempt before due_again does.
DueShort == {e \in Events : /\ log[e].status = "Error" /\ log[e].next = "due"
                            /\ log[e].attempts + 1 < MaxAttempts}

Due == {e \in Events : /\ log[e].status = "Error" /\ log[e].next = "due"
                       /\ log[e].attempts < MaxAttempts}

retry_failed_events_lists(E) ==
    /\ sweep = {}
    /\ E \subseteq Due /\ E # {}
    /\ Cardinality(E) <= Limit
    /\ Cardinality(E) = Limit \/ E = Due
    /\ sweep' = E
    /\ UNCHANGED <<placed, acked, req, log, job, run, recon, fresh, booked, upsets, presses, tries>>

\* Variant: the sweep marks its events but its jobs are refused.
retry_failed_events_mute ==
    /\ sweep # {}
    /\ log' = [e \in Events |-> IF e \in sweep
                 THEN [log[e] EXCEPT !.status = "Queued", !.next = "none"] ELSE log[e]]
    /\ sweep' = {}
    /\ UNCHANGED <<placed, acked, req, job, run, recon, fresh, booked, upsets, presses, tries>>

\* The whole sweep commits at once, whatever became of the events it listed.
retry_failed_events ==
    /\ sweep # {}
    /\ log' = [e \in Events |-> IF e \in sweep
                 THEN [log[e] EXCEPT !.status = "Queued", !.next = "none"] ELSE log[e]]
    /\ job' = Enqueued(sweep, "retry")
    /\ sweep' = {}
    /\ UNCHANGED <<placed, acked, req, run, recon, fresh, booked, upsets, presses, tries>>

\* An operator's Retry is a fresh start.
retry(e) ==
    /\ log[e].status # "none" /\ e \notin Unhandled
    /\ presses < MaxPresses
    /\ presses' = presses + 1
    /\ log' = [log EXCEPT ![e] = Queued]
    /\ job' = Enqueued({e}, "retry")
    /\ UNCHANGED <<placed, acked, req, run, sweep, recon, fresh, booked, upsets, tries>>

-----------------------------------------------------------------------------
(* The nightly reconciliation of orders *)

reconcile_store ==
    /\ ~recon.on
    /\ fresh # {}
    /\ recon' = [on |-> TRUE, window |-> fresh, todo |-> fresh, unsent |-> {}]
    /\ UNCHANGED <<placed, acked, req, log, job, run, sweep, fresh, booked, upsets, presses, tries>>

Unsent == {ReplayOf(o) : o \in recon.unsent}

\* Variant: an order with a replay in the log is replayed again.
replay_order_again(o) ==
    LET e == ReplayOf(o)
    IN  /\ o \in recon.todo
        /\ IF o \in booked
           THEN /\ recon' = [recon EXCEPT !.todo = @ \ {o}]
                /\ UNCHANGED <<log, job>>
           ELSE /\ log' = [log EXCEPT ![e] = Queued]
                /\ job' = Enqueued(Unsent, "replay")
                /\ recon' = [recon EXCEPT !.todo = @ \ {o}, !.unsent = {o}]
        /\ UNCHANGED <<placed, acked, req, run, sweep, fresh, booked, upsets, presses, tries>>

\* A missing order is logged and committed; its job, enqueued after that commit,
\* goes out with the next one.  An order with a replay in the log is left alone.
replay_order(o) ==
    LET e == ReplayOf(o)
    IN  /\ o \in recon.todo
        /\ IF o \in booked \/ log[e].status # "none"
           THEN /\ recon' = [recon EXCEPT !.todo = @ \ {o}]
                /\ UNCHANGED <<log, job>>
           ELSE /\ log' = [log EXCEPT ![e] = Queued]
                /\ job' = Enqueued(Unsent, "replay")
                /\ recon' = [recon EXCEPT !.todo = @ \ {o}, !.unsent = {o}]
        /\ UNCHANGED <<placed, acked, req, run, sweep, fresh, booked, upsets, presses, tries>>

\* last_reconciled_on moves to the moment the pass began.
ReconcileEnds ==
    /\ recon.on /\ recon.todo = {}
    /\ fresh' = fresh \ recon.window
    /\ job' = Enqueued(Unsent, "replay")
    /\ recon' = NoPass
    /\ UNCHANGED <<placed, acked, req, log, run, sweep, booked, upsets, presses, tries>>

\* Variant: a pass that broke off counts as done.
ReconcileFailsAsDone(sent) ==
    /\ recon.on
    /\ Upset
    /\ job' = IF sent THEN Enqueued(Unsent, "replay") ELSE job
    /\ recon' = NoPass
    /\ fresh' = fresh \ recon.window
    /\ UNCHANGED <<placed, acked, req, log, run, sweep, booked, presses, tries>>

\* The pass raises (its last job still goes out) or is killed (it does not).
ReconcileFails(sent) ==
    /\ recon.on
    /\ Upset
    /\ job' = IF sent THEN Enqueued(Unsent, "replay") ELSE job
    /\ recon' = NoPass
    /\ UNCHANGED <<placed, acked, req, log, run, sweep, fresh, booked, presses, tries>>

-----------------------------------------------------------------------------
Receiving(q) == log_event(q) \/ respond(q)

Working(w) ==
    \/ HandlerCommits(w)
    \/ mark_success(w)
    \/ mark_error(w)
    \/ WorkerReturns(w)

TakesJob(w) == \E e \in Events, k \in Kinds : run_handler(w, e, k)

Sweeping == retry_failed_events \/ \E E \in SUBSET Due : retry_failed_events_lists(E)

Reconciling == reconcile_store \/ ReconcileEnds \/ \E o \in Orders : replay_order(o)

Next ==
    \/ \E o \in Orders : PlaceOrder(o)
    \/ \E q \in Requests : (\E e \in Webhooks : webhook(q, e)) \/ Receiving(q) \/ RequestDies(q)
    \/ \E w \in Workers : TakesJob(w) \/ Working(w) \/ WorkerDies(w)
    \/ \E e \in Events : BecomeDue(e) \/ retry(e)
    \/ Sweeping
    \/ Reconciling
    \/ \E sent \in BOOLEAN : ReconcileFails(sent)

\* Workers take jobs and handlers end, one way or the other; requests are
\* served; the scheduler runs the sweep and the reconciliation; time passes.
Fairness ==
    /\ \A q \in Requests : WF_vars(Receiving(q))
    /\ \A w \in Workers : WF_vars(Working(w))
    /\ WF_vars(\E w \in Workers : TakesJob(w))
    /\ \A e \in Events : WF_vars(BecomeDue(e))
    /\ WF_vars(Sweeping)
    /\ WF_vars(Reconciling)

Spec == Init /\ [][Next]_vars

LiveSpec == Spec /\ Fairness

-----------------------------------------------------------------------------
(* What holds *)

LogRow == [status : {"none", "Queued", "Skipped", "Success", "Error"},
           attempts : Nat, next : {"none", "waiting", "due"}]

\* The shapes of the state.  attempts may pass MAX_ATTEMPTS: a sweep can queue an
\* event it listed before an operator's retry of it was given up.
TypeOK ==
    /\ placed \subseteq Orders /\ fresh \subseteq placed /\ booked \subseteq Orders
    /\ acked \subseteq Webhooks
    /\ req \in [Requests -> [at : {"idle", "checked", "logged"}, event : Events \cup {NoEvent}]]
    /\ log \in [Events -> LogRow]
    /\ job \in [Events -> [Kinds -> {"none", "queued", "started"}]]
    /\ run \in [Workers -> [at : {"idle", "running", "committed", "marked"},
                            event : Events \cup {NoEvent}, kind : Kinds, attempts : Nat]]
    /\ sweep \subseteq Events
    /\ recon \in [on : BOOLEAN, window : SUBSET Orders, todo : SUBSET Orders,
                  unsent : SUBSET Orders]
    /\ upsets \in Nat /\ presses \in Nat /\ tries \in [Events -> Nat]

\* Shopify stops sending an event once it is answered 200, so by then its row
\* is committed, however two copies and a dying worker interleave.
AckedIsLogged == \A e \in acked : log[e].status # "none"

\* Success in the log means the order's documents are in the books, whoever
\* wrote them and whichever of two handlers of the event finished last.
SuccessMeansBooked ==
    \A e \in Events : log[e].status = "Success" => OrderOf[e] \in booked \cup Gone

\* An event that failed is scheduled again or has had all its attempts, also
\* when handlers with stale counts, the sweep and an operator write its row.
ErrorIsScheduled ==
    \A e \in Events : log[e].status = "Error" =>
        (log[e].next = "none" <=> log[e].attempts >= MaxAttempts)

\* tests/test_audit_fixes.py:1002: a permanently broken event is not retried for
\* ever.  Its handler runs at most MAX_ATTEMPTS times unless a person asks.
TriesBounded == presses = 0 => \A e \in Events : tries[e] <= MaxAttempts

\* The reconciliation never asks Shopify for an order twice, so an order its
\* window has passed is booked, or its replay is in the log.
NothingSlipsTheWindow ==
    \A o \in placed \ fresh : o \in booked \/ log[ReplayOf(o)].status # "none"

Settled(e) ==
    \/ log[e].status \in {"Success", "Skipped"}
    \/ log[e].status = "Error" /\ log[e].next = "none"

\* A failed event that has attempts left comes out of Error, kills or not.
FailuresComeRound ==
    \A e \in Events : (log[e].status = "Error" /\ log[e].next # "none")
                        ~> (log[e].status # "Error" \/ log[e].next = "none")

\* As long as nothing is killed and nobody intervenes, every logged event is
\* settled in the end, through failures, two copies, replays and sweeps.
EventsSettle ==
    \A e \in Events : (log[e].status # "none") ~> (Settled(e) \/ upsets + presses > 0)

-----------------------------------------------------------------------------
(* What the repository says and the code does not do *)

\* hooks.py:13-14: the scheduled jobs are there so that a worker restart or a
\* dropped job degrades into a delay rather than into lost work.  The sweep asks
\* for events in Error; one whose job died is Queued, and stays it.
DroppedJobIsADelay == \A e \in Events : log[e].status = "Queued" ~> log[e].status # "Queued"
=============================================================================
