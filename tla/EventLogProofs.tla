--------------------------- MODULE EventLogProofs ---------------------------
(* Type correctness and the safety of EventLog, for every set of events,    *)
(* requests and workers and every bound.                                    *)
EXTENDS EventLogInv, TLAPS

\* Every order has its own replay among the events.
LEMMA Replaying ==
  /\ \A o \in Orders : ReplayOf(o) \in Replays /\ OrderOf[ReplayOf(o)] = o
  /\ \A o, p \in Orders : ReplayOf(o) = ReplayOf(p) => o = p
<1>1. \A o \in Orders : ReplayOf(o) \in Replays /\ OrderOf[ReplayOf(o)] = o
  BY EventsAssumption DEF ReplayOf
<1> QED BY <1>1

\* The rows the log is written with have the type of a row.
LEMMA RowTypes ==
  /\ NoRow \in LogRow /\ Queued \in LogRow /\ Skipped \in LogRow
  /\ \A n \in Nat : due_again(n) \in LogRow
  /\ \A r \in LogRow : /\ [r EXCEPT !.status = "Success"] \in LogRow
                       /\ [r EXCEPT !.next = "due"] \in LogRow
                       /\ [r EXCEPT !.status = "Queued", !.next = "none"] \in LogRow
<1>1. NoRow \in LogRow /\ Queued \in LogRow /\ Skipped \in LogRow
  BY DEF NoRow, Queued, Skipped, LogRow
<1>2. \A n \in Nat : due_again(n) \in LogRow
  BY CountsAssumption DEF due_again, LogRow
<1>3. ASSUME NEW r \in LogRow
      PROVE  /\ [r EXCEPT !.status = "Success"] \in LogRow
             /\ [r EXCEPT !.next = "due"] \in LogRow
             /\ [r EXCEPT !.status = "Queued", !.next = "none"] \in LogRow
  BY DEF LogRow
<1> QED BY <1>1, <1>2, <1>3

\* Enqueueing types the job table and only fills places that were empty.
LEMMA Enqueueing ==
  ASSUME TypeOK, NEW E, NEW k \in Kinds
  PROVE  /\ Enqueued(E, k) \in [Events -> [Kinds -> {"none", "queued", "started"}]]
         /\ \A e \in Events, j \in Kinds :
              Enqueued(E, k)[e][j] = IF e \in E /\ j = k /\ job[e][k] = "none"
                                     THEN "queued" ELSE job[e][j]
BY DEF Enqueued, TypeOK

\* An event without a chance is nowhere on its way to a handler.
LEMMA NoChances ==
  ASSUME NEW e, Chances(e) = {}
  PROVE  /\ \A q \in Requests : ~(req[q].at = "logged" /\ req[q].event = e)
         /\ \A o \in recon.unsent : ReplayOf(o) # e
         /\ \A k \in Kinds : job[e][k] # "queued"
         /\ \A w \in Workers : ~(run[w].at \in {"running", "committed"} /\ run[w].event = e)
         /\ ~Failed(e)
BY DEF Chances

\* Where an event with one chance is, and where it is not.
LEMMA OnlyChance ==
  ASSUME NEW e, NEW c, Chances(e) \subseteq {c}
  PROVE  /\ \A q \in Requests : req[q].at = "logged" /\ req[q].event = e => c = <<"request", q>>
         /\ \A o \in recon.unsent : ReplayOf(o) = e => c = <<"replay", o>>
         /\ \A k \in Kinds : job[e][k] = "queued" => c = <<"job", k>>
         /\ \A w \in Workers : run[w].at \in {"running", "committed"} /\ run[w].event = e
                                => c = <<"run", w>>
         /\ Failed(e) => c = <<"sweep", e>>
<1>1. \A q \in Requests : req[q].at = "logged" /\ req[q].event = e => <<"request", q>> \in Chances(e)
  BY DEF Chances
<1>2. \A o \in recon.unsent : ReplayOf(o) = e => <<"replay", o>> \in Chances(e)
  BY DEF Chances
<1>3. \A k \in Kinds : job[e][k] = "queued" => <<"job", k>> \in Chances(e)
  BY DEF Chances
<1>4. \A w \in Workers : run[w].at \in {"running", "committed"} /\ run[w].event = e
        => <<"run", w>> \in Chances(e)
  BY DEF Chances
<1>5. Failed(e) => <<"sweep", e>> \in Chances(e)
  BY DEF Chances
<1> QED BY <1>1, <1>2, <1>3, <1>4, <1>5

\* The same of the next state, the other way round.
LEMMA BecomesOnlyChance ==
  ASSUME NEW e, NEW d,
         \A q \in Requests : req'[q].at = "logged" /\ req'[q].event = e => d = <<"request", q>>,
         \A o \in recon'.unsent : ReplayOf(o) = e => d = <<"replay", o>>,
         \A k \in Kinds : job'[e][k] = "queued" => d = <<"job", k>>,
         \A w \in Workers : run'[w].at \in {"running", "committed"} /\ run'[w].event = e
                             => d = <<"run", w>>,
         Failed(e)' => d = <<"sweep", e>>
  PROVE  Chances(e)' \subseteq {d}
BY DEF Chances

\* The empty log satisfies the invariant.
LEMMA InitEInv == Init => EInv
<1> SUFFICES ASSUME Init PROVE EInv OBVIOUS
<1>1. TypeOK
  BY RowTypes DEF Init, TypeOK, NoRequest, NoRun, NoPass, Kinds
<1>2. ReqInv /\ RunInv /\ PassInv
  BY DEF Init, ReqInv, RunInv, PassInv, NoRequest, NoRun, NoPass
<1>3. ChanceInv
  <2>1. \A e \in Events : Chances(e) = {}
    BY DEF Init, Chances, Failed, NoRequest, NoRun, NoPass, NoRow
  <2> QED BY <2>1, CountsAssumption DEF Init, ChanceInv, OneChance, NoRow
<1>4. AckedIsLogged /\ SuccessMeansBooked /\ ErrorIsScheduled /\ NothingSlipsTheWindow
  BY DEF Init, AckedIsLogged, SuccessMeansBooked, ErrorIsScheduled, NothingSlipsTheWindow, NoRow
<1> QED BY <1>1, <1>2, <1>3, <1>4 DEF EInv

\* What a step leaves of an event's chances, when it gives it none.
LEMMA FewerChances ==
  ASSUME EInv, NEW e \in Events, presses' = presses,
         Chances(e)' \subseteq Chances(e),
         log'[e].attempts = log[e].attempts, tries'[e] = tries[e],
         log'[e].status = "none" => log[e].status = "none",
         \A w \in Workers : run'[w] = run[w] \/ <<"run", w>> \notin Chances(e)',
         e \in sweep' => Failed(e)'
  PROVE  presses' = 0 => OneChance(e)'
BY DEF EInv, ChanceInv, OneChance


\* An order placed at Shopify touches nothing of ours.
LEMMA PlaceOrderStep ==
  ASSUME EInv, NEW o \in Orders, PlaceOrder(o)
  PROVE  EInv'
<1> USE DEF EInv, PlaceOrder
<1>1. TypeOK'
  BY DEF TypeOK
<1>2. ReqInv' /\ RunInv' /\ PassInv'
  BY DEF ReqInv, RunInv, PassInv
<1>3. AckedIsLogged' /\ SuccessMeansBooked' /\ ErrorIsScheduled' /\ NothingSlipsTheWindow'
  BY DEF AckedIsLogged, SuccessMeansBooked, ErrorIsScheduled, NothingSlipsTheWindow
<1>4. ChanceInv'
  BY DEF ChanceInv, OneChance, Chances, Failed
<1> QED BY <1>1, <1>2, <1>3, <1>4

\* A request reads the log and writes nothing.
LEMMA webhookStep ==
  ASSUME EInv, NEW q \in Requests, NEW e \in Webhooks, webhook(q, e)
  PROVE  EInv'
<1> USE DEF EInv, webhook
<1>1. TypeOK'
  BY DEF TypeOK, Events
<1>2. ReqInv' /\ RunInv' /\ PassInv'
  BY DEF ReqInv, RunInv, PassInv, TypeOK
<1>3. AckedIsLogged' /\ SuccessMeansBooked' /\ ErrorIsScheduled' /\ NothingSlipsTheWindow'
  BY DEF AckedIsLogged, SuccessMeansBooked, ErrorIsScheduled, NothingSlipsTheWindow
<1>4. ChanceInv'
  <2>1. \A f \in Events : Chances(f)' \subseteq Chances(f)
    BY DEF Chances, Failed, TypeOK
  <2> SUFFICES ASSUME NEW f \in Events, presses' = 0 PROVE OneChance(f)'
    BY DEF ChanceInv
  <2> QED BY <2>1 DEF ChanceInv, OneChance, Failed
<1> QED BY <1>1, <1>2, <1>3, <1>4

\* The first copy logs the event and holds its one chance; a later one finds it logged.
LEMMA log_eventStep ==
  ASSUME EInv, NEW q \in Requests, log_event(q)
  PROVE  EInv'
<1> USE DEF EInv, log_event
<1> PICK e \in Webhooks : e = req[q].event
  BY DEF ReqInv
<1>0. e \in Events /\ req[q].at = "checked" /\ e = req[q].event
  BY DEF Events
<1>1. TypeOK'
  BY <1>0, RowTypes DEF TypeOK, NoRequest
<1>2. \A f \in Events : /\ f # e \/ log[f].status # "none" => log'[f] = log[f]
                        /\ log[f].status # "none" => log'[f].status # "none"
  BY <1>0 DEF TypeOK, Queued, Skipped
<1>3. \/ log'[e].status # "none" /\ log'[e].status \notin {"Success", "Error"}
      \/ log'[e] = log[e]
  BY <1>0 DEF TypeOK, Queued, Skipped
<1>4. ReqInv' /\ RunInv' /\ PassInv'
  BY <1>0, <1>2, Replaying DEF ReqInv, RunInv, PassInv, TypeOK, Events, NoRequest, Queued, Skipped
<1>5. AckedIsLogged' /\ SuccessMeansBooked' /\ ErrorIsScheduled' /\ NothingSlipsTheWindow'
  <2>1. AckedIsLogged'
    BY <1>0, <1>2 DEF AckedIsLogged, TypeOK, Events, Queued, Skipped
  <2>2. SuccessMeansBooked' /\ ErrorIsScheduled'
    BY <1>2, <1>3 DEF SuccessMeansBooked, ErrorIsScheduled
  <2>3. NothingSlipsTheWindow'
    BY <1>2, Replaying DEF NothingSlipsTheWindow, TypeOK, Events
  <2> QED BY <2>1, <2>2, <2>3
<1>6. ChanceInv'
  <2> SUFFICES ASSUME NEW f \in Events, presses' = 0 PROVE OneChance(f)'
    BY DEF ChanceInv
  <2>1. OneChance(f)
    BY DEF ChanceInv
  <2>2. CASE log[e].status # "none" \/ f # e
    <3>1. Chances(f)' \subseteq Chances(f)
      BY <2>2, <1>0, <1>2 DEF Chances, Failed, TypeOK, NoRequest, Queued
    <3> QED BY <2>1, <2>2, <1>2, <3>1 DEF OneChance, Failed
  <2>3. CASE log[e].status = "none" /\ f = e
    <3>1. Chances(e) = {} /\ tries[e] = 0
      BY <2>1, <2>3 DEF OneChance
    <3>2. Chances(e)' \subseteq {<<"request", q>>}
      <4>1. /\ \A p \in Requests : ~(req[p].at = "logged" /\ req[p].event = e)
            /\ \A o \in recon.unsent : ReplayOf(o) # e
            /\ \A k \in Kinds : job[e][k] # "queued"
            /\ \A w \in Workers : ~(run[w].at \in {"running", "committed"} /\ run[w].event = e)
        BY <3>1, NoChances
      <4>2. ~Failed(e)'
        BY <2>3, <1>0 DEF Failed, TypeOK, Queued, Skipped
      <4>3. \A p \in Requests \ {q} : req'[p] = req[p]
        BY DEF TypeOK
      <4> QED BY <4>1, <4>2, <4>3 DEF Chances
    <3>3. log'[e].attempts = 0 /\ log'[e].status # "none"
      BY <2>3, <1>0 DEF TypeOK, Queued, Skipped
    <3>4. e \notin sweep
      BY <2>1, <2>3 DEF OneChance, Failed
    <3>5. \A w \in Workers : <<"run", w>> \notin Chances(e)'
      BY <3>2
    <3> QED BY <2>3, <3>1, <3>2, <3>3, <3>4, <3>5, CountsAssumption DEF OneChance
  <2> QED BY <2>2, <2>3
<1> QED BY <1>1, <1>4, <1>5, <1>6


\* A chance that was not a running handler gives way to another that is not.
LEMMA OtherChance ==
  ASSUME EInv, NEW e \in Events, presses' = presses,
         NEW c \in Chances(e), NEW d,
         \A w \in Workers : c # <<"run", w>> /\ d # <<"run", w>>,
         Chances(e)' \subseteq {d},
         log'[e].attempts = log[e].attempts, tries'[e] = tries[e],
         log'[e].status = "none" => log[e].status = "none",
         e \in sweep' => Failed(e)'
  PROVE  presses' = 0 => OneChance(e)'
<1> SUFFICES ASSUME presses' = 0 PROVE OneChance(e)'
  OBVIOUS
<1>1. OneChance(e)
  BY DEF EInv, ChanceInv
<1>2. /\ log[e].status # "none" /\ log[e].attempts < MaxAttempts
      /\ tries[e] <= log[e].attempts /\ tries[e] <= MaxAttempts
  BY <1>1 DEF OneChance
<1> QED BY <1>2 DEF OneChance

\* The row is committed; its chance goes from the request to the job.
LEMMA respondStep ==
  ASSUME EInv, NEW q \in Requests, respond(q)
  PROVE  EInv'
<1> USE DEF EInv, respond
<1> PICK e \in Webhooks : e = req[q].event
  BY DEF ReqInv
<1>0. e \in Events /\ req[q].at = "logged" /\ e = req[q].event /\ log[e].status # "none"
  BY DEF Events, ReqInv
<1> "webhook" \in Kinds
  BY DEF Kinds
<1>1. TypeOK'
  BY <1>0, Enqueueing DEF TypeOK, NoRequest
<1>2. ReqInv' /\ RunInv' /\ PassInv'
  BY <1>0 DEF ReqInv, RunInv, PassInv, TypeOK, NoRequest
<1>3. AckedIsLogged' /\ SuccessMeansBooked' /\ ErrorIsScheduled' /\ NothingSlipsTheWindow'
  BY <1>0 DEF AckedIsLogged, SuccessMeansBooked, ErrorIsScheduled, NothingSlipsTheWindow
<1>4. ChanceInv'
  <2> SUFFICES ASSUME NEW f \in Events, presses' = 0 PROVE OneChance(f)'
    BY DEF ChanceInv
  <2>0. OneChance(f)
    BY DEF ChanceInv
  <2>1. CASE f # e
    <3>1. Chances(f)' \subseteq Chances(f)
      BY <2>1, <1>0, Enqueueing DEF Chances, Failed, TypeOK, NoRequest
    <3> QED BY <2>0, <3>1, FewerChances DEF OneChance, Failed
  <2>2. CASE f = e
    <3>1. <<"request", q>> \in Chances(e)
      BY <1>0 DEF Chances
    <3>2. Chances(e) \subseteq {<<"request", q>>}
      BY <3>1, <2>0, <2>2 DEF OneChance
    <3>3. Chances(e)' \subseteq {<<"job", "webhook">>}
      <4>1. \A p \in Requests \ {q} : req'[p] = req[p]
        BY DEF TypeOK
      <4>2. /\ \A p \in Requests \ {q} : ~(req[p].at = "logged" /\ req[p].event = e)
            /\ \A o \in recon.unsent : ReplayOf(o) # e
            /\ \A k \in Kinds : job[e][k] # "queued"
            /\ \A w \in Workers : ~(run[w].at \in {"running", "committed"} /\ run[w].event = e)
            /\ ~Failed(e)
        <5>1. \A p \in Requests : <<"request", q>> = <<"request", p>> => p = q
          OBVIOUS
        <5> QED BY <3>2, <5>1, OnlyChance
      <4>3. \A k \in Kinds \ {"webhook"} : job'[e][k] # "queued"
        BY <1>0, <4>2, Enqueueing
      <4>4. req'[q].at = "idle"
        BY DEF TypeOK, NoRequest
      <4>5. \A p \in Requests : ~(req'[p].at = "logged" /\ req'[p].event = e)
        BY <4>1, <4>2, <4>4
      <4>6. /\ recon' = recon /\ run' = run /\ ~Failed(e)'
            /\ \A k \in Kinds : job'[e][k] = "queued" => <<"job", "webhook">> = <<"job", k>>
        BY <4>2, <4>3 DEF Failed
      <4> QED BY <4>2, <4>5, <4>6, BecomesOnlyChance
    <3>4. e \in sweep' => Failed(e)'
      BY <2>0, <2>2 DEF OneChance, Failed
    <3> QED BY <2>2, <3>1, <3>3, <3>4, <1>0, OtherChance
  <2> QED BY <2>1, <2>2
<1> QED BY <1>1, <1>2, <1>3, <1>4

\* A request that dies gives its chance up.
LEMMA RequestDiesStep ==
  ASSUME EInv, NEW q \in Requests, RequestDies(q)
  PROVE  EInv'
<1> USE DEF EInv, RequestDies, Upset
<1>1. TypeOK'
  BY DEF TypeOK, NoRequest
<1>2. ReqInv' /\ RunInv' /\ PassInv'
  BY DEF ReqInv, RunInv, PassInv, TypeOK, NoRequest
<1>3. AckedIsLogged' /\ SuccessMeansBooked' /\ ErrorIsScheduled' /\ NothingSlipsTheWindow'
  BY DEF AckedIsLogged, SuccessMeansBooked, ErrorIsScheduled, NothingSlipsTheWindow
<1>4. ChanceInv'
  <2> SUFFICES ASSUME NEW f \in Events, presses' = 0 PROVE OneChance(f)'
    BY DEF ChanceInv
  <2>1. Chances(f)' \subseteq Chances(f)
    BY DEF Chances, Failed, TypeOK, NoRequest
  <2>2. OneChance(f)
    BY DEF ChanceInv
  <2> QED BY <2>1, <2>2, FewerChances DEF OneChance, Failed
<1> QED BY <1>1, <1>2, <1>3, <1>4


\* A handler starts: the queued job was the one chance, and the try is counted.
LEMMA run_handlerStep ==
  ASSUME EInv, NEW w \in Workers, NEW e \in Events, NEW k \in Kinds, run_handler(w, e, k)
  PROVE  EInv'
<1> USE DEF EInv, run_handler
<1>0. /\ job' \in [Events -> [Kinds -> {"none", "queued", "started"}]]
      /\ \A f \in Events, j \in Kinds :
           job'[f][j] = IF f = e /\ j = k THEN "started" ELSE job[f][j]
      /\ run'[w] = [at |-> "running", event |-> e, kind |-> k, attempts |-> log[e].attempts]
      /\ \A v \in Workers \ {w} : run'[v] = run[v]
      /\ \A f \in Events : tries'[f] = IF f = e THEN tries[f] + 1 ELSE tries[f]
  BY DEF TypeOK
<1>1. TypeOK'
  BY <1>0 DEF TypeOK, LogRow
<1>2. ReqInv' /\ RunInv' /\ PassInv'
  BY <1>0 DEF ReqInv, RunInv, PassInv
<1>3. AckedIsLogged' /\ SuccessMeansBooked' /\ ErrorIsScheduled' /\ NothingSlipsTheWindow'
  BY DEF AckedIsLogged, SuccessMeansBooked, ErrorIsScheduled, NothingSlipsTheWindow
<1>4. ChanceInv'
  <2> SUFFICES ASSUME NEW f \in Events, presses' = 0 PROVE OneChance(f)'
    BY DEF ChanceInv
  <2>0. OneChance(f)
    BY DEF ChanceInv
  <2>1. CASE f # e
    <3>1. Chances(f)' \subseteq Chances(f)
      BY <2>1, <1>0 DEF Chances, Failed
    <3>2. /\ \A v \in Workers : run'[v] = run[v] \/ <<"run", v>> \notin Chances(f)'
      BY <2>1, <1>0 DEF Chances
    <3> QED BY <2>0, <2>1, <1>0, <3>1, <3>2, FewerChances DEF OneChance, Failed
  <2>2. CASE f = e
    <3>1. <<"job", k>> \in Chances(e)
      BY DEF Chances
    <3>2. Chances(e) \subseteq {<<"job", k>>}
      BY <3>1, <2>0, <2>2 DEF OneChance
    <3>3. /\ \A p \in Requests : ~(req[p].at = "logged" /\ req[p].event = e)
          /\ \A o \in recon.unsent : ReplayOf(o) # e
          /\ \A j \in Kinds \ {k} : job[e][j] # "queued"
          /\ \A v \in Workers : ~(run[v].at \in {"running", "committed"} /\ run[v].event = e)
          /\ ~Failed(e)
      <4>1. \A j \in Kinds : <<"job", k>> = <<"job", j>> => j = k
        OBVIOUS
      <4> QED BY <3>2, <4>1, OnlyChance
    <3>4. Chances(e)' \subseteq {<<"run", w>>}
      <4>1. \A v \in Workers : run'[v].at \in {"running", "committed"} /\ run'[v].event = e => v = w
        BY <3>3, <1>0
      <4>2. /\ req' = req /\ recon' = recon /\ ~Failed(e)'
            /\ \A j \in Kinds : job'[e][j] # "queued"
        BY <3>3, <1>0 DEF Failed
      <4> QED BY <3>3, <4>1, <4>2, BecomesOnlyChance
    <3>5. <<"run", w>> \in Chances(e)'
      BY <1>0 DEF Chances
    <3>6. log[e].attempts < MaxAttempts /\ tries[e] <= log[e].attempts /\ log[e].status # "none"
      BY <2>0, <2>2, <3>1, <3>2 DEF OneChance
    <3>7. e \notin sweep
      BY <2>0, <2>2, <3>3 DEF OneChance
    <3>8. \A v \in Workers : <<"run", v>> \in Chances(e)' => run'[v].attempts = log[e].attempts
      <4>1. \A v \in Workers : <<"run", v>> \in Chances(e)' => v = w
        BY <3>4
      <4> QED BY <4>1, <1>0
    <3>9. log[e].attempts \in Nat /\ tries[e] \in Nat /\ MaxAttempts \in Nat
      BY CountsAssumption DEF TypeOK, LogRow
    <3>10. tries'[e] = tries[e] + 1 /\ log' = log /\ sweep' = sweep
      BY <1>0
    <3> QED BY <2>2, <3>4, <3>5, <3>6, <3>7, <3>8, <3>9, <3>10 DEF OneChance
  <2> QED BY <2>1, <2>2
<1> QED BY <1>1, <1>2, <1>3, <1>4

\* The documents are committed; the handler still has the chance.
LEMMA HandlerCommitsStep ==
  ASSUME EInv, NEW w \in Workers, HandlerCommits(w)
  PROVE  EInv'
<1> USE DEF EInv, HandlerCommits
<1> PICK e \in Events : e = run[w].event
  BY DEF RunInv
<1>0. /\ run'[w].at = "committed" /\ run[w].at = "running"
      /\ run'[w].event = e /\ run'[w].attempts = run[w].attempts
      /\ \A v \in Workers \ {w} : run'[v] = run[v]
      /\ booked \subseteq booked' /\ OrderOf[e] \in booked' \cup Gone
  BY EventsAssumption DEF TypeOK
<1>1. TypeOK'
  BY EventsAssumption DEF TypeOK, Events
<1>2. ReqInv' /\ RunInv' /\ PassInv'
  BY <1>0 DEF ReqInv, RunInv, PassInv
<1>3. AckedIsLogged' /\ SuccessMeansBooked' /\ ErrorIsScheduled' /\ NothingSlipsTheWindow'
  BY <1>0 DEF AckedIsLogged, SuccessMeansBooked, ErrorIsScheduled, NothingSlipsTheWindow
<1>4. ChanceInv'
  <2> SUFFICES ASSUME NEW f \in Events, presses' = 0 PROVE OneChance(f)'
    BY DEF ChanceInv
  <2>0. OneChance(f)
    BY DEF ChanceInv
  <2>1. Chances(f)' = Chances(f)
    <3>1. \A v \in Workers : /\ run'[v].event = run[v].event
                             /\ run'[v].at \in {"running", "committed"} <=> run[v].at \in {"running", "committed"}
      BY <1>0
    <3> QED BY <3>1 DEF Chances, Failed
  <2>2. \A v \in Workers : run'[v].attempts = run[v].attempts
    BY <1>0
  <2> QED BY <2>0, <2>1, <2>2 DEF OneChance, Failed
<1> QED BY <1>1, <1>2, <1>3, <1>4


\* A handler that runs holds its event's one chance.
LEMMA RunningIsTheChance ==
  ASSUME EInv, presses = 0, NEW w \in Workers, run[w].at \in {"running", "committed"}
  PROVE  /\ run[w].event \in Events
         /\ <<"run", w>> \in Chances(run[w].event)
         /\ Chances(run[w].event) \subseteq {<<"run", w>>}
<1>1. run[w].event \in Events
  BY DEF EInv, RunInv
<1>2. <<"run", w>> \in Chances(run[w].event)
  BY DEF Chances
<1> QED BY <1>1, <1>2 DEF EInv, ChanceInv, OneChance

\* Success is written after the commit, and takes the chance away.
LEMMA mark_successStep ==
  ASSUME EInv, NEW w \in Workers, mark_success(w)
  PROVE  EInv'
<1> USE DEF EInv, mark_success
<1> PICK e \in Events : e = run[w].event
  BY DEF RunInv
<1>0. /\ log' \in [Events -> LogRow]
      /\ log'[e].status = "Success" /\ log'[e].attempts = log[e].attempts
      /\ \A f \in Events \ {e} : log'[f] = log[f]
      /\ run'[w].at = "marked" /\ run[w].at = "committed" /\ run'[w].event = e
      /\ \A v \in Workers \ {w} : run'[v] = run[v]
      /\ OrderOf[e] \in booked \cup Gone
  <2>1. /\ log[e] \in LogRow
        /\ log' = [log EXCEPT ![e] = [log[e] EXCEPT !.status = "Success"]]
    BY DEF TypeOK
  <2>2. /\ log' \in [Events -> LogRow]
        /\ log'[e].status = "Success" /\ log'[e].attempts = log[e].attempts
        /\ \A f \in Events \ {e} : log'[f] = log[f]
    <3>1. \A r \in LogRow : /\ [r EXCEPT !.status = "Success"] \in LogRow
                            /\ [r EXCEPT !.status = "Success"].status = "Success"
                            /\ [r EXCEPT !.status = "Success"].attempts = r.attempts
      BY DEF LogRow
    <3>2. log \in [Events -> LogRow]
      BY DEF TypeOK
    <3> HIDE DEF LogRow, EInv, mark_success
    <3> QED BY <2>1, <3>1, <3>2
  <2>3. /\ run'[w].at = "marked" /\ run[w].at = "committed" /\ run'[w].event = e
        /\ \A v \in Workers \ {w} : run'[v] = run[v]
    BY DEF TypeOK
  <2> QED BY <2>2, <2>3 DEF RunInv
<1>1. TypeOK'
  <2>1. run' \in [Workers -> [at : {"idle", "running", "committed", "marked"},
                              event : Events \cup {NoEvent}, kind : Kinds, attempts : Nat]]
    BY DEF TypeOK
  <2> QED BY <1>0, <2>1 DEF TypeOK
<1>2. ReqInv' /\ RunInv' /\ PassInv'
  BY <1>0, Replaying DEF ReqInv, RunInv, PassInv, Events, TypeOK
<1>3. AckedIsLogged' /\ SuccessMeansBooked' /\ ErrorIsScheduled' /\ NothingSlipsTheWindow'
  BY <1>0, Replaying DEF AckedIsLogged, SuccessMeansBooked, ErrorIsScheduled, NothingSlipsTheWindow, TypeOK, Events
<1>4. ChanceInv'
  <2> SUFFICES ASSUME NEW f \in Events, presses' = 0 PROVE OneChance(f)'
    BY DEF ChanceInv
  <2>0. OneChance(f)
    BY DEF ChanceInv
  <2>1. CASE f # e
    <3>1. Chances(f)' \subseteq Chances(f)
      BY <2>1, <1>0 DEF Chances, Failed
    <3>2. \A v \in Workers : run'[v] = run[v] \/ <<"run", v>> \notin Chances(f)'
      BY <2>1, <1>0 DEF Chances
    <3> QED BY <2>0, <2>1, <1>0, <3>1, <3>2, FewerChances DEF OneChance, Failed
  <2>2. CASE f = e
    <3>1. <<"run", w>> \in Chances(e) /\ Chances(e) \subseteq {<<"run", w>>}
      BY <1>0, RunningIsTheChance
    <3>2. /\ \A p \in Requests : ~(req[p].at = "logged" /\ req[p].event = e)
          /\ \A o \in recon.unsent : ReplayOf(o) # e
          /\ \A j \in Kinds : job[e][j] # "queued"
          /\ \A v \in Workers \ {w} : ~(run[v].at \in {"running", "committed"} /\ run[v].event = e)
          /\ ~Failed(e)
      <4>1. \A v \in Workers : <<"run", w>> = <<"run", v>> => v = w
        OBVIOUS
      <4> QED BY <3>1, <4>1, OnlyChance
    <3>3. Chances(e)' = {}
      BY <3>2, <1>0 DEF Chances, Failed
    <3>4. e \notin sweep /\ tries[e] <= MaxAttempts
      BY <2>0, <2>2, <3>2 DEF OneChance
    <3> QED BY <2>2, <3>3, <3>4, <1>0 DEF OneChance
  <2> QED BY <2>1, <2>2
<1> QED BY <1>1, <1>2, <1>3, <1>4

\* A failure counts the try; while attempts are left it is the next chance.
LEMMA mark_errorStep ==
  ASSUME EInv, NEW w \in Workers, mark_error(w)
  PROVE  EInv'
<1> USE DEF EInv, mark_error
<1> PICK e \in Events : e = run[w].event
  BY DEF RunInv
<1>0. /\ log' \in [Events -> LogRow]
      /\ log'[e] = due_again(run[w].attempts)
      /\ \A f \in Events \ {e} : log'[f] = log[f]
      /\ run'[w].at = "marked" /\ run[w].at \in {"running", "committed"} /\ run'[w].event = e
      /\ \A v \in Workers \ {w} : run'[v] = run[v]
      /\ run[w].attempts \in Nat
  BY RowTypes DEF TypeOK
<1>a. /\ log'[e].status = "Error" /\ log'[e].attempts = run[w].attempts + 1
      /\ log'[e].next = IF run[w].attempts + 1 < MaxAttempts THEN "waiting" ELSE "none"
  BY <1>0 DEF due_again
<1>1. TypeOK'
  BY <1>0 DEF TypeOK
<1>2. ReqInv' /\ RunInv' /\ PassInv'
  BY <1>0, <1>a, Replaying DEF ReqInv, RunInv, PassInv, Events, TypeOK
<1>3. AckedIsLogged' /\ SuccessMeansBooked' /\ ErrorIsScheduled' /\ NothingSlipsTheWindow'
  <2>1. AckedIsLogged' /\ SuccessMeansBooked' /\ NothingSlipsTheWindow'
    BY <1>0, <1>a, Replaying DEF AckedIsLogged, SuccessMeansBooked, NothingSlipsTheWindow, TypeOK, Events
  <2>2. ErrorIsScheduled'
    BY <1>0, <1>a, CountsAssumption DEF ErrorIsScheduled
  <2> QED BY <2>1, <2>2
<1>4. ChanceInv'
  <2> SUFFICES ASSUME NEW f \in Events, presses' = 0 PROVE OneChance(f)'
    BY DEF ChanceInv
  <2>0. OneChance(f)
    BY DEF ChanceInv
  <2>1. CASE f # e
    <3>1. Chances(f)' \subseteq Chances(f)
      BY <2>1, <1>0 DEF Chances, Failed
    <3>2. \A v \in Workers : run'[v] = run[v] \/ <<"run", v>> \notin Chances(f)'
      BY <2>1, <1>0 DEF Chances
    <3> QED BY <2>0, <2>1, <1>0, <3>1, <3>2, FewerChances DEF OneChance, Failed
  <2>2. CASE f = e
    <3>1. <<"run", w>> \in Chances(e) /\ Chances(e) \subseteq {<<"run", w>>}
      BY <1>0, RunningIsTheChance
    <3>2. /\ \A p \in Requests : ~(req[p].at = "logged" /\ req[p].event = e)
          /\ \A o \in recon.unsent : ReplayOf(o) # e
          /\ \A j \in Kinds : job[e][j] # "queued"
          /\ \A v \in Workers \ {w} : ~(run[v].at \in {"running", "committed"} /\ run[v].event = e)
          /\ ~Failed(e)
      <4>1. \A v \in Workers : <<"run", w>> = <<"run", v>> => v = w
        OBVIOUS
      <4> QED BY <3>1, <4>1, OnlyChance
    <3>3. Chances(e)' \subseteq {<<"sweep", e>>}
      <4>1. \A v \in Workers : ~(run'[v].at \in {"running", "committed"} /\ run'[v].event = e)
        BY <3>2, <1>0
      <4>2. req' = req /\ recon' = recon /\ job' = job
        OBVIOUS
      <4> QED BY <3>2, <4>1, <4>2, BecomesOnlyChance
    <3>4. Chances(e)' # {} => run[w].attempts + 1 < MaxAttempts
      BY <3>3, <1>a DEF Chances, Failed
    <3>5. /\ e \notin sweep /\ run[w].attempts = log[e].attempts
          /\ tries[e] <= log[e].attempts + 1 /\ log[e].attempts < MaxAttempts
      BY <2>0, <2>2, <3>1, <3>2 DEF OneChance
    <3>6. tries[e] \in Nat /\ MaxAttempts \in Nat /\ tries[e] <= MaxAttempts
      BY <2>0, <2>2, CountsAssumption DEF TypeOK, OneChance
    <3>7. \A v \in Workers : <<"run", v>> \notin Chances(e)'
      BY <3>3
    <3>8. log'[e].status # "none" /\ log'[e].attempts = run[w].attempts + 1
      BY <1>a
    <3>9. tries' = tries /\ sweep' = sweep
      OBVIOUS
    <3> QED BY <2>2, <3>3, <3>4, <3>5, <3>6, <3>7, <3>8, <3>9 DEF OneChance
  <2> QED BY <2>1, <2>2
<1> QED BY <1>1, <1>2, <1>3, <1>4

\* The end of a job, with its handler's work done or not.
LEMMA JobEndsStep ==
  ASSUME EInv, NEW w \in Workers, run[w].at # "idle", JobEnds(w), upsets' \in Nat
  PROVE  EInv'
<1> USE DEF EInv, JobEnds
<1>0. /\ run[w].event \in Events /\ run[w].kind \in Kinds
      /\ \A f \in Events, j \in Kinds : job'[f][j] = "queued" => job[f][j] = "queued"
      /\ run'[w].at = "idle"
      /\ \A v \in Workers \ {w} : run'[v] = run[v]
  BY DEF RunInv, TypeOK, NoRun
<1>1. TypeOK'
  BY <1>0 DEF TypeOK, NoRun, Kinds
<1>2. ReqInv' /\ RunInv' /\ PassInv'
  BY <1>0 DEF ReqInv, RunInv, PassInv
<1>3. AckedIsLogged' /\ SuccessMeansBooked' /\ ErrorIsScheduled' /\ NothingSlipsTheWindow'
  BY DEF AckedIsLogged, SuccessMeansBooked, ErrorIsScheduled, NothingSlipsTheWindow
<1>4. ChanceInv'
  <2> SUFFICES ASSUME NEW f \in Events, presses' = 0 PROVE OneChance(f)'
    BY DEF ChanceInv
  <2>0. OneChance(f)
    BY DEF ChanceInv
  <2>1. Chances(f)' \subseteq Chances(f)
    BY <1>0 DEF Chances, Failed
  <2>2. \A v \in Workers : run'[v] = run[v] \/ <<"run", v>> \notin Chances(f)'
    BY <1>0 DEF Chances
  <2> QED BY <2>0, <2>1, <2>2, FewerChances DEF OneChance, Failed
<1> QED BY <1>1, <1>2, <1>3, <1>4


\* The end of a backoff.
LEMMA BecomeDueStep ==
  ASSUME EInv, NEW e \in Events, BecomeDue(e)
  PROVE  EInv'
<1> USE DEF EInv, BecomeDue
<1>0. /\ log' \in [Events -> LogRow]
      /\ \A f \in Events : /\ log'[f].status = log[f].status /\ log'[f].attempts = log[f].attempts
                           /\ log'[f].next = "none" <=> log[f].next = "none"
  <2>1. \A r \in LogRow : /\ [r EXCEPT !.next = "due"] \in LogRow
                          /\ [r EXCEPT !.next = "due"].status = r.status
                          /\ [r EXCEPT !.next = "due"].attempts = r.attempts
                          /\ [r EXCEPT !.next = "due"].next = "due"
    BY DEF LogRow
  <2>2. log \in [Events -> LogRow] /\ log' = [log EXCEPT ![e] = [log[e] EXCEPT !.next = "due"]]
        /\ log[e].next # "none"
    BY DEF TypeOK
  <2> HIDE DEF LogRow, EInv, BecomeDue
  <2> QED BY <2>1, <2>2
<1>1. TypeOK'
  BY <1>0 DEF TypeOK
<1>2. ReqInv' /\ RunInv' /\ PassInv'
  BY <1>0, Replaying DEF ReqInv, RunInv, PassInv, Events, TypeOK
<1>3. AckedIsLogged' /\ SuccessMeansBooked' /\ ErrorIsScheduled' /\ NothingSlipsTheWindow'
  BY <1>0, Replaying DEF AckedIsLogged, SuccessMeansBooked, ErrorIsScheduled, NothingSlipsTheWindow, TypeOK, Events
<1>4. ChanceInv'
  <2> SUFFICES ASSUME NEW f \in Events, presses' = 0 PROVE OneChance(f)'
    BY DEF ChanceInv
  <2>1. Failed(f)' <=> Failed(f)
    BY <1>0 DEF Failed
  <2>2. Chances(f)' = Chances(f)
    BY <2>1 DEF Chances
  <2> QED BY <1>0, <2>1, <2>2 DEF ChanceInv, OneChance
<1> QED BY <1>1, <1>2, <1>3, <1>4

\* The sweep lists failed events only.
LEMMA ListsStep ==
  ASSUME EInv, NEW E \in SUBSET Due, retry_failed_events_lists(E)
  PROVE  EInv'
<1> USE DEF EInv, retry_failed_events_lists
<1>1. TypeOK'
  BY DEF TypeOK, Due
<1>2. ReqInv' /\ RunInv' /\ PassInv'
  BY DEF ReqInv, RunInv, PassInv
<1>3. AckedIsLogged' /\ SuccessMeansBooked' /\ ErrorIsScheduled' /\ NothingSlipsTheWindow'
  BY DEF AckedIsLogged, SuccessMeansBooked, ErrorIsScheduled, NothingSlipsTheWindow
<1>4. ChanceInv'
  BY DEF ChanceInv, OneChance, Chances, Failed, Due
<1> QED BY <1>1, <1>2, <1>3, <1>4

\* The sweep turns what it listed from failed into queued.
LEMMA retry_failed_eventsStep ==
  ASSUME EInv, retry_failed_events
  PROVE  EInv'
<1> USE DEF EInv, retry_failed_events
<1>0. /\ log' \in [Events -> LogRow]
      /\ \A f \in sweep : log'[f].status = "Queued" /\ log'[f].attempts = log[f].attempts
      /\ \A f \in Events \ sweep : log'[f] = log[f]
  <2>1. \A r \in LogRow : /\ [r EXCEPT !.status = "Queued", !.next = "none"] \in LogRow
                          /\ [r EXCEPT !.status = "Queued", !.next = "none"].status = "Queued"
                          /\ [r EXCEPT !.status = "Queued", !.next = "none"].attempts = r.attempts
    BY DEF LogRow
  <2>2. /\ log \in [Events -> LogRow] /\ sweep \subseteq Events
        /\ log' = [e \in Events |-> IF e \in sweep
                     THEN [log[e] EXCEPT !.status = "Queued", !.next = "none"] ELSE log[e]]
    BY DEF TypeOK
  <2> HIDE DEF LogRow, EInv, retry_failed_events
  <2> QED BY <2>1, <2>2
<1> "retry" \in Kinds
  BY DEF Kinds
<1>a. \A f \in Events, k \in Kinds :
        job'[f][k] = IF f \in sweep /\ k = "retry" /\ job[f]["retry"] = "none"
                     THEN "queued" ELSE job[f][k]
  <2>1. TypeOK /\ job' = Enqueued(sweep, "retry")
    OBVIOUS
  <2> HIDE DEF EInv, retry_failed_events
  <2> QED BY <2>1, Enqueueing
<1>1. TypeOK'
  BY <1>0, Enqueueing DEF TypeOK
<1>2. ReqInv' /\ RunInv' /\ PassInv'
  BY <1>0, Replaying DEF ReqInv, RunInv, PassInv, Events, TypeOK
<1>3. AckedIsLogged' /\ SuccessMeansBooked' /\ ErrorIsScheduled' /\ NothingSlipsTheWindow'
  BY <1>0, Replaying DEF AckedIsLogged, SuccessMeansBooked, ErrorIsScheduled, NothingSlipsTheWindow, TypeOK, Events
<1>4. ChanceInv'
  <2> SUFFICES ASSUME NEW f \in Events, presses' = 0 PROVE OneChance(f)'
    BY DEF ChanceInv
  <2>0. OneChance(f)
    BY DEF ChanceInv
  <2>1. CASE f \notin sweep
    <3>1. \A k \in Kinds : job'[f][k] = job[f][k]
      BY <2>1, <1>a
    <3>2. Chances(f)' \subseteq Chances(f)
      BY <2>1, <1>0, <3>1 DEF Chances, Failed
    <3> QED BY <2>0, <2>1, <1>0, <3>2, FewerChances
  <2>2. CASE f \in sweep
    <3>1. <<"sweep", f>> \in Chances(f)
      BY <2>0, <2>2 DEF OneChance, Chances
    <3>2. Chances(f) \subseteq {<<"sweep", f>>}
      BY <2>0, <3>1 DEF OneChance
    <3>3. /\ \A p \in Requests : ~(req[p].at = "logged" /\ req[p].event = f)
          /\ \A o \in recon.unsent : ReplayOf(o) # f
          /\ \A k \in Kinds : job[f][k] # "queued"
          /\ \A w \in Workers : ~(run[w].at \in {"running", "committed"} /\ run[w].event = f)
      <4>1. /\ \A p : <<"sweep", f>> # <<"request", p>> /\ <<"sweep", f>> # <<"replay", p>>
            /\ \A p : <<"sweep", f>> # <<"job", p>> /\ <<"sweep", f>> # <<"run", p>>
        OBVIOUS
      <4> HIDE DEF EInv, retry_failed_events
      <4>2. /\ \A p \in Requests : req[p].at = "logged" /\ req[p].event = f => <<"sweep", f>> = <<"request", p>>
            /\ \A o \in recon.unsent : ReplayOf(o) = f => <<"sweep", f>> = <<"replay", o>>
            /\ \A k \in Kinds : job[f][k] = "queued" => <<"sweep", f>> = <<"job", k>>
            /\ \A w \in Workers : run[w].at \in {"running", "committed"} /\ run[w].event = f
                                   => <<"sweep", f>> = <<"run", w>>
        BY <3>2, OnlyChance
      <4> QED BY <4>1, <4>2
    <3>4. Chances(f)' \subseteq {<<"job", "retry">>}
      <4>1. \A k \in Kinds : job'[f][k] = "queued" => k = "retry"
        BY <3>3, <1>a
      <4>2. req' = req /\ recon' = recon /\ run' = run /\ ~Failed(f)'
        BY <1>0, <2>2 DEF Failed
      <4> QED BY <3>3, <4>1, <4>2, BecomesOnlyChance
    <3>5. /\ log'[f].attempts = log[f].attempts /\ tries'[f] = tries[f] /\ sweep' = {}
          /\ log'[f].status # "none" /\ presses' = presses
      BY <1>0, <2>2
    <3>6. \A w \in Workers : <<"sweep", f>> # <<"run", w>> /\ <<"job", "retry">> # <<"run", w>>
      OBVIOUS
    <3> QED BY <3>1, <3>4, <3>5, <3>6, OtherChance
  <2> QED BY <2>1, <2>2
<1> QED BY <1>1, <1>2, <1>3, <1>4

\* An operator's Retry: from here on the number of tries is the operator's business.
LEMMA retryStep ==
  ASSUME EInv, NEW e \in Events, retry(e)
  PROVE  EInv'
<1> USE DEF EInv, retry
<1>0. /\ log' \in [Events -> LogRow]
      /\ \A f \in Events : log'[f] = IF f = e THEN Queued ELSE log[f]
      /\ Queued.status = "Queued" /\ presses' = presses + 1 /\ presses \in Nat
  BY RowTypes DEF TypeOK, Queued
<1> "retry" \in Kinds
  BY DEF Kinds
<1>1. TypeOK'
  BY <1>0, Enqueueing DEF TypeOK
<1>2. ReqInv' /\ RunInv' /\ PassInv'
  BY <1>0, Replaying DEF ReqInv, RunInv, PassInv, Events, TypeOK
<1>3. AckedIsLogged' /\ SuccessMeansBooked' /\ ErrorIsScheduled' /\ NothingSlipsTheWindow'
  BY <1>0, Replaying DEF AckedIsLogged, SuccessMeansBooked, ErrorIsScheduled, NothingSlipsTheWindow, TypeOK, Events
<1>4. ChanceInv'
  BY <1>0 DEF ChanceInv
<1> QED BY <1>1, <1>2, <1>3, <1>4


\* A pass begins with the orders placed since the last complete one.
LEMMA reconcile_storeStep ==
  ASSUME EInv, reconcile_store
  PROVE  EInv'
<1> USE DEF EInv, reconcile_store
<1>1. TypeOK'
  BY DEF TypeOK
<1>2. ReqInv' /\ RunInv' /\ PassInv'
  BY DEF ReqInv, RunInv, PassInv, TypeOK
<1>3. AckedIsLogged' /\ SuccessMeansBooked' /\ ErrorIsScheduled' /\ NothingSlipsTheWindow'
  BY DEF AckedIsLogged, SuccessMeansBooked, ErrorIsScheduled, NothingSlipsTheWindow
<1>4. ChanceInv'
  <2> SUFFICES ASSUME NEW f \in Events, presses' = 0 PROVE OneChance(f)'
    BY DEF ChanceInv
  <2>1. Chances(f)' \subseteq Chances(f)
    BY DEF Chances, Failed
  <2>2. OneChance(f)
    BY DEF ChanceInv
  <2> QED BY <2>1, <2>2, FewerChances DEF OneChance, Failed
<1> QED BY <1>1, <1>2, <1>3, <1>4

\* The jobs of the replays not yet sent go out, or are lost with the pass.
LEMMA SentChances ==
  ASSUME EInv, NEW f \in Events, presses' = presses,
         /\ req' = req /\ run' = run /\ sweep' = sweep /\ tries' = tries,
         log'[f] = log[f],
         \A k \in Kinds : job'[f][k] = "queued" =>
            job[f][k] = "queued" \/ (k = "replay" /\ f \in Unsent),
         \A o \in recon'.unsent : ReplayOf(o) = f => FALSE
  PROVE  presses' = 0 => OneChance(f)'
<1> SUFFICES ASSUME presses' = 0 PROVE OneChance(f)'
  OBVIOUS
<1>0. OneChance(f)
  BY DEF EInv, ChanceInv
<1>1. CASE f \notin Unsent
  <2>1. Chances(f)' \subseteq Chances(f)
    BY <1>1 DEF Chances, Failed
  <2> QED BY <1>0, <2>1, FewerChances DEF OneChance, Failed
<1>2. CASE f \in Unsent
  <2> PICK o \in recon.unsent : ReplayOf(o) = f
    BY <1>2 DEF Unsent
  <2>1. <<"replay", o>> \in Chances(f)
    BY DEF Chances
  <2>2. Chances(f) \subseteq {<<"replay", o>>}
    BY <1>0, <2>1 DEF OneChance
  <2>3. /\ \A p \in Requests : ~(req[p].at = "logged" /\ req[p].event = f)
        /\ \A k \in Kinds : job[f][k] # "queued"
        /\ \A w \in Workers : ~(run[w].at \in {"running", "committed"} /\ run[w].event = f)
        /\ ~Failed(f)
    <3>1. /\ \A p : <<"replay", o>> # <<"request", p>> /\ <<"replay", o>> # <<"sweep", p>>
          /\ \A p : <<"replay", o>> # <<"job", p>> /\ <<"replay", o>> # <<"run", p>>
      OBVIOUS
    <3>2. /\ \A p \in Requests : req[p].at = "logged" /\ req[p].event = f => <<"replay", o>> = <<"request", p>>
          /\ \A k \in Kinds : job[f][k] = "queued" => <<"replay", o>> = <<"job", k>>
          /\ \A w \in Workers : run[w].at \in {"running", "committed"} /\ run[w].event = f
                                 => <<"replay", o>> = <<"run", w>>
          /\ Failed(f) => <<"replay", o>> = <<"sweep", f>>
      BY <2>2, OnlyChance
    <3> QED BY <3>1, <3>2
  <2>4. Chances(f)' \subseteq {<<"job", "replay">>}
    <3>1. \A k \in Kinds : job'[f][k] = "queued" => k = "replay"
      BY <2>3
    <3>2. ~Failed(f)'
      BY <2>3 DEF Failed
    <3> QED BY <2>3, <3>1, <3>2, BecomesOnlyChance
  <2>5. f \notin sweep
    BY <1>0, <2>3 DEF OneChance
  <2>6. \A w \in Workers : <<"replay", o>> # <<"run", w>> /\ <<"job", "replay">> # <<"run", w>>
    OBVIOUS
  <2> QED BY <2>1, <2>4, <2>5, <2>6, OtherChance
<1> QED BY <1>1, <1>2

\* One order of the pass: left alone, or its replay logged with one chance.
LEMMA replay_orderStep ==
  ASSUME EInv, NEW o \in Orders, replay_order(o)
  PROVE  EInv'
<1> USE DEF EInv
<1> DEFINE alone == o \in booked \/ log[ReplayOf(o)].status # "none"
<1>0. /\ o \in recon.todo
      /\ ReplayOf(o) \in Events
      /\ UNCHANGED <<placed, acked, req, run, sweep, fresh, booked, upsets, presses, tries>>
  BY Replaying DEF replay_order, Events
<1>1. CASE alone
  <2>0. UNCHANGED <<log, job>> /\ recon' = [recon EXCEPT !.todo = @ \ {o}]
    BY <1>1 DEF replay_order
  <2>1. TypeOK'
    BY <2>0, <1>0 DEF TypeOK
  <2>2. ReqInv' /\ RunInv' /\ PassInv'
    BY <2>0, <1>0, <1>1 DEF ReqInv, RunInv, PassInv, TypeOK
  <2>3. AckedIsLogged' /\ SuccessMeansBooked' /\ ErrorIsScheduled' /\ NothingSlipsTheWindow'
    BY <2>0, <1>0 DEF AckedIsLogged, SuccessMeansBooked, ErrorIsScheduled, NothingSlipsTheWindow
  <2>4. recon'.unsent = recon.unsent
    BY <2>0 DEF TypeOK
  <2>5. ChanceInv'
    BY <2>0, <1>0, <2>4 DEF ChanceInv, OneChance, Chances, Failed
  <2> QED BY <2>1, <2>2, <2>3, <2>5
<1>2. CASE ~alone
  <2>0. /\ log' = [log EXCEPT ![ReplayOf(o)] = Queued]
        /\ job' = Enqueued(Unsent, "replay")
        /\ recon' = [recon EXCEPT !.todo = @ \ {o}, !.unsent = {o}]
    BY <1>2 DEF replay_order
  <2> "replay" \in Kinds
    BY DEF Kinds
  <2>a. /\ log' \in [Events -> LogRow]
        /\ \A f \in Events : log'[f] = IF f = ReplayOf(o) THEN Queued ELSE log[f]
        /\ Queued.status = "Queued" /\ Queued.attempts = 0
        /\ log[ReplayOf(o)].status = "none"
    BY <2>0, <1>0, <1>2, RowTypes DEF TypeOK, Queued
  <2>b. recon'.unsent = {o} /\ recon'.window = recon.window /\ recon'.todo = recon.todo \ {o}
        /\ recon' \in [on : BOOLEAN, window : SUBSET Orders, todo : SUBSET Orders, unsent : SUBSET Orders]
    BY <2>0 DEF TypeOK
  <2>c. /\ job' \in [Events -> [Kinds -> {"none", "queued", "started"}]]
        /\ \A f \in Events, k \in Kinds :
             job'[f][k] = IF f \in Unsent /\ k = "replay" /\ job[f]["replay"] = "none"
                          THEN "queued" ELSE job[f][k]
    BY <2>0, Enqueueing
  <2>1. TypeOK'
    BY <2>a, <2>b, <2>c, <1>0 DEF TypeOK
  <2>2. ReqInv' /\ RunInv' /\ PassInv'
    <3>1. ReqInv' /\ RunInv'
      BY <2>a, <1>0 DEF ReqInv, RunInv, Events
    <3>2. o \in recon.window /\ recon.window \subseteq placed
      BY <1>0 DEF PassInv, replay_order, TypeOK
    <3>3. PassInv'
      BY <3>2, <2>a, <2>b, <1>0, Replaying DEF PassInv, Events, TypeOK
    <3> QED BY <3>1, <3>3
  <2>3. AckedIsLogged' /\ SuccessMeansBooked' /\ ErrorIsScheduled' /\ NothingSlipsTheWindow'
    BY <2>a, <1>0, Replaying DEF AckedIsLogged, SuccessMeansBooked, ErrorIsScheduled, NothingSlipsTheWindow, TypeOK, Events
  <2>4. ChanceInv'
    <3> SUFFICES ASSUME NEW f \in Events, presses' = 0 PROVE OneChance(f)'
      BY DEF ChanceInv
    <3>0. OneChance(f)
      BY <1>0 DEF ChanceInv
    <3>1. CASE f # ReplayOf(o)
      BY <3>1, <2>a, <2>b, <2>c, <1>0, SentChances
    <3>2. CASE f = ReplayOf(o)
      <4>1. Chances(f) = {} /\ tries[f] = 0
        BY <3>0, <3>2, <2>a DEF OneChance
      <4>2. /\ \A p \in Requests : ~(req[p].at = "logged" /\ req[p].event = f)
            /\ \A p \in recon.unsent : ReplayOf(p) # f
            /\ \A k \in Kinds : job[f][k] # "queued"
            /\ \A w \in Workers : ~(run[w].at \in {"running", "committed"} /\ run[w].event = f)
            /\ ~Failed(f)
        BY <4>1, NoChances
      <4>3. f \notin Unsent
        BY <4>2 DEF Unsent
      <4>4. Chances(f)' \subseteq {<<"replay", o>>}
        <5>1. \A k \in Kinds : job'[f][k] # "queued"
          BY <4>2, <4>3, <2>c
        <5>2. ~Failed(f)'
          BY <3>2, <2>a DEF Failed
        <5>3. req' = req /\ run' = run
          BY <1>0
        <5> QED BY <4>2, <5>1, <5>2, <5>3, <2>b, BecomesOnlyChance
      <4>5. f \notin sweep
        BY <3>0, <4>2 DEF OneChance
      <4>6. \A w \in Workers : <<"run", w>> \notin Chances(f)'
        BY <4>4
      <4>7. log'[f].attempts = 0 /\ log'[f].status # "none" /\ tries'[f] = 0 /\ sweep' = sweep
        BY <3>2, <2>a, <4>1, <1>0
      <4> QED BY <4>4, <4>5, <4>6, <4>7, CountsAssumption DEF OneChance
    <3> QED BY <3>1, <3>2
  <2> QED BY <2>1, <2>2, <2>3, <2>4
<1> QED BY <1>1, <1>2


\* The pass ends: all of its window has been looked at.
LEMMA ReconcileEndsStep ==
  ASSUME EInv, ReconcileEnds
  PROVE  EInv'
<1> USE DEF EInv
<1>0. /\ recon.on /\ recon.todo = {} /\ fresh' = fresh \ recon.window /\ recon' = NoPass
      /\ job' = Enqueued(Unsent, "replay")
      /\ UNCHANGED <<placed, acked, req, log, run, sweep, booked, upsets, presses, tries>>
  BY DEF ReconcileEnds
<1> "replay" \in Kinds
  BY DEF Kinds
<1>1. TypeOK'
  BY <1>0, Enqueueing DEF TypeOK, NoPass
<1>2. ReqInv' /\ RunInv' /\ PassInv'
  BY <1>0 DEF ReqInv, RunInv, PassInv, NoPass
<1>3. AckedIsLogged' /\ SuccessMeansBooked' /\ ErrorIsScheduled' /\ NothingSlipsTheWindow'
  BY <1>0 DEF AckedIsLogged, SuccessMeansBooked, ErrorIsScheduled, NothingSlipsTheWindow, PassInv
<1>4. ChanceInv'
  <2>1. \A f \in Events, k \in Kinds : job'[f][k] = "queued" =>
           job[f][k] = "queued" \/ (k = "replay" /\ f \in Unsent)
    BY <1>0, Enqueueing
  <2>2. recon'.unsent = {}
    BY <1>0 DEF NoPass
  <2> QED BY <1>0, <2>1, <2>2, SentChances DEF ChanceInv
<1> QED BY <1>1, <1>2, <1>3, <1>4

\* A pass that breaks off leaves its window to the next one.
LEMMA ReconcileFailsStep ==
  ASSUME EInv, NEW sent \in BOOLEAN, ReconcileFails(sent)
  PROVE  EInv'
<1> USE DEF EInv
<1>0. /\ recon' = NoPass /\ upsets' = upsets + 1
      /\ job' = Enqueued(Unsent, "replay") \/ job' = job
      /\ UNCHANGED <<placed, acked, req, log, run, sweep, fresh, booked, presses, tries>>
  BY DEF ReconcileFails, Upset
<1> "replay" \in Kinds
  BY DEF Kinds
<1>1. TypeOK'
  BY <1>0, Enqueueing DEF TypeOK, NoPass
<1>2. ReqInv' /\ RunInv' /\ PassInv'
  BY <1>0 DEF ReqInv, RunInv, PassInv, NoPass
<1>3. AckedIsLogged' /\ SuccessMeansBooked' /\ ErrorIsScheduled' /\ NothingSlipsTheWindow'
  BY <1>0 DEF AckedIsLogged, SuccessMeansBooked, ErrorIsScheduled, NothingSlipsTheWindow
<1>4. ChanceInv'
  <2>1. \A f \in Events, k \in Kinds : job'[f][k] = "queued" =>
           job[f][k] = "queued" \/ (k = "replay" /\ f \in Unsent)
    BY <1>0, Enqueueing
  <2>2. recon'.unsent = {}
    BY <1>0 DEF NoPass
  <2> QED BY <1>0, <2>1, <2>2, SentChances DEF ChanceInv
<1> QED BY <1>1, <1>2, <1>3, <1>4

\* Every step of the log keeps the invariant.
LEMMA NextEInv == EInv /\ [Next]_vars => EInv'
<1> SUFFICES ASSUME EInv, [Next]_vars PROVE EInv'
  OBVIOUS
<1>1. CASE UNCHANGED vars
  BY <1>1 DEF vars, EInv, TypeOK, ReqInv, RunInv, PassInv, ChanceInv, OneChance, Chances, Failed,
     AckedIsLogged, SuccessMeansBooked, ErrorIsScheduled, NothingSlipsTheWindow
<1>2. ASSUME NEW o \in Orders, PlaceOrder(o) PROVE EInv'
  BY <1>2, PlaceOrderStep
<1>3. ASSUME NEW q \in Requests,
             (\E e \in Webhooks : webhook(q, e)) \/ Receiving(q) \/ RequestDies(q)
      PROVE EInv'
  BY <1>3, webhookStep, log_eventStep, respondStep, RequestDiesStep DEF Receiving
<1>4. ASSUME NEW w \in Workers, TakesJob(w) PROVE EInv'
  BY <1>4, run_handlerStep DEF TakesJob
<1>5. ASSUME NEW w \in Workers, Working(w) PROVE EInv'
  <2>1. upsets \in Nat
    BY DEF EInv, TypeOK
  <2>2. CASE WorkerReturns(w)
    BY <2>1, <2>2, JobEndsStep DEF WorkerReturns
  <2> QED BY <1>5, <2>2, HandlerCommitsStep, mark_successStep, mark_errorStep DEF Working
<1>6. ASSUME NEW w \in Workers, WorkerDies(w) PROVE EInv'
  <2>1. upsets' \in Nat
    BY <1>6 DEF EInv, TypeOK, WorkerDies, Upset
  <2> QED BY <1>6, <2>1, JobEndsStep DEF WorkerDies
<1>7. ASSUME NEW e \in Events, BecomeDue(e) \/ retry(e) PROVE EInv'
  BY <1>7, BecomeDueStep, retryStep
<1>8. CASE Sweeping
  BY <1>8, retry_failed_eventsStep, ListsStep DEF Sweeping
<1>9. CASE Reconciling
  BY <1>9, reconcile_storeStep, ReconcileEndsStep, replay_orderStep DEF Reconciling
<1>10. ASSUME NEW sent \in BOOLEAN, ReconcileFails(sent) PROVE EInv'
  BY <1>10, ReconcileFailsStep
<1> QED BY <1>1, <1>2, <1>3, <1>4, <1>5, <1>6, <1>7, <1>8, <1>9, <1>10 DEF Next

\* The strengthened invariant: requests, handlers, the pass and each event's one
\* chance fit together, for any number of them.
THEOREM LogInvariant == Spec => []EInv
<1>1. Init => EInv
  BY InitEInv
<1>2. EInv /\ [Next]_vars => EInv'
  BY NextEInv
<1> QED BY <1>1, <1>2, PTL DEF Spec

\* An event is in the log by the time Shopify is told so and stops sending it.
THEOREM AnsweredIsLogged == Spec => []AckedIsLogged
<1>1. EInv => AckedIsLogged
  BY DEF EInv
<1> QED BY <1>1, LogInvariant, PTL

\* The log claims Success only for an order in the books.
THEOREM SuccessIsTrue == Spec => []SuccessMeansBooked
<1>1. EInv => SuccessMeansBooked
  BY DEF EInv
<1> QED BY <1>1, LogInvariant, PTL

\* A failed event is scheduled again exactly while it has attempts left.
THEOREM FailureIsScheduled == Spec => []ErrorIsScheduled
<1>1. EInv => ErrorIsScheduled
  BY DEF EInv
<1> QED BY <1>1, LogInvariant, PTL

\* No handler runs more than MAX_ATTEMPTS times before a person asks for it.
THEOREM GivesUpInTime == Spec => []TriesBounded
<1>1. EInv => TriesBounded
  BY DEF EInv, ChanceInv, OneChance, TriesBounded
<1> QED BY <1>1, LogInvariant, PTL

\* An order the reconciliation's window has passed is booked or has its replay.
THEOREM WindowMissesNothing == Spec => []NothingSlipsTheWindow
<1>1. EInv => NothingSlipsTheWindow
  BY DEF EInv
<1> QED BY <1>1, LogInvariant, PTL

\* Log rows, requests, queued jobs and runs keep their shapes; attempts are a number
\* that may pass MAX_ATTEMPTS, which is why TriesBounded is a property of its own.
THEOREM LogIsTyped == Spec => []TypeOK
<1>1. EInv => TypeOK
  BY DEF EInv
<1> QED BY <1>1, LogInvariant, PTL
=============================================================================
