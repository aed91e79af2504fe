---------------------------- MODULE EventLogInv ----------------------------
(* The inductive invariant of EventLog: what its steps need of each other. *)
EXTENDS EventLog

\* A request that is served or a handler that runs has an event; one that got
\* past its log row left the row behind.
ReqInv == \A q \in Requests : req[q].at # "idle" =>
    /\ req[q].event \in Webhooks
    /\ req[q].at = "logged" => log[req[q].event].status # "none"

RunInv == \A w \in Workers : run[w].at # "idle" =>
    /\ run[w].event \in Events
    /\ run[w].at = "committed" => OrderOf[run[w].event] \in booked \cup Gone

\* What the pass has looked at is in the books or in the log.
PassInv ==
    /\ recon.todo \cup recon.unsent \subseteq recon.window /\ recon.window \subseteq placed
    /\ \A o \in recon.window \ recon.todo : o \in booked \/ log[ReplayOf(o)].status # "none"
    /\ \A o \in recon.unsent : log[ReplayOf(o)].status # "none"

Failed(e) == log[e].status = "Error" /\ log[e].next # "none"

\* What may still start the handler of e, or has it running.
Chances(e) ==
    {<<"request", q>> : q \in {p \in Requests : req[p].at = "logged" /\ req[p].event = e}}
    \cup {<<"replay", o>> : o \in {p \in recon.unsent : ReplayOf(p) = e}}
    \cup {<<"job", k>> : k \in {j \in Kinds : job[e][j] = "queued"}}
    \cup {<<"run", w>> : w \in {v \in Workers : run[v].at \in {"running", "committed"}
                                                  /\ run[v].event = e}}
    \cup {<<"sweep", s>> : s \in {t \in {e} : Failed(t)}}

\* Before a person interferes, an event has one chance at a time, and each chance
\* taken has been counted by the time the next one comes up.
OneChance(e) ==
    /\ \A c, d \in Chances(e) : c = d
    /\ log[e].status = "none" => Chances(e) = {} /\ tries[e] = 0
    /\ Chances(e) # {} => log[e].attempts < MaxAttempts
    /\ \A w \in Workers : <<"run", w>> \in Chances(e) =>
          run[w].attempts = log[e].attempts /\ tries[e] <= log[e].attempts + 1
    /\ (\A w \in Workers : <<"run", w>> \notin Chances(e)) /\ Chances(e) # {} =>
          tries[e] <= log[e].attempts
    /\ e \in sweep => Failed(e)
    /\ tries[e] <= MaxAttempts

ChanceInv == presses = 0 => \A e \in Events : OneChance(e)

EInv ==
    /\ TypeOK
    /\ ReqInv
    /\ RunInv
    /\ PassInv
    /\ ChanceInv
    /\ AckedIsLogged
    /\ SuccessMeansBooked
    /\ ErrorIsScheduled
    /\ NothingSlipsTheWindow
=============================================================================
