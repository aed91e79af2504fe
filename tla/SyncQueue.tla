----------------------------- MODULE SyncQueue -----------------------------
(***************************************************************************)
(* The outbound queue of sync/engine.py: saves enqueue rows inside their   *)
(* own transaction, workers drain one batch of one shop at a time, and     *)
(* three safety nets (the janitor, the scheduler, the operator) bring back *)
(* what was dropped.                                                       *)
(*                                                                         *)
(* The database is MariaDB at REPEATABLE READ, seen from the code: plain   *)
(* reads come from the snapshot a transaction opened at its first read,    *)
(* writes meet the committed rows and wait for uncommitted ones.  The      *)
(* unique index on pending_dedupe_key is the field slot.                   *)
(***************************************************************************)
EXTENDS Naturals, FiniteSets

CONSTANTS
    Stores, Keys, Ops,
    StoreOf,        \* [Keys -> Stores]
    OpOf,           \* [Keys -> Ops], the operation is part of the dedupe key
    Priorities,     \* [Ops -> SUBSET Nat], what callers of enqueue_sync pass
    PerRow,         \* operations whose handler reports row by row
    Commits,        \* operations whose handler commits on the way
    Rows,           \* the pool of queue rows
    Workers, Savers,
    Batch,          \* DEFAULT_BATCH_SIZE
    MaxAttempts,    \* MAX_ATTEMPTS
    StaleAge,       \* STALE_RUNNING_MINUTES, in ticks
    JobAge,         \* how long a job of the short queue lives, in ticks
    MaxVersion,     \* bound: [Keys -> Nat], changes of each key
    MaxUpsets,      \* bound: killed workers, lost jobs, sweeps, operator's retries
    MaxFollow,      \* bound: follow-on jobs waiting per store
    NoKey, NoOp, Nobody

ASSUME StoresAssumption == Stores # {} /\ StoreOf \in [Keys -> Stores]
ASSUME OpsAssumption == OpOf \in [Keys -> Ops] /\ PerRow \subseteq Ops /\ Commits \subseteq Ops
ASSUME PrioritiesAssumption == Priorities \in [Ops -> SUBSET Nat]
ASSUME NullsAssumption == NoKey \notin Keys /\ NoOp \notin Ops /\ Nobody \notin Workers
ASSUME BatchAssumption == Batch \in Nat \ {0}
ASSUME AttemptsAssumption == MaxAttempts \in Nat \ {0}
\* A worker kills a job of the short queue at 300 s, a minute's grace included
\* 360 s; the janitor waits for 15 minutes.
ASSUME AgeAssumption == StaleAge \in Nat /\ JobAge \in Nat /\ JobAge < StaleAge
ASSUME BoundsAssumption == MaxVersion \in [Keys -> Nat] /\ MaxUpsets \in Nat /\ MaxFollow \in Nat

VARIABLES
    src,      \* version of each key committed in ERPNext
    shop,     \* version of each key the shop shows
    row,      \* the committed queue table
    tx,       \* each save's open transaction
    pc, serves, batch, left, op, snap, held, out,   \* each worker's drain
    lock,     \* the drain's file lock, per store
    plain,    \* the deduplicated drain job of a store
    follow,   \* follow-on drain jobs of a store
    jan,      \* the janitor's pass
    upsets    \* how many of these have happened

work == <<pc, serves, batch, left, op, snap, held, out>>
jobs == <<plain, follow>>
vars == <<src, shop, row, tx, work, lock, jobs, jan, upsets>>

-----------------------------------------------------------------------------
(* Rows *)

States == {"Pending", "Running", "Done", "Failed", "Superseded"}

Row == [key : Keys \cup {NoKey}, slot : Keys \cup {NoKey}, state : States,
        prio : Nat, attempts : Nat, due : BOOLEAN, age : Nat, asked : Nat]

\* Nothing reads a Done row again, so it also stands for one not yet written.
DoneRow == [key |-> NoKey, slot |-> NoKey, state |-> "Done", prio |-> 0,
            attempts |-> 0, due |-> FALSE, age |-> 0, asked |-> 0]

\* sync_pending_dedupe_key: the slot mirrors the key while the row is Pending.
Pending(k, p, n, d) == [key |-> k, slot |-> k, state |-> "Pending", prio |-> p,
                        attempts |-> n, due |-> d, age |-> 0, asked |-> 0]

\* Variant: a claim that forgets to clear pending_dedupe_key.
ClaimedKeepingSlot(r) == [row[r] EXCEPT !.state = "Running", !.due = FALSE,
                                        !.age = 0, !.asked = src[row[r].key]]

\* asked records the committed version at the claim; the code has no such column.
Claimed(r) == [row[r] EXCEPT !.slot = NoKey, !.state = "Running", !.due = FALSE,
                             !.age = 0, !.asked = src[row[r].key]]

Parked(r) == [row[r] EXCEPT !.slot = NoKey, !.state = "Failed", !.age = 0]

Slots == {row[r].slot : r \in Rows} \ {NoKey}

Requeued(w, r) == r \in batch[w] /\ out[w][r] = "requeued"

\* Uncommitted writes of a slot: an index lock that other writers wait for.
Inserting(k) == \E t \in Savers : tx[t].key = k /\ tx[t].fate = "inserted"
Requeueing(k) == \E w \in Workers, r \in Rows : Requeued(w, r) /\ row[r].key = k
Locked(k) == Inserting(k) \/ Requeueing(k)

DueRows(s) == {r \in Rows : row[r].state = "Pending" /\ row[r].due
                              /\ StoreOf[row[r].key] = s}

has_pending(s) == DueRows(s) # {}

-----------------------------------------------------------------------------
(* Jobs.  A plain request is refused while its id is queued or started. *)

schedule_drain(s) == plain' = [plain EXCEPT ![s] = IF @ = "none" THEN "queued" ELSE @]

JobEnds(s) == plain' = [plain EXCEPT ![s] = IF @ = "started" THEN "none" ELSE @]

-----------------------------------------------------------------------------
(* Workers *)

\* The drain holds the store's lock / has claimed rows / has its snapshot open.
Claimers == {"read", "push", "settle", "commit"}
Holders == Claimers \cup {"claim", "release"}
Readers == {"push", "settle", "commit"}
PCs == Holders \cup {"idle", "after"}

Outcomes == {"none", "ok", "retry", "fatal", "done", "requeued", "failed"}
Settled == {"done", "requeued", "failed"}

Group(w) == {r \in batch[w] : OpOf[row[r].key] = op[w]}

NoOut == [r \in Rows |-> "none"]

\* Operations drain in the order of their first row in the claim.
NextOps(w, todo) ==
    LET first(o) == {r \in batch[w] : OpOf[row[r].key] = o /\
                        \A q \in batch[w] : OpOf[row[q].key] = o => row[r].prio <= row[q].prio}
    IN  {o \in todo : \A r \in first(o) : \A p \in todo : \A q \in first(p) :
                        row[r].prio <= row[q].prio}

Init ==
    /\ src = [k \in Keys |-> 0]
    /\ shop = [k \in Keys |-> 0]
    /\ row = [r \in Rows |-> DoneRow]
    /\ tx = [t \in Savers |-> [key |-> NoKey, fate |-> "idle", nudge |-> FALSE]]
    /\ pc = [w \in Workers |-> "idle"]
    /\ serves = [w \in Workers |-> CHOOSE s \in Stores : TRUE]
    /\ batch = [w \in Workers |-> {}]
    /\ left = [w \in Workers |-> {}]
    /\ op = [w \in Workers |-> NoOp]
    /\ snap = [w \in Workers |-> [k \in Keys |-> 0]]
    /\ held = [w \in Workers |-> {}]
    /\ out = [w \in Workers |-> NoOut]
    /\ lock = [s \in Stores |-> Nobody]
    /\ plain = [s \in Stores |-> "none"]
    /\ follow = [s \in Stores |-> 0]
    /\ jan = [on |-> FALSE, stale |-> {}, held |-> {}]
    /\ upsets = 0

-----------------------------------------------------------------------------
(* A save: it changes the key's document and enqueues in one transaction. *)

\* Bounds: versions of a key, and a free row for every insert in flight.
RoomFor(k) ==
    /\ src[k] + Cardinality({t \in Savers : tx[t].key = k}) < MaxVersion[k]
    /\ Cardinality({r \in Rows : row[r].state = "Done"})
         > Cardinality({t \in Savers : tx[t].fate = "inserted"})

\* The insert wins the slot, or meets a Pending row and coalesces into it.  It
\* waits while another transaction holds the slot uncommitted.  Whether to queue
\* a drain is decided here, though the job is only queued after the commit.
enqueue_sync(t, k) ==
    /\ tx[t].fate = "idle"
    /\ RoomFor(k)
    /\ ~Locked(k)
    /\ tx' = [tx EXCEPT ![t] =
                IF k \in Slots
                THEN [key |-> k, fate |-> "coalesced", nudge |-> FALSE]
                ELSE [key |-> k, fate |-> "inserted", nudge |-> plain[StoreOf[k]] = "none"]]
    /\ UNCHANGED <<src, shop, row, work, lock, jobs, jan, upsets>>

EndTx(t) == tx' = [tx EXCEPT ![t] = [key |-> NoKey, fate |-> "idle", nudge |-> FALSE]]

\* The save commits: the change, its row and the drain job become visible.  A
\* sweep or a handler that asks for another operation enqueues without a change.
CommitInsert(t, r, changes, lost) ==
    LET k == tx[t].key
    IN  /\ tx[t].fate = "inserted"
        /\ row[r].state = "Done"
        /\ src' = IF changes THEN [src EXCEPT ![k] = @ + 1] ELSE src
        /\ \E p \in Priorities[OpOf[k]] : row' = [row EXCEPT ![r] = Pending(k, p, 0, TRUE)]
        /\ lost => tx[t].nudge
        /\ lost \/ ~changes => upsets < MaxUpsets
        /\ upsets' = IF lost \/ ~changes THEN upsets + 1 ELSE upsets
        /\ plain' = IF tx[t].nudge /\ ~lost
                    THEN [plain EXCEPT ![StoreOf[k]] = "queued"] ELSE plain
        /\ EndTx(t)
        /\ UNCHANGED <<shop, work, lock, follow, jan>>

CommitCoalesced(t) ==
    /\ tx[t].fate = "coalesced"
    /\ src' = [src EXCEPT ![tx[t].key] = @ + 1]
    /\ EndTx(t)
    /\ UNCHANGED <<shop, row, work, lock, jobs, jan, upsets>>

\* The document fails validation later on: nothing of the save remains.
Rollback(t) ==
    /\ tx[t].fate # "idle"
    /\ EndTx(t)
    /\ UNCHANGED <<src, shop, row, work, lock, jobs, jan, upsets>>

-----------------------------------------------------------------------------
(* A drain job *)

\* Variant: the job drains whether or not another worker holds the store.
drain_store_unlocked(w, s, kind) ==
    /\ pc[w] = "idle"
    /\ kind = "plain"
    /\ pc' = [pc EXCEPT ![w] = "claim"]
    /\ serves' = [serves EXCEPT ![w] = s]
    /\ lock' = [lock EXCEPT ![s] = w]
    /\ UNCHANGED <<src, shop, row, tx, batch, left, op, snap, held, out, jobs, jan, upsets>>

\* A worker takes a job; while another drains this store the job just ends.
drain_store(w, s, kind) ==
    /\ pc[w] = "idle"
    /\ CASE kind = "plain" -> /\ plain[s] = "queued"
                              /\ plain' = [plain EXCEPT ![s] =
                                             IF lock[s] = Nobody THEN "started" ELSE "none"]
                              /\ UNCHANGED follow
         [] kind = "follow" -> /\ follow[s] > 0
                               /\ follow' = [follow EXCEPT ![s] = @ - 1]
                               /\ UNCHANGED plain
    /\ IF lock[s] = Nobody
       THEN /\ pc' = [pc EXCEPT ![w] = "claim"]
            /\ serves' = [serves EXCEPT ![w] = s]
            /\ lock' = [lock EXCEPT ![s] = w]
       ELSE UNCHANGED <<pc, serves, lock>>
    /\ UNCHANGED <<src, shop, row, tx, batch, left, op, snap, held, out, jan, upsets>>

\* The oldest due rows of the lowest priority numbers, as many as fit.
Claimable(w, B) ==
    LET due == DueRows(serves[w])
    IN  /\ B \subseteq due
        /\ Cardinality(B) <= Batch
        /\ Cardinality(B) = Batch \/ B = due
        /\ \A r \in B, q \in due \ B : row[r].prio <= row[q].prio

\* SELECT .. FOR UPDATE, UPDATE, commit.  Freeing a slot waits for the save
\* that coalesced into the row, whose failed insert left a lock on the slot.
claim_rows(w, B) ==
    /\ pc[w] = "claim"
    /\ Claimable(w, B)
    /\ \A r \in B, t \in Savers : tx[t].key # row[r].key
    /\ row' = [r \in Rows |-> IF r \in B THEN Claimed(r) ELSE row[r]]
    /\ batch' = [batch EXCEPT ![w] = B]
    /\ left' = [left EXCEPT ![w] = {OpOf[row[r].key] : r \in B}]
    /\ pc' = [pc EXCEPT ![w] = IF B = {} THEN "release" ELSE "read"]
    /\ UNCHANGED <<src, shop, tx, serves, op, snap, held, out, lock, jobs, jan, upsets>>

\* Variant: handlers read through the snapshot of the transaction before the
\* claim, as if nothing had been committed since the worker's last drain.
OpenStaleSnapshot(w, o) ==
    /\ pc[w] = "read"
    /\ o \in NextOps(w, left[w])
    /\ op' = [op EXCEPT ![w] = o]
    /\ left' = [left EXCEPT ![w] = @ \ {o}]
    /\ snap' = [snap EXCEPT ![w] = shop]
    /\ held' = [held EXCEPT ![w] = Slots]
    /\ pc' = [pc EXCEPT ![w] = "push"]
    /\ UNCHANGED <<src, shop, row, tx, serves, batch, out, lock, jobs, jan, upsets>>

\* The first handler's first read opens the drain's snapshot.
OpenSnapshot(w, o) ==
    /\ pc[w] = "read"
    /\ o \in NextOps(w, left[w])
    /\ op' = [op EXCEPT ![w] = o]
    /\ left' = [left EXCEPT ![w] = @ \ {o}]
    /\ snap' = [snap EXCEPT ![w] = src]
    /\ held' = [held EXCEPT ![w] = Slots]
    /\ pc' = [pc EXCEPT ![w] = "push"]
    /\ UNCHANGED <<src, shop, row, tx, serves, batch, out, lock, jobs, jan, upsets>>

\* What a settled row becomes when the transaction commits.
Outcome(w, r) ==
    CASE out[w][r] = "done" -> DoneRow
      [] out[w][r] = "requeued" -> Pending(row[r].key, row[r].prio, row[r].attempts + 1, FALSE)
      [] out[w][r] = "failed" -> Parked(r)
      [] OTHER -> row[r]

SettledRows(w) == {r \in batch[w] : out[w][r] \in Settled}

\* A handler commits on the way: with its own writes go those of the groups
\* settled before it, and its next read opens a new snapshot.
HandlerCommit(w) ==
    /\ pc[w] \in {"push", "settle"}
    /\ op[w] \in Commits
    /\ row' = [r \in Rows |-> IF r \in SettledRows(w) THEN Outcome(w, r) ELSE row[r]]
    /\ batch' = [batch EXCEPT ![w] = @ \ SettledRows(w)]
    /\ out' = [out EXCEPT ![w] = [r \in Rows |-> IF r \in SettledRows(w) THEN "none" ELSE @[r]]]
    /\ snap' = [snap EXCEPT ![w] = src]
    /\ held' = [held EXCEPT ![w] = {row'[r].slot : r \in Rows} \ {NoKey}]
    /\ UNCHANGED <<src, shop, tx, pc, serves, left, op, lock, jobs, jan, upsets>>

Unpushed(w) == {r \in Group(w) : out[w][r] = "none"}

\* The handler pushes the state it read, the group G at once or row by row.  What
\* it reports of a row may be an error after the shop took the change (a timed-out
\* answer); never the reverse.
Push(w, G, verdict, applied) ==
    /\ pc[w] = "push"
    /\ G \subseteq Unpushed(w)
    /\ IF op[w] \in PerRow THEN Cardinality(G) <= 1
       ELSE G = Unpushed(w) /\ \A r, q \in G : verdict[r] = verdict[q]
    /\ verdict \in [G -> {"ok", "retry", "fatal"}]
    /\ applied \subseteq G
    /\ \A r \in G : verdict[r] = "ok" => r \in applied
    /\ shop' = [k \in Keys |-> IF \E r \in applied : row[r].key = k
                               THEN snap[w][k] ELSE shop[k]]
    /\ out' = [out EXCEPT ![w] = [r \in Rows |-> IF r \in G THEN verdict[r] ELSE @[r]]]
    /\ G = {} => Unpushed(w) = {}
    /\ pc' = [pc EXCEPT ![w] = IF G = Unpushed(w) THEN "settle" ELSE "push"]
    /\ UNCHANGED <<src, row, tx, serves, batch, left, op, snap, held, lock, jobs, jan, upsets>>

-----------------------------------------------------------------------------
(* _succeed, _fail and _handle_error for the rows of the group *)

Spent(r) == row[r].attempts + 1 >= MaxAttempts

\* Rows whose handling ends in writing their key back to the slot, or would.
Retries(w) == {r \in Group(w) : out[w][r] = "retry" /\ ~Spent(r)}

\* _key_taken_by_another asks the drain's own snapshot.
TakenRows(w) == {r \in Retries(w) : row[r].key \in held[w]}

\* Variant: a status that the drain's counts do not know.
VerdictUncounted(w, r) ==
    CASE out[w][r] = "ok" -> "done"
      [] r \in Retries(w) -> "requeued"
      [] OTHER -> "superseded"

\* Variant: a row out of attempts is dropped instead of parked.
VerdictDropping(w, r) == IF r \in Retries(w) THEN "requeued" ELSE "done"

Verdict(w, r) ==
    CASE out[w][r] = "ok" -> "done"
      [] r \in Retries(w) -> "requeued"
      [] OTHER -> "failed"

Settle(w) ==
    /\ pc[w] = "settle"
    /\ TakenRows(w) = {}
    /\ \A r \in Retries(w) : row[r].key \notin Slots /\ ~Inserting(row[r].key)
    /\ out' = [out EXCEPT ![w] = [r \in Rows |-> IF r \in Group(w) THEN Verdict(w, r) ELSE @[r]]]
    /\ IF left[w] = {}
       THEN /\ pc' = [pc EXCEPT ![w] = "commit"]
            /\ UNCHANGED <<left, op>>
       ELSE \E o \in NextOps(w, left[w]) :
              /\ op' = [op EXCEPT ![w] = o]
              /\ left' = [left EXCEPT ![w] = @ \ {o}]
              /\ pc' = [pc EXCEPT ![w] = "push"]
    /\ UNCHANGED <<src, shop, row, tx, serves, batch, snap, held, lock, jobs, jan, upsets>>

\* The transaction is over: its claim, its snapshot and its writes are gone.
CloseTx(w) ==
    /\ batch' = [batch EXCEPT ![w] = {}]
    /\ left' = [left EXCEPT ![w] = {}]
    /\ op' = [op EXCEPT ![w] = NoOp]
    /\ snap' = [snap EXCEPT ![w] = [k \in Keys |-> 0]]
    /\ held' = [held EXCEPT ![w] = {}]
    /\ out' = [out EXCEPT ![w] = NoOut]

\* The drain ends with nothing written: the transaction rolls back, the file
\* lock goes, the claimed rows stay Running and no follow-on is asked for.
Abandon(w) ==
    /\ pc' = [pc EXCEPT ![w] = "idle"]
    /\ CloseTx(w)
    /\ lock' = [s \in Stores |-> IF lock[s] = w THEN Nobody ELSE lock[s]]
    /\ JobEnds(serves[w])
    /\ UNCHANGED <<src, shop, row, tx, serves, follow, jan>>

\* result["superseded"] += 1, and the counts have no such key.
SettleKeyError(w) ==
    /\ pc[w] = "settle"
    /\ TakenRows(w) # {}
    /\ Abandon(w)
    /\ UNCHANGED upsets

\* A row enqueued since the snapshot holds the slot: the UPDATE hits the index.
SettleCollides(w) ==
    /\ pc[w] = "settle"
    /\ \E r \in Retries(w) \ TakenRows(w) : row[r].key \in Slots
    /\ Abandon(w)
    /\ UNCHANGED upsets

Commit(w) ==
    /\ pc[w] = "commit"
    /\ row' = [r \in Rows |-> IF r \in SettledRows(w) THEN Outcome(w, r) ELSE row[r]]
    /\ CloseTx(w)
    /\ pc' = [pc EXCEPT ![w] = "release"]
    /\ UNCHANGED <<src, shop, tx, serves, lock, jobs, jan, upsets>>

Release(w) ==
    /\ pc[w] = "release"
    /\ pc' = [pc EXCEPT ![w] = "after"]
    /\ lock' = [lock EXCEPT ![serves[w]] = Nobody]
    /\ UNCHANGED <<src, shop, row, tx, serves, batch, left, op, snap, held, out, jobs, jan, upsets>>

\* Lock released and batch committed: ask for the next drain if rows are due.
FollowOn(w) ==
    /\ pc[w] = "after"
    /\ pc' = [pc EXCEPT ![w] = "idle"]
    /\ follow' = [follow EXCEPT ![serves[w]] =
                    IF has_pending(serves[w]) /\ @ < MaxFollow THEN @ + 1 ELSE @]
    /\ JobEnds(serves[w])
    /\ UNCHANGED <<src, shop, row, tx, serves, batch, left, op, snap, held, out, lock, jan, upsets>>

\* The worker is killed: deploy, out of memory, the end of the job's time.
Crash(w) ==
    /\ pc[w] # "idle"
    /\ upsets < MaxUpsets
    /\ upsets' = upsets + 1
    /\ Abandon(w)

-----------------------------------------------------------------------------
(* Time *)

\* backoff_seconds has passed for a requeued row.
BecomeDue(r) ==
    /\ row[r].state = "Pending" /\ ~row[r].due
    /\ row' = [row EXCEPT ![r].due = TRUE]
    /\ UNCHANGED <<src, shop, tx, work, lock, jobs, jan, upsets>>

\* modified of a Running row grows old; no drain outlives its job's time.
Tick ==
    /\ \A w \in Workers, r \in Rows : r \in batch[w] => row[r].age < JobAge
    /\ \E r \in Rows : row[r].state = "Running" /\ row[r].age < StaleAge
    /\ row' = [r \in Rows |-> IF row[r].state = "Running" /\ row[r].age < StaleAge
                              THEN [row[r] EXCEPT !.age = @ + 1] ELSE row[r]]
    /\ UNCHANGED <<src, shop, tx, work, lock, jobs, jan, upsets>>

-----------------------------------------------------------------------------
(* The safety nets *)

StaleRows == {r \in Rows : row[r].state = "Running" /\ row[r].age = StaleAge}

JanitorOff == [on |-> FALSE, stale |-> {}, held |-> {}]

\* recover_stale_running lists the orphans; the pass reads from this snapshot.
JanitorLists ==
    /\ ~jan.on
    /\ StaleRows # {}
    /\ jan' = [on |-> TRUE, stale |-> StaleRows, held |-> Slots]
    /\ UNCHANGED <<src, shop, row, tx, work, lock, jobs, upsets>>

\* Variant: no orphan ever comes back, each is retired.
retire_stale_running(R) ==
    /\ jan.on
    /\ R = {}
    /\ row' = [r \in Rows |-> IF r \in jan.stale THEN DoneRow ELSE row[r]]
    /\ jan' = JanitorOff
    /\ UNCHANGED <<src, shop, tx, work, lock, jobs, upsets>>

\* One row per key comes back to Pending; where a newer row is queued, or an
\* earlier orphan of the key came back, the row is retired as Done.
recover_stale_running(R) ==
    /\ jan.on
    /\ R \subseteq {r \in jan.stale : row[r].key \notin jan.held}
    /\ \A r \in jan.stale : row[r].key \notin jan.held =>
         \E q \in R : row[q].key = row[r].key
    /\ \A r, q \in R : row[r].key = row[q].key => r = q
    /\ \A r \in R : row[r].key \notin Slots /\ ~Locked(row[r].key)
    /\ row' = [r \in Rows |->
                 CASE r \in R -> Pending(row[r].key, row[r].prio, row[r].attempts, TRUE)
                   [] r \in jan.stale \ R -> DoneRow
                   [] OTHER -> row[r]]
    /\ jan' = JanitorOff
    /\ UNCHANGED <<src, shop, tx, work, lock, jobs, upsets>>

\* A row enqueued since the listing holds the slot: the save fails, and with it
\* the whole pass.
JanitorCollides ==
    /\ jan.on
    /\ \E r \in jan.stale : row[r].key \notin jan.held /\ row[r].key \in Slots
    /\ jan' = JanitorOff
    /\ UNCHANGED <<src, shop, row, tx, work, lock, jobs, upsets>>

drain_all_stores(s) ==
    /\ has_pending(s)
    /\ plain[s] = "none"
    /\ schedule_drain(s)
    /\ UNCHANGED <<src, shop, row, tx, work, lock, follow, jan, upsets>>

\* An operator puts a parked row back, unless newer work is already queued.
requeue(r) ==
    /\ row[r].state \in {"Failed", "Superseded"}
    /\ upsets < MaxUpsets
    /\ upsets' = upsets + 1
    /\ ~Locked(row[r].key)
    /\ IF row[r].key \in Slots
       THEN /\ row' = [row EXCEPT ![r].state = "Superseded"]
            /\ UNCHANGED plain
       ELSE /\ row' = [row EXCEPT ![r] = Pending(row[r].key, row[r].prio, 0, TRUE)]
            /\ schedule_drain(StoreOf[row[r].key])
    /\ UNCHANGED <<src, shop, tx, work, lock, follow, jan>>

-----------------------------------------------------------------------------
Saving(t) ==
    \/ \E k \in Keys : enqueue_sync(t, k)
    \/ \E r \in Rows, changes, lost \in BOOLEAN : CommitInsert(t, r, changes, lost)
    \/ CommitCoalesced(t)
    \/ Rollback(t)

Draining(w) ==
    \/ \E B \in SUBSET Rows : claim_rows(w, B)
    \/ \E o \in Ops : OpenSnapshot(w, o)
    \/ \E G \in SUBSET Group(w) :
          \E verdict \in [G -> {"ok", "retry", "fatal"}], applied \in SUBSET G :
             Push(w, G, verdict, applied)
    \/ Settle(w)
    \/ SettleKeyError(w)
    \/ SettleCollides(w)
    \/ Commit(w)
    \/ Release(w)
    \/ FollowOn(w)

Janitor ==
    \/ JanitorLists
    \/ \E R \in SUBSET Rows : recover_stale_running(R)
    \/ JanitorCollides

TakesJob(w) == \E s \in Stores, kind \in {"plain", "follow"} : drain_store(w, s, kind)

Next ==
    \/ \E t \in Savers : Saving(t)
    \/ \E w \in Workers : TakesJob(w) \/ Draining(w) \/ HandlerCommit(w) \/ Crash(w)
    \/ \E r \in Rows : BecomeDue(r) \/ requeue(r)
    \/ Tick
    \/ Janitor
    \/ \E s \in Stores : drain_all_stores(s)

\* Workers, the scheduler and the janitor keep running, time passes, and a
\* request that opened a transaction ends it.  Drains and the janitor get strong
\* fairness: what they wait for is a row lock, and InnoDB serves lock requests in
\* the order they came.
Fairness ==
    /\ \A w \in Workers : SF_vars(Draining(w))
    /\ WF_vars(\E w \in Workers : TakesJob(w))
    /\ \A t \in Savers : WF_vars(CommitCoalesced(t) \/ Rollback(t))
    /\ \A r \in Rows : WF_vars(BecomeDue(r))
    /\ WF_vars(Tick)
    /\ SF_vars(Janitor)
    /\ \A s \in Stores : WF_vars(drain_all_stores(s))

Spec == Init /\ [][Next]_vars

LiveSpec == Spec /\ Fairness

\* The shop's outages end: from some point on no handler reports a retryable
\* error.  Without this the queue can chase its own tail, see the README.
OutagesEnd ==
    <>[][\A w \in Workers, r \in Rows : out'[w][r] = "retry" => out[w][r] = "retry"]_vars

CalmSpec == LiveSpec /\ OutagesEnd

-----------------------------------------------------------------------------
(* What holds *)

TypeOK ==
    /\ src \in [Keys -> Nat]
    /\ shop \in [Keys -> Nat]
    /\ row \in [Rows -> Row]
    /\ tx \in [Savers -> [key : Keys \cup {NoKey},
                          fate : {"idle", "inserted", "coalesced"}, nudge : BOOLEAN]]
    /\ pc \in [Workers -> PCs]
    /\ serves \in [Workers -> Stores]
    /\ batch \in [Workers -> SUBSET Rows]
    /\ left \in [Workers -> SUBSET Ops]
    /\ op \in [Workers -> Ops \cup {NoOp}]
    /\ snap \in [Workers -> [Keys -> Nat]]
    /\ held \in [Workers -> SUBSET Keys]
    /\ out \in [Workers -> [Rows -> Outcomes]]
    /\ lock \in [Stores -> Workers \cup {Nobody}]
    /\ plain \in [Stores -> {"none", "queued", "started"}]
    /\ follow \in [Stores -> Nat]
    /\ jan \in [on : BOOLEAN, stale : SUBSET Rows, held : SUBSET Keys]
    /\ upsets \in Nat

\* pending_dedupe_key is set exactly while a row is Pending, whichever of the
\* raw SQL, set_value and save paths wrote it, and no two rows hold one key:
\* this is the whole of the coalescing guarantee.
SlotIffPending ==
    /\ \A r \in Rows : row[r].slot = IF row[r].state = "Pending" THEN row[r].key ELSE NoKey
    /\ \A r, q \in Rows : r # q /\ row[r].slot # NoKey => row[r].slot # row[q].slot

\* A row that will carry, or that shows a person, the key's last change.
Carries(r, k) ==
    /\ row[r].key = k
    /\ \/ row[r].state = "Pending"
       \/ row[r].state \in {"Running", "Failed"} /\ row[r].asked = src[k]

\* A change the shop does not show is never forgotten: a Pending row will read
\* it, or a row claimed after it is Running (a worker's, or an orphan the
\* janitor will find) or Failed where an operator sees it.  Coalescing,
\* retiring rows, kills between commit and push, stale snapshots: none loses it.
NoLostChange == \A k \in Keys : shop[k] # src[k] => \E r \in Rows : Carries(r, k)

\* A push never replaces a newer state by an older one: it sends what a
\* snapshot held, and only the drain lock keeps an older snapshot from
\* finishing after a newer one.
ShopNeverGoesBack == [][\A k \in Keys : shop[k] <= shop'[k]]_vars

\* The queue keeps the promise of Outbox.  A key is parked while only Failed
\* rows carry its last change.
parked == {k \in Keys : /\ shop[k] # src[k]
                        /\ \E r \in Rows : Carries(r, k)
                        /\ \A r \in Rows : Carries(r, k) => row[r].state = "Failed"}

Promise == INSTANCE Outbox WITH Versions <- UNION {1 .. MaxVersion[k] : k \in Keys}

PromiseSafety == Promise!Safety
PromiseConvergence == Promise!Convergence

-----------------------------------------------------------------------------
(* What the repository says and the code does not do *)

\* engine.py:546-553, tests/test_integration.py:728-733: a row whose key newer
\* work has taken is retired, and the rest of its batch keeps its outcome.
RetiringKeepsTheBatch ==
    [][\A w \in Workers :
         pc[w] = "settle" /\ TakenRows(w) # {} /\ pc'[w] # "settle" /\ upsets' = upsets
         => \A r \in Group(w) : row'[r].state = "Running" => r \in batch'[w]]_vars

\* README.md:190-191: nothing in a save path ever waits on the network.  It does
\* where it inserts a key that a drain has requeued but not committed, while the
\* drain's next handler is talking to the shop.
SaveNeverWaitsOnNetwork ==
    \A w \in Workers : pc[w] = "push" => \A r \in Rows : ~Requeued(w, r)
=============================================================================
