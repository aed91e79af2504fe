---------------------------- MODULE SyncQueueInv ----------------------------
(* The inductive invariant of SyncQueue: what its steps need of each other. *)
EXTENDS SyncQueue

\* Only the holder of a store's file lock drains it.
LockInv == \A w \in Workers : pc[w] \in Holders => lock[serves[w]] = w

\* A row that is not done names a key; a claim never records a version to come.
RowInv == \A r \in Rows :
    /\ row[r].state # "Done" => row[r].key \in Keys
    /\ row[r].state \in {"Running", "Failed"} => row[r].asked <= src[row[r].key]

\* A drain's rows are Running, young, of its store and of different keys.
BatchInv == \A w \in Workers :
    /\ pc[w] \notin Claimers => batch[w] = {}
    /\ pc[w] \notin Readers => out[w] = NoOut
    /\ \A r \in batch[w] : /\ row[r].state = "Running"
                           /\ row[r].age <= JobAge
                           /\ StoreOf[row[r].key] = serves[w]
    /\ \A r, q \in batch[w] : row[r].key = row[q].key => r = q

Queued(k) == \E r \in Rows : row[r].state = "Pending" /\ row[r].key = k

\* Every open write of a slot is the only one, and its slot is free; a save that
\* coalesced has the row it coalesced into.
SlotInv ==
    /\ \A t \in Savers : tx[t].fate # "idle" => tx[t].key \in Keys
    /\ \A t \in Savers : tx[t].fate = "coalesced" => Queued(tx[t].key)
    /\ \A t \in Savers : tx[t].fate = "inserted" => ~Queued(tx[t].key)
    /\ \A t, u \in Savers : tx[t].fate = "inserted" /\ tx[u].fate = "inserted"
                            /\ tx[t].key = tx[u].key => t = u
    /\ \A w \in Workers, r \in Rows : Requeued(w, r) =>
          ~Queued(row[r].key) /\ ~Inserting(row[r].key)

\* The shop shows a committed version; what a drain will push is no older than
\* what the shop shows, nor than what each of its rows asks for.
SnapInv ==
    /\ \A k \in Keys : shop[k] <= src[k]
    /\ \A w \in Workers : pc[w] \in {"push", "settle"} =>
         /\ \A k \in Keys : /\ snap[w][k] <= src[k]
                            /\ StoreOf[k] = serves[w] => shop[k] <= snap[w][k]
         /\ \A r \in batch[w] : row[r].asked <= snap[w][row[r].key]

\* A row is only marked pushed when the shop shows what it asks for.
OutInv == \A w \in Workers : \A r \in batch[w] :
    out[w][r] \in {"ok", "done"} => row[r].asked <= shop[row[r].key]

\* The row q makes r superfluous.
Covers(q, r) ==
    /\ row[q].key = row[r].key
    /\ \/ row[q].state = "Pending"
       \/ row[q].state \in {"Running", "Failed"} /\ row[r].asked <= row[q].asked

\* The janitor's list holds orphans only, and an orphan it will retire on the
\* word of an old snapshot is not needed, whatever came of the row it saw there.
JanInv == \A r \in jan.stale :
    /\ row[r].state = "Running" /\ row[r].age = StaleAge
    /\ row[r].key \in jan.held =>
         \/ row[r].asked <= shop[row[r].key]
         \/ \E q \in Rows \ jan.stale : Covers(q, r)

IInv ==
    /\ TypeOK
    /\ LockInv
    /\ RowInv
    /\ SlotIffPending
    /\ BatchInv
    /\ SlotInv
    /\ SnapInv
    /\ OutInv
    /\ JanInv
    /\ NoLostChange
=============================================================================
