-------------------------- MODULE SyncQueueProofs --------------------------
(* Proofs about the outbound queue, for all constants. *)
EXTENDS SyncQueueInv, TLAPS

\* A row put in the queue is a well-formed row of the table.
LEMMA PendingType ==
  ASSUME NEW k \in Keys \cup {NoKey}, NEW p \in Nat, NEW n \in Nat, NEW d \in BOOLEAN
  PROVE  Pending(k, p, n, d) \in Row
  BY DEF Pending, Row, States

\* A finished row is a well-formed row of the table.
LEMMA DoneType == DoneRow \in Row
  BY DEF DoneRow, Row, States

\* A row stays well-formed when only its due date, age or state is written.
LEMMA EditedType ==
  ASSUME NEW x \in Row, NEW n \in Nat, NEW s \in States
  PROVE  /\ [x EXCEPT !.due = TRUE] \in Row
         /\ [x EXCEPT !.age = n] \in Row
         /\ [x EXCEPT !.state = s] \in Row
<1>1. x \in Row
  OBVIOUS
<1> QED BY <1>1 DEF Row

\* The unique index holds a key exactly when a Pending row of that key exists.
LEMMA SlotsQueued ==
  ASSUME SlotIffPending, RowInv, NEW k \in Keys
  PROVE  k \in Slots <=> Queued(k)
  BY NullsAssumption DEF SlotIffPending, RowInv, Slots, Queued

\* An empty queue satisfies the invariant.
LEMMA InitIInv == Init => IInv
<1> SUFFICES ASSUME Init PROVE IInv
  OBVIOUS
<1>1. TypeOK
  BY DoneType, StoresAssumption DEF Init, TypeOK, PCs, Holders, Claimers, NoOut, Outcomes
<1>2. RowInv /\ SlotIffPending
  BY DEF Init, RowInv, SlotIffPending, DoneRow
<1>3. LockInv /\ BatchInv
  BY DEF Init, LockInv, BatchInv, Holders, Claimers, Readers
<1>4. SlotInv
  BY DEF Init, SlotInv, Requeued
<1>5. SnapInv /\ OutInv /\ JanInv /\ NoLostChange
  BY DEF Init, SnapInv, OutInv, JanInv, NoLostChange
<1> QED BY <1>1, <1>2, <1>3, <1>4, <1>5 DEF IInv

-----------------------------------------------------------------------------
(* The save's transaction *)

\* A save's insert, uncommitted, writes or waits for one slot and disturbs nothing else.
LEMMA enqueue_syncStep ==
  ASSUME IInv, NEW t \in Savers, NEW k \in Keys, enqueue_sync(t, k)
  PROVE  IInv'
<1> USE DEF IInv, enqueue_sync, work, jobs
<1>1. TypeOK'
  BY DEF TypeOK
<1>2. LockInv' /\ RowInv' /\ SlotIffPending' /\ BatchInv'
  BY DEF LockInv, RowInv, SlotIffPending, BatchInv
<1>3. SnapInv' /\ OutInv' /\ JanInv' /\ NoLostChange'
  BY DEF SnapInv, OutInv, JanInv, Covers, NoLostChange, Carries
<1>4. SlotInv'
  <2>1. k \in Slots <=> Queued(k)
    BY SlotsQueued
  <2>2. \A u \in Savers : u # t => tx'[u] = tx[u]
    BY DEF TypeOK
  <2>3. tx'[t].key = k /\ tx'[t].fate = IF Queued(k) THEN "coalesced" ELSE "inserted"
    BY <2>1 DEF TypeOK
  <2>4. \A u \in Savers : tx[u].fate = "inserted" => tx[u].key # k
    BY DEF Locked, Inserting
  <2>5. \A w \in Workers, r \in Rows : Requeued(w, r) => row[r].key # k
    BY DEF Locked, Requeueing
  <2>6. \A kk : Queued(kk)' <=> Queued(kk)
    BY DEF Queued
  <2>7. \A w \in Workers, r \in Rows : Requeued(w, r)' <=> Requeued(w, r)
    BY DEF Requeued
  <2>8. \A w \in Workers, r \in Rows : Requeued(w, r)' => ~Queued(row[r].key) /\ ~Inserting(row[r].key)'
    BY <2>2, <2>3, <2>5, <2>7 DEF SlotInv, Inserting
  <2> QED BY <2>2, <2>3, <2>4, <2>6, <2>8 DEF SlotInv
<1> QED BY <1>1, <1>2, <1>3, <1>4

\* A save that commits its own row adds the only Pending row of its key.
LEMMA CommitInsertStep ==
  ASSUME IInv, NEW t \in Savers, NEW r \in Rows, NEW changes \in BOOLEAN, NEW lost \in BOOLEAN,
         CommitInsert(t, r, changes, lost)
  PROVE  IInv'
<1> DEFINE New(k, p) == Pending(k, p, 0, TRUE)
<1> USE DEF IInv
<1>1. PICK k \in Keys : k = tx[t].key /\ ~Queued(k)
  BY DEF CommitInsert, SlotInv
<1>2. /\ tx[t].fate = "inserted" /\ row[r].state = "Done"
      /\ src' = [src EXCEPT ![k] = @ + 1] \/ src' = src
      /\ \E p \in Priorities[OpOf[k]] : row' = [row EXCEPT ![r] = New(k, p)]
      /\ EndTx(t)
  BY <1>1 DEF CommitInsert
<1>3. UNCHANGED <<shop, pc, serves, batch, left, op, snap, held, out, lock, follow, jan>>
  BY DEF CommitInsert, work
<1>4. PICK p \in Priorities[OpOf[k]] : row' = [row EXCEPT ![r] = New(k, p)]
  BY <1>2
<1>5. p \in Nat
  BY <1>1, <1>4, OpsAssumption, PrioritiesAssumption
<1>6. /\ \A q \in Rows : q # r => row'[q] = row[q]
      /\ row'[r].key = k /\ row'[r].slot = k /\ row'[r].state = "Pending"
  BY <1>4 DEF TypeOK, Pending
<1>7. /\ \A kk \in Keys : kk # k => src'[kk] = src[kk]
      /\ \A kk \in Keys : src[kk] \in Nat /\ src'[kk] \in Nat /\ src[kk] <= src'[kk]
  <2>1. /\ \A kk \in Keys : kk # k => src'[kk] = src[kk]
        /\ src'[k] = src[k] + 1 \/ src'[k] = src[k]
        /\ \A kk \in Keys : src[kk] \in Nat
    BY <1>2, <1>1 DEF TypeOK
  <2> QED BY <2>1
<1>8. /\ \A u \in Savers : u # t => tx'[u] = tx[u]
      /\ tx'[t].fate = "idle"
  BY <1>2, <1>1 DEF TypeOK, EndTx
<1>9. /\ \A w \in Workers : batch[w] \subseteq Rows /\ r \notin batch[w]
      /\ jan.stale \subseteq Rows /\ r \notin jan.stale
  BY <1>2 DEF TypeOK, BatchInv, JanInv
<1>10. TypeOK'
  <2>1. row' \in [Rows -> Row]
    BY <1>1, <1>4, <1>5, PendingType DEF TypeOK
  <2>2. src' \in [Keys -> Nat]
    BY <1>2, <1>1 DEF TypeOK
  <2>3. upsets' \in Nat
    <3>1. upsets' = upsets + 1 \/ upsets' = upsets
      BY <1>1, Zenon DEF CommitInsert
    <3> QED BY <3>1 DEF TypeOK
  <2>4. plain' \in [Stores -> {"none", "queued", "started"}]
    <3>1. plain' = [plain EXCEPT ![StoreOf[k]] = "queued"] \/ plain' = plain
      BY <1>1, Zenon DEF CommitInsert
    <3> QED BY <3>1 DEF TypeOK
  <2>5. tx' \in [Savers -> [key : Keys \cup {NoKey},
                           fate : {"idle", "inserted", "coalesced"}, nudge : BOOLEAN]]
    BY <1>2, <1>1 DEF TypeOK, EndTx
  <2> QED BY <1>3, <2>1, <2>2, <2>3, <2>4, <2>5 DEF TypeOK
<1>11. LockInv'
  BY <1>3 DEF LockInv
<1>12. RowInv'
  <2>1. \A q \in Rows : row[q].asked \in Nat
    BY DEF TypeOK, Row
  <2> QED BY <1>6, <1>7, <2>1 DEF RowInv
<1>13. SlotIffPending'
  <2>1. \A q \in Rows : row[q].slot # k
    BY <1>1, SlotsQueued, NullsAssumption DEF Slots
  <2> QED BY <2>1, <1>6 DEF SlotIffPending
<1>14. BatchInv'
  BY <1>3, <1>6, <1>9 DEF BatchInv
<1>15. SlotInv'
  <2>1. \A kk : Queued(kk)' => Queued(kk) \/ kk = k
    BY <1>6 DEF Queued
  <2>2. \A kk : Queued(kk) => Queued(kk)'
    BY <1>2, <1>6 DEF Queued
  <2>3. \A u \in Savers : u # t /\ tx[u].fate = "inserted" => tx[u].key # k
    BY <1>2, <1>1 DEF SlotInv
  <2>4. \A w \in Workers, q \in Rows : Requeued(w, q)' =>
          Requeued(w, q) /\ row[q].key # k /\ row'[q] = row[q]
    <3>1. \A w \in Workers, q \in Rows : Requeued(w, q)' => Requeued(w, q) /\ q # r
      BY <1>3, <1>9 DEF Requeued
    <3>2. Inserting(k)
      BY <1>1, <1>2 DEF Inserting
    <3>3. \A w \in Workers, q \in Rows : Requeued(w, q) => row[q].key # k
      BY <3>2 DEF SlotInv
    <3> QED BY <3>1, <3>3, <1>6
  <2>5. \A kk : Inserting(kk)' => Inserting(kk)
    BY <1>8 DEF Inserting
  <2>6. \A w \in Workers, q \in Rows : Requeued(w, q)' =>
           ~Queued(row[q].key)' /\ ~Inserting(row[q].key)' /\ row'[q] = row[q]
    BY <2>1, <2>4, <2>5 DEF SlotInv
  <2>7. \A w \in Workers, q \in Rows : Requeued(w, q)' =>
           (~Queued(row[q].key) /\ ~Inserting(row[q].key))'
    BY <2>6 DEF Queued, Inserting
  <2>8. \A u \in Savers : tx'[u].fate = "coalesced" => Queued(tx[u].key)'
    BY <1>8, <2>2 DEF SlotInv
  <2>9. \A u \in Savers : tx'[u].fate = "inserted" => ~Queued(tx[u].key)'
    BY <1>8, <2>1, <2>3 DEF SlotInv
  <2> QED BY <1>8, <2>7, <2>8, <2>9 DEF SlotInv, Queued
<1>16. SnapInv'
  <2>1. \A kk \in Keys : shop[kk] \in Nat /\ \A w \in Workers : snap[w][kk] \in Nat
    BY DEF TypeOK
  <2> QED BY <1>3, <1>6, <1>7, <1>9, <2>1 DEF SnapInv
<1>17. OutInv'
  BY <1>3, <1>6, <1>9 DEF OutInv
<1>18. JanInv'
  <2>1. \A q, s \in Rows : s # r /\ Covers(q, s) => Covers(q, s)'
    BY <1>2, <1>6 DEF Covers
  <2> QED BY <1>3, <1>6, <1>9, <2>1 DEF JanInv
<1>19. NoLostChange'
  <2>1. Carries(r, k)'
    BY <1>6 DEF Carries
  <2>2. \A kk \in Keys : kk # k => \A q \in Rows : Carries(q, kk) => Carries(q, kk)'
    BY <1>2, <1>6, <1>7 DEF Carries
  <2> QED BY <1>3, <1>7, <2>1, <2>2 DEF NoLostChange
<1> QED BY <1>10, <1>11, <1>12, <1>13, <1>14, <1>15, <1>16, <1>17, <1>18, <1>19

\* A save that coalesced commits while the row it met is still Pending and will read it.
LEMMA CommitCoalescedStep ==
  ASSUME IInv, NEW t \in Savers, CommitCoalesced(t)
  PROVE  IInv'
<1> USE DEF IInv
<1>0. PICK k \in Keys : k = tx[t].key /\ Queued(k)
  BY DEF CommitCoalesced, SlotInv
<1>1. /\ tx[t].fate = "coalesced"
      /\ src' = [src EXCEPT ![k] = @ + 1]
      /\ EndTx(t)
  BY <1>0 DEF CommitCoalesced
<1>2. UNCHANGED <<shop, row, pc, serves, batch, left, op, snap, held, out, lock, plain, follow,
                  jan, upsets>>
  BY DEF CommitCoalesced, work, jobs
<1>4. /\ \A kk \in Keys : kk # k => src'[kk] = src[kk]
      /\ \A kk \in Keys : src[kk] \in Nat /\ src'[kk] \in Nat /\ src[kk] <= src'[kk]
  <2>1. /\ \A kk \in Keys : kk # k => src'[kk] = src[kk]
        /\ src'[k] = src[k] + 1
        /\ \A kk \in Keys : src[kk] \in Nat
    BY <1>0, <1>1 DEF TypeOK
  <2> QED BY <2>1
<1>5. /\ \A u \in Savers : u # t => tx'[u] = tx[u]
      /\ tx'[t].fate = "idle"
  BY <1>1 DEF TypeOK, EndTx
<1>6. TypeOK'
  <2>1. src' \in [Keys -> Nat]
    BY <1>0, <1>1 DEF TypeOK
  <2>2. tx' \in [Savers -> [key : Keys \cup {NoKey},
                           fate : {"idle", "inserted", "coalesced"}, nudge : BOOLEAN]]
    BY <1>1 DEF TypeOK, EndTx
  <2> QED BY <1>2, <2>1, <2>2 DEF TypeOK
<1>7. LockInv' /\ SlotIffPending' /\ BatchInv' /\ OutInv' /\ JanInv'
  BY <1>2 DEF LockInv, SlotIffPending, BatchInv, OutInv, JanInv, Covers
<1>8. RowInv'
  <2>1. \A q \in Rows : row[q].asked \in Nat
    BY DEF TypeOK, Row
  <2> QED BY <1>2, <1>4, <2>1 DEF RowInv
<1>9. SlotInv'
  <2>1. \A kk : Inserting(kk)' => Inserting(kk)
    BY <1>5 DEF Inserting
  <2> QED BY <1>2, <1>5, <2>1 DEF SlotInv, Queued, Requeued
<1>10. SnapInv'
  <2>1. \A kk \in Keys : shop[kk] \in Nat /\ \A w \in Workers : snap[w][kk] \in Nat
    BY DEF TypeOK
  <2> QED BY <1>2, <1>4, <2>1 DEF SnapInv
<1>11. NoLostChange'
  <2>1. \E r \in Rows : Carries(r, k)'
    BY <1>2, <1>0 DEF Queued, Carries
  <2>2. \A kk \in Keys : kk # k => \A q \in Rows : Carries(q, kk) => Carries(q, kk)'
    BY <1>2, <1>4 DEF Carries
  <2> QED BY <1>2, <1>4, <2>1, <2>2 DEF NoLostChange
<1> QED BY <1>6, <1>7, <1>8, <1>9, <1>10, <1>11

\* A save that fails leaves the queue as it was.
LEMMA RollbackStep ==
  ASSUME IInv, NEW t \in Savers, Rollback(t)
  PROVE  IInv'
<1> USE DEF IInv
<1>1. EndTx(t)
  BY DEF Rollback
<1>2. UNCHANGED <<src, shop, row, pc, serves, batch, left, op, snap, held, out, lock, plain,
                  follow, jan, upsets>>
  BY DEF Rollback, work, jobs
<1>3. /\ \A u \in Savers : u # t => tx'[u] = tx[u]
      /\ tx'[t].fate = "idle"
  BY <1>1 DEF TypeOK, EndTx
<1>4. TypeOK'
  <2>1. tx' \in [Savers -> [key : Keys \cup {NoKey},
                           fate : {"idle", "inserted", "coalesced"}, nudge : BOOLEAN]]
    BY <1>1 DEF TypeOK, EndTx
  <2> QED BY <1>2, <2>1 DEF TypeOK
<1>5. LockInv' /\ RowInv' /\ SlotIffPending' /\ BatchInv'
  BY <1>2 DEF LockInv, RowInv, SlotIffPending, BatchInv
<1>6. SnapInv' /\ OutInv' /\ JanInv' /\ NoLostChange'
  BY <1>2 DEF SnapInv, OutInv, JanInv, Covers, NoLostChange, Carries
<1>7. SlotInv'
  <2>1. \A kk : Inserting(kk)' => Inserting(kk)
    BY <1>3 DEF Inserting
  <2> QED BY <1>2, <1>3, <2>1 DEF SlotInv, Queued, Requeued
<1> QED BY <1>4, <1>5, <1>6, <1>7

-----------------------------------------------------------------------------
(* The drain *)

\* Claims and the janitor's list name rows of the table.
LEMMA Ranges ==
  ASSUME TypeOK
  PROVE  /\ \A w \in Workers : batch[w] \subseteq Rows
         /\ jan.stale \subseteq Rows
         /\ \A k \in Keys : src[k] \in Nat /\ shop[k] \in Nat
         /\ \A w \in Workers, k \in Keys : snap[w][k] \in Nat
         /\ \A q \in Rows : row[q].asked \in Nat /\ row[q].age \in Nat
  BY DEF TypeOK, Row

\* A job that finds the store's lock taken ends; one that takes it is the only holder.
LEMMA drain_storeStep ==
  ASSUME IInv, NEW w \in Workers, NEW s \in Stores, NEW kind \in {"plain", "follow"},
         drain_store(w, s, kind)
  PROVE  IInv'
<1> USE DEF IInv
<1>1. /\ pc[w] = "idle"
      /\ UNCHANGED <<src, shop, row, tx, batch, left, op, snap, held, out, jan, upsets>>
  BY DEF drain_store
<1>2. \/ /\ lock[s] = Nobody
         /\ pc' = [pc EXCEPT ![w] = "claim"]
         /\ serves' = [serves EXCEPT ![w] = s]
         /\ lock' = [lock EXCEPT ![s] = w]
      \/ UNCHANGED <<pc, serves, lock>>
  BY DEF drain_store
<1>3. /\ \A v \in Workers : v # w => pc'[v] = pc[v] /\ serves'[v] = serves[v]
      /\ pc'[w] \in {"idle", "claim"}
  BY <1>1, <1>2 DEF TypeOK
<1>4. batch[w] = {} /\ out[w] = NoOut
  BY <1>1 DEF BatchInv, Claimers, Readers
<1>5. TypeOK'
  <2>1. /\ plain' \in [Stores -> {"none", "queued", "started"}]
        /\ follow' \in [Stores -> Nat]
    <3>1. CASE kind = "plain"
      BY <3>1 DEF drain_store, TypeOK
    <3>2. CASE kind = "follow"
      BY <3>2 DEF drain_store, TypeOK
    <3> QED BY <3>1, <3>2
  <2>2. /\ pc' \in [Workers -> PCs]
        /\ serves' \in [Workers -> Stores]
        /\ lock' \in [Stores -> Workers \cup {Nobody}]
    <3>1. CASE UNCHANGED <<pc, serves, lock>>
      BY <3>1 DEF TypeOK
    <3>2. CASE /\ pc' = [pc EXCEPT ![w] = "claim"]
               /\ serves' = [serves EXCEPT ![w] = s]
               /\ lock' = [lock EXCEPT ![s] = w]
      BY <3>2 DEF TypeOK, PCs, Holders
    <3> QED BY <1>2, <3>1, <3>2
  <2> QED BY <1>1, <2>1, <2>2 DEF TypeOK
<1>6. LockInv'
  <2>1. CASE UNCHANGED <<pc, serves, lock>>
    BY <2>1 DEF LockInv
  <2>2. CASE /\ lock[s] = Nobody
             /\ pc' = [pc EXCEPT ![w] = "claim"]
             /\ serves' = [serves EXCEPT ![w] = s]
             /\ lock' = [lock EXCEPT ![s] = w]
    <3>1. \A v \in Workers : pc[v] \in Holders => serves[v] # s
      BY <2>2, NullsAssumption DEF LockInv
    <3>2. \A v \in Workers : v # w /\ pc[v] \in Holders => lock'[serves[v]] = v
      BY <2>2, <3>1 DEF LockInv, TypeOK
    <3>3. serves'[w] = s /\ lock'[s] = w
      BY <2>2 DEF TypeOK
    <3> QED BY <1>3, <3>2, <3>3 DEF LockInv
  <2> QED BY <1>2, <2>1, <2>2
<1>7. RowInv' /\ SlotIffPending' /\ OutInv' /\ JanInv' /\ NoLostChange'
  BY <1>1 DEF RowInv, SlotIffPending, OutInv, JanInv, Covers, NoLostChange, Carries
<1>8. BatchInv'
  BY <1>1, <1>3, <1>4 DEF BatchInv, Claimers, Readers
<1>9. SlotInv'
  BY <1>1 DEF SlotInv, Queued, Requeued, Inserting
<1>10. SnapInv'
  BY <1>1, <1>3, <1>4 DEF SnapInv
<1> QED BY <1>5, <1>6, <1>7, <1>8, <1>9, <1>10

\* What claim_rows writes on a row, field by field.
LEMMA ClaimedFields ==
  ASSUME NEW r \in Rows, row[r] \in Row
  PROVE  /\ Claimed(r).key = row[r].key /\ Claimed(r).slot = NoKey
         /\ Claimed(r).state = "Running" /\ Claimed(r).age = 0
         /\ Claimed(r).asked = src[row[r].key]
         /\ src[row[r].key] \in Nat => Claimed(r) \in Row
<1>1. row[r] \in Row
  OBVIOUS
<1>2. /\ Claimed(r).key = row[r].key /\ Claimed(r).slot = NoKey
      /\ Claimed(r).state = "Running" /\ Claimed(r).age = 0
      /\ Claimed(r).asked = src[row[r].key]
  BY <1>1 DEF Claimed, Row
<1>3. ASSUME src[row[r].key] \in Nat PROVE Claimed(r) \in Row
  BY <1>1, <1>3 DEF Claimed, Row, States
<1> QED BY <1>2, <1>3

\* Claiming due rows frees their slots: none of their keys is queued twice or forgotten.
LEMMA claim_rowsStep ==
  ASSUME IInv, NEW w \in Workers, NEW B \in SUBSET Rows, claim_rows(w, B)
  PROVE  IInv'
<1> USE DEF IInv
<1>1. /\ pc[w] = "claim"
      /\ B \subseteq DueRows(serves[w])
      /\ \A r \in B, t \in Savers : tx[t].key # row[r].key
      /\ row' = [r \in Rows |-> IF r \in B THEN Claimed(r) ELSE row[r]]
      /\ batch' = [batch EXCEPT ![w] = B]
      /\ left' = [left EXCEPT ![w] = {OpOf[row[r].key] : r \in B}]
      /\ pc' = [pc EXCEPT ![w] = IF B = {} THEN "release" ELSE "read"]
  BY DEF claim_rows, Claimable
<1>2. UNCHANGED <<src, shop, tx, serves, op, snap, held, out, lock, plain, follow, jan, upsets>>
  BY DEF claim_rows, jobs
<1>3. \A r \in B : /\ row[r].state = "Pending" /\ row[r].key \in Keys
                   /\ StoreOf[row[r].key] = serves[w]
                   /\ row[r].slot = row[r].key
  BY <1>1 DEF DueRows, RowInv, SlotIffPending
<1>4. /\ \A r \in Rows \ B : row'[r] = row[r]
      /\ \A r \in B : /\ row'[r].key = row[r].key /\ row'[r].slot = NoKey
                      /\ row'[r].state = "Running" /\ row'[r].age = 0
                      /\ row'[r].asked = src[row[r].key]
  BY <1>1, ClaimedFields DEF TypeOK
<1>5. /\ \A v \in Workers : v # w => batch'[v] = batch[v] /\ pc'[v] = pc[v]
      /\ batch'[w] = B /\ pc'[w] = IF B = {} THEN "release" ELSE "read"
      /\ out[w] = NoOut
  BY <1>1 DEF TypeOK, BatchInv, Readers
<1>6. /\ \A v \in Workers : batch[v] \subseteq Rows \ B
      /\ jan.stale \subseteq Rows \ B
  BY <1>3, Ranges DEF BatchInv, JanInv
<1>7. TypeOK'
  <2>1. \A r \in B : Claimed(r) \in Row
    BY <1>3, ClaimedFields, Ranges DEF TypeOK
  <2>2. row' \in [Rows -> Row]
    BY <1>1, <2>1 DEF TypeOK
  <2>3. left' \in [Workers -> SUBSET Ops]
    BY <1>1, <1>3, OpsAssumption DEF TypeOK
  <2>4. pc' \in [Workers -> PCs] /\ batch' \in [Workers -> SUBSET Rows]
    BY <1>1 DEF TypeOK, PCs, Holders, Claimers
  <2> QED BY <1>2, <2>2, <2>3, <2>4 DEF TypeOK
<1>8. LockInv'
  BY <1>1, <1>2, <1>5 DEF LockInv, Holders, Claimers
<1>9. RowInv'
  <2>1. \A r \in B : row'[r].asked <= src[row[r].key]
    BY <1>3, <1>4, Ranges
  <2> QED BY <1>2, <1>3, <1>4, <2>1 DEF RowInv
<1>10. SlotIffPending'
  BY <1>4 DEF SlotIffPending
<1>11. BatchInv'
  <2>1. \A r \in B : row'[r].age <= JobAge
    BY <1>4, AgeAssumption
  <2>2. \A r, q \in B : row'[r].key = row'[q].key => r = q
    BY <1>3, <1>4, NullsAssumption DEF SlotIffPending
  <2>3. \A v \in Workers : v # w =>
          /\ pc'[v] \notin Claimers => batch'[v] = {}
          /\ pc'[v] \notin Readers => out'[v] = NoOut
          /\ \A r \in batch'[v] : /\ row'[r].state = "Running"
                                  /\ row'[r].age <= JobAge
                                  /\ StoreOf[row'[r].key] = serves'[v]
          /\ \A r, q \in batch'[v] : row'[r].key = row'[q].key => r = q
    BY <1>2, <1>4, <1>5, <1>6 DEF BatchInv
  <2>4. /\ pc'[w] \notin Claimers => batch'[w] = {}
        /\ pc'[w] \notin Readers => out'[w] = NoOut
    BY <1>2, <1>5 DEF Claimers
  <2>5. \A r \in batch'[w] : /\ row'[r].state = "Running"
                             /\ row'[r].age <= JobAge
                             /\ StoreOf[row'[r].key] = serves'[w]
    BY <1>2, <1>3, <1>4, <1>5, <2>1
  <2>6. \A r, q \in batch'[w] : row'[r].key = row'[q].key => r = q
    BY <1>5, <2>2
  <2>7. \A v \in Workers :
          /\ pc'[v] \notin Claimers => batch'[v] = {}
          /\ pc'[v] \notin Readers => out'[v] = NoOut
          /\ \A r \in batch'[v] : /\ row'[r].state = "Running"
                                  /\ row'[r].age <= JobAge
                                  /\ StoreOf[row'[r].key] = serves'[v]
          /\ \A r, q \in batch'[v] : row'[r].key = row'[q].key => r = q
    BY <2>3, <2>4, <2>5, <2>6
  <2> QED BY <2>7 DEF BatchInv
<1>12. SlotInv'
  <2>1. \A k : Queued(k)' => Queued(k)
    BY <1>4 DEF Queued
  <2>2. \A t \in Savers : tx[t].fate = "coalesced" => Queued(tx[t].key)'
    <3>1. \A t \in Savers : tx[t].fate = "coalesced" =>
            \E r \in Rows \ B : row[r].state = "Pending" /\ row[r].key = tx[t].key
      BY <1>1 DEF SlotInv, Queued
    <3> QED BY <1>2, <1>4, <3>1 DEF Queued
  <2>3. \A v \in Workers, r \in Rows : Requeued(v, r)' =>
          Requeued(v, r) /\ row'[r].key = row[r].key
    BY <1>2, <1>4, <1>5, <1>6 DEF Requeued, NoOut
  <2>4. \A v \in Workers, r \in Rows : Requeued(v, r)' =>
          (~Queued(row[r].key) /\ ~Inserting(row[r].key))'
    BY <1>2, <2>1, <2>3 DEF SlotInv, Inserting
  <2> QED BY <1>2, <2>1, <2>2, <2>4 DEF SlotInv
<1>13. SnapInv'
  <2>1. \A v \in Workers : pc'[v] \in {"push", "settle"} =>
          v # w /\ pc[v] \in {"push", "settle"} /\ \A r \in batch'[v] : row'[r] = row[r]
    BY <1>4, <1>5, <1>6
  <2> QED BY <1>2, <1>5, <2>1 DEF SnapInv
<1>14. OutInv'
  <2>1. \A v \in Workers : v # w => \A r \in batch'[v] : row'[r] = row[r]
    BY <1>4, <1>5, <1>6
  <2>2. \A r \in batch'[w] : out'[w][r] = "none"
    BY <1>2, <1>5 DEF NoOut
  <2>3. \A v \in Workers : \A r \in batch'[v] :
          out'[v][r] \in {"ok", "done"} => row'[r].asked <= shop'[row'[r].key]
    BY <1>2, <1>5, <2>1, <2>2 DEF OutInv
  <2> QED BY <2>3 DEF OutInv
<1>15. JanInv'
  <2>1. \A r \in jan.stale : row[r].asked <= src[row[r].key]
    BY Ranges DEF JanInv, RowInv
  <2>2. \A r \in jan.stale, q \in Rows : Covers(q, r) => Covers(q, r)'
    BY <1>3, <1>4, <1>6, <2>1 DEF Covers
  <2> QED BY <1>2, <1>4, <1>6, <2>2 DEF JanInv
<1>16. NoLostChange'
  <2>1. \A k \in Keys, q \in Rows : Carries(q, k) => Carries(q, k)'
    BY <1>2, <1>4 DEF Carries
  <2> QED BY <1>2, <2>1 DEF NoLostChange
<1> QED BY <1>7, <1>8, <1>9, <1>10, <1>11, <1>12, <1>13, <1>14, <1>15, <1>16

\* A snapshot opened after the claim is no older than any version the claimed rows ask for.
LEMMA OpenSnapshotStep ==
  ASSUME IInv, NEW w \in Workers, NEW o \in Ops, OpenSnapshot(w, o)
  PROVE  IInv'
<1> USE DEF IInv
<1>1. /\ pc[w] = "read"
      /\ op' = [op EXCEPT ![w] = o]
      /\ left' = [left EXCEPT ![w] = @ \ {o}]
      /\ snap' = [snap EXCEPT ![w] = src]
      /\ held' = [held EXCEPT ![w] = Slots]
      /\ pc' = [pc EXCEPT ![w] = "push"]
  BY DEF OpenSnapshot
<1>2. UNCHANGED <<src, shop, row, tx, serves, batch, out, lock, plain, follow, jan, upsets>>
  BY DEF OpenSnapshot, jobs
<1>3. /\ \A v \in Workers : v # w => pc'[v] = pc[v] /\ snap'[v] = snap[v]
      /\ pc'[w] = "push" /\ snap'[w] = src
  BY <1>1 DEF TypeOK
<1>4. TypeOK'
  <2>1. Slots \subseteq Keys
    BY DEF Slots, TypeOK, Row
  <2>2. held' \in [Workers -> SUBSET Keys] /\ snap' \in [Workers -> [Keys -> Nat]]
    BY <1>1, <2>1 DEF TypeOK
  <2>3. pc' \in [Workers -> PCs] /\ op' \in [Workers -> Ops \cup {NoOp}]
    BY <1>1 DEF TypeOK, PCs, Holders, Claimers
  <2>4. left' \in [Workers -> SUBSET Ops]
    BY <1>1 DEF TypeOK
  <2> QED BY <1>2, <2>2, <2>3, <2>4 DEF TypeOK
<1>5. LockInv'
  BY <1>1, <1>2, <1>3 DEF LockInv, Holders, Claimers
<1>6. RowInv' /\ SlotIffPending' /\ OutInv' /\ JanInv' /\ NoLostChange'
  BY <1>2 DEF RowInv, SlotIffPending, OutInv, JanInv, Covers, NoLostChange, Carries
<1>7. BatchInv'
  BY <1>1, <1>2, <1>3 DEF BatchInv, Claimers, Readers
<1>8. SlotInv'
  BY <1>2 DEF SlotInv, Queued, Requeued, Inserting
<1>9. SnapInv'
  <2>1. \A k \in Keys : shop[k] <= src[k] /\ src[k] <= src[k]
    BY Ranges DEF SnapInv
  <2>2. \A r \in batch[w] : row[r].key \in Keys /\ row[r].asked <= src[row[r].key]
    BY Ranges DEF BatchInv, RowInv
  <2> QED BY <1>2, <1>3, <2>1, <2>2 DEF SnapInv
<1> QED BY <1>4, <1>5, <1>6, <1>7, <1>8, <1>9

\* Two drains with rows claimed serve different stores.
LEMMA DrainsApart ==
  ASSUME TypeOK, LockInv, BatchInv, NEW v \in Workers, NEW w \in Workers,
         NEW r \in batch[v], NEW q \in batch[w], row[r].key = row[q].key
  PROVE  v = w
<1>1. pc[v] \in Holders /\ pc[w] \in Holders
  BY DEF BatchInv, Holders
<1>2. serves[v] = serves[w]
  BY DEF BatchInv
<1> QED BY <1>1, <1>2 DEF LockInv

\* What _succeed, _fail and _handle_error write on a row, field by field.
LEMMA OutcomeFields ==
  ASSUME NEW w \in Workers, NEW r \in Rows, row[r] \in Row, row[r].key \in Keys,
         out[w][r] \in Settled
  PROVE  /\ Outcome(w, r) \in Row
         /\ out[w][r] = "done" => Outcome(w, r) = DoneRow
         /\ out[w][r] = "requeued" =>
              /\ Outcome(w, r).key = row[r].key /\ Outcome(w, r).slot = row[r].key
              /\ Outcome(w, r).state = "Pending"
         /\ out[w][r] = "failed" =>
              /\ Outcome(w, r).key = row[r].key /\ Outcome(w, r).slot = NoKey
              /\ Outcome(w, r).state = "Failed" /\ Outcome(w, r).asked = row[r].asked
<1>1. CASE out[w][r] = "done"
  BY <1>1, DoneType DEF Outcome
<1>2. CASE out[w][r] = "requeued"
  <2>1. Outcome(w, r) = Pending(row[r].key, row[r].prio, row[r].attempts + 1, FALSE)
    BY <1>2 DEF Outcome
  <2>2. row[r].prio \in Nat /\ row[r].attempts + 1 \in Nat
    BY DEF Row
  <2>3. Outcome(w, r) \in Row
    BY <2>1, <2>2, PendingType
  <2>4. /\ Outcome(w, r).key = row[r].key /\ Outcome(w, r).slot = row[r].key
        /\ Outcome(w, r).state = "Pending"
    BY <2>1 DEF Pending
  <2> QED BY <1>2, <2>3, <2>4
<1>3. CASE out[w][r] = "failed"
  <2>1. Outcome(w, r) = Parked(r)
    BY <1>3 DEF Outcome
  <2>2. /\ Parked(r).key = row[r].key /\ Parked(r).slot = NoKey
        /\ Parked(r).state = "Failed" /\ Parked(r).asked = row[r].asked
    BY DEF Parked, Row
  <2>3. Parked(r) \in Row
    BY DEF Parked, Row, States
  <2> QED BY <1>3, <2>1, <2>2, <2>3
<1> QED BY <1>1, <1>2, <1>3 DEF Settled

\* What a drain's commit does to the table, whichever action makes it.
LEMMA Flush ==
  ASSUME IInv, NEW w \in Workers,
         row' = [r \in Rows |-> IF r \in SettledRows(w) THEN Outcome(w, r) ELSE row[r]],
         UNCHANGED <<src, shop, jan>>
  PROVE  /\ row' \in [Rows -> Row]
         /\ \A r \in Rows \ SettledRows(w) : row'[r] = row[r]
         /\ \A r \in Rows : row'[r].state = "Pending" =>
               \/ row[r].state = "Pending" /\ row'[r] = row[r]
               \/ Requeued(w, r) /\ row'[r].key = row[r].key
         /\ \A k : Queued(k) => Queued(k)'
         /\ RowInv' /\ SlotIffPending' /\ JanInv' /\ NoLostChange'
<1> USE DEF IInv
<1>1. SettledRows(w) \subseteq batch[w] /\ batch[w] \subseteq Rows
  BY Ranges DEF SettledRows
<1>2. \A r \in batch[w] : row[r].state = "Running" /\ row[r].key \in Keys /\ row[r] \in Row
  BY <1>1 DEF BatchInv, RowInv, TypeOK
<1>3. /\ \A r \in Rows \ SettledRows(w) : row'[r] = row[r]
      /\ \A r \in SettledRows(w) : row'[r] = Outcome(w, r) /\ out[w][r] \in Settled
  BY <1>1 DEF SettledRows
<1>4. \A r \in SettledRows(w) :
        /\ row'[r] \in Row
        /\ out[w][r] = "done" => row'[r] = DoneRow
        /\ out[w][r] = "requeued" =>
             /\ row'[r].key = row[r].key /\ row'[r].slot = row[r].key
             /\ row'[r].state = "Pending"
        /\ out[w][r] = "failed" =>
             /\ row'[r].key = row[r].key /\ row'[r].slot = NoKey
             /\ row'[r].state = "Failed" /\ row'[r].asked = row[r].asked
        /\ out[w][r] \in {"done", "requeued", "failed"}
  BY <1>1, <1>2, <1>3, OutcomeFields DEF Settled
<1>5. row' \in [Rows -> Row]
  BY <1>3, <1>4 DEF TypeOK
<1>6. DoneRow.state = "Done" /\ DoneRow.slot = NoKey
  BY DEF DoneRow
<1>7. \A r \in Rows : row'[r].state = "Pending" =>
               \/ row[r].state = "Pending" /\ row'[r] = row[r]
               \/ Requeued(w, r) /\ row'[r].key = row[r].key
  BY <1>1, <1>3, <1>4, <1>6 DEF Requeued
<1>8. \A k : Queued(k) => Queued(k)'
  BY <1>1, <1>2, <1>3 DEF Queued
<1>9. RowInv'
  <2>1. \A r \in SettledRows(w) : /\ row'[r].state # "Done" => row'[r].key \in Keys
                                  /\ row'[r].state \in {"Running", "Failed"} =>
                                       row'[r].asked <= src[row'[r].key]
    BY <1>1, <1>2, <1>4, <1>6 DEF RowInv
  <2> QED BY <1>3, <2>1 DEF RowInv
<1>10. SlotIffPending'
  <2>1. \A r \in Rows : row'[r].slot = IF row'[r].state = "Pending" THEN row'[r].key ELSE NoKey
    BY <1>3, <1>4, <1>6 DEF SlotIffPending
  <2>2. ASSUME NEW r \in Rows, NEW q \in Rows, r # q, row'[r].state = "Pending",
               row'[q].state = "Pending", row'[r].key = row'[q].key
        PROVE  FALSE
    <3>1. CASE Requeued(w, r) /\ Requeued(w, q)
      BY <1>7, <1>2, <2>2, <3>1 DEF Requeued, BatchInv
    <3>2. CASE Requeued(w, r) /\ row[q].state = "Pending" /\ row'[q] = row[q]
      BY <1>7, <1>2, <2>2, <3>2 DEF SlotInv, Queued, Requeued
    <3>3. CASE row[r].state = "Pending" /\ row'[r] = row[r] /\ Requeued(w, q)
      BY <1>7, <1>2, <2>2, <3>3 DEF SlotInv, Queued, Requeued
    <3>4. CASE /\ row[r].state = "Pending" /\ row'[r] = row[r]
               /\ row[q].state = "Pending" /\ row'[q] = row[q]
      <4>1. row[r].key \in Keys
        BY <3>4 DEF RowInv
      <4> QED BY <2>2, <3>4, <4>1, NullsAssumption DEF SlotIffPending
    <3> QED BY <1>7, <2>2, <3>1, <3>2, <3>3, <3>4
  <2> QED BY <2>1, <2>2 DEF SlotIffPending
<1>11. JanInv'
  <2>1. \A r \in jan.stale : r \in Rows /\ r \notin SettledRows(w)
    BY <1>1, Ranges, AgeAssumption DEF JanInv, BatchInv
  <2>2. \A r \in jan.stale, q \in Rows : Covers(q, r) =>
          Covers(q, r)' \/ row[r].asked <= shop[row[r].key]
    <3> SUFFICES ASSUME NEW r \in jan.stale, NEW q \in Rows, Covers(q, r)
                 PROVE  Covers(q, r)' \/ row[r].asked <= shop[row[r].key]
      OBVIOUS
    <3>1. row'[r] = row[r]
      BY <1>3, <2>1
    <3>2. CASE q \notin SettledRows(w)
      BY <1>3, <3>1, <3>2 DEF Covers
    <3>3. CASE q \in SettledRows(w)
      <4>1. row[q].key = row[r].key /\ row[r].asked <= row[q].asked
        BY <1>1, <1>2, <3>3 DEF Covers
      <4>2. CASE out[w][q] = "done"
        <5>1. row[q].asked <= shop[row[q].key]
          BY <1>1, <3>3, <4>2 DEF OutInv
        <5>2. row[q].asked \in Nat /\ row[r].asked \in Nat /\ shop[row[q].key] \in Nat
          BY <1>1, <1>2, <2>1, <3>3, Ranges
        <5> QED BY <4>1, <5>1, <5>2
      <4>3. CASE out[w][q] # "done"
        BY <1>4, <3>1, <3>3, <4>1, <4>3 DEF Covers
      <4> QED BY <4>2, <4>3
    <3> QED BY <3>2, <3>3
  <2> QED BY <1>3, <2>1, <2>2 DEF JanInv
<1>12. NoLostChange'
  <2> SUFFICES ASSUME NEW k \in Keys, shop[k] # src[k], NEW q \in Rows, Carries(q, k)
               PROVE  Carries(q, k)'
    BY DEF NoLostChange
  <2>1. CASE q \notin SettledRows(w)
    BY <1>3, <2>1 DEF Carries
  <2>2. CASE q \in SettledRows(w)
    <3>1. row[q].key = k /\ row[q].asked = src[k]
      BY <1>1, <1>2, <2>2 DEF Carries
    <3>2. out[w][q] # "done"
      <4>1. ASSUME out[w][q] = "done" PROVE FALSE
        <5>1. src[k] <= shop[k]
          BY <1>1, <2>2, <3>1, <4>1 DEF OutInv
        <5>2. shop[k] <= src[k] /\ shop[k] \in Nat /\ src[k] \in Nat
          BY Ranges DEF SnapInv
        <5> QED BY <5>1, <5>2
      <4> QED BY <4>1
    <3> QED BY <1>4, <2>2, <3>1, <3>2 DEF Carries
  <2> QED BY <2>1, <2>2
<1> QED BY <1>3, <1>5, <1>7, <1>8, <1>9, <1>10, <1>11, <1>12

\* After the flush the drain holds no requeue of a settled row open.
LEMMA FlushSlots ==
  ASSUME IInv, NEW w \in Workers,
         row' = [r \in Rows |-> IF r \in SettledRows(w) THEN Outcome(w, r) ELSE row[r]],
         UNCHANGED <<src, shop, jan, tx>>,
         \A v \in Workers : v # w => batch'[v] = batch[v] /\ out'[v] = out[v],
         \A r \in Rows : ~Requeued(w, r)'
  PROVE  SlotInv'
<1> USE DEF IInv
<1>1. \A k : Queued(k)' => Queued(k) \/ \E r \in batch[w] : Requeued(w, r) /\ row[r].key = k
  BY Flush DEF Queued, Requeued
<1>2. \A v \in Workers, r \in Rows : Requeued(v, r)' => v # w /\ Requeued(v, r)
  BY DEF Requeued
<1>3. \A v \in Workers : \A r \in batch[v], q \in batch[w] : v # w => row[r].key # row[q].key
  BY DrainsApart
<1>4. \A v \in Workers, r \in Rows : Requeued(v, r) /\ v # w => row'[r] = row[r]
  <2>1. \A v \in Workers, r \in Rows : Requeued(v, r) /\ v # w => r \notin SettledRows(w)
    BY <1>3 DEF Requeued, SettledRows
  <2> QED BY <2>1, Flush
<1>5. \A v \in Workers, r \in Rows : Requeued(v, r)' => (~Queued(row[r].key))' /\ row'[r] = row[r]
  <2> SUFFICES ASSUME NEW v \in Workers, NEW r \in Rows, Requeued(v, r)'
               PROVE  ~Queued(row[r].key)' /\ row'[r] = row[r]
    OBVIOUS
  <2>1. v # w /\ Requeued(v, r) /\ row'[r] = row[r] /\ r \in batch[v]
    BY <1>2, <1>4 DEF Requeued
  <2>2. ~Queued(row[r].key)
    BY <2>1 DEF SlotInv
  <2> QED BY <1>1, <1>3, <2>1, <2>2
<1>6. \A t \in Savers : tx[t].fate = "inserted" => ~Queued(tx[t].key)'
  BY <1>1, Ranges DEF SlotInv, Inserting, Requeued
<1>7. \A t \in Savers : tx[t].fate = "coalesced" => Queued(tx[t].key)'
  BY Flush DEF SlotInv
<1>8. \A v \in Workers, r \in Rows : Requeued(v, r)' => ~Inserting(row[r].key)'
  BY <1>2, <1>4 DEF SlotInv, Inserting
<1>9. \A v \in Workers, r \in Rows : Requeued(v, r)' =>
        (~Queued(row[r].key) /\ ~Inserting(row[r].key))'
  BY <1>5, <1>8 DEF Inserting
<1> QED BY <1>6, <1>7, <1>9 DEF SlotInv

\* A handler's own commit makes the settled groups final and keeps the invariant.
LEMMA HandlerCommitStep ==
  ASSUME IInv, NEW w \in Workers, HandlerCommit(w)
  PROVE  IInv'
<1> USE DEF IInv
<1>1. /\ pc[w] \in {"push", "settle"}
      /\ row' = [r \in Rows |-> IF r \in SettledRows(w) THEN Outcome(w, r) ELSE row[r]]
      /\ batch' = [batch EXCEPT ![w] = @ \ SettledRows(w)]
      /\ out' = [out EXCEPT ![w] = [r \in Rows |-> IF r \in SettledRows(w) THEN "none" ELSE @[r]]]
      /\ snap' = [snap EXCEPT ![w] = src]
      /\ held' = [held EXCEPT ![w] = {row'[r].slot : r \in Rows} \ {NoKey}]
  BY DEF HandlerCommit
<1>2. UNCHANGED <<src, shop, tx, pc, serves, left, op, lock, plain, follow, jan, upsets>>
  BY DEF HandlerCommit, jobs
<1>3. /\ row' \in [Rows -> Row]
      /\ \A r \in Rows \ SettledRows(w) : row'[r] = row[r]
      /\ RowInv' /\ SlotIffPending' /\ JanInv' /\ NoLostChange'
  BY <1>1, <1>2, Flush
<1>4. /\ \A v \in Workers : v # w => batch'[v] = batch[v] /\ out'[v] = out[v] /\ snap'[v] = snap[v]
      /\ batch'[w] = batch[w] \ SettledRows(w) /\ snap'[w] = src
      /\ \A r \in Rows : out'[w][r] = IF r \in SettledRows(w) THEN "none" ELSE out[w][r]
  BY <1>1 DEF TypeOK
<1>5. \A v \in Workers : \A r \in batch'[v] : r \in Rows /\ r \in batch[v] /\ row'[r] = row[r]
  <2> SUFFICES ASSUME NEW v \in Workers, NEW r \in batch'[v]
               PROVE  r \in Rows /\ r \in batch[v] /\ row'[r] = row[r]
    OBVIOUS
  <2>1. r \in batch[v] /\ r \in Rows
    BY <1>4, Ranges
  <2>2. r \notin SettledRows(w)
    <3>1. CASE v = w
      BY <1>4, <3>1
    <3>2. CASE v # w
      BY <2>1, <3>2, DrainsApart DEF SettledRows
    <3> QED BY <3>1, <3>2
  <2> QED BY <1>3, <2>1, <2>2
<1>6. TypeOK'
  <2>1. {row'[r].slot : r \in Rows} \ {NoKey} \subseteq Keys
    BY <1>3 DEF Row
  <2>2. held' \in [Workers -> SUBSET Keys] /\ snap' \in [Workers -> [Keys -> Nat]]
    BY <1>1, <2>1 DEF TypeOK
  <2>3. batch' \in [Workers -> SUBSET Rows]
    BY <1>1 DEF TypeOK
  <2>4. out' \in [Workers -> [Rows -> Outcomes]]
    BY <1>1 DEF TypeOK, Outcomes
  <2> QED BY <1>2, <1>3, <2>2, <2>3, <2>4 DEF TypeOK
<1>7. LockInv'
  BY <1>2 DEF LockInv
<1>8. BatchInv'
  <2>1. \A v \in Workers : out'[v] = NoOut \/ pc[v] \in Readers
    BY <1>1, <1>4 DEF BatchInv, Readers
  <2>2. \A v \in Workers : batch'[v] \subseteq batch[v]
    BY <1>4
  <2> QED BY <1>2, <1>5, <2>1, <2>2 DEF BatchInv
<1>9. SlotInv'
  <2>1. \A r \in Rows : ~Requeued(w, r)'
    BY <1>4 DEF Requeued, SettledRows, Settled
  <2> QED BY <1>1, <1>2, <1>4, <2>1, FlushSlots
<1>10. SnapInv'
  <2>1. \A k \in Keys : src[k] <= src[k] /\ shop[k] <= src[k]
    BY Ranges DEF SnapInv
  <2>2. \A r \in batch'[w] : row'[r].key \in Keys /\ row'[r].asked <= src[row'[r].key]
    BY <1>5 DEF BatchInv, RowInv
  <2>3. \A v \in Workers : v # w /\ pc'[v] \in {"push", "settle"} =>
         /\ \A k \in Keys : /\ snap'[v][k] <= src'[k]
                            /\ StoreOf[k] = serves'[v] => shop'[k] <= snap'[v][k]
         /\ \A r \in batch'[v] : row'[r].asked <= snap'[v][row'[r].key]
    BY <1>2, <1>4, <1>5 DEF SnapInv
  <2>4. /\ \A k \in Keys : /\ snap'[w][k] <= src'[k]
                           /\ StoreOf[k] = serves'[w] => shop'[k] <= snap'[w][k]
        /\ \A r \in batch'[w] : row'[r].asked <= snap'[w][row'[r].key]
    BY <1>2, <1>4, <2>1, <2>2
  <2> QED BY <1>2, <2>1, <2>3, <2>4 DEF SnapInv
<1>11. OutInv'
  BY <1>2, <1>4, <1>5 DEF OutInv
<1> QED BY <1>3, <1>6, <1>7, <1>8, <1>9, <1>10, <1>11

\* The drain's final commit keeps the invariant.
LEMMA CommitStep ==
  ASSUME IInv, NEW w \in Workers, Commit(w)
  PROVE  IInv'
<1> USE DEF IInv
<1>1. /\ pc[w] = "commit"
      /\ row' = [r \in Rows |-> IF r \in SettledRows(w) THEN Outcome(w, r) ELSE row[r]]
      /\ CloseTx(w)
      /\ pc' = [pc EXCEPT ![w] = "release"]
  BY DEF Commit
<1>2. UNCHANGED <<src, shop, tx, serves, lock, plain, follow, jan, upsets>>
  BY DEF Commit, jobs
<1>3. /\ row' \in [Rows -> Row]
      /\ \A r \in Rows \ SettledRows(w) : row'[r] = row[r]
      /\ RowInv' /\ SlotIffPending' /\ JanInv' /\ NoLostChange'
  BY <1>1, <1>2, Flush
<1>4. /\ \A v \in Workers : v # w => /\ batch'[v] = batch[v] /\ out'[v] = out[v]
                                     /\ snap'[v] = snap[v] /\ pc'[v] = pc[v]
      /\ batch'[w] = {} /\ out'[w] = NoOut /\ pc'[w] = "release"
  BY <1>1 DEF TypeOK, CloseTx
<1>5. \A v \in Workers : \A r \in batch'[v] : v # w /\ r \in Rows /\ row'[r] = row[r]
  <2> SUFFICES ASSUME NEW v \in Workers, NEW r \in batch'[v]
               PROVE  v # w /\ r \in Rows /\ row'[r] = row[r]
    OBVIOUS
  <2>1. v # w /\ r \in batch[v] /\ r \in Rows
    BY <1>4, Ranges
  <2>2. r \notin SettledRows(w)
    BY <2>1, DrainsApart DEF SettledRows
  <2> QED BY <1>3, <2>1, <2>2
<1>6. TypeOK'
  <2>1. /\ batch' \in [Workers -> SUBSET Rows] /\ left' \in [Workers -> SUBSET Ops]
        /\ op' \in [Workers -> Ops \cup {NoOp}] /\ snap' \in [Workers -> [Keys -> Nat]]
        /\ held' \in [Workers -> SUBSET Keys] /\ out' \in [Workers -> [Rows -> Outcomes]]
    BY <1>1 DEF TypeOK, CloseTx, NoOut, Outcomes
  <2>2. pc' \in [Workers -> PCs]
    BY <1>1 DEF TypeOK, PCs, Holders
  <2> QED BY <1>2, <1>3, <2>1, <2>2 DEF TypeOK
<1>7. LockInv'
  BY <1>1, <1>2, <1>4 DEF LockInv, Holders, Claimers
<1>8. BatchInv'
  BY <1>2, <1>4, <1>5 DEF BatchInv
<1>9. SlotInv'
  <2>1. \A r \in Rows : ~Requeued(w, r)'
    BY <1>4 DEF Requeued
  <2> QED BY <1>1, <1>2, <1>4, <2>1, FlushSlots
<1>10. SnapInv'
  BY <1>2, <1>4, <1>5 DEF SnapInv
<1>11. OutInv'
  BY <1>2, <1>4, <1>5 DEF OutInv
<1> QED BY <1>3, <1>6, <1>7, <1>8, <1>9, <1>10, <1>11

\* A handler's push keeps the invariant, and no key of the shop goes back.
LEMMA PushStep ==
  ASSUME IInv, NEW w \in Workers, NEW G, NEW verdict, NEW applied, Push(w, G, verdict, applied)
  PROVE  IInv' /\ \A k \in Keys : shop[k] <= shop'[k]
<1> USE DEF IInv
<1>1. /\ pc[w] = "push"
      /\ G \subseteq Unpushed(w)
      /\ verdict \in [G -> {"ok", "retry", "fatal"}]
      /\ applied \subseteq G
      /\ \A r \in G : verdict[r] = "ok" => r \in applied
      /\ shop' = [k \in Keys |-> IF \E r \in applied : row[r].key = k
                                 THEN snap[w][k] ELSE shop[k]]
      /\ out' = [out EXCEPT ![w] = [r \in Rows |-> IF r \in G THEN verdict[r] ELSE @[r]]]
      /\ pc' = [pc EXCEPT ![w] = "settle"] \/ pc' = pc
  <2>1. pc' = [pc EXCEPT ![w] = IF G = Unpushed(w) THEN "settle" ELSE "push"] /\ pc[w] = "push"
    BY DEF Push
  <2>2. pc' = [pc EXCEPT ![w] = "settle"] \/ pc' = pc
    <3>1. pc \in [Workers -> PCs]
      BY DEF TypeOK
    <3> QED BY <2>1, <3>1
  <2> QED BY <2>2 DEF Push
<1>2. UNCHANGED <<src, row, tx, serves, batch, left, op, snap, held, lock, plain, follow, jan, upsets>>
  BY DEF Push, jobs
<1>3. G \subseteq batch[w] /\ G \subseteq Rows
  BY <1>1, Ranges DEF Group, Unpushed
<1>4. \A r \in applied : /\ r \in batch[w] /\ row[r].key \in Keys
                         /\ StoreOf[row[r].key] = serves[w]
                         /\ shop'[row[r].key] = snap[w][row[r].key]
                         /\ row[r].asked <= shop'[row[r].key]
  <2>1. \A r \in applied : r \in batch[w] /\ row[r].key \in Keys /\ StoreOf[row[r].key] = serves[w]
    BY <1>1, <1>3 DEF BatchInv, RowInv
  <2>2. \A r \in applied : shop'[row[r].key] = snap[w][row[r].key]
    BY <1>1, <2>1
  <2> QED BY <1>1, <2>1, <2>2 DEF SnapInv
<1>5. \A k \in Keys : \/ shop'[k] = shop[k]
                      \/ StoreOf[k] = serves[w] /\ shop'[k] = snap[w][k]
  BY <1>1, <1>4
<1>6. \A k \in Keys : /\ shop[k] <= shop'[k] /\ shop'[k] <= src[k]
                      /\ shop'[k] \in Nat /\ shop[k] \in Nat /\ src[k] \in Nat
  BY <1>1, <1>5, Ranges DEF SnapInv
<1>7. /\ \A v \in Workers : v # w => pc'[v] = pc[v] /\ out'[v] = out[v]
      /\ pc'[w] \in {"push", "settle"}
      /\ \A r \in Rows : out'[w][r] = IF r \in G THEN verdict[r] ELSE out[w][r]
  BY <1>1 DEF TypeOK
<1>8. TypeOK'
  <2>1. shop' \in [Keys -> Nat]
    BY <1>1, <1>6
  <2>2. out' \in [Workers -> [Rows -> Outcomes]]
    BY <1>1 DEF TypeOK, Outcomes
  <2>3. pc' \in [Workers -> PCs]
    <3>1. pc \in [Workers -> PCs] /\ "settle" \in PCs
      BY DEF TypeOK, PCs, Holders, Claimers
    <3> QED BY <1>1, <3>1
  <2> QED BY <1>2, <2>1, <2>2, <2>3 DEF TypeOK
<1>9. LockInv'
  BY <1>1, <1>2, <1>7 DEF LockInv, Holders, Claimers
<1>10. RowInv' /\ SlotIffPending'
  BY <1>2 DEF RowInv, SlotIffPending
<1>11. BatchInv'
  BY <1>1, <1>2, <1>7 DEF BatchInv, Claimers, Readers
<1>12. SlotInv'
  <2>1. \A v \in Workers, r \in Rows : Requeued(v, r)' => Requeued(v, r)
    BY <1>1, <1>2, <1>7 DEF Requeued
  <2> QED BY <1>2, <2>1 DEF SlotInv, Queued, Inserting
<1>13. SnapInv'
  <2>1. \A v \in Workers : v # w /\ pc[v] \in {"push", "settle"} => serves[v] # serves[w]
    BY <1>1 DEF LockInv, Holders, Claimers
  <2>2. \A v \in Workers, k \in Keys :
          pc'[v] \in {"push", "settle"} /\ StoreOf[k] = serves[v] => shop'[k] <= snap[v][k]
    <3>1. \A k \in Keys : StoreOf[k] = serves[w] => shop'[k] <= snap[w][k]
      BY <1>1, <1>5, <1>6, Ranges DEF SnapInv
    <3>2. \A v \in Workers : v # w /\ pc[v] \in {"push", "settle"} =>
            \A k \in Keys : StoreOf[k] = serves[v] => shop'[k] <= snap[v][k]
      BY <1>5, <2>1 DEF SnapInv
    <3> QED BY <1>7, <3>1, <3>2
  <2>3. \A v \in Workers : pc'[v] \in {"push", "settle"} => pc[v] \in {"push", "settle"}
    BY <1>1, <1>7
  <2> QED BY <1>2, <1>6, <2>2, <2>3 DEF SnapInv
<1>14. OutInv'
  <2> SUFFICES ASSUME NEW v \in Workers, NEW r \in batch[v], out'[v][r] \in {"ok", "done"}
               PROVE  row[r].asked <= shop'[row[r].key]
    BY <1>2 DEF OutInv
  <2>1. CASE v = w /\ r \in G
    BY <1>1, <1>3, <1>4, <1>7, <2>1
  <2>2. CASE ~(v = w /\ r \in G)
    <3>1. row[r].asked <= shop[row[r].key]
      BY <1>7, <2>2, Ranges DEF OutInv
    <3>2. row[r].key \in Keys /\ row[r].asked \in Nat
      BY Ranges DEF BatchInv, RowInv
    <3> QED BY <1>6, <3>1, <3>2
  <2> QED BY <2>1, <2>2
<1>15. JanInv'
  <2>1. \A r \in jan.stale : row[r].asked <= shop[row[r].key] => row[r].asked <= shop'[row[r].key]
    BY <1>6, Ranges DEF JanInv, RowInv
  <2> QED BY <1>2, <2>1 DEF JanInv, Covers
<1>16. NoLostChange'
  BY <1>2, <1>6 DEF NoLostChange, Carries
<1> QED BY <1>6, <1>8, <1>9, <1>10, <1>11, <1>12, <1>13, <1>14, <1>15, <1>16

\* Judging a group's rows writes back only slots that are free.
LEMMA SettleStep ==
  ASSUME IInv, NEW w \in Workers, Settle(w)
  PROVE  IInv'
<1> USE DEF IInv
<1>1. /\ pc[w] = "settle"
      /\ \A r \in Retries(w) : row[r].key \notin Slots /\ ~Inserting(row[r].key)
      /\ out' = [out EXCEPT ![w] = [r \in Rows |-> IF r \in Group(w) THEN Verdict(w, r) ELSE @[r]]]
  BY DEF Settle
<1>2. /\ UNCHANGED <<src, shop, row, tx, serves, batch, snap, held, lock, plain, follow, jan, upsets>>
      /\ \/ pc' = [pc EXCEPT ![w] = "commit"] /\ UNCHANGED <<left, op>>
         \/ /\ pc' = [pc EXCEPT ![w] = "push"]
            /\ left' \in [Workers -> SUBSET Ops] /\ op' \in [Workers -> Ops \cup {NoOp}]
  <2>1. CASE left[w] = {}
    BY <2>1 DEF Settle, jobs
  <2>2. CASE left[w] # {}
    <3>1. PICK o \in NextOps(w, left[w]) : /\ op' = [op EXCEPT ![w] = o]
                                           /\ left' = [left EXCEPT ![w] = @ \ {o}]
                                           /\ pc' = [pc EXCEPT ![w] = "push"]
      BY <2>2 DEF Settle
    <3>2. o \in Ops
      BY <3>1 DEF NextOps, TypeOK
    <3>3. left' \in [Workers -> SUBSET Ops] /\ op' \in [Workers -> Ops \cup {NoOp}]
      BY <3>1, <3>2 DEF TypeOK
    <3> QED BY <3>1, <3>3 DEF Settle, jobs
  <2> QED BY <2>1, <2>2
<1>3. /\ \A v \in Workers : v # w => pc'[v] = pc[v] /\ out'[v] = out[v]
      /\ pc'[w] \in {"commit", "push"}
      /\ \A r \in Rows : out'[w][r] = IF r \in Group(w) THEN Verdict(w, r) ELSE out[w][r]
  BY <1>1, <1>2 DEF TypeOK
<1>4. Group(w) \subseteq batch[w] /\ Group(w) \subseteq Rows
  BY Ranges DEF Group
<1>5. \A r \in Rows : /\ Verdict(w, r) \in {"done", "requeued", "failed"}
                      /\ Verdict(w, r) = "done" => out[w][r] = "ok"
                      /\ Verdict(w, r) = "requeued" => r \in Retries(w)
  BY DEF Verdict
<1>6. TypeOK'
  <2>1. out' \in [Workers -> [Rows -> Outcomes]]
    BY <1>1, <1>5 DEF TypeOK, Outcomes
  <2>2. pc' \in [Workers -> PCs] /\ left' \in [Workers -> SUBSET Ops]
        /\ op' \in [Workers -> Ops \cup {NoOp}]
    BY <1>2 DEF TypeOK, PCs, Holders, Claimers
  <2> QED BY <1>2, <2>1, <2>2 DEF TypeOK
<1>7. LockInv'
  BY <1>1, <1>2, <1>3 DEF LockInv, Holders, Claimers
<1>8. RowInv' /\ SlotIffPending' /\ JanInv' /\ NoLostChange'
  BY <1>2 DEF RowInv, SlotIffPending, JanInv, Covers, NoLostChange, Carries
<1>9. BatchInv'
  BY <1>1, <1>2, <1>3 DEF BatchInv, Claimers, Readers
<1>10. SlotInv'
  <2>1. \A v \in Workers, r \in Rows : Requeued(v, r)' => Requeued(v, r) \/ r \in Retries(w)
    BY <1>2, <1>3, <1>5 DEF Requeued
  <2>2. \A r \in Retries(w) : r \in Rows /\ row[r].key \in Keys
    BY <1>4 DEF Retries, BatchInv, RowInv
  <2>3. \A r \in Retries(w) : ~Queued(row[r].key) /\ ~Inserting(row[r].key)
    BY <1>1, <2>2, SlotsQueued
  <2>4. \A v \in Workers, r \in Rows : Requeued(v, r)' =>
          ~Queued(row[r].key) /\ ~Inserting(row[r].key)
    BY <2>1, <2>3 DEF SlotInv
  <2> QED BY <1>2, <2>4 DEF SlotInv, Queued, Inserting
<1>11. SnapInv'
  <2>1. \A v \in Workers : pc'[v] \in {"push", "settle"} => pc[v] \in {"push", "settle"}
    BY <1>1, <1>3
  <2> QED BY <1>2, <2>1 DEF SnapInv
<1>12. OutInv'
  BY <1>2, <1>3, <1>5, Ranges DEF OutInv
<1> QED BY <1>6, <1>7, <1>8, <1>9, <1>10, <1>11, <1>12

\* A drain that dies or rolls back leaves its rows Running, where the janitor finds them.
LEMMA AbandonStep ==
  ASSUME IInv, NEW w \in Workers, pc[w] # "idle", Abandon(w), upsets' \in Nat
  PROVE  IInv'
<1> USE DEF IInv
<1>1. /\ pc' = [pc EXCEPT ![w] = "idle"]
      /\ CloseTx(w)
      /\ lock' = [s \in Stores |-> IF lock[s] = w THEN Nobody ELSE lock[s]]
      /\ JobEnds(serves[w])
      /\ UNCHANGED <<src, shop, row, tx, serves, follow, jan>>
  BY DEF Abandon
<1>2. /\ \A v \in Workers : v # w => /\ batch'[v] = batch[v] /\ out'[v] = out[v]
                                     /\ snap'[v] = snap[v] /\ pc'[v] = pc[v]
      /\ batch'[w] = {} /\ out'[w] = NoOut /\ pc'[w] = "idle"
  BY <1>1 DEF TypeOK, CloseTx
<1>3. TypeOK'
  <2>1. /\ batch' \in [Workers -> SUBSET Rows] /\ left' \in [Workers -> SUBSET Ops]
        /\ op' \in [Workers -> Ops \cup {NoOp}] /\ snap' \in [Workers -> [Keys -> Nat]]
        /\ held' \in [Workers -> SUBSET Keys] /\ out' \in [Workers -> [Rows -> Outcomes]]
    BY <1>1 DEF TypeOK, CloseTx, NoOut, Outcomes
  <2>2. pc' \in [Workers -> PCs] /\ lock' \in [Stores -> Workers \cup {Nobody}]
    BY <1>1 DEF TypeOK, PCs
  <2>3. plain' \in [Stores -> {"none", "queued", "started"}]
    BY <1>1 DEF TypeOK, JobEnds
  <2> QED BY <1>1, <2>1, <2>2, <2>3 DEF TypeOK
<1>4. LockInv'
  <2>1. \A v \in Workers : v # w /\ pc[v] \in Holders => lock'[serves[v]] = v
    BY <1>1 DEF LockInv, TypeOK
  <2> QED BY <1>1, <1>2, <2>1 DEF LockInv, Holders, Claimers
<1>5. RowInv' /\ SlotIffPending' /\ JanInv' /\ NoLostChange'
  BY <1>1 DEF RowInv, SlotIffPending, JanInv, Covers, NoLostChange, Carries
<1>6. BatchInv'
  BY <1>1, <1>2 DEF BatchInv, Claimers, Readers
<1>7. SlotInv'
  <2>1. \A v \in Workers, r \in Rows : Requeued(v, r)' => Requeued(v, r)
    BY <1>2 DEF Requeued
  <2> QED BY <1>1, <2>1 DEF SlotInv, Queued, Inserting
<1>8. SnapInv' /\ OutInv'
  BY <1>1, <1>2 DEF SnapInv, OutInv
<1> QED BY <1>3, <1>4, <1>5, <1>6, <1>7, <1>8

\* Giving the file lock back keeps the invariant.
LEMMA ReleaseStep ==
  ASSUME IInv, NEW w \in Workers, Release(w)
  PROVE  IInv'
<1> USE DEF IInv
<1>1. /\ pc[w] = "release"
      /\ pc' = [pc EXCEPT ![w] = "after"]
      /\ lock' = [lock EXCEPT ![serves[w]] = Nobody]
      /\ UNCHANGED <<src, shop, row, tx, serves, batch, left, op, snap, held, out, plain, follow,
                     jan, upsets>>
  BY DEF Release, jobs
<1>2. /\ \A v \in Workers : v # w => pc'[v] = pc[v]
      /\ pc'[w] = "after"
  BY <1>1 DEF TypeOK
<1>3. TypeOK'
  BY <1>1 DEF TypeOK, PCs
<1>4. LockInv'
  <2>1. \A v \in Workers : v # w /\ pc[v] \in Holders => serves[v] # serves[w]
    BY <1>1 DEF LockInv, Holders
  <2> QED BY <1>1, <1>2, <2>1 DEF LockInv, TypeOK, Holders, Claimers
<1>5. RowInv' /\ SlotIffPending' /\ JanInv' /\ NoLostChange' /\ OutInv'
  BY <1>1 DEF RowInv, SlotIffPending, JanInv, Covers, NoLostChange, Carries, OutInv
<1>6. BatchInv' /\ SnapInv'
  BY <1>1, <1>2 DEF BatchInv, SnapInv, Claimers, Readers
<1>7. SlotInv'
  BY <1>1 DEF SlotInv, Queued, Inserting, Requeued
<1> QED BY <1>3, <1>4, <1>5, <1>6, <1>7

\* Asking for a follow-on drain keeps the invariant.
LEMMA FollowOnStep ==
  ASSUME IInv, NEW w \in Workers, FollowOn(w)
  PROVE  IInv'
<1> USE DEF IInv
<1>1. /\ pc[w] = "after"
      /\ pc' = [pc EXCEPT ![w] = "idle"]
      /\ UNCHANGED <<src, shop, row, tx, serves, batch, left, op, snap, held, out, lock, jan, upsets>>
  BY DEF FollowOn
<1>2. /\ \A v \in Workers : v # w => pc'[v] = pc[v]
      /\ pc'[w] = "idle"
  BY <1>1 DEF TypeOK
<1>3. TypeOK'
  <2>1. follow' \in [Stores -> Nat]
    BY DEF FollowOn, TypeOK
  <2>2. plain' \in [Stores -> {"none", "queued", "started"}]
    BY DEF FollowOn, JobEnds, TypeOK
  <2> QED BY <1>1, <2>1, <2>2 DEF TypeOK, PCs
<1>4. LockInv' /\ BatchInv' /\ SnapInv'
  BY <1>1, <1>2 DEF LockInv, BatchInv, SnapInv, Holders, Claimers, Readers
<1>5. RowInv' /\ SlotIffPending' /\ JanInv' /\ NoLostChange' /\ OutInv'
  BY <1>1 DEF RowInv, SlotIffPending, JanInv, Covers, NoLostChange, Carries, OutInv
<1>6. SlotInv'
  BY <1>1 DEF SlotInv, Queued, Inserting, Requeued
<1> QED BY <1>3, <1>4, <1>5, <1>6

-----------------------------------------------------------------------------
(* Time and the safety nets *)

\* The end of a row's backoff keeps the invariant.
LEMMA BecomeDueStep ==
  ASSUME IInv, NEW r \in Rows, BecomeDue(r)
  PROVE  IInv'
<1> USE DEF IInv
<1>1. UNCHANGED <<src, shop, tx, pc, serves, batch, left, op, snap, held, out, lock, plain, follow,
                  jan, upsets>>
  BY DEF BecomeDue, work, jobs
<1>2. row' = [row EXCEPT ![r].due = TRUE]
  BY DEF BecomeDue
<1>3. row' \in [Rows -> Row]
  <2>1. row[r] \in Row
    BY DEF TypeOK
  <2>2. [row[r] EXCEPT !.due = TRUE] \in Row
    BY <2>1 DEF Row
  <2> QED BY <1>2, <2>2 DEF TypeOK
<1>4. \A q \in Rows : /\ row'[q].key = row[q].key /\ row'[q].slot = row[q].slot
                      /\ row'[q].state = row[q].state /\ row'[q].asked = row[q].asked
                      /\ row'[q].age = row[q].age
  BY <1>2 DEF TypeOK, Row
<1>5. TypeOK' /\ LockInv'
  BY <1>1, <1>3 DEF TypeOK, LockInv
<1>6. RowInv' /\ SlotIffPending' /\ NoLostChange'
  BY <1>1, <1>4 DEF RowInv, SlotIffPending, NoLostChange, Carries
<1>7. BatchInv'
  BY <1>1, <1>4, Ranges DEF BatchInv
<1>8. SnapInv' /\ OutInv'
  BY <1>1, <1>4, Ranges DEF SnapInv, OutInv
<1>9. SlotInv'
  <2>1. \A k : (Queued(k)' <=> Queued(k)) /\ (Inserting(k)' <=> Inserting(k))
    BY <1>1, <1>4 DEF Queued, Inserting
  <2>2. \A w \in Workers, q \in Rows : Requeued(w, q)' <=> Requeued(w, q)
    BY <1>1 DEF Requeued
  <2>3. \A w \in Workers, q \in Rows : Requeued(w, q)' =>
          (~Queued(row[q].key) /\ ~Inserting(row[q].key))'
    BY <1>1, <1>4, <2>2 DEF SlotInv, Queued, Inserting
  <2> QED BY <1>1, <2>3, <1>4 DEF SlotInv, Queued
<1>10. JanInv'
  <2>1. \A p, q \in Rows : Covers(p, q)' <=> Covers(p, q)
    BY <1>4 DEF Covers
  <2> QED BY <1>1, <1>4, <2>1, Ranges DEF JanInv
<1> QED BY <1>5, <1>6, <1>7, <1>8, <1>9, <1>10

\* Time ages Running rows, and those of a live drain never reach the janitor's age.
LEMMA TickStep ==
  ASSUME IInv, Tick
  PROVE  IInv'
<1> USE DEF IInv
<1>1. UNCHANGED <<src, shop, tx, pc, serves, batch, left, op, snap, held, out, lock, plain, follow,
                  jan, upsets>>
  BY DEF Tick, work, jobs
<1>2. /\ \A w \in Workers, r \in Rows : r \in batch[w] => row[r].age < JobAge
      /\ row' = [r \in Rows |-> IF row[r].state = "Running" /\ row[r].age < StaleAge
                                THEN [row[r] EXCEPT !.age = @ + 1] ELSE row[r]]
  BY DEF Tick
<1>3. row' \in [Rows -> Row]
  <2>1. ASSUME NEW r \in Rows PROVE [row[r] EXCEPT !.age = @ + 1] \in Row
    <3>1. row[r] \in Row
      BY DEF TypeOK
    <3>2. row[r].age + 1 \in Nat
      BY Ranges
    <3> QED BY <3>1, <3>2, EditedType DEF States
  <2> QED BY <1>2, <2>1 DEF TypeOK
<1>4. \A q \in Rows : /\ row'[q].key = row[q].key /\ row'[q].slot = row[q].slot
                      /\ row'[q].state = row[q].state /\ row'[q].asked = row[q].asked
  BY <1>2 DEF TypeOK, Row
<1>5. \A q \in Rows : \/ row'[q].age = row[q].age
                      \/ row[q].age < StaleAge /\ row'[q].age = row[q].age + 1
  BY <1>2 DEF TypeOK, Row
<1>6. TypeOK' /\ LockInv'
  BY <1>1, <1>3 DEF TypeOK, LockInv
<1>7. RowInv' /\ SlotIffPending' /\ NoLostChange'
  BY <1>1, <1>4 DEF RowInv, SlotIffPending, NoLostChange, Carries
<1>8. BatchInv'
  <2>1. \A w \in Workers, r \in Rows : r \in batch[w] => row'[r].age <= JobAge
    BY <1>2, <1>5, Ranges, AgeAssumption
  <2> QED BY <1>1, <1>4, <2>1, Ranges DEF BatchInv
<1>9. SnapInv' /\ OutInv'
  BY <1>1, <1>4, Ranges DEF SnapInv, OutInv
<1>10. SlotInv'
  <2>1. \A w \in Workers, q \in Rows : Requeued(w, q)' <=> Requeued(w, q)
    BY <1>1 DEF Requeued
  <2>2. \A w \in Workers, q \in Rows : Requeued(w, q)' =>
          (~Queued(row[q].key) /\ ~Inserting(row[q].key))'
    BY <1>1, <1>4, <2>1 DEF SlotInv, Queued, Inserting
  <2> QED BY <1>1, <2>2, <1>4 DEF SlotInv, Queued
<1>11. JanInv'
  <2>1. \A p, q \in Rows : Covers(p, q)' <=> Covers(p, q)
    BY <1>4 DEF Covers
  <2>2. \A r \in jan.stale : r \in Rows /\ row'[r].age = StaleAge
    BY <1>5, Ranges, AgeAssumption DEF JanInv
  <2> QED BY <1>1, <1>4, <2>1, <2>2, Ranges DEF JanInv
<1> QED BY <1>6, <1>7, <1>8, <1>9, <1>10, <1>11

\* The janitor's listing names orphans only; what its snapshot shows queued covers them.
LEMMA JanitorListsStep ==
  ASSUME IInv, JanitorLists
  PROVE  IInv'
<1> USE DEF IInv
<1>1. UNCHANGED <<src, shop, row, tx, pc, serves, batch, left, op, snap, held, out, lock, plain,
                  follow, upsets>>
  BY DEF JanitorLists, work, jobs
<1>2. jan' = [on |-> TRUE, stale |-> StaleRows, held |-> Slots]
  BY DEF JanitorLists
<1>3. TypeOK'
  <2>1. StaleRows \subseteq Rows /\ Slots \subseteq Keys
    BY DEF StaleRows, Slots, TypeOK, Row
  <2> QED BY <1>1, <1>2, <2>1 DEF TypeOK
<1>4. LockInv' /\ RowInv' /\ SlotIffPending' /\ BatchInv' /\ SnapInv' /\ OutInv' /\ NoLostChange'
  BY <1>1 DEF LockInv, RowInv, SlotIffPending, BatchInv, SnapInv, OutInv, NoLostChange, Carries
<1>5. SlotInv'
  BY <1>1 DEF SlotInv, Queued, Inserting, Requeued
<1>6. JanInv'
  <2> SUFFICES ASSUME NEW r \in StaleRows
               PROVE  /\ row[r].state = "Running" /\ row[r].age = StaleAge
                      /\ row[r].key \in Slots => \E q \in Rows \ StaleRows : Covers(q, r)
    BY <1>1, <1>2 DEF JanInv, Covers
  <2>1. r \in Rows /\ row[r].state = "Running" /\ row[r].age = StaleAge /\ row[r].key \in Keys
    BY DEF StaleRows, RowInv
  <2>2. row[r].key \in Slots => \E q \in Rows : row[q].state = "Pending" /\ row[q].key = row[r].key
    BY <2>1, SlotsQueued DEF Queued
  <2> QED BY <2>1, <2>2 DEF StaleRows, Covers
<1> QED BY <1>3, <1>4, <1>5, <1>6

\* The janitor's pass brings back one row per key and retires only rows that others cover.
LEMMA recover_stale_runningStep ==
  ASSUME IInv, NEW R \in SUBSET Rows, recover_stale_running(R)
  PROVE  IInv'
<1> USE DEF IInv
<1>1. UNCHANGED <<src, shop, tx, pc, serves, batch, left, op, snap, held, out, lock, plain,
                  follow, upsets>>
  BY DEF recover_stale_running, work, jobs
<1>2. /\ R \subseteq {r \in jan.stale : row[r].key \notin jan.held}
      /\ \A r \in jan.stale : row[r].key \notin jan.held =>
           \E q \in R : row[q].key = row[r].key
      /\ \A r, q \in R : row[r].key = row[q].key => r = q
      /\ \A r \in R : row[r].key \notin Slots /\ ~Locked(row[r].key)
      /\ row' = [r \in Rows |->
                   CASE r \in R -> Pending(row[r].key, row[r].prio, row[r].attempts, TRUE)
                     [] r \in jan.stale \ R -> DoneRow
                     [] OTHER -> row[r]]
      /\ jan' = JanitorOff
  BY DEF recover_stale_running
<1>3. /\ R \subseteq jan.stale /\ jan.stale \subseteq Rows
      /\ \A r \in jan.stale : row[r].state = "Running" /\ row[r].key \in Keys
      /\ \A w \in Workers, r \in jan.stale : r \notin batch[w]
  <2>1. R \subseteq jan.stale /\ jan.stale \subseteq Rows
    BY <1>2, Ranges
  <2>2. \A r \in jan.stale : row[r].state = "Running" /\ row[r].key \in Keys
    BY <2>1 DEF JanInv, RowInv
  <2>3. \A w \in Workers, r \in jan.stale : r \notin batch[w]
    BY AgeAssumption DEF JanInv, BatchInv
  <2> QED BY <2>1, <2>2, <2>3
<1>4. /\ \A r \in R : row'[r] = Pending(row[r].key, row[r].prio, row[r].attempts, TRUE)
      /\ \A r \in jan.stale \ R : row'[r] = DoneRow
      /\ \A r \in Rows \ jan.stale : row'[r] = row[r]
  BY <1>2, <1>3
<1>5. /\ \A r \in R : /\ row'[r].state = "Pending" /\ row'[r].key = row[r].key
                      /\ row'[r].slot = row[r].key /\ row[r].key \in Keys
      /\ \A r \in jan.stale \ R : row'[r].state = "Done" /\ row'[r].slot = NoKey
  <2>1. ASSUME NEW r \in R
        PROVE  /\ row'[r].state = "Pending" /\ row'[r].key = row[r].key
               /\ row'[r].slot = row[r].key /\ row[r].key \in Keys
    <3>1. row'[r] = Pending(row[r].key, row[r].prio, row[r].attempts, TRUE) /\ row[r].key \in Keys
      BY <1>3, <1>4
    <3> QED BY <3>1 DEF Pending
  <2>2. ASSUME NEW r \in jan.stale \ R
        PROVE  row'[r].state = "Done" /\ row'[r].slot = NoKey
    BY <1>4 DEF DoneRow
  <2> QED BY <2>1, <2>2
<1>6. \A w \in Workers, r \in Rows : r \in batch[w] => row'[r] = row[r]
  BY <1>3, <1>4
<1>7. TypeOK'
  <2>1. row' \in [Rows -> Row]
    <3>1. \A r \in Rows : /\ row[r] \in Row
                          /\ Pending(row[r].key, row[r].prio, row[r].attempts, TRUE) \in Row
      BY PendingType DEF TypeOK, Row
    <3>2. \A r \in Rows : row'[r] \in Row
      BY <1>3, <1>4, <3>1, DoneType
    <3> QED BY <1>2, <3>2
  <2>2. jan' \in [on : BOOLEAN, stale : SUBSET Rows, held : SUBSET Keys]
    BY <1>2 DEF JanitorOff
  <2> QED BY <1>1, <2>1, <2>2 DEF TypeOK
<1>8. LockInv'
  BY <1>1 DEF LockInv
<1>9. RowInv'
  BY <1>1, <1>4, <1>5 DEF RowInv
<1>10. SlotIffPending'
  <2>1. \A r \in Rows \ jan.stale : \A q \in R : row[r].slot # row[q].key
    <3> SUFFICES ASSUME NEW r \in Rows, NEW k \in Keys, k \notin Slots PROVE row[r].slot # k
      BY <1>2, <1>5
    <3> QED BY NullsAssumption DEF Slots
  <2>2. \A r \in Rows : row'[r].slot = IF row'[r].state = "Pending" THEN row'[r].key ELSE NoKey
    BY <1>4, <1>5 DEF SlotIffPending
  <2>3. \A r, q \in Rows : r # q /\ row'[r].slot # NoKey => row'[r].slot # row'[q].slot
    <3> SUFFICES ASSUME NEW r \in Rows, NEW q \in Rows, r # q, row'[r].slot # NoKey
                 PROVE  row'[r].slot # row'[q].slot
      OBVIOUS
    <3>1. r \in R \/ r \in Rows \ jan.stale
      BY <1>5
    <3>2. CASE q \in R
      <4>1. row'[q].slot = row[q].key
        BY <1>5, <3>2
      <4>2. CASE r \in R
        <5>1. row'[r].slot = row[r].key /\ row[r].key # row[q].key
          BY <1>2, <1>5, <3>2, <4>2
        <5> QED BY <4>1, <5>1
      <4>3. CASE r \in Rows \ jan.stale
        BY <1>4, <2>1, <3>2, <4>1, <4>3
      <4> QED BY <3>1, <4>2, <4>3
    <3>3. CASE q \in jan.stale \ R
      BY <1>5, <3>3
    <3>4. CASE q \in Rows \ jan.stale
      BY <1>4, <1>5, <2>1, <3>1, <3>4 DEF SlotIffPending
    <3> QED BY <3>2, <3>3, <3>4
  <2> QED BY <2>2, <2>3 DEF SlotIffPending
<1>11. BatchInv'
  BY <1>1, <1>6, Ranges DEF BatchInv
<1>12. SlotInv'
  <2>1. \A k : Queued(k)' => Queued(k) \/ \E r \in R : row[r].key = k
    BY <1>4, <1>5 DEF Queued
  <2>2. \A k : Queued(k) => Queued(k)'
    BY <1>3, <1>4 DEF Queued
  <2>3. \A k : Inserting(k)' <=> Inserting(k)
    BY <1>1 DEF Inserting
  <2>4. \A t \in Savers : tx[t].fate = "inserted" => \A r \in R : row[r].key # tx[t].key
    BY <1>2 DEF Locked, Inserting
  <2>5. \A w \in Workers, q \in Rows : Requeued(w, q) => \A r \in R : row[r].key # row[q].key
    BY <1>2 DEF Locked, Requeueing
  <2>6. \A w \in Workers, q \in Rows : Requeued(w, q)' => Requeued(w, q) /\ row'[q] = row[q]
    BY <1>1, <1>6 DEF Requeued
  <2>7. \A w \in Workers, q \in Rows : Requeued(w, q)' =>
          ~Queued(row[q].key)' /\ ~Inserting(row[q].key)' /\ row'[q] = row[q]
    BY <2>1, <2>3, <2>5, <2>6 DEF SlotInv
  <2>8. \A w \in Workers, q \in Rows : Requeued(w, q)' =>
          (~Queued(row[q].key) /\ ~Inserting(row[q].key))'
    BY <2>7 DEF Queued, Inserting
  <2>9. \A t \in Savers : /\ tx[t].fate = "coalesced" => Queued(tx[t].key)'
                          /\ tx[t].fate = "inserted" => ~Queued(tx[t].key)'
    <3>1. \A t \in Savers : tx[t].fate = "coalesced" => Queued(tx[t].key)
      BY DEF SlotInv
    <3>2. \A t \in Savers : tx[t].fate = "inserted" => ~Queued(tx[t].key)
      BY DEF SlotInv
    <3> QED BY <1>1, <2>1, <2>2, <2>4, <3>1, <3>2
  <2> QED BY <1>1, <2>8, <2>9 DEF SlotInv, Queued
<1>13. SnapInv' /\ OutInv'
  BY <1>1, <1>6, Ranges DEF SnapInv, OutInv
<1>14. JanInv'
  BY <1>2 DEF JanInv, JanitorOff
<1>15. NoLostChange'
  <2> SUFFICES ASSUME NEW k \in Keys, shop[k] # src[k]
               PROVE  \E r \in Rows : Carries(r, k)'
    BY <1>1 DEF NoLostChange
  <2>1. PICK r \in Rows : Carries(r, k)
    BY DEF NoLostChange
  <2>2. \A q \in Rows \ jan.stale : Carries(q, k) => Carries(q, k)'
    BY <1>1, <1>4 DEF Carries
  <2>3. \A q \in R : row[q].key = k => Carries(q, k)'
    BY <1>5 DEF Carries
  <2>4. CASE r \notin jan.stale
    BY <2>1, <2>2, <2>4
  <2>5. CASE r \in jan.stale /\ k \notin jan.held
    <3>1. row[r].key = k
      BY <2>1 DEF Carries
    <3>2. PICK q \in R : row[q].key = k
      BY <1>2, <2>5, <3>1
    <3> QED BY <2>3, <3>2
  <2>6. CASE r \in jan.stale /\ k \in jan.held
    <3>1. row[r].key = k /\ row[r].asked = src[k]
      BY <1>3, <2>1, <2>6 DEF Carries
    <3>2. shop[k] <= src[k] /\ shop[k] \in Nat /\ src[k] \in Nat
      BY Ranges DEF SnapInv
    <3>3. PICK q \in Rows \ jan.stale : Covers(q, r)
      BY <2>6, <3>1, <3>2 DEF JanInv
    <3>4. Carries(q, k)
      BY <3>1, <3>2, <3>3, Ranges DEF Covers, Carries, RowInv
    <3> QED BY <2>2, <3>4
  <2> QED BY <2>4, <2>5, <2>6
<1> QED BY <1>7, <1>8, <1>9, <1>10, <1>11, <1>12, <1>13, <1>14, <1>15

\* A janitor's pass that meets a taken slot changes nothing.
LEMMA JanitorCollidesStep ==
  ASSUME IInv, JanitorCollides
  PROVE  IInv'
<1> USE DEF IInv
<1>1. /\ UNCHANGED <<src, shop, row, tx, pc, serves, batch, left, op, snap, held, out, lock, plain,
                     follow, upsets>>
      /\ jan' = [on |-> FALSE, stale |-> {}, held |-> {}]
  BY DEF JanitorCollides, JanitorOff, work, jobs
<1>2. TypeOK' /\ LockInv' /\ RowInv' /\ SlotIffPending' /\ BatchInv'
  BY <1>1 DEF TypeOK, LockInv, RowInv, SlotIffPending, BatchInv
<1>3. SnapInv' /\ OutInv' /\ JanInv' /\ NoLostChange'
  BY <1>1 DEF SnapInv, OutInv, JanInv, NoLostChange, Carries
<1>4. SlotInv'
  BY <1>1 DEF SlotInv, Queued, Inserting, Requeued
<1> QED BY <1>2, <1>3, <1>4

\* The scheduler's sweep only queues jobs.
LEMMA drain_all_storesStep ==
  ASSUME IInv, NEW s \in Stores, drain_all_stores(s)
  PROVE  IInv'
<1> USE DEF IInv
<1>1. /\ UNCHANGED <<src, shop, row, tx, pc, serves, batch, left, op, snap, held, out, lock,
                     follow, jan, upsets>>
      /\ plain' = [plain EXCEPT ![s] = IF @ = "none" THEN "queued" ELSE @]
  BY DEF drain_all_stores, schedule_drain, work
<1>2. TypeOK' /\ LockInv' /\ RowInv' /\ SlotIffPending' /\ BatchInv'
  BY <1>1 DEF TypeOK, LockInv, RowInv, SlotIffPending, BatchInv
<1>3. SnapInv' /\ OutInv' /\ JanInv' /\ NoLostChange'
  BY <1>1 DEF SnapInv, OutInv, JanInv, Covers, NoLostChange, Carries
<1>4. SlotInv'
  BY <1>1 DEF SlotInv, Queued, Inserting, Requeued
<1> QED BY <1>2, <1>3, <1>4

\* An operator's retry puts a row back only when its key's slot is free.
LEMMA requeueStep ==
  ASSUME IInv, NEW r \in Rows, requeue(r)
  PROVE  IInv'
<1> USE DEF IInv
<1>1. /\ row[r].state \in {"Failed", "Superseded"}
      /\ upsets' = upsets + 1
      /\ ~Locked(row[r].key)
      /\ UNCHANGED <<src, shop, tx, pc, serves, batch, left, op, snap, held, out, lock, follow, jan>>
  BY DEF requeue, work
<1>2. PICK k \in Keys : k = row[r].key
  BY <1>1 DEF RowInv
<1>3. \/ /\ k \in Slots
         /\ row' = [row EXCEPT ![r].state = "Superseded"]
         /\ UNCHANGED plain
      \/ /\ k \notin Slots
         /\ row' = [row EXCEPT ![r] = Pending(k, row[r].prio, 0, TRUE)]
         /\ plain' = [plain EXCEPT ![StoreOf[k]] = IF @ = "none" THEN "queued" ELSE @]
  BY <1>2 DEF requeue, schedule_drain
<1>4. /\ \A q \in Rows : q # r => row'[q] = row[q]
      /\ row'[r].key = k
      /\ \/ k \in Slots /\ row'[r].state = "Superseded" /\ row'[r].slot = NoKey
         \/ k \notin Slots /\ row'[r].state = "Pending" /\ row'[r].slot = k
  <2>1. CASE k \in Slots
    <3>1. row[r] \in Row /\ row[r].slot = NoKey
      BY <1>1 DEF TypeOK, SlotIffPending
    <3>2. row' = [row EXCEPT ![r].state = "Superseded"]
      BY <1>3, <2>1
    <3>3. row'[r] = [row[r] EXCEPT !.state = "Superseded"]
      BY <3>2 DEF TypeOK
    <3>4. row'[r].state = "Superseded" /\ row'[r].slot = row[r].slot /\ row'[r].key = row[r].key
      BY <3>1, <3>3 DEF Row
    <3> QED BY <1>2, <2>1, <3>1, <3>2, <3>4
  <2>2. CASE k \notin Slots
    BY <1>3, <2>2 DEF TypeOK, Pending
  <2> QED BY <2>1, <2>2
<1>5. /\ \A w \in Workers : batch[w] \subseteq Rows /\ r \notin batch[w]
      /\ jan.stale \subseteq Rows /\ r \notin jan.stale
  BY <1>1, Ranges DEF BatchInv, JanInv
<1>6. TypeOK'
  <2>1. row' \in [Rows -> Row]
    <3>1. [row[r] EXCEPT !.state = "Superseded"] \in Row
      BY EditedType DEF TypeOK, States
    <3>2. Pending(k, row[r].prio, 0, TRUE) \in Row
      BY PendingType DEF TypeOK, Row
    <3> QED BY <1>3, <3>1, <3>2 DEF TypeOK
  <2>2. plain' \in [Stores -> {"none", "queued", "started"}]
    BY <1>3 DEF TypeOK
  <2> QED BY <1>1, <2>1, <2>2 DEF TypeOK
<1>7. LockInv' /\ RowInv'
  BY <1>1, <1>4 DEF LockInv, RowInv
<1>8. SlotIffPending'
  BY <1>4, NullsAssumption DEF SlotIffPending, Slots
<1>9. BatchInv'
  BY <1>1, <1>4, <1>5 DEF BatchInv
<1>10. SnapInv' /\ OutInv'
  BY <1>1, <1>4, <1>5 DEF SnapInv, OutInv
<1>11. SlotInv'
  <2>1. \A kk : Queued(kk)' => Queued(kk) \/ kk = k
    BY <1>4 DEF Queued
  <2>2. \A kk : Queued(kk) => Queued(kk)'
    BY <1>1, <1>4 DEF Queued
  <2>3. ~Inserting(k) /\ ~Requeueing(k)
    BY <1>1, <1>2 DEF Locked
  <2>4. \A w \in Workers, q \in Rows : Requeued(w, q)' =>
          Requeued(w, q) /\ row'[q] = row[q] /\ row[q].key # k
    BY <1>1, <1>4, <1>5, <2>3 DEF Requeued, Requeueing
  <2>5. \A w \in Workers, q \in Rows : Requeued(w, q)' =>
          ~Queued(row[q].key)' /\ ~Inserting(row[q].key) /\ row'[q] = row[q]
    BY <2>1, <2>4 DEF SlotInv
  <2>6. \A w \in Workers, q \in Rows : Requeued(w, q)' =>
          (~Queued(row[q].key) /\ ~Inserting(row[q].key))'
    BY <1>1, <2>5 DEF Queued, Inserting
  <2>7. \A t \in Savers : /\ tx[t].fate = "coalesced" => Queued(tx[t].key)'
                          /\ tx[t].fate = "inserted" => ~Queued(tx[t].key)'
    <3>1. \A t \in Savers : tx[t].fate = "coalesced" => Queued(tx[t].key)
      BY DEF SlotInv
    <3>2. \A t \in Savers : tx[t].fate = "inserted" => ~Queued(tx[t].key) /\ tx[t].key # k
      BY <2>3 DEF SlotInv, Inserting
    <3> QED BY <1>1, <2>1, <2>2, <3>1, <3>2
  <2> QED BY <1>1, <2>6, <2>7 DEF SlotInv, Queued
<1>12. k \in Slots => \E q \in Rows \ jan.stale : /\ q # r /\ row[q].key = k
                                                  /\ row[q].state = "Pending"
  BY <1>1, SlotsQueued DEF Queued, JanInv
<1>13. JanInv'
  <2> SUFFICES ASSUME NEW s \in jan.stale, row[s].key \in jan.held,
                      ~(row[s].asked <= shop[row[s].key])
               PROVE  \E q \in Rows \ jan.stale : Covers(q, s)'
    BY <1>1, <1>4, <1>5 DEF JanInv
  <2>1. PICK q \in Rows \ jan.stale : Covers(q, s)
    BY DEF JanInv
  <2>2. row'[s] = row[s]
    BY <1>4, <1>5
  <2>3. CASE q # r
    BY <1>4, <2>1, <2>2, <2>3 DEF Covers
  <2>4. CASE q = r /\ k \notin Slots
    BY <1>4, <1>2, <2>1, <2>2, <2>4 DEF Covers
  <2>5. CASE q = r /\ k \in Slots
    BY <1>4, <1>2, <1>12, <2>1, <2>2, <2>5 DEF Covers
  <2> QED BY <2>3, <2>4, <2>5
<1>14. NoLostChange'
  <2>1. \A q \in Rows, kk \in Keys : q # r /\ Carries(q, kk) => Carries(q, kk)'
    BY <1>1, <1>4 DEF Carries
  <2>2. \A kk \in Keys : Carries(r, kk) => \E q \in Rows : Carries(q, kk)'
    <3> SUFFICES ASSUME Carries(r, k) PROVE \E q \in Rows : Carries(q, k)'
      BY <1>2 DEF Carries
    <3>1. CASE k \in Slots
      BY <1>4, <1>12, <3>1 DEF Carries
    <3>2. CASE k \notin Slots
      BY <1>4, <3>2 DEF Carries
    <3> QED BY <3>1, <3>2
  <2> QED BY <1>1, <2>1, <2>2 DEF NoLostChange
<1> QED BY <1>6, <1>7, <1>8, <1>9, <1>10, <1>11, <1>13, <1>14

-----------------------------------------------------------------------------
(* The theorems *)

\* A step that changes none of the variables keeps the invariant.
LEMMA StutterStep ==
  ASSUME IInv, UNCHANGED vars
  PROVE  IInv'
<1> USE DEF IInv
<1>1. UNCHANGED <<src, shop, row, tx, pc, serves, batch, left, op, snap, held, out, lock, plain,
                  follow, jan, upsets>>
  BY DEF vars, work, jobs
<1>2. TypeOK' /\ LockInv' /\ RowInv' /\ SlotIffPending' /\ BatchInv'
  BY <1>1 DEF TypeOK, LockInv, RowInv, SlotIffPending, BatchInv
<1>3. SnapInv' /\ OutInv' /\ JanInv' /\ NoLostChange'
  BY <1>1 DEF SnapInv, OutInv, JanInv, Covers, NoLostChange, Carries
<1>4. SlotInv'
  BY <1>1 DEF SlotInv, Queued, Inserting, Requeued
<1> QED BY <1>2, <1>3, <1>4

\* Every step of the queue keeps the invariant.
LEMMA NextIInv == IInv /\ [Next]_vars => IInv'
<1> SUFFICES ASSUME IInv, [Next]_vars PROVE IInv'
  OBVIOUS
<1>1. ASSUME NEW t \in Savers, Saving(t) PROVE IInv'
  BY <1>1, enqueue_syncStep, CommitInsertStep, CommitCoalescedStep, RollbackStep DEF Saving
<1>2. ASSUME NEW w \in Workers, TakesJob(w) PROVE IInv'
  BY <1>2, drain_storeStep DEF TakesJob
<1>3. ASSUME NEW w \in Workers, Draining(w) PROVE IInv'
  <2>1. SettleKeyError(w) \/ SettleCollides(w) => IInv'
    <3> SUFFICES ASSUME SettleKeyError(w) \/ SettleCollides(w) PROVE IInv'
      OBVIOUS
    <3>1. pc[w] # "idle" /\ Abandon(w) /\ upsets' = upsets
      BY DEF SettleKeyError, SettleCollides
    <3>2. upsets' \in Nat
      BY <3>1 DEF IInv, TypeOK
    <3> QED BY <3>1, <3>2, AbandonStep
  <2>2. ASSUME NEW G, NEW verdict, NEW applied, Push(w, G, verdict, applied) PROVE IInv'
    BY <2>2, PushStep
  <2>3. ASSUME NEW o \in Ops, OpenSnapshot(w, o) PROVE IInv'
    BY <2>3, OpenSnapshotStep
  <2> QED BY <1>3, <2>1, <2>2, <2>3, claim_rowsStep, SettleStep, CommitStep,
             ReleaseStep, FollowOnStep DEF Draining
<1>4. ASSUME NEW w \in Workers, HandlerCommit(w) PROVE IInv'
  BY <1>4, HandlerCommitStep
<1>5. ASSUME NEW w \in Workers, Crash(w) PROVE IInv'
  <2>1. pc[w] # "idle" /\ Abandon(w) /\ upsets' = upsets + 1
    BY <1>5 DEF Crash
  <2>2. upsets' \in Nat
    BY <2>1 DEF IInv, TypeOK
  <2> QED BY <2>1, <2>2, AbandonStep
<1>6. ASSUME NEW r \in Rows, BecomeDue(r) \/ requeue(r) PROVE IInv'
  BY <1>6, BecomeDueStep, requeueStep
<1>7. CASE Janitor
  BY <1>7, JanitorListsStep, recover_stale_runningStep, JanitorCollidesStep DEF Janitor
<1>8. ASSUME NEW s \in Stores, drain_all_stores(s) PROVE IInv'
  BY <1>8, drain_all_storesStep
<1> QED BY <1>1, <1>2, <1>3, <1>4, <1>5, <1>6, <1>7, <1>8, TickStep, StutterStep DEF Next

(* The invariant that every other result rests on: no step of a save, a worker, *)
(* the janitor, the scheduler, the operator or a kill leaves it.                *)
THEOREM InductiveInvariant == Spec => []IInv
<1>1. Init => IInv
  BY InitIInv
<1>2. IInv /\ [Next]_vars => IInv'
  BY NextIInv
<1> QED BY <1>1, <1>2, PTL DEF Spec

(* Every variable keeps its type, for any number of stores, rows and workers. *)
THEOREM TypeCorrect == Spec => []TypeOK
<1>1. IInv => TypeOK
  BY DEF IInv
<1> QED BY <1>1, InductiveInvariant, PTL

(* pending_dedupe_key mirrors Pending and is unique: at most one queued row per *)
(* key, whichever path of engine.py or of the doctype wrote the row.            *)
THEOREM OneQueuedRowPerKey == Spec => []SlotIffPending
<1>1. IInv => SlotIffPending
  BY DEF IInv
<1> QED BY <1>1, InductiveInvariant, PTL

(* A committed change the shop does not show is carried by a row that is queued, *)
(* running or parked Failed: enqueue_sync's coalescing, the drain's errors, the  *)
(* janitor's retiring and the operator's retry lose none.                        *)
THEOREM NothingLost == Spec => []NoLostChange
<1>1. IInv => NoLostChange
  BY DEF IInv
<1> QED BY <1>1, InductiveInvariant, PTL

\* No step takes a key of the shop back to an older version.
LEMMA PushStepsUp ==
  ASSUME IInv, [Next]_vars, NEW k \in Keys
  PROVE  shop[k] <= shop'[k]
<1>1. shop[k] <= shop[k]
  BY Ranges DEF IInv
<1>2. ASSUME NEW w \in Workers, NEW G, NEW verdict, NEW applied, Push(w, G, verdict, applied)
      PROVE  shop[k] <= shop'[k]
  BY <1>2, PushStep
<1>3. ASSUME NEW w \in Workers, Draining(w) PROVE shop[k] <= shop'[k]
  <2>1. CASE \E G, verdict, applied : Push(w, G, verdict, applied)
    BY <1>2, <2>1
  <2>2. CASE ~\E G, verdict, applied : Push(w, G, verdict, applied)
    <3>1. UNCHANGED shop
      BY <1>3, <2>2 DEF Draining, claim_rows, OpenSnapshot, Settle, SettleKeyError,
         SettleCollides, Abandon, Commit, Release, FollowOn
    <3> QED BY <1>1, <3>1
  <2> QED BY <2>1, <2>2
<1>4. CASE \A w \in Workers : ~Draining(w)
  <2>1. UNCHANGED shop
    BY <1>4 DEF Next, vars, Saving, enqueue_sync, CommitInsert, CommitCoalesced, Rollback,
       TakesJob, drain_store, HandlerCommit, Crash, Abandon, BecomeDue, requeue, Tick, Janitor,
       JanitorLists, recover_stale_running, JanitorCollides, drain_all_stores
  <2> QED BY <1>1, <2>1
<1> QED BY <1>3, <1>4

(* No push replaces a newer state of the shop by an older one: a drain pushes  *)
(* what its snapshot held, and the store's file lock keeps the drains of one   *)
(* store apart.                                                                *)
THEOREM NeverGoesBack == Spec => ShopNeverGoesBack
<1>1. IInv /\ [Next]_vars => [\A k \in Keys : shop[k] <= shop'[k]]_vars
  BY PushStepsUp
<1> QED BY <1>1, InductiveInvariant, PTL DEF Spec, ShopNeverGoesBack

-----------------------------------------------------------------------------
(* SyncQueue implements the safety of Outbox *)

\* An empty queue maps to the first state of Outbox.
LEMMA InitPromise == Init => Promise!Init
  BY DEF Init, Promise!Init, parked

\* A save that commits its row is a Change of Outbox, or a Turn when nothing changed.
LEMMA ChangeAfterInsert ==
  ASSUME IInv, NEW t \in Savers, NEW r \in Rows, NEW changes, NEW lost,
         CommitInsert(t, r, changes, lost)
  PROVE  Promise!Turn \/ \E k \in Keys : Promise!Change(k)
<1> USE DEF IInv
<1>1. PICK k \in Keys : k = tx[t].key
  BY DEF CommitInsert, SlotInv
<1>0. CASE ~changes
  <2>1. UNCHANGED <<src, shop>>
    BY <1>0 DEF CommitInsert
  <2> QED BY <2>1 DEF Promise!Turn, parked
<1> SUFFICES ASSUME changes PROVE \E kk \in Keys : Promise!Change(kk)
  BY <1>0
<1>2. /\ row[r].state = "Done"
      /\ src' = [src EXCEPT ![k] = @ + 1]
      /\ \E p \in Priorities[OpOf[k]] : row' = [row EXCEPT ![r] = Pending(k, p, 0, TRUE)]
      /\ UNCHANGED shop
  BY <1>1 DEF CommitInsert
<1>3. /\ \A q \in Rows : q # r => row'[q] = row[q]
      /\ row'[r].key = k /\ row'[r].state = "Pending"
  BY <1>2 DEF TypeOK, Pending
<1>4. \A kk \in Keys : kk # k => src'[kk] = src[kk]
  BY <1>2 DEF TypeOK
<1>5. k \notin parked'
  BY <1>3 DEF parked, Carries
<1>6. ASSUME NEW kk \in Keys, kk # k PROVE kk \in parked' <=> kk \in parked
  <2>1. \A q \in Rows : /\ Carries(q, kk)' <=> Carries(q, kk)
                        /\ Carries(q, kk) => row'[q] = row[q]
    BY <1>2, <1>3, <1>4, <1>6 DEF Carries
  <2> QED BY <1>2, <1>4, <1>6, <2>1 DEF parked
<1>7. parked' = parked \ {k}
  BY <1>5, <1>6 DEF parked
<1> QED BY <1>2, <1>7 DEF Promise!Change

\* A save that coalesced commits as a Change of Outbox.
LEMMA ChangeAfterCoalescing ==
  ASSUME IInv, NEW t \in Savers, CommitCoalesced(t)
  PROVE  \E k \in Keys : Promise!Change(k)
<1> USE DEF IInv
<1>1. PICK k \in Keys : k = tx[t].key /\ Queued(k)
  BY DEF CommitCoalesced, SlotInv
<1>2. src' = [src EXCEPT ![k] = @ + 1] /\ UNCHANGED <<shop, row>>
  BY <1>1 DEF CommitCoalesced
<1>3. \A kk \in Keys : kk # k => src'[kk] = src[kk]
  BY <1>2 DEF TypeOK
<1>4. k \notin parked'
  BY <1>1, <1>2 DEF parked, Carries, Queued
<1>5. ASSUME NEW kk \in Keys, kk # k PROVE kk \in parked' <=> kk \in parked
  BY <1>2, <1>3, <1>5 DEF parked, Carries
<1>6. parked' = parked \ {k}
  BY <1>4, <1>5 DEF parked
<1> QED BY <1>2, <1>6 DEF Promise!Change

\* A push is a Deliver of Outbox.
LEMMA PushDelivers ==
  ASSUME IInv, NEW w \in Workers, NEW G, NEW verdict, NEW applied, Push(w, G, verdict, applied)
  PROVE  Promise!Deliver
<1> USE DEF IInv
<1>1. /\ UNCHANGED <<src, row>> /\ DOMAIN shop' = Keys
      /\ \A k \in Keys : shop[k] <= shop'[k]
  BY PushStep DEF Push
<1>2. IInv'
  BY PushStep
<1>3. \A k \in Keys : shop'[k] <= src[k] /\ shop'[k] \in Nat /\ shop[k] \in Nat /\ src[k] \in Nat
  BY <1>1, <1>2, Ranges DEF SnapInv, TypeOK
<1>4. \A k \in Keys : shop'[k] # src[k] => shop[k] # src[k]
  BY <1>1, <1>3
<1>5. parked' = {k \in parked : shop'[k] # src[k]}
  BY <1>1, <1>4 DEF parked, Carries
<1> QED BY <1>1, <1>3, <1>5 DEF Promise!Deliver

\* Every step of the queue is a step of Outbox or leaves it alone.
LEMMA NextPromise == IInv /\ [Next]_vars => [Promise!Next]_(Promise!vars)
<1> SUFFICES ASSUME IInv, [Next]_vars PROVE [Promise!Next]_(Promise!vars)
  OBVIOUS
<1>1. UNCHANGED <<src, shop>> => Promise!Turn
  BY DEF Promise!Turn, parked
<1>2. ASSUME NEW t \in Savers, Saving(t) PROVE Promise!Next
  <2>1. CASE \E r \in Rows, changes, lost \in BOOLEAN : CommitInsert(t, r, changes, lost)
    BY <2>1, ChangeAfterInsert DEF Promise!Next
  <2>2. CASE CommitCoalesced(t)
    BY <2>2, ChangeAfterCoalescing DEF Promise!Next
  <2>3. CASE Rollback(t) \/ \E k \in Keys : enqueue_sync(t, k)
    BY <1>1, <2>3 DEF Rollback, enqueue_sync, Promise!Next
  <2> QED BY <1>2, <2>1, <2>2, <2>3 DEF Saving
<1>3. ASSUME NEW w \in Workers, Draining(w) PROVE Promise!Next
  <2>1. CASE \E G, verdict, applied : Push(w, G, verdict, applied)
    BY <2>1, PushDelivers DEF Promise!Next
  <2>2. CASE ~\E G, verdict, applied : Push(w, G, verdict, applied)
    <3>1. UNCHANGED <<src, shop>>
      BY <1>3, <2>2 DEF Draining, claim_rows, OpenSnapshot, Settle, SettleKeyError,
         SettleCollides, Abandon, Commit, Release, FollowOn
    <3> QED BY <1>1, <3>1 DEF Promise!Next
  <2> QED BY <2>1, <2>2
<1>4. CASE ~(\E t \in Savers : Saving(t)) /\ ~(\E w \in Workers : Draining(w))
  <2>1. UNCHANGED <<src, shop>>
    BY <1>4 DEF Next, vars, TakesJob, drain_store, HandlerCommit, Crash, Abandon, BecomeDue,
       requeue, Tick, Janitor, JanitorLists, recover_stale_running, JanitorCollides,
       drain_all_stores
  <2> QED BY <1>1, <2>1 DEF Promise!Next
<1> QED BY <1>2, <1>3, <1>4

(* The queue implements the safety part of its promise: a drain's push is a    *)
(* delivery that moves forward and no further than ERPNext, a committed save   *)
(* is a change that un-parks its key, and only keys out of step are parked.    *)
THEOREM ImplementsOutbox == Spec => PromiseSafety
<1>1. Init => Promise!Init
  BY InitPromise
<1>2. IInv /\ [Next]_vars => [Promise!Next]_(Promise!vars)
  BY NextPromise
<1> QED BY <1>1, <1>2, InductiveInvariant, PTL DEF Spec, PromiseSafety, Promise!Safety

=============================================================================
