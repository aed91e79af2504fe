----------------------------- MODULE BulkImport -----------------------------
(***************************************************************************)
(* The bulk catalogue import, api/bulk.py: Shopify exports the catalogue   *)
(* in its own time, the app polls for it, downloads the lines and applies  *)
(* them product by product, with a checkpoint every CommitEvery products.  *)
(*                                                                         *)
(* Shopify runs one export per shop and answers about its latest only.     *)
(* What applying one product writes is Listing's; here it either goes in,  *)
(* with the variants the file gave it, or fails and is rolled back alone.  *)
(***************************************************************************)
EXTENDS Naturals, FiniteSets, Sequences

CONSTANTS
    Operations,    \* Shopify Bulk Operations, numbered as they are started
    Lines,         \* the result file: [kind, product], one per line
    CommitEvery,   \* COMMIT_EVERY
    MaxCrashes,    \* bound: jobs that die
    NoOperation, NoFile

ASSUME BulkAssumption ==
    /\ Operations \subseteq Nat \ {0}
    /\ NoOperation \notin Operations /\ NoFile \notin Nat
    /\ CommitEvery \in Nat \ {0} /\ MaxCrashes \in Nat
    /\ Lines \in Seq([kind : {"root", "variant", "other", "bad"},
                      product : {Lines[i].product : i \in DOMAIN Lines}])

\* What Shopify guarantees of the file: each product has one root line, and its
\* variants follow that before the next.
ASSUME FileAssumption ==
    \A i, j \in DOMAIN Lines :
        Lines[i].kind = "root" /\ Lines[j].product = Lines[i].product =>
            /\ Lines[j].kind = "root" => j = i
            /\ Lines[j].kind = "variant" =>
                  i < j /\ \A k \in (i + 1)..j : Lines[k].kind # "root"

VARIABLES
    exports,     \* Shopify: the state of each export
    latest,      \* Shopify: currentBulkOperation
    cut_at,      \* lines an export that fails leaves behind
    op,          \* the Shopify Bulk Operation documents
    polls,       \* queued poll jobs, and what one of them read
    answer,
    jobs,        \* queued process jobs
    worker,      \* the process job that runs
    imported,    \* ERPNext: products, each with its variants' line numbers
    rejected,    \* products that failed and were logged
    crashes

bulkVars == <<exports, latest, cut_at, op, polls, answer, jobs, worker, imported,
              rejected, crashes>>

Products == {Lines[i].product : i \in DOMAIN Lines}
NotImported == [p \in {} |-> {}]
Unstarted == [status |-> "none", file |-> NoFile, consumed |-> 0, processed |-> 0]
NoWorker == [op |-> NoOperation, at |-> 0, applied |-> 0, since |-> 0,
             wrote |-> NotImported, failed |-> {}]
NoAnswer == [op |-> NoOperation]

BulkInit ==
    /\ exports = [o \in Operations |-> "none"] /\ latest = NoOperation
    /\ cut_at \in {i \in 1..Len(Lines) : Lines[i].kind # "root"}
    /\ op = [o \in Operations |-> Unstarted]
    /\ polls = {} /\ answer = NoAnswer /\ jobs = {} /\ worker = NoWorker
    /\ imported = NotImported /\ rejected = {} /\ crashes = 0

ACTIVE_STATUSES == {"Created", "Running"}

active_operation == {o \in Operations : op[o].status \in ACTIVE_STATUSES}

SHOPIFY_STATUS_MAP(s) ==
    CASE s = "CREATED" -> "Created"
      [] s \in {"RUNNING", "CANCELING"} -> "Running"
      [] s = "COMPLETED" -> "Completed"
      [] s \in {"FAILED", "PARTIAL"} -> "Failed"
      [] s = "CANCELED" -> "Cancelled"

-----------------------------------------------------------------------------
(* Starting, watching and stopping an export.                               *)

\* Shopify takes a second export only when the first is over.
Free == \A o \in Operations : exports[o] \in {"none", "COMPLETED", "FAILED", "PARTIAL", "CANCELED"}

start_import(o) ==
    /\ active_operation = {} /\ Free
    /\ exports[o] = "none" /\ \A x \in Operations : x < o => exports[x] # "none"
    /\ exports' = [exports EXCEPT ![o] = "CREATED"]
    /\ latest' = o
    /\ op' = [op EXCEPT ![o].status = "Created"]
    /\ polls' = polls \cup {o}
    /\ UNCHANGED <<cut_at, answer, jobs, worker, imported, rejected, crashes>>

\* Shopify's side: an export that fails may leave partial data.
Exporting(o, s) ==
    /\ <<exports[o], s>> \in
          ({"CREATED"} \X {"RUNNING"}) \cup ({"CANCELING"} \X {"CANCELED"})
          \cup ({"RUNNING"} \X {"COMPLETED", "FAILED", "PARTIAL"})
    /\ exports' = [exports EXCEPT ![o] = s]
    /\ UNCHANGED <<latest, cut_at, op, polls, answer, jobs, worker, imported, rejected,
                   crashes>>

\* The */5 sweep; deduplicated by job id.
poll_running_operations ==
    /\ ~(active_operation \subseteq polls)
    /\ polls' = polls \cup active_operation
    /\ UNCHANGED <<exports, latest, cut_at, op, answer, jobs, worker, imported,
                   rejected, crashes>>

\* poll asks Shopify ...
poll(o) ==
    /\ o \in polls /\ answer = NoAnswer
    /\ answer' = [op |-> o, about |-> latest, status |-> exports[latest]]
    /\ UNCHANGED <<exports, latest, cut_at, op, polls, jobs, worker, imported,
                   rejected, crashes>>

\* ... and writes down what it heard, whatever happened to the document since.
\* Another export's answer means this one was superseded.
poll_answered ==
    /\ answer # NoAnswer
    /\ LET o == answer.op
           mine == answer.about = o
           s == IF mine THEN SHOPIFY_STATUS_MAP(answer.status) ELSE "Failed"
           lines == CASE answer.status = "COMPLETED" -> Len(Lines)
                      [] answer.status = "PARTIAL" -> cut_at
                      [] OTHER -> NoFile
       IN  /\ op' = [op EXCEPT ![o].status = s, ![o].file = IF mine THEN lines ELSE @]
           /\ polls' = polls \ {o}
           /\ jobs' = IF mine /\ lines # NoFile THEN jobs \cup {o} ELSE jobs
    /\ answer' = NoAnswer
    /\ UNCHANGED <<exports, latest, cut_at, worker, imported, rejected, crashes>>

cancel(o) ==
    /\ op[o].status \in ACTIVE_STATUSES /\ exports[o] \in {"CREATED", "RUNNING"}
    /\ exports' = [exports EXCEPT ![o] = "CANCELING"]
    /\ op' = [op EXCEPT ![o].status = "Cancelled"]
    /\ UNCHANGED <<latest, cut_at, polls, answer, jobs, worker, imported, rejected,
                   crashes>>

-----------------------------------------------------------------------------
(* Applying the file.  Lines are counted from 0, as the code counts them.   *)

Line(i) == Lines[i + 1]

Roots(size, skip) == {i \in skip..(size - 1) : Line(i).kind = "root"}

\* iter_product_groups: from a root to the line before the next one.  A child
\* before any root belongs to a product applied earlier; what is left over at
\* the end is counted up to the last line that could be read.
lines_done(size, r) ==
    LET later == Roots(size, r + 1)
        last == CHOOSE i \in r..(size - 1) :
                   /\ Line(i).kind # "bad"
                   /\ \A j \in (i + 1)..(size - 1) : Line(j).kind = "bad"
    IN  IF later = {} THEN last + 1
        ELSE CHOOSE i \in later : \A j \in later : i <= j

variants_of(size, r) ==
    {i \in (r + 1)..(lines_done(size, r) - 1) : Line(i).kind = "variant"}

next_root(size, at) == CHOOSE i \in Roots(size, at) : \A j \in Roots(size, at) : i <= j

restarted(o) == [NoWorker EXCEPT !.op = o, !.at = op[o].consumed]

resumed(o) == [restarted(o) EXCEPT !.applied = op[o].processed]

\* Once the file is there, a run reads on from the last checkpoint.  Nothing
\* queues it a second time but a person.
process(o) ==
    /\ worker = NoWorker
    /\ o \in jobs \/ (op[o].file # NoFile /\ crashes > 0)
    /\ jobs' = jobs \ {o}
    /\ worker' = resumed(o)
    /\ UNCHANGED <<exports, latest, cut_at, op, polls, answer, imported, rejected, crashes>>

Of(products, p) == IF p \in DOMAIN products THEN products[p] ELSE {}

\* write_product_mapping adds to a product that is there; it takes nothing away.
Merged(new) == [p \in DOMAIN imported \cup DOMAIN new |-> Of(imported, p) \cup Of(new, p)]

\* One product, in a savepoint; then, at every CommitEvery'th, the checkpoint.
apply(fails) ==
    /\ worker # NoWorker
    /\ LET size == op[worker.op].file
       IN  /\ Roots(size, worker.at) # {}
           /\ LET r == next_root(size, worker.at)
                  p == Line(r).product
                  done == lines_done(size, r)
                  applied == worker.applied + (IF fails THEN 0 ELSE 1)
                  wrote == IF fails THEN worker.wrote
                           ELSE [q \in DOMAIN worker.wrote \cup {p} |->
                                   IF q = p THEN variants_of(size, r) ELSE worker.wrote[q]]
                  failed == IF fails THEN worker.failed \cup {p} ELSE worker.failed
                  checkpoint == worker.since + 1 >= CommitEvery
              IN  IF checkpoint
                  THEN /\ imported' = Merged(wrote) /\ rejected' = rejected \cup failed
                       /\ op' = [op EXCEPT ![worker.op].consumed = done,
                                           ![worker.op].processed = applied]
                       /\ worker' = [NoWorker EXCEPT !.op = worker.op, !.at = done,
                                                     !.applied = applied]
                  ELSE /\ worker' = [worker EXCEPT !.at = done, !.applied = applied,
                                        !.since = @ + 1, !.wrote = wrote, !.failed = failed]
                       /\ UNCHANGED <<imported, rejected, op>>
    /\ UNCHANGED <<exports, latest, cut_at, polls, answer, jobs, crashes>>

\* The file is through: object_count is the number of its lines.
process_ends ==
    /\ worker # NoWorker
    /\ LET size == op[worker.op].file
       IN  /\ Roots(size, worker.at) = {}
           /\ op' = [op EXCEPT ![worker.op].consumed = size,
                               ![worker.op].processed = worker.applied]
    /\ imported' = Merged(worker.wrote) /\ rejected' = rejected \cup worker.failed
    /\ worker' = NoWorker
    /\ UNCHANGED <<exports, latest, cut_at, polls, answer, jobs, crashes>>

\* A job dies: its transaction is rolled back to the last checkpoint.
BulkCrash ==
    /\ crashes < MaxCrashes /\ crashes' = crashes + 1
    /\ \/ worker # NoWorker /\ worker' = NoWorker /\ UNCHANGED <<polls, answer>>
       \/ /\ answer # NoAnswer /\ answer' = NoAnswer
          /\ polls' = polls \ {answer.op} /\ UNCHANGED worker
    /\ UNCHANGED <<exports, latest, cut_at, op, jobs, imported, rejected>>

BulkNext ==
    \/ \E o \in Operations :
          \/ start_import(o) \/ poll(o) \/ cancel(o) \/ process(o)
          \/ \E s \in {"RUNNING", "COMPLETED", "FAILED", "PARTIAL", "CANCELED"} :
                Exporting(o, s)
    \/ poll_running_operations \/ poll_answered
    \/ \E fails \in BOOLEAN : apply(fails)
    \/ process_ends \/ BulkCrash

BulkSpec == BulkInit /\ [][BulkNext]_bulkVars

-----------------------------------------------------------------------------

BulkTypeOK ==
    /\ latest \in Operations \cup {NoOperation} /\ cut_at \in 1..Len(Lines)
    /\ \A o \in Operations :
          /\ op[o].status \in {"none", "Created", "Running", "Completed", "Failed", "Cancelled"}
          /\ op[o].consumed \in 0..Len(Lines) /\ op[o].processed \in Nat
    /\ polls \subseteq Operations /\ jobs \subseteq Operations
    /\ DOMAIN imported \subseteq Products /\ rejected \subseteq Products
    /\ crashes \in 0..MaxCrashes

\* A checkpoint never runs ahead of what was committed: the product of every
\* root line counted as consumed is in ERPNext, with every variant line the
\* file has of it, or was rejected; wherever the runs before it died.
CheckpointIsExact ==
    \A o \in Operations : op[o].file # NoFile =>
        \A r \in Roots(op[o].file, 0) : r < op[o].consumed =>
            \/ Line(r).product \in rejected
            \/ /\ Line(r).product \in DOMAIN imported
               /\ {i \in 0..(op[o].file - 1) : Line(i) = [Line(r) EXCEPT !.kind = "variant"]}
                     \subseteq imported[Line(r).product]

\* objects_processed counts what is there: a product a dead run had applied
\* but not committed is counted when it is applied again, and only then.
CountIsExact ==
    \A o \in Operations :
        (\A x \in Operations \ {o} : op[x].processed = 0) =>
            op[o].processed = Cardinality(DOMAIN imported)

\* Wherever runs die, the import goes on where the last checkpoint left it:
\* what that says is consumed is there, and what it counts is what is there.
ImportIsExact == CheckpointIsExact /\ CountIsExact
=============================================================================
