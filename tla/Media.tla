-------------------------------- MODULE Media --------------------------------
(***************************************************************************)
(* The photographs of one Shopify product: outbound/media.py makes the     *)
(* app's media follow the files of the Item and its variants, and leaves   *)
(* the merchant's own alone.  Which media are the app's is written in      *)
(* app_media of the Item Link, and nowhere else.                           *)
(*                                                                         *)
(* Shopify lists new media some time after it made them and processes them *)
(* later still; what it does not list is either too new or deleted.  Files *)
(* are numbered in the merchant's order.                                   *)
(***************************************************************************)
EXTENDS Naturals, FiniteSets

CONSTANTS
    Files,
    MediaIds,      \* ids Shopify gives out, smallest first
    Ceiling,       \* MAX_MEDIA_PER_PRODUCT
    MaxChanges,    \* bound: changes of files and edits in the Shopify admin
    MaxFaults,     \* bound: calls without a reply, refused deletions, deaths
    NoMedia

ASSUME MediaAssumption ==
    /\ Files \subseteq Nat /\ MediaIds \subseteq Nat \ {0} /\ NoMedia \notin MediaIds
    /\ IsFiniteSet(Files) /\ IsFiniteSet(MediaIds)
    /\ Ceiling \in Nat /\ MaxChanges \in Nat /\ MaxFaults \in Nat

VARIABLES
    files,      \* media_plan: the files ERPNext holds
    gallery,    \* Shopify: the media of the product, listed or not
    owned,      \* app_media: the media id of a file
    young,      \* media uploaded less than MEDIA_SETTLE_SECONDS ago
    mediaRow,   \* a Pending media row
    sync,       \* the row being pushed
    held,       \* app_media in a link that a webhook handler has loaded
    torn,       \* the ownership of an upload was lost (not in the code)
    stranded,   \* media Shopify could not process that it refused to delete: no
                \* record names them any more (not in the code)
    changes, faults

mediaVars == <<files, gallery, owned, young, mediaRow, sync, held, torn, stranded,
               changes, faults>>

NoRecord == [f \in Files |-> NoMedia]
NoSync == [pc |-> "idle", wanted |-> {}, shown |-> {}, record |-> NoRecord, remove |-> {},
           failed |-> {}]
Unused == [file |-> NoMedia, by |-> "nobody", state |-> "none"]
Gone == [Unused EXCEPT !.state = "gone"]

MediaInit ==
    /\ files \in SUBSET Files
    /\ gallery = [m \in MediaIds |-> Unused]
    /\ owned = NoRecord /\ young = {}
    /\ mediaRow = TRUE /\ sync = NoSync /\ held = <<>> /\ torn = FALSE /\ stranded = {}
    /\ changes = 0 /\ faults = 0

There(m) == gallery[m] \notin {Unused, Gone}
Shown == {m \in MediaIds : gallery[m].state \in {"listed", "failed"}}
Holds(record) == {record[f] : f \in Files} \ {NoMedia}

Changes == changes < MaxChanges /\ changes' = changes + 1
Faults == faults < MaxFaults /\ faults' = faults + 1

-----------------------------------------------------------------------------
(* ERPNext: a File attached to an Item or removed, its Image field moved.   *)

on_file_change(F) ==
    /\ Changes
    /\ F # files /\ files' = F
    /\ mediaRow' = TRUE
    /\ UNCHANGED <<gallery, owned, young, sync, held, torn, stranded, faults>>

(* Shopify.                                                                 *)

New(m, n) == gallery[m] = Unused /\ Cardinality({k \in MediaIds : k < m /\ gallery[k] = Unused}) < n

\* The merchant adds a photograph, or deletes one that is shown.
MerchantAdds(m) ==
    /\ Changes /\ New(m, 1)
    /\ gallery' = [gallery EXCEPT ![m] = [file |-> NoMedia, by |-> "merchant", state |-> "listed"]]
    /\ UNCHANGED <<files, owned, young, mediaRow, sync, held, torn, stranded, faults>>

MerchantDeletes(m) ==
    /\ Changes /\ m \in Shown
    /\ gallery' = [gallery EXCEPT ![m] = Gone]
    /\ UNCHANGED <<files, owned, young, mediaRow, sync, held, torn, stranded, faults>>

\* An upload is listed; the app's own may turn out not to be processable.
Processing(m) ==
    /\ \/ gallery[m].state = "hidden" /\ gallery' = [gallery EXCEPT ![m].state = "listed"]
       \/ /\ gallery[m].state = "listed" /\ gallery[m].by = "app" /\ Changes
          /\ gallery' = [gallery EXCEPT ![m].state = "failed"]
    /\ gallery[m].state = "hidden" => UNCHANGED changes
    /\ UNCHANGED <<files, owned, young, mediaRow, sync, held, torn, stranded, faults>>

\* MEDIA_SETTLE_SECONDS pass; Shopify lists what it made before that.
Settles(m) ==
    /\ m \in young /\ gallery[m].state # "hidden"
    /\ young' = young \ {m}
    /\ UNCHANGED <<files, gallery, owned, mediaRow, sync, held, torn, stranded, changes, faults>>

-----------------------------------------------------------------------------
(* _sync_media_unlocked: one pass, from what Shopify lists.                 *)

\* media_plan, product_media and read_record.  An entry that is neither listed
\* nor young is dropped: the merchant deleted it.
start_sync ==
    LET record == [f \in Files |-> IF owned[f] \notin Shown \cup young
                                   THEN NoMedia ELSE owned[f]]
        failed == {f \in Files : record[f] \in Shown /\ gallery[record[f]].state = "failed"}
        recorded == [f \in Files |-> IF f \in failed THEN NoMedia ELSE record[f]]
        theirs == Shown \ Holds(recorded)
        room == IF Cardinality(theirs) > Ceiling THEN 0 ELSE Ceiling - Cardinality(theirs)
        wanted == {f \in files : Cardinality({g \in files : g < f}) < room}
    IN  /\ mediaRow /\ sync = NoSync
        /\ mediaRow' = FALSE
        /\ sync' = [pc |-> "delete", wanted |-> wanted, shown |-> Shown, record |-> recorded,
                    failed |-> failed,
                    remove |-> {recorded[f] : f \in {f \in Files \ wanted : recorded[f] \in Shown}}
                               \cup {record[f] : f \in failed}]
        /\ UNCHANGED <<files, gallery, owned, young, held, torn, stranded, changes, faults>>

\* Variant: what was to be deleted is forgotten, deleted or not.
forget_asked(record, gone) ==
    [f \in Files |-> IF record[f] \in sync.remove \cup gone THEN NoMedia ELSE record[f]]

\* What the answer names is forgotten, and nothing else.
forget(record, gone) == [f \in Files |-> IF record[f] \in gone THEN NoMedia ELSE record[f]]

\* product_delete_media.  What is deleted by now the answer does not name; a
\* deletion may be refused, and after a lost reply the retry names none.  Media
\* that Shopify could not process went off the record before this call.
delete_media ==
    /\ sync.pc = "delete"
    /\ LET here == {m \in sync.remove : There(m)}
       IN  \E done, named \in {{}, here} :
              /\ named \subseteq done
              /\ IF named = here THEN UNCHANGED faults ELSE Faults
              /\ gallery' = [m \in MediaIds |-> IF m \in done THEN Gone ELSE gallery[m]]
              /\ sync' = [sync EXCEPT !.pc = "create", !.record = forget(@, named)]
              /\ stranded' = stranded \cup ((here \ done) \ Holds(sync.record))
    /\ UNCHANGED <<files, owned, young, mediaRow, held, torn, changes>>

\* Variant: a recorded upload that is not listed yet is taken for missing.
sources_unseen == {f \in sync.wanted : sync.record[f] \notin sync.shown /\ f \notin sync.failed}

\* Nothing on record is uploaded again, listed or not, nor what just failed.
sources == {f \in sync.wanted : sync.record[f] = NoMedia /\ f \notin sync.failed}

\* productCreateMedia, which answers with an id for every file; `times` is 2
\* when the first reply was lost.
create_media(times) ==
    /\ sync.pc = "create"
    /\ LET S == sources
           n == times * Cardinality(S)
           ids == {m \in MediaIds : New(m, n)}
           Rank(x, X) == Cardinality({y \in X : y < x})
           file(m) == CHOOSE f \in S : Rank(f, S) = Rank(m, ids) % Cardinality(S)
           last(f) == CHOOSE m \in ids : file(m) = f /\ \A k \in ids : file(k) = f => k <= m
       IN  /\ Cardinality(ids) = n
           /\ IF times = 1 THEN UNCHANGED <<torn, faults>>
              ELSE S # {} /\ Faults /\ torn' = TRUE
           /\ gallery' = [m \in MediaIds |-> IF m \in ids
                             THEN [file |-> file(m), by |-> "app", state |-> "hidden"]
                             ELSE gallery[m]]
           /\ sync' = [sync EXCEPT !.pc = "commit", !.failed = S,
                                   !.record = [f \in Files |-> IF f \in S THEN last(f) ELSE @[f]]]
           /\ young' = young \cup ids
    /\ UNCHANGED <<files, owned, mediaRow, held, stranded, changes>>

\* _record_owned, and the commit that follows an upload at once.  The rest of
\* the pass orders and attaches what is there; it may fail and be retried.
record_owned ==
    /\ sync.pc = "commit"
    /\ owned' = sync.record
    /\ mediaRow' \in {mediaRow, TRUE}
    /\ sync' = NoSync
    /\ UNCHANGED <<files, gallery, young, held, torn, stranded, changes, faults>>

\* Shopify refuses the images, a call fails or the worker dies: what was not
\* recorded is forgotten, and the row is pushed again.
sync_fails ==
    /\ sync # NoSync /\ Faults
    /\ torn' = (torn \/ (sync.pc = "commit" /\ sync.failed # {}))
    /\ mediaRow' = TRUE /\ sync' = NoSync
    /\ UNCHANGED <<files, gallery, owned, young, held, stranded, changes>>

\* A products/update handler loads the link, and saves every field of it;
\* _record_owned leaves `modified` alone, so nothing notices (upsert_link).
link_loaded ==
    /\ Changes /\ held = <<>>
    /\ held' = <<owned>>
    /\ UNCHANGED <<files, gallery, owned, young, mediaRow, sync, torn, stranded, faults>>

link_saved ==
    /\ held # <<>>
    /\ owned' = held[1]
    /\ torn' = (torn \/ held[1] # owned)
    /\ held' = <<>>
    /\ UNCHANGED <<files, gallery, young, mediaRow, sync, stranded, changes, faults>>

MediaNext ==
    \/ \E F \in SUBSET Files : on_file_change(F)
    \/ \E m \in MediaIds : \/ MerchantAdds(m) \/ MerchantDeletes(m)
                           \/ Processing(m) \/ Settles(m)
    \/ start_sync \/ delete_media \/ record_owned \/ sync_fails
    \/ \E n \in {1, 2} : create_media(n)
    \/ link_loaded \/ link_saved

MediaSpec == MediaInit /\ [][MediaNext]_mediaVars

-----------------------------------------------------------------------------

MediaTypeOK ==
    /\ files \subseteq Files /\ young \subseteq MediaIds
    /\ \A m \in MediaIds :
          /\ gallery[m].by \in {"nobody", "app", "merchant"}
          /\ gallery[m].state \in {"none", "hidden", "listed", "failed", "gone"}
    /\ owned \in [Files -> MediaIds \cup {NoMedia}]
    /\ sync.pc \in {"idle", "delete", "create", "commit"}
    /\ sync.remove \subseteq MediaIds /\ sync.wanted \subseteq Files /\ stranded \subseteq MediaIds
    /\ changes \in 0..MaxChanges /\ faults \in 0..MaxFaults

Ours(f) == {m \in MediaIds : gallery[m].by = "app" /\ gallery[m].file = f
                             /\ gallery[m].state \notin {"failed", "gone"}}

\* However late Shopify lists an upload, and whatever the merchant deletes, a
\* file is on the product once: no pass takes its own upload for a deletion --
\* unless a lost reply, a death before the record or a link saved over it tore
\* the upload from its record.
OneCopyEach == ~torn => \A f \in Files : Cardinality(Ours(f)) <= 1

\* Media the app made stay on its record until Shopify says they are gone; a
\* refused or unheard deletion does not turn them into the merchant's, which
\* nothing would ever remove -- but for media Shopify could not process, which
\* _sync_media_unlocked strikes off before it asks: a refusal strands those.
OursAreRecorded ==
    ~torn => \A m \in MediaIds : gallery[m].by = "app" =>
                 m \in Holds(owned) \cup Holds(sync.record) \cup stranded
=============================================================================
