---------------------------- MODULE ContentAdmin ----------------------------
(***************************************************************************)
(* The rows that administrators and contributors keep beside the fonts:    *)
(* families by their slugs, collections, vocabulary entries, tags of a     *)
(* family, licenses.  Every handler looks first and writes later; unique   *)
(* keys, foreign keys and row locks of PostgreSQL decide what a handler    *)
(* that comes late can do.                                                 *)
(***************************************************************************)
EXTENDS Naturals, FiniteSets, Handlers

CONSTANTS
  Entries,    \* ids of rows of a table with unique slugs
  MaxSlug,    \* bound: slugs 1..MaxSlug; n + 1 is n with the next suffix
  Tags,
  Licenses

ASSUME ContentAssumption ==
  /\ MaxSlug \in Nat
  /\ None \notin Api \cup Entries \cup Tags \cup Licenses \cup 1..MaxSlug

VARIABLES
  table,        \* which table the slugs are of
  slugOf,       \* the slug of each row, None for no row
  rivals,       \* history: slugs that others took since a request looked
  show,         \* a collection
  overwritten,  \* history: an update of it wrote over a status it had not read
  tagRows,      \* tags
  tags,         \* those of a family
  tagLock,      \* the request that holds the lock on the row of the family
  chosen,       \* history: the tags of the last request that committed
  licenses,     \* license rows
  offered,      \* those that are active and allow redistribution
  claim         \* a submission, its declared license, and that of its family

slugVars == <<table, slugOf, rivals>>
showVars == <<show, overwritten>>
tagVars == <<tagRows, tags, tagLock, chosen>>
licenseVars == <<licenses, offered, claim>>
contentVars == <<slugVars, showVars, tagVars, licenseVars>>

Slugs == 1..MaxSlug
Tables == {"family", "collection", "entry"}
Statuses == {"unborn", "draft", "published", "archived", "gone"}

ContentInit ==
  /\ table \in Tables
  /\ slugOf = [e \in Entries |-> None]
  /\ rivals = [p \in Api |-> {}]
  /\ show = [status |-> "unborn", dated |-> FALSE, listed |-> FALSE]
  /\ overwritten = FALSE
  /\ tagRows = Tags /\ tags = {} /\ tagLock = None /\ chosen = {}
  /\ licenses = Licenses /\ offered = Licenses
  /\ claim = [status |-> "none", declared |-> None, shown |-> None]

ContentSame == UNCHANGED contentVars

-----------------------------------------------------------------------------
(* Slugs: createDraftSubmission, updateContributorMetadata, updateFamily,  *)
(* createCollection, updateCollection, and the vocabulary                  *)

HeldByOther(slug, e) == \E other \in Entries \ {e} : slugOf[other] = slug

\* A request to create row e, or to write a slug of it.
SlugBegin(p, e, slug) ==
  /\ \A q \in Api : handler[q].at \in {"slug_look", "slug_save"} =>
       ~(handler[q].new /\ handler[q].row = e)
  /\ Begin(p, [at |-> "slug_look", row |-> e, slug |-> slug, new |-> slugOf[e] = None])
  /\ rivals' = [rivals EXCEPT ![p] = {}]
  /\ UNCHANGED <<table, slugOf, showVars, tagVars, licenseVars>>

\* Mutant (MCLibrary): no lookup before the write, as in createLicense.
SlugUnlooked(p) ==
  LET h == handler[p] IN
  /\ At(p, "slug_look")
  /\ Suspend(p, [h EXCEPT !.at = "slug_save"])
  /\ rivals' = [rivals EXCEPT ![p] = {}]
  /\ UNCHANGED <<table, slugOf, showVars, tagVars, licenseVars>>

\* The lookup excludes the row itself.  The creation of a family goes on to
\* the next suffix when the slug is taken, every other request is refused.
SlugLook(p) ==
  LET h == handler[p] IN
  /\ At(p, "slug_look")
  /\ \/ /\ ~HeldByOther(h.slug, h.row)
        /\ Suspend(p, [h EXCEPT !.at = "slug_save"])
     \/ /\ HeldByOther(h.slug, h.row)
        /\ IF table = "family" /\ h.new /\ h.slug < MaxSlug
           THEN Suspend(p, [h EXCEPT !.slug = @ + 1])
           ELSE Finish(p)
  /\ rivals' = [rivals EXCEPT ![p] = {}]
  /\ UNCHANGED <<table, slugOf, showVars, tagVars, licenseVars>>

\* The unique key refuses a slug that another row has got in the meantime; a
\* row that is gone cannot be updated.
SlugSave(p) ==
  LET h == handler[p] IN
  /\ At(p, "slug_save")
  /\ IF HeldByOther(h.slug, h.row) \/ (~h.new /\ slugOf[h.row] = None)
     THEN UNCHANGED <<slugOf, rivals>>
     ELSE /\ slugOf' = [slugOf EXCEPT ![h.row] = h.slug]
          /\ rivals' = [q \in Api |-> IF q = p THEN rivals[q] ELSE rivals[q] \cup {h.slug}]
  /\ Finish(p)
  /\ UNCHANGED <<table, showVars, tagVars, licenseVars>>

\* Collections and vocabulary entries may be deleted, families never are.
SlugDelete(p, e) ==
  /\ At(p, "idle") /\ table # "family" /\ slugOf[e] # None
  /\ slugOf' = [slugOf EXCEPT ![e] = None]
  /\ UNCHANGED <<handler, table, rivals, showVars, tagVars, licenseVars>>

OnSlugs(p) ==
  \/ \E e \in Entries, slug \in Slugs : SlugBegin(p, e, slug)
  \/ SlugLook(p) \/ SlugSave(p)
  \/ \E e \in Entries : SlugDelete(p, e)

-----------------------------------------------------------------------------
(* One collection and whether it lists a family                            *)

Shown == show.status \in {"draft", "published", "archived"}

CollectionCreate(p) ==
  /\ At(p, "idle") /\ show.status = "unborn"
  /\ \E status \in {"draft", "published", "archived"} :
       show' = [show EXCEPT !.status = status, !.dated = status = "published"]
  /\ UNCHANGED <<handler, slugVars, overwritten, tagVars, licenseVars>>

CollectionBegin(p) ==
  /\ Shown
  /\ \/ \E to \in {"keep", "draft", "published", "archived"} :
          Begin(p, [at |-> "show_update", read |-> show.status, to |-> to])
     \/ Begin(p, [at |-> "show_delete"])   \* fails later if the row is gone by then
     \/ Begin(p, [at |-> "item_add"])
     \/ show.listed /\ Begin(p, [at |-> "item_remove"])
  /\ ContentSame

\* Mutant (MCLibrary): publishing leaves publishedAt alone.
KeepDate(read, to) == to # "draft" /\ to # "archived" /\ show.dated

\* publishedAt: kept when the status is not touched or was read as published.
Dated(read, to) ==
  \/ to = "keep" /\ show.dated
  \/ to = "published" /\ (read = "published" => show.dated)

CollectionUpdate(p) ==
  LET h == handler[p] IN
  /\ At(p, "show_update")
  /\ IF Shown
     THEN /\ show' = [show EXCEPT !.status = IF h.to = "keep" THEN @ ELSE h.to,
                                  !.dated = Dated(h.read, h.to)]
          /\ overwritten' = (overwritten \/ show.status # h.read)
     ELSE UNCHANGED showVars
  /\ Finish(p)
  /\ UNCHANGED <<slugVars, tagVars, licenseVars>>

\* The items go with the collection, in one transaction.
CollectionDelete(p) ==
  /\ At(p, "show_delete")
  /\ show' = [status |-> "gone", dated |-> FALSE, listed |-> FALSE]
  /\ Finish(p)
  /\ UNCHANGED <<slugVars, overwritten, tagVars, licenseVars>>

\* An item needs its collection: the foreign key refuses it later; one that has
\* been removed cannot be removed again.
CollectionItem(p) ==
  /\ At(p, "item_add") \/ At(p, "item_remove")
  /\ show' = [show EXCEPT !.listed = Shown /\ At(p, "item_add")]
  /\ IF Shown /\ (At(p, "item_add") \/ show.listed)
     THEN Suspend(p, [at |-> "item_answer"])
     ELSE Finish(p)
  /\ UNCHANGED <<slugVars, overwritten, tagVars, licenseVars>>

\* getCollectionByIdForAdmin: the answer is read again, and is an error if the
\* collection has been deleted meanwhile.
CollectionAnswer(p) == At(p, "item_answer") /\ Finish(p) /\ ContentSame

OnCollections(p) ==
  CollectionCreate(p) \/ CollectionBegin(p) \/ CollectionUpdate(p) \/ CollectionDelete(p)
    \/ CollectionItem(p) \/ CollectionAnswer(p)

-----------------------------------------------------------------------------
(* updateFamily: the tags of a family                                      *)

TagsBegin(p) ==
  /\ \E want \in SUBSET tagRows : Begin(p, [at |-> "tags_lock", want |-> want, read |-> {}])
  /\ ContentSame

\* Mutant (MCLibrary): the row of the family is not updated first.
TagsUnlocked(p) ==
  /\ At(p, "tags_lock")
  /\ Suspend(p, [handler[p] EXCEPT !.at = "tags_write", !.read = tags])
  /\ ContentSame

\* The update of the family row makes other transactions wait; deleteMany
\* then removes the tags that are committed.
TagsLock(p) ==
  /\ At(p, "tags_lock") /\ tagLock = None
  /\ tagLock' = p
  /\ Suspend(p, [handler[p] EXCEPT !.at = "tags_write", !.read = tags])
  /\ UNCHANGED <<slugVars, showVars, tagRows, tags, chosen, licenseVars>>

\* createMany and commit; a tag that is gone rolls everything back.
TagsCommit(p) ==
  LET h == handler[p] IN
  /\ At(p, "tags_write")
  /\ IF h.want \subseteq tagRows
     THEN /\ tags' = (tags \ h.read) \cup h.want /\ chosen' = h.want
          /\ Suspend(p, [at |-> "tags_answer"])
     ELSE UNCHANGED <<tags, chosen>> /\ Finish(p)
  /\ tagLock' = None
  /\ UNCHANGED <<slugVars, showVars, tagRows, licenseVars>>

\* getFamilyDetailForAdmin: the family is read again, with the tags it has by then.
TagsAnswer(p) == At(p, "tags_answer") /\ Finish(p) /\ ContentSame

\* The foreign key keeps a tag that a family has.
TagDelete(p, t) ==
  /\ At(p, "idle") /\ t \in tagRows \ tags
  /\ tagRows' = tagRows \ {t}
  /\ UNCHANGED <<handler, slugVars, showVars, tags, tagLock, chosen, licenseVars>>

OnTags(p) ==
  TagsBegin(p) \/ TagsLock(p) \/ TagsCommit(p) \/ TagsAnswer(p) \/ \E t \in Tags : TagDelete(p, t)

-----------------------------------------------------------------------------
(* Licenses: createDraftSubmission, the license requests, the decision     *)

ClaimBegin(p) ==
  /\ claim.status = "none"
  /\ \E l \in offered : Begin(p, [at |-> "claim_save", license |-> l])
  /\ ContentSame

\* The foreign key refuses a license that is gone.
ClaimSave(p) ==
  LET l == handler[p].license IN
  /\ At(p, "claim_save")
  /\ IF l \in licenses /\ claim.status = "none"
     THEN claim' = [claim EXCEPT !.status = "open", !.declared = l]
     ELSE UNCHANGED claim
  /\ Finish(p)
  /\ UNCHANGED <<slugVars, showVars, tagVars, licenses, offered>>

\* applyReviewDecision: the family gets the declared license.
ClaimApprove(p) ==
  /\ At(p, "idle") /\ claim.status = "open"
  /\ claim' = [claim EXCEPT !.status = "approved", !.shown = claim.declared]
  /\ UNCHANGED <<handler, slugVars, showVars, tagVars, licenses, offered>>

\* updateFamily: another license for the family.
RelicenseBegin(p) ==
  /\ claim.status # "none"
  /\ \E l \in licenses : Begin(p, [at |-> "relicense", license |-> l])
  /\ ContentSame

Relicense(p) ==
  LET l == handler[p].license IN
  /\ At(p, "relicense")
  /\ claim' = [claim EXCEPT !.shown = IF l \in licenses THEN l ELSE @]
  /\ Finish(p)
  /\ UNCHANGED <<slugVars, showVars, tagVars, licenses, offered>>

LicenseUpdate(p, l) ==
  /\ At(p, "idle") /\ l \in licenses
  /\ offered' \in {offered \cup {l}, offered \ {l}}
  /\ UNCHANGED <<handler, slugVars, showVars, tagVars, licenses, claim>>

\* deleteLicense: PostgreSQL sets the references to NULL.
LicenseDelete(p, l) ==
  LET Nulled(ref) == IF ref = l THEN None ELSE ref IN
  /\ At(p, "idle") /\ l \in licenses
  /\ licenses' = licenses \ {l} /\ offered' = offered \ {l}
  /\ claim' = [claim EXCEPT !.declared = Nulled(@), !.shown = Nulled(@)]
  /\ UNCHANGED <<handler, slugVars, showVars, tagVars>>

OnLicenses(p) ==
  \/ ClaimBegin(p) \/ ClaimSave(p) \/ ClaimApprove(p) \/ RelicenseBegin(p) \/ Relicense(p)
  \/ \E l \in Licenses : LicenseUpdate(p, l) \/ LicenseDelete(p, l)

-----------------------------------------------------------------------------
ContentHandlers ==
  {Idle} \cup [at: {"slug_look", "slug_save"}, row: Entries, slug: Slugs, new: BOOLEAN]
    \cup [at: {"show_update"}, read: Statuses, to: {"keep", "draft", "published", "archived"}]
    \cup [at: {"show_delete", "item_add", "item_remove", "item_answer", "tags_answer"}]
    \cup [at: {"tags_lock", "tags_write"}, want: SUBSET Tags, read: SUBSET Tags]
    \cup [at: {"claim_save", "relicense"}, license: Licenses]

ContentTypeOK ==
  /\ table \in Tables
  /\ slugOf \in [Entries -> Slugs \cup {None}]
  /\ rivals \in [Api -> SUBSET Slugs]
  /\ show \in [status: Statuses, dated: BOOLEAN, listed: BOOLEAN] /\ overwritten \in BOOLEAN
  /\ tags \subseteq tagRows /\ tagRows \subseteq Tags
  /\ tagLock \in Api \cup {None} /\ chosen \subseteq Tags
  /\ offered \subseteq licenses /\ licenses \subseteq Licenses
  /\ claim \in [status: {"none", "open", "approved"}, declared: Licenses \cup {None},
                shown: Licenses \cup {None}]
  /\ HandlersWithin(ContentHandlers)

\* Whoever is about to fail at the unique key of a slug lost a race: another
\* request took the slug after this one had looked.
ConflictsAreRaces ==
  \A p \in Api : At(p, "slug_save") /\ HeldByOther(handler[p].slug, handler[p].row)
                   => handler[p].slug \in rivals[p]

\* A collection has a date of publication exactly while it is published, unless
\* an update wrote over a status that it had not read; never otherwise than
\* published.
CollectionDates ==
  /\ show.dated => show.status = "published"
  /\ show.status = "published" /\ ~show.dated => overwritten

\* The tags of a family are those of one request, the last that committed,
\* however requests overlap.
TagsOfOneRequest == tags = chosen
=============================================================================
