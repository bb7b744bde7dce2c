---------------------------- MODULE LibraryProofs ----------------------------
(***************************************************************************)
(* What the rows beside the fonts keep of each other, and the packages of  *)
(* the styles, for any number of requests and rows.  All requests of a     *)
(* module run together here.                                               *)
(***************************************************************************)
EXTENDS StylePackages, ContentAdmin, FiniteSetTheorems, WellFoundedInduction, TLAPS

ContentNext == \E p \in Api : OnSlugs(p) \/ OnCollections(p) \/ OnTags(p) \/ OnLicenses(p)

ContentSpec ==
  HandlersIdle /\ ContentInit /\ [][ContentNext]_<<contentVars, handler>>

ContentTyped == ContentTypeOK /\ handler \in [Api -> ContentHandlers]

\* Rows and handlers apart: what a step of one handler has to keep.
LEMMA Moves ==
  ASSUME ContentTyped, NEW p \in Api, NEW h \in ContentHandlers, Suspend(p, h)
  PROVE  /\ handler' \in [Api -> ContentHandlers]
         /\ \A q \in Api : handler'[q] = IF q = p THEN h ELSE handler[q]
BY DEF ContentTyped, Suspend

LEMMA IdleTyped == Idle \in ContentHandlers /\ Idle.at = "idle"
BY DEF Idle, ContentHandlers

-----------------------------------------------------------------------------
(* Slugs.                                                                  *)

SlugTypes ==
  /\ table \in Tables
  /\ slugOf \in [Entries -> Slugs \cup {None}]
  /\ rivals \in [Api -> SUBSET Slugs]

LEMMA SlugStep ==
  ASSUME ContentAssumption, ContentTyped, ConflictsAreRaces, NEW p \in Api, OnSlugs(p)
  PROVE  /\ SlugTypes' /\ ConflictsAreRaces'
         /\ handler' \in [Api -> ContentHandlers]
         /\ \A q \in Api : handler'[q] # handler[q] => handler'[q].at \in {"idle", "slug_look", "slug_save"}
<1> DEFINE h == handler[p]
<1>0. SlugTypes /\ h \in ContentHandlers
  BY DEF ContentTyped, ContentTypeOK, SlugTypes
<1>1. ASSUME NEW e \in Entries, NEW slug \in Slugs, SlugBegin(p, e, slug)
      PROVE  /\ SlugTypes' /\ ConflictsAreRaces'
             /\ handler' \in [Api -> ContentHandlers]
             /\ \A q \in Api : handler'[q] # handler[q] => handler'[q].at \in {"idle", "slug_look", "slug_save"}
  <2>1. PICK g \in ContentHandlers :
          g = [at |-> "slug_look", row |-> e, slug |-> slug, new |-> slugOf[e] = None]
    <3>1. (slugOf[e] = None) \in BOOLEAN
      OBVIOUS
    <3> QED BY <3>1 DEF ContentHandlers
  <2>2. Suspend(p, g)
    BY <1>1, <2>1 DEF SlugBegin, Begin
  <2>3. /\ handler' \in [Api -> ContentHandlers]
        /\ \A q \in Api : handler'[q] = IF q = p THEN g ELSE handler[q]
    BY <2>2, Moves
  <2>4. SlugTypes' /\ UNCHANGED slugOf /\ \A q \in Api \ {p} : rivals'[q] = rivals[q]
    BY <1>0, <1>1 DEF SlugBegin, SlugTypes
  <2> QED BY <2>1, <2>3, <2>4 DEF ConflictsAreRaces, At, HeldByOther
<1>2. CASE SlugLook(p)
  <2>1. h \in [at: {"slug_look", "slug_save"}, row: Entries, slug: Slugs, new: BOOLEAN]
    BY <1>0, <1>2 DEF SlugLook, At, ContentHandlers, Idle
  <2>2. PICK g \in ContentHandlers :
          /\ Suspend(p, g)
          /\ \/ g.at = "slug_save" /\ ~HeldByOther(h.slug, h.row) /\ g.slug = h.slug /\ g.row = h.row
             \/ g.at \in {"idle", "slug_look"}
    <3>1. CASE ~HeldByOther(h.slug, h.row)
      <4>1. PICK g \in ContentHandlers : g = [h EXCEPT !.at = "slug_save"]
        BY <2>1 DEF ContentHandlers
      <4>2. g.at = "slug_save" /\ g.slug = h.slug /\ g.row = h.row
        BY <2>1, <4>1
      <4> QED BY <1>2, <3>1, <4>1, <4>2 DEF SlugLook
    <3>2. CASE HeldByOther(h.slug, h.row) /\ (table = "family" /\ h.new /\ h.slug < MaxSlug)
      <4>1. h.slug + 1 \in Slugs
        BY <2>1, <3>2 DEF Slugs, ContentAssumption
      <4>2. PICK g \in ContentHandlers : g = [h EXCEPT !.slug = @ + 1]
        BY <2>1, <4>1 DEF ContentHandlers
      <4>3. g.at = "slug_look"
        BY <1>2, <2>1, <4>2 DEF SlugLook, At
      <4> QED BY <1>2, <3>2, <4>2, <4>3 DEF SlugLook
    <3>3. CASE HeldByOther(h.slug, h.row) /\ ~(table = "family" /\ h.new /\ h.slug < MaxSlug)
      BY <1>2, <3>3, IdleTyped DEF SlugLook, Finish
    <3> QED BY <3>1, <3>2, <3>3
  <2>3. /\ handler' \in [Api -> ContentHandlers]
        /\ \A q \in Api : handler'[q] = IF q = p THEN g ELSE handler[q]
    BY <2>2, Moves
  <2>4. SlugTypes' /\ UNCHANGED slugOf /\ \A q \in Api \ {p} : rivals'[q] = rivals[q]
    BY <1>0, <1>2 DEF SlugLook, SlugTypes
  <2> QED BY <2>2, <2>3, <2>4 DEF ConflictsAreRaces, At, HeldByOther
<1>3. CASE SlugSave(p)
  <2>1. h \in [at: {"slug_look", "slug_save"}, row: Entries, slug: Slugs, new: BOOLEAN]
    BY <1>0, <1>3 DEF SlugSave, At, ContentHandlers, Idle
  <2>2. /\ handler' \in [Api -> ContentHandlers]
        /\ \A q \in Api : handler'[q] = IF q = p THEN Idle ELSE handler[q]
    BY <1>3, IdleTyped, Moves DEF SlugSave, Finish
  <2>3. CASE UNCHANGED <<slugOf, rivals>>
    <3>1. SlugTypes'
      BY <1>0, <1>3, <2>3 DEF SlugSave, SlugTypes
    <3> QED BY <2>2, <2>3, <3>1, IdleTyped DEF ConflictsAreRaces, At, HeldByOther
  <2>4. CASE /\ slugOf' = [slugOf EXCEPT ![h.row] = h.slug]
             /\ rivals' = [q \in Api |-> IF q = p THEN rivals[q] ELSE rivals[q] \cup {h.slug}]
    <3>1. SlugTypes'
      BY <1>0, <1>3, <2>1, <2>4 DEF SlugSave, SlugTypes
    <3>2. ASSUME NEW q \in Api, q # p, At(q, "slug_save")', HeldByOther(handler[q].slug, handler[q].row)'
          PROVE  handler[q].slug \in rivals'[q]
      <4>1. handler'[q] = handler[q] /\ At(q, "slug_save")
        BY <2>2, <3>2 DEF At
      <4>2. PICK other \in Entries \ {handler[q].row} : slugOf'[other] = handler[q].slug
        BY <3>2, <4>1 DEF HeldByOther
      <4>3. CASE other = h.row
        <5>1. handler[q].slug = h.slug
          BY <1>0, <2>4, <4>2, <4>3 DEF SlugTypes
        <5> QED BY <2>4, <3>2, <5>1
      <4>4. CASE other # h.row
        <5>1. slugOf[other] = handler[q].slug
          BY <1>0, <2>4, <4>2, <4>4 DEF SlugTypes
        <5>2. handler[q].slug \in rivals[q]
          BY <4>1, <4>2, <5>1 DEF ConflictsAreRaces, HeldByOther
        <5> QED BY <2>4, <3>2, <5>2
      <4> QED BY <4>3, <4>4
    <3>3. ConflictsAreRaces'
      BY <2>2, <3>2, IdleTyped DEF ConflictsAreRaces, At
    <3> QED BY <2>2, <3>1, <3>3, IdleTyped
  <2> QED BY <1>3, <2>3, <2>4 DEF SlugSave
<1>4. ASSUME NEW e \in Entries, SlugDelete(p, e)
      PROVE  /\ SlugTypes' /\ ConflictsAreRaces' /\ UNCHANGED handler
  <2>1. SlugTypes'
    BY <1>0, <1>4 DEF SlugDelete, SlugTypes
  <2>2. ASSUME NEW q \in Api, At(q, "slug_save"), HeldByOther(handler[q].slug, handler[q].row)'
        PROVE  handler[q].slug \in rivals[q]
    <3>1. handler[q] \in [at: {"slug_look", "slug_save"}, row: Entries, slug: Slugs, new: BOOLEAN]
      BY <2>2 DEF At, ContentTyped, ContentHandlers, Idle
    <3>2. PICK other \in Entries \ {handler[q].row} : slugOf'[other] = handler[q].slug
      BY <1>4, <2>2 DEF HeldByOther, SlugDelete
    <3>3. slugOf[other] = handler[q].slug
      BY <1>0, <1>4, <3>1, <3>2 DEF SlugDelete, SlugTypes, ContentAssumption, Slugs
    <3> QED BY <2>2, <3>2, <3>3 DEF ConflictsAreRaces, HeldByOther
  <2>3. UNCHANGED <<handler, rivals>>
    BY <1>4 DEF SlugDelete
  <2> QED BY <2>1, <2>2, <2>3 DEF ConflictsAreRaces, At
<1> QED
  BY <1>1, <1>2, <1>3, <1>4 DEF OnSlugs, ContentTyped

-----------------------------------------------------------------------------
(* The collection.                                                         *)

ShowTypes ==
  /\ show \in [status: Statuses, dated: BOOLEAN, listed: BOOLEAN]
  /\ overwritten \in BOOLEAN

ShowPoints == {"idle", "show_update", "show_delete", "item_add", "item_remove", "item_answer"}

LEMMA CollectionStep ==
  ASSUME ContentTyped, CollectionDates, NEW p \in Api, OnCollections(p)
  PROVE  /\ ShowTypes' /\ CollectionDates'
         /\ handler' \in [Api -> ContentHandlers]
         /\ \A q \in Api : handler'[q] # handler[q] => handler'[q].at \in ShowPoints
<1> DEFINE h == handler[p]
<1>0. ShowTypes /\ h \in ContentHandlers
  BY DEF ContentTyped, ContentTypeOK, ShowTypes
<1>1. CASE CollectionCreate(p)
  BY <1>0, <1>1 DEF CollectionCreate, ContentTyped, ShowTypes, Statuses, CollectionDates
<1>2. CASE CollectionBegin(p)
  <2>1. show.status \in Statuses
    BY <1>0 DEF ShowTypes
  <2>2. PICK g \in ContentHandlers : g.at \in ShowPoints /\ Suspend(p, g)
    <3>1. ASSUME NEW to \in {"keep", "draft", "published", "archived"},
                 Begin(p, [at |-> "show_update", read |-> show.status, to |-> to])
          PROVE  \E g \in ContentHandlers : g.at \in ShowPoints /\ Suspend(p, g)
      <4>1. [at |-> "show_update", read |-> show.status, to |-> to] \in ContentHandlers
        BY <2>1 DEF ContentHandlers
      <4> QED BY <3>1, <4>1 DEF Begin, ShowPoints
    <3>2. ASSUME NEW point \in {"show_delete", "item_add", "item_remove"}, Begin(p, [at |-> point])
          PROVE  \E g \in ContentHandlers : g.at \in ShowPoints /\ Suspend(p, g)
      <4>1. [at |-> point] \in ContentHandlers
        BY DEF ContentHandlers
      <4> QED BY <3>2, <4>1 DEF Begin, ShowPoints
    <3> QED BY <1>2, <3>1, <3>2 DEF CollectionBegin
  <2>3. /\ handler' \in [Api -> ContentHandlers]
        /\ \A q \in Api : handler'[q] = IF q = p THEN g ELSE handler[q]
    BY <2>2, Moves
  <2>4. UNCHANGED <<show, overwritten>>
    BY <1>2 DEF CollectionBegin, ContentSame, contentVars, showVars
  <2> QED BY <1>0, <2>2, <2>3, <2>4 DEF ShowTypes, CollectionDates
<1>3. CASE CollectionUpdate(p)
  <2>1. h \in [at: {"show_update"}, read: Statuses, to: {"keep", "draft", "published", "archived"}]
    BY <1>0, <1>3 DEF CollectionUpdate, At, ContentHandlers, Idle
  <2>2. /\ handler' \in [Api -> ContentHandlers]
        /\ \A q \in Api : handler'[q] = IF q = p THEN Idle ELSE handler[q]
    BY <1>3, IdleTyped, Moves DEF CollectionUpdate, Finish
  <2>3. CASE Shown
    <3>1. /\ show' = [show EXCEPT !.status = IF h.to = "keep" THEN show.status ELSE h.to,
                                  !.dated = Dated(h.read, h.to)]
          /\ overwritten' = (overwritten \/ show.status # h.read)
      BY <1>3, <2>3 DEF CollectionUpdate
    <3>2. Dated(h.read, h.to) \in BOOLEAN
      BY DEF Dated
    <3>3. /\ show'.status = IF h.to = "keep" THEN show.status ELSE h.to
          /\ show'.dated = Dated(h.read, h.to)
          /\ ShowTypes'
      BY <1>0, <2>1, <3>1, <3>2 DEF ShowTypes, Statuses
    <3>4. show'.dated => show'.status = "published"
      BY <2>1, <3>3 DEF Dated, CollectionDates
    <3>5. ASSUME show'.status = "published", ~show'.dated
          PROVE  overwritten'
      <4>1. CASE h.to = "keep"
        <5>1. ~show.dated
          BY <3>3, <3>5, <4>1 DEF Dated
        <5> QED BY <3>1, <3>3, <3>5, <4>1, <5>1 DEF CollectionDates
      <4>2. CASE h.to # "keep"
        <5>1. h.to = "published" /\ h.read = "published" /\ ~show.dated
          BY <3>3, <3>5, <4>2 DEF Dated
        <5> QED BY <3>1, <5>1 DEF CollectionDates
      <4> QED BY <4>1, <4>2
    <3> QED BY <2>2, <3>3, <3>4, <3>5, IdleTyped DEF CollectionDates, ShowPoints
  <2>4. CASE ~Shown
    <3>1. UNCHANGED <<show, overwritten>>
      BY <1>3, <2>4 DEF CollectionUpdate, showVars
    <3> QED BY <1>0, <2>2, <3>1, IdleTyped DEF ShowTypes, CollectionDates, ShowPoints
  <2> QED BY <2>3, <2>4
<1>4. CASE CollectionDelete(p)
  <2>1. /\ handler' \in [Api -> ContentHandlers]
        /\ \A q \in Api : handler'[q] = IF q = p THEN Idle ELSE handler[q]
    BY <1>4, IdleTyped, Moves DEF CollectionDelete, Finish
  <2> QED BY <1>0, <1>4, <2>1, IdleTyped
          DEF CollectionDelete, ShowTypes, Statuses, CollectionDates, ShowPoints
<1>5. CASE CollectionItem(p)
  <2>1. PICK g \in ContentHandlers : g.at \in ShowPoints /\ Suspend(p, g)
    <3>1. [at |-> "item_answer"] \in ContentHandlers
      BY DEF ContentHandlers
    <3> QED BY <1>5, <3>1, IdleTyped DEF CollectionItem, Finish, ShowPoints
  <2>2. /\ handler' \in [Api -> ContentHandlers]
        /\ \A q \in Api : handler'[q] = IF q = p THEN g ELSE handler[q]
    BY <2>1, Moves
  <2>3. ShowTypes' /\ UNCHANGED overwritten /\ show'.status = show.status /\ show'.dated = show.dated
    <3>1. (Shown /\ At(p, "item_add")) \in BOOLEAN
      BY DEF Shown, At
    <3>2. show' = [show EXCEPT !.listed = (Shown /\ At(p, "item_add"))] /\ UNCHANGED overwritten
      BY <1>5 DEF CollectionItem
    <3> QED BY <1>0, <3>1, <3>2 DEF ShowTypes
  <2> QED BY <2>1, <2>2, <2>3 DEF CollectionDates
<1>6. CASE CollectionAnswer(p)
  <2>1. /\ handler' \in [Api -> ContentHandlers]
        /\ \A q \in Api : handler'[q] = IF q = p THEN Idle ELSE handler[q]
    BY <1>6, IdleTyped, Moves DEF CollectionAnswer, Finish
  <2>2. UNCHANGED <<show, overwritten>>
    BY <1>6 DEF CollectionAnswer, ContentSame, contentVars, showVars
  <2> QED BY <1>0, <2>1, <2>2, IdleTyped DEF ShowTypes, CollectionDates, ShowPoints
<1> QED
  BY <1>1, <1>2, <1>3, <1>4, <1>5, <1>6 DEF OnCollections

-----------------------------------------------------------------------------
(* The tags.  The lock is what makes the tags of a family those of one     *)
(* request: whoever is about to write holds it, and has read the tags that *)
(* are there.                                                              *)

TagTypes ==
  /\ tags \subseteq tagRows /\ tagRows \subseteq Tags
  /\ tagLock \in Api \cup {None} /\ chosen \subseteq Tags

TagsHeld ==
  /\ TagsOfOneRequest
  /\ \A p \in Api : At(p, "tags_write") => tagLock = p /\ handler[p].read = tags

TagPoints == {"idle", "tags_lock", "tags_write", "tags_answer"}

LEMMA TagsStep ==
  ASSUME ContentAssumption, ContentTyped, TagsHeld, NEW p \in Api, OnTags(p)
  PROVE  /\ TagTypes' /\ TagsHeld'
         /\ handler' \in [Api -> ContentHandlers]
         /\ \A q \in Api : handler'[q] # handler[q] => handler'[q].at \in TagPoints
<1> DEFINE h == handler[p]
<1>0. TagTypes /\ h \in ContentHandlers
  BY DEF ContentTyped, ContentTypeOK, TagTypes
<1>1. CASE TagsBegin(p)
  <2>1. PICK want \in SUBSET tagRows : Begin(p, [at |-> "tags_lock", want |-> want, read |-> {}])
    BY <1>1 DEF TagsBegin
  <2>2. PICK g \in ContentHandlers : g = [at |-> "tags_lock", want |-> want, read |-> {}]
    BY <1>0 DEF ContentHandlers, TagTypes
  <2>3. /\ handler' \in [Api -> ContentHandlers]
        /\ \A q \in Api : handler'[q] = IF q = p THEN g ELSE handler[q]
    BY <2>1, <2>2, Moves DEF Begin
  <2>4. UNCHANGED <<tagRows, tags, tagLock, chosen>>
    BY <1>1 DEF TagsBegin, ContentSame, contentVars, tagVars
  <2> QED BY <1>0, <2>2, <2>3, <2>4 DEF TagTypes, TagsHeld, TagsOfOneRequest, At, TagPoints
<1>2. CASE TagsLock(p)
  <2>1. h \in [at: {"tags_lock", "tags_write"}, want: SUBSET Tags, read: SUBSET Tags]
    BY <1>0, <1>2 DEF TagsLock, At, ContentHandlers, Idle
  <2>2. PICK g \in ContentHandlers : g = [h EXCEPT !.at = "tags_write", !.read = tags]
    BY <1>0, <2>1 DEF ContentHandlers, TagTypes
  <2>3. g.at = "tags_write" /\ g.read = tags
    BY <2>1, <2>2
  <2>4. /\ handler' \in [Api -> ContentHandlers]
        /\ \A q \in Api : handler'[q] = IF q = p THEN g ELSE handler[q]
    BY <1>2, <2>2, Moves DEF TagsLock
  <2>5. tagLock = None /\ tagLock' = p /\ UNCHANGED <<tagRows, tags, chosen>>
    BY <1>2 DEF TagsLock
  <2>6. \A q \in Api \ {p} : ~At(q, "tags_write")
    BY <2>5 DEF TagsHeld, ContentAssumption
  <2> QED BY <1>0, <2>3, <2>4, <2>5, <2>6 DEF TagTypes, TagsHeld, TagsOfOneRequest, At, TagPoints
<1>3. CASE TagsCommit(p)
  <2>1. h \in [at: {"tags_lock", "tags_write"}, want: SUBSET Tags, read: SUBSET Tags]
    BY <1>0, <1>3 DEF TagsCommit, At, ContentHandlers, Idle
  <2>2. tagLock = p /\ h.read = tags
    BY <1>3 DEF TagsCommit, TagsHeld
  <2>3. PICK g \in ContentHandlers : Suspend(p, g) /\ g.at \in {"idle", "tags_answer"}
    <3>1. [at |-> "tags_answer"] \in ContentHandlers
      BY DEF ContentHandlers
    <3> QED BY <1>3, <3>1, IdleTyped DEF TagsCommit, Finish
  <2>4. /\ handler' \in [Api -> ContentHandlers]
        /\ \A q \in Api : handler'[q] = IF q = p THEN g ELSE handler[q]
    BY <2>3, Moves
  <2>5. tagLock' = None /\ UNCHANGED tagRows
    BY <1>3 DEF TagsCommit
  <2>6. TagTypes' /\ TagsOfOneRequest'
    <3>1. CASE h.want \subseteq tagRows
      <4>1. tags' = (tags \ h.read) \cup h.want /\ chosen' = h.want
        BY <1>3, <3>1 DEF TagsCommit
      <4>2. tags' = h.want
        BY <2>2, <4>1
      <4> QED BY <1>0, <2>1, <2>5, <3>1, <4>1, <4>2 DEF TagTypes, TagsOfOneRequest
    <3>2. CASE ~(h.want \subseteq tagRows)
      <4>1. UNCHANGED <<tags, chosen>>
        BY <1>3, <3>2 DEF TagsCommit
      <4> QED BY <1>0, <2>5, <4>1 DEF TagTypes, TagsHeld, TagsOfOneRequest
    <3> QED BY <3>1, <3>2
  <2>7. \A q \in Api \ {p} : ~At(q, "tags_write")
    BY <2>2 DEF TagsHeld
  <2> QED BY <2>3, <2>4, <2>6, <2>7 DEF TagsHeld, At, TagPoints
<1>4. CASE TagsAnswer(p)
  <2>1. /\ handler' \in [Api -> ContentHandlers]
        /\ \A q \in Api : handler'[q] = IF q = p THEN Idle ELSE handler[q]
    BY <1>4, IdleTyped, Moves DEF TagsAnswer, Finish
  <2>2. UNCHANGED <<tagRows, tags, tagLock, chosen>>
    BY <1>4 DEF TagsAnswer, ContentSame, contentVars, tagVars
  <2> QED BY <1>0, <2>1, <2>2, IdleTyped DEF TagTypes, TagsHeld, TagsOfOneRequest, At, TagPoints
<1>5. ASSUME NEW t \in Tags, TagDelete(p, t)
      PROVE  TagTypes' /\ TagsHeld' /\ UNCHANGED handler
  BY <1>0, <1>5 DEF TagDelete, TagTypes, TagsHeld, TagsOfOneRequest, At
<1> QED
  BY <1>1, <1>2, <1>3, <1>4, <1>5 DEF OnTags, ContentTyped

-----------------------------------------------------------------------------
(* The licenses.                                                           *)

LicenseTypes ==
  /\ offered \subseteq licenses /\ licenses \subseteq Licenses
  /\ claim \in [status: {"none", "open", "approved"}, declared: Licenses \cup {None},
                shown: Licenses \cup {None}]

LicensePoints == {"idle", "claim_save", "relicense"}

LEMMA LicenseStep ==
  ASSUME ContentTyped, NEW p \in Api, OnLicenses(p)
  PROVE  /\ LicenseTypes'
         /\ handler' \in [Api -> ContentHandlers]
         /\ \A q \in Api : handler'[q] # handler[q] => handler'[q].at \in LicensePoints
<1> DEFINE h == handler[p]
<1>0. LicenseTypes /\ h \in ContentHandlers
  BY DEF ContentTyped, ContentTypeOK, LicenseTypes
<1>1. ASSUME NEW l \in Licenses, NEW point \in {"claim_save", "relicense"},
             Begin(p, [at |-> point, license |-> l]), ContentSame
      PROVE  /\ LicenseTypes'
             /\ handler' \in [Api -> ContentHandlers]
             /\ \A q \in Api : handler'[q] # handler[q] => handler'[q].at \in LicensePoints
  <2>1. PICK g \in ContentHandlers : g = [at |-> point, license |-> l]
    BY DEF ContentHandlers
  <2>2. /\ handler' \in [Api -> ContentHandlers]
        /\ \A q \in Api : handler'[q] = IF q = p THEN g ELSE handler[q]
    BY <1>1, <2>1, Moves DEF Begin
  <2>3. UNCHANGED <<licenses, offered, claim>>
    BY <1>1 DEF ContentSame, contentVars, licenseVars
  <2> QED BY <1>0, <2>1, <2>2, <2>3 DEF LicenseTypes, LicensePoints
<1>2. CASE ClaimBegin(p)
  BY <1>0, <1>1, <1>2 DEF ClaimBegin, LicenseTypes
<1>3. CASE RelicenseBegin(p)
  BY <1>0, <1>1, <1>3 DEF RelicenseBegin, LicenseTypes
<1>4. CASE ClaimSave(p) \/ Relicense(p)
  <2>1. h \in [at: {"claim_save", "relicense"}, license: Licenses]
    BY <1>0, <1>4 DEF ClaimSave, Relicense, At, ContentHandlers, Idle
  <2>2. /\ handler' \in [Api -> ContentHandlers]
        /\ \A q \in Api : handler'[q] = IF q = p THEN Idle ELSE handler[q]
    BY <1>4, IdleTyped, Moves DEF ClaimSave, Relicense, Finish
  <2>3. LicenseTypes'
    BY <1>0, <1>4, <2>1 DEF ClaimSave, Relicense, LicenseTypes
  <2> QED BY <2>2, <2>3, IdleTyped DEF LicensePoints
<1>5. CASE ClaimApprove(p)
  BY <1>0, <1>5 DEF ClaimApprove, LicenseTypes, ContentTyped
<1>6. ASSUME NEW l \in Licenses, LicenseUpdate(p, l) \/ LicenseDelete(p, l)
      PROVE  LicenseTypes' /\ UNCHANGED handler
  BY <1>0, <1>6 DEF LicenseUpdate, LicenseDelete, LicenseTypes
<1> QED
  BY <1>2, <1>3, <1>4, <1>5, <1>6 DEF OnLicenses, ContentTyped

-----------------------------------------------------------------------------
(* All of them together: a request of one kind leaves the variables of the *)
(* others alone, and the requests that are elsewhere where they are.       *)

ContentInv == ContentTyped /\ ConflictsAreRaces /\ CollectionDates /\ TagsHeld

LEMMA ContentTypedParts ==
  ContentTyped <=> /\ SlugTypes /\ ShowTypes /\ TagTypes /\ LicenseTypes
                   /\ handler \in [Api -> ContentHandlers]
BY DEF ContentTyped, ContentTypeOK, SlugTypes, ShowTypes, TagTypes, LicenseTypes, HandlersWithin

LEMMA ContentStarts ==
  ASSUME ContentAssumption, HandlersIdle, ContentInit
  PROVE  ContentInv
<1>1. SlugTypes /\ ShowTypes /\ TagTypes /\ LicenseTypes
  BY DEF ContentInit, SlugTypes, ShowTypes, TagTypes, LicenseTypes, Statuses
<1>2. handler \in [Api -> ContentHandlers]
  BY IdleTyped DEF HandlersIdle
<1>3. ConflictsAreRaces /\ CollectionDates /\ TagsHeld
  BY IdleTyped DEF HandlersIdle, ContentInit, ConflictsAreRaces, CollectionDates, TagsHeld,
                   TagsOfOneRequest, At
<1> QED
  BY <1>1, <1>2, <1>3, ContentTypedParts DEF ContentInv

\* What the slugs and the tags keep when a request of another kind moves.
LEMMA SlugsApart ==
  ASSUME ConflictsAreRaces, UNCHANGED slugVars,
         \A q \in Api : handler'[q] # handler[q] => handler'[q].at # "slug_save"
  PROVE  ConflictsAreRaces'
BY DEF ConflictsAreRaces, HeldByOther, At, slugVars

LEMMA TagsApart ==
  ASSUME TagsHeld, UNCHANGED tagVars,
         \A q \in Api : handler'[q] # handler[q] => handler'[q].at # "tags_write"
  PROVE  TagsHeld'
BY DEF TagsHeld, TagsOfOneRequest, At, tagVars

LEMMA ContentKeeps ==
  ASSUME ContentAssumption, ContentInv, [ContentNext]_<<contentVars, handler>>
  PROVE  ContentInv'
<1>0. /\ ContentTyped /\ ConflictsAreRaces /\ CollectionDates /\ TagsHeld
      /\ SlugTypes /\ ShowTypes /\ TagTypes /\ LicenseTypes
  BY ContentTypedParts DEF ContentInv
<1>1. CASE UNCHANGED <<contentVars, handler>>
  BY <1>1, <1>0 DEF contentVars, slugVars, showVars, tagVars, licenseVars, ContentInv, ContentTyped,
                    ContentTypeOK, HandlersWithin, ConflictsAreRaces, CollectionDates, TagsHeld,
                    TagsOfOneRequest, HeldByOther, At
<1>2. ASSUME NEW p \in Api, OnSlugs(p)
      PROVE  ContentInv'
  <2>0. SlugTypes' /\ ConflictsAreRaces' /\ handler' \in [Api -> ContentHandlers]
    BY <1>0, <1>2, SlugStep
  <2>1. UNCHANGED <<showVars, tagVars, licenseVars>>
    BY <1>2 DEF OnSlugs, SlugBegin, SlugLook, SlugSave, SlugDelete
  <2>2. ShowTypes' /\ CollectionDates' /\ TagTypes' /\ LicenseTypes'
    BY <1>0, <2>1 DEF showVars, tagVars, licenseVars, ShowTypes, CollectionDates, TagTypes,
                      LicenseTypes
  <2>3. TagsHeld'
    BY <1>0, <1>2, <2>1, SlugStep, TagsApart
  <2>4. ContentTyped'
    BY <2>0, <2>2 DEF ContentTyped, ContentTypeOK, SlugTypes, ShowTypes, TagTypes, LicenseTypes,
                      HandlersWithin
  <2> QED BY <2>0, <2>2, <2>3, <2>4 DEF ContentInv
<1>3. ASSUME NEW p \in Api, OnCollections(p)
      PROVE  ContentInv'
  <2>0. ShowTypes' /\ CollectionDates' /\ handler' \in [Api -> ContentHandlers]
    BY <1>0, <1>3, CollectionStep
  <2>1. UNCHANGED <<slugVars, tagVars, licenseVars>>
    BY <1>3 DEF OnCollections, CollectionCreate, CollectionBegin, CollectionUpdate,
                CollectionDelete, CollectionItem, CollectionAnswer, ContentSame, contentVars
  <2>2. SlugTypes' /\ TagTypes' /\ LicenseTypes'
    BY <1>0, <2>1 DEF slugVars, tagVars, licenseVars, SlugTypes, TagTypes, LicenseTypes
  <2>3. TagsHeld' /\ ConflictsAreRaces'
    BY <1>0, <1>3, <2>1, CollectionStep, TagsApart, SlugsApart DEF ShowPoints
  <2>4. ContentTyped'
    BY <2>0, <2>2 DEF ContentTyped, ContentTypeOK, SlugTypes, ShowTypes, TagTypes, LicenseTypes,
                      HandlersWithin
  <2> QED BY <2>0, <2>2, <2>3, <2>4 DEF ContentInv
<1>4. ASSUME NEW p \in Api, OnTags(p)
      PROVE  ContentInv'
  <2>0. TagTypes' /\ TagsHeld' /\ handler' \in [Api -> ContentHandlers]
    BY <1>0, <1>4, TagsStep
  <2>1. UNCHANGED <<slugVars, showVars, licenseVars>>
    BY <1>4 DEF OnTags, TagsBegin, TagsLock, TagsCommit, TagsAnswer, TagDelete, ContentSame,
                contentVars
  <2>2. SlugTypes' /\ ShowTypes' /\ LicenseTypes' /\ CollectionDates'
    BY <1>0, <2>1 DEF slugVars, showVars, licenseVars, SlugTypes, ShowTypes, LicenseTypes,
                      CollectionDates
  <2>3. ConflictsAreRaces'
    BY <1>0, <1>4, <2>1, TagsStep, SlugsApart DEF TagPoints
  <2>4. ContentTyped'
    BY <2>0, <2>2 DEF ContentTyped, ContentTypeOK, SlugTypes, ShowTypes, TagTypes, LicenseTypes,
                      HandlersWithin
  <2> QED BY <2>0, <2>2, <2>3, <2>4 DEF ContentInv
<1>5. ASSUME NEW p \in Api, OnLicenses(p)
      PROVE  ContentInv'
  <2>0. LicenseTypes' /\ handler' \in [Api -> ContentHandlers]
    BY <1>0, <1>5, LicenseStep
  <2>1. UNCHANGED <<slugVars, showVars, tagVars>>
    BY <1>5 DEF OnLicenses, ClaimBegin, ClaimSave, ClaimApprove, RelicenseBegin, Relicense,
                LicenseUpdate, LicenseDelete, ContentSame, contentVars
  <2>2. SlugTypes' /\ ShowTypes' /\ TagTypes' /\ CollectionDates'
    BY <1>0, <2>1 DEF slugVars, showVars, tagVars, SlugTypes, ShowTypes, TagTypes, CollectionDates
  <2>3. TagsHeld' /\ ConflictsAreRaces'
    BY <1>0, <1>5, <2>1, LicenseStep, TagsApart, SlugsApart DEF LicensePoints
  <2>4. ContentTyped'
    BY <2>0, <2>2 DEF ContentTyped, ContentTypeOK, SlugTypes, ShowTypes, TagTypes, LicenseTypes,
                      HandlersWithin
  <2> QED BY <2>0, <2>2, <2>3, <2>4 DEF ContentInv
<1> QED
  BY <1>1, <1>2, <1>3, <1>4, <1>5 DEF ContentNext

LEMMA ContentAlways == ContentSpec => []ContentInv
BY ContentAssumption, ContentStarts, ContentKeeps, PTL DEF ContentSpec

\* Whoever is about to fail at the unique key of a slug was overtaken after its
\* lookup: the lookups of every table let nothing through that was taken.
THEOREM OnlyRacesConflict == ContentSpec => []ConflictsAreRaces
BY ContentAlways, PTL DEF ContentInv

\* A collection is dated exactly while it is published, unless an update wrote
\* over a status it had not read.
THEOREM DatesOfCollections == ContentSpec => []CollectionDates
BY ContentAlways, PTL DEF ContentInv

\* The row of the family that updateFamily writes first is a lock on its tags:
\* they are always those of one request, the last that committed.
THEOREM TagsAreOfOneRequest == ContentSpec => []TagsOfOneRequest
BY ContentAlways, PTL DEF ContentInv, TagsHeld

\* The variables of ContentAdmin keep their types.
THEOREM ContentTypes == ContentSpec => []ContentTypeOK
BY ContentAlways, PTL DEF ContentInv, ContentTyped

-----------------------------------------------------------------------------
(* The packages: an object in the bucket holds what its key says, and its  *)
(* key says what was asked for.  No type and no bound is needed.           *)

StylesSpec == HandlersIdle /\ StylesInit /\ [][StylesNext]_<<styleVars, handler>>

KeyTells == (\A o \in bucket : o.key = o.zip) /\ PackageFaithful

LEMMA PackagesKeep ==
  ASSUME KeyTells, [StylesNext]_<<styleVars, handler>>
  PROVE  KeyTells'
<1>1. CASE UNCHANGED <<bucket, handed>>
  BY <1>1 DEF KeyTells, PackageFaithful
<1>2. ASSUME NEW p \in Api, PackBuild(p)
      PROVE  KeyTells'
  BY <1>2 DEF PackBuild, PackageKey, Packed, KeyTells, PackageFaithful
<1>3. ASSUME NEW p \in Api, PackHand(p)
      PROVE  KeyTells'
  <2>1. CASE UNCHANGED handed
    BY <1>3, <2>1 DEF PackHand, KeyTells, PackageFaithful
  <2>2. CASE ~UNCHANGED handed
    <3>1. PICK o \in Packed(handler[p].wanted) :
            handed' = [zip |-> o.zip, wanted |-> handler[p].wanted]
      BY <1>3, <2>2 DEF PackHand
    <3>2. o.key = handler[p].wanted /\ o.zip = o.key
      BY <3>1 DEF Packed, PackageKey, KeyTells
    <3>3. handed'.zip = handed'.wanted
      BY <3>1, <3>2
    <3> QED BY <1>3, <3>3 DEF PackHand, KeyTells, PackageFaithful
  <2> QED BY <2>1, <2>2
<1>4. ASSUME NEW p \in Api, NEW s \in Styles,
             SyncCount(p, s) \/ ContributorEdit(p, s) \/ AdminBegin(p, s)
      PROVE  UNCHANGED <<bucket, handed>>
  BY <1>4 DEF SyncCount, ContributorEdit, AdminBegin, HandlersOnly, styleVars
<1>5. ASSUME NEW p \in Api,
             SyncUpsert(p) \/ ClearOthers(p) \/ EditWrite(p) \/ AdminEdit(p) \/ AdminArchive(p)
               \/ AdminRestore(p)
      PROVE  UNCHANGED <<bucket, handed>>
  BY <1>5 DEF SyncUpsert, ClearOthers, EditWrite, AdminEdit, AdminArchive, AdminRestore, StylesOnly
<1>6. ASSUME NEW p \in Api,
             StyleAnswer(p) \/ DecideFamily(p) \/ ShelveFamily(p) \/ PackRead(p) \/ PackLook(p)
               \/ PackFails(p)
      PROVE  UNCHANGED <<bucket, handed>>
  BY <1>6 DEF StyleAnswer, DecideFamily, ShelveFamily, PackRead, PackLook, PackFails, HandlersOnly,
              styleVars
<1>7. CASE UNCHANGED <<styleVars, handler>>
  BY <1>1, <1>7 DEF styleVars
<1> QED
  BY <1>1, <1>2, <1>3, <1>4, <1>5, <1>6, <1>7 DEF StylesNext

\* A package holds the styles, files and times of update that were read when it
\* was asked for, for any styles, requests and number of writes.
THEOREM PackagesAreFaithful == StylesSpec => []PackageFaithful
<1>1. ASSUME HandlersIdle, StylesInit
      PROVE  KeyTells
  BY <1>1 DEF StylesInit, KeyTells, PackageFaithful
<1> QED
  BY <1>1, PackagesKeep, PTL DEF StylesSpec, KeyTells

-----------------------------------------------------------------------------
(* The default style.  The bound on the writes is what makes the type of   *)
(* the rows provable: there is always a next updatedAt.                    *)

StylesTyped ==
  /\ style \in [Styles -> Row]
  /\ shelf \in {"draft", "approved", "archived"}
  /\ handler \in [Api -> StyleHandlers]

LEMMA NextUpdatedAt ==
  ASSUME StylesAssumption, StylesTyped
  PROVE  Now \in 0..(MaxStamps + 1)
<1> DEFINE After(n) == \A s \in Styles : style[s].stamp < n
           S == {n \in 0..(MaxStamps + 1) : After(n)}
<1>1. MaxStamps \in Nat /\ \A s \in Styles : style[s].stamp \in 0..MaxStamps
  BY DEF StylesAssumption, StylesTyped, Row, Stamps
<1>2. MaxStamps + 1 \in S /\ S \subseteq Nat
  BY <1>1
<1>3. PICK least \in S : \A n \in S : least <= n
  <2>1. PICK least \in S : \A n \in S : <<n, least>> \notin OpToRel(<, Nat)
    BY <1>2, WFMin, NatLessThanWellFounded
  <2>2. \A n \in S : ~(n < least)
    BY <1>2, <2>1 DEF OpToRel
  <2>3. \A n \in S : least <= n
    BY <1>2, <2>2
  <2> QED BY <2>3
<1>4. \E n \in 0..(MaxStamps + 1) :
        /\ \A s \in Styles : style[s].stamp < n
        /\ n = 1 \/ \E s \in Styles : style[s].stamp = n - 1
  <2>0. least \in Nat
    BY <1>2, <1>3
  <2>1. CASE least <= 1
    <3>1. 1 \in S
      BY <1>1, <1>3, <2>1
    <3> QED BY <3>1
  <2>2. CASE least > 1
    <3>1. least - 1 \notin S /\ least - 1 \in 0..(MaxStamps + 1)
      BY <1>1, <1>3, <2>2
    <3>2. PICK s \in Styles : ~(style[s].stamp < least - 1)
      BY <3>1
    <3>3. style[s].stamp = least - 1
      BY <1>1, <1>3, <3>1, <3>2
    <3> QED BY <1>3, <3>3
  <2> HIDE DEF S
  <2> QED BY <2>0, <2>1, <2>2
<1> QED
  BY <1>4 DEF Now

LEMMA StyleMoves ==
  ASSUME StylesTyped, NEW p \in Api, NEW h \in StyleHandlers, Suspend(p, h)
  PROVE  /\ handler' \in [Api -> StyleHandlers]
         /\ \A q \in Api : handler'[q] = IF q = p THEN h ELSE handler[q]
BY DEF StylesTyped, Suspend

LEMMA WarmMoves ==
  ASSUME StylesTyped, NEW p \in Api, NEW approved, Warm(p, approved)
  PROVE  handler' \in [Api -> StyleHandlers]
<1>1. Idle \in StyleHandlers /\ [at |-> "pack_read"] \in StyleHandlers
  BY DEF StyleHandlers
<1> QED
  BY <1>1, StyleMoves DEF Warm, Finish

LEMMA AnswerMoves ==
  ASSUME StylesTyped, NEW p \in Api, NEW approved \in BOOLEAN, AnswerStyle(p, approved)
  PROVE  handler' \in [Api -> StyleHandlers]
<1>1. [at |-> "style_answer", approved |-> approved] \in StyleHandlers
  BY DEF StyleHandlers
<1> QED
  BY <1>1, StyleMoves DEF AnswerStyle

\* Which steps of a request at one of the points of DefaultKept write a style.
DefaultsKept ==
  \A p \in Api :
    /\ handler[p].at \in {"sync", "admin_archive", "admin_restore"} /\ CurrentRead(p)
    /\ handler'[p] # handler[p] /\ style' # style
    /\ LiveDefault \/ Existing = {}
    /\ (\E s \in Styles : Live(s))'
    => LiveDefault'

LEMMA SyncStep ==
  ASSUME StylesAssumption, StylesTyped, NEW p \in Api, SyncUpsert(p)
  PROVE  StylesTyped' /\ DefaultsKept
<1> DEFINE h == handler[p]
<1>1. h \in [at: {"sync"}, style: Styles, count: 0..Cardinality(Styles)]
  BY DEF SyncUpsert, At, StylesTyped, StyleHandlers, Idle
<1>2. Now \in Stamps
  BY NextUpdatedAt DEF SyncUpsert, Clock, Stamps, StylesAssumption
<1>3. PICK now \in Stamps : now = Now
  BY <1>2
<1>4. PICK default \in BOOLEAN : default = SyncedDefault(h, style[h.style])
  <2>1. style[h.style].default \in BOOLEAN
    BY <1>1 DEF StylesTyped, Row
  <2>2. /\ (h.count = 0 \/ h.style \in Regular) \in BOOLEAN
        /\ (h.style \in Regular) \in BOOLEAN
    OBVIOUS
  <2>3. SyncedDefault(h, style[h.style]) \in BOOLEAN
    BY <2>1, <2>2, Zenon DEF SyncedDefault
  <2> QED BY <2>3
<1>5. PICK row \in Row :
        /\ style' = [style EXCEPT ![h.style] = row]
        /\ row.row # "none"
        /\ style[h.style].row = "none" => row.row = "draft"
        /\ row.default = SyncedDefault(h, style[h.style])
  <2>1. PICK old \in Row : old = style[h.style] /\ h.style \in Styles
    BY <1>1 DEF StylesTyped
  <2>2. PICK live \in Rows : live = IF old.row = "none" THEN "draft" ELSE old.row
    BY <2>1 DEF Row, Rows
  <2>3. PICK row \in Row : row = [row |-> live, default |-> default, file |-> now, stamp |-> now]
    BY DEF Row
  <2>4. style' = [s \in Styles |->
                    IF s = h.style
                    THEN [[style[s] EXCEPT !.row = IF style[s].row = "none" THEN "draft" ELSE style[s].row,
                             !.default = SyncedDefault(h, style[s]), !.file = now] EXCEPT !.stamp = now]
                    ELSE style[s]]
    BY <1>3, Zenon DEF SyncUpsert, Write
  <2>5. [[old EXCEPT !.row = live, !.default = default, !.file = now] EXCEPT !.stamp = now] = row
    <3>1. PICK mid : mid = [old EXCEPT !.row = live, !.default = default, !.file = now]
      OBVIOUS
    <3>2. mid = [row |-> live, default |-> default, file |-> now, stamp |-> old.stamp]
      BY <2>1, <3>1 DEF Row
    <3>3. [mid EXCEPT !.stamp = now] = row
      BY <2>3, <3>2
    <3> QED BY <3>1, <3>3
  <2>6. style' = [s \in Styles |-> IF s = h.style THEN row ELSE style[s]]
    BY <1>4, <2>1, <2>2, <2>4, <2>5, Zenon
  <2>7. style' = [style EXCEPT ![h.style] = row]
    BY <2>1, <2>6 DEF StylesTyped
  <2> QED BY <1>4, <2>1, <2>2, <2>3, <2>7
<1>6. StylesTyped' /\ \A q \in Api : handler'[q] # handler[q] => q = p
  <2>1. Idle \in StyleHandlers
    BY DEF StyleHandlers
  <2>2. /\ handler' \in [Api -> StyleHandlers]
        /\ \A q \in Api : handler'[q] = IF q = p THEN Idle ELSE handler[q]
    BY <2>1, StyleMoves DEF SyncUpsert, Finish
  <2> QED BY <1>5, <2>2 DEF SyncUpsert, StylesOnly, StylesTyped
<1>7. ASSUME CurrentRead(p), LiveDefault \/ Existing = {}
      PROVE  LiveDefault'
  <2>1. ~Exists(h.style) /\ (Existing = {} => h.count = 0)
    BY <1>1, <1>7 DEF CurrentRead
  <2>2. CASE Existing = {}
    <3>1. row.default
      BY <1>5, <2>1, <2>2 DEF SyncedDefault, Exists
    <3> QED BY <1>1, <1>5, <2>1, <3>1 DEF LiveDefault, Live, StylesTyped, Exists
  <2>3. CASE LiveDefault
    <3>1. PICK s \in Styles : Live(s) /\ style[s].default
      BY <2>3 DEF LiveDefault
    <3>2. style'[s] = style[s]
      BY <1>5, <2>1, <3>1 DEF StylesTyped, Live, Exists
    <3> QED BY <3>1, <3>2 DEF LiveDefault, Live
  <2> QED BY <1>7, <2>2, <2>3
<1> QED
  BY <1>6, <1>7 DEF DefaultsKept

LEMMA ArchiveStep ==
  ASSUME StylesAssumption, StylesTyped, NEW p \in Api, AdminArchive(p)
  PROVE  StylesTyped' /\ DefaultsKept
<1> DEFINE h == handler[p]
           others == IF h.default THEN Fallbacks(h.style) ELSE {}
<1>1. h \in [at: {"admin_edit", "admin_archive", "admin_restore"}, style: Styles,
             default: BOOLEAN, approved: BOOLEAN]
  <2>1. h \in StyleHandlers /\ h.at = "admin_archive"
    BY DEF AdminArchive, At, StylesTyped
  <2> QED BY <2>1 DEF StyleHandlers, Idle
<1>2. Now \in Stamps
  <2>1. Clock
    BY DEF AdminArchive
  <2> QED BY <2>1, NextUpdatedAt DEF Clock, Stamps, StylesAssumption
<1>3. PICK now \in Stamps : now = Now
  BY <1>2
<1>4. PICK next \in SUBSET others :
        /\ Cardinality(next) = IF others = {} THEN 0 ELSE 1
        /\ style' = [s \in Styles |->
             IF s = h.style THEN [style[s] EXCEPT !.row = "archived", !.default = FALSE, !.stamp = now]
             ELSE IF s \in next THEN [style[s] EXCEPT !.default = TRUE, !.stamp = now]
             ELSE style[s]]
  BY <1>3 DEF AdminArchive
<1>5. /\ style' \in [Styles -> Row]
      /\ \A s \in Styles : style'[s].row = IF s = h.style THEN "archived" ELSE style[s].row
      /\ \A s \in next : s # h.style => style'[s].default
      /\ \A s \in Styles \ next : s # h.style => style'[s] = style[s]
  <2>1. \A s \in Styles : style[s] \in Row
    BY DEF StylesTyped
  <2>2. ASSUME NEW old \in Row
        PROVE  /\ [old EXCEPT !.row = "archived", !.default = FALSE, !.stamp = now] \in Row
               /\ [old EXCEPT !.row = "archived", !.default = FALSE, !.stamp = now].row = "archived"
               /\ [old EXCEPT !.default = TRUE, !.stamp = now] \in Row
               /\ [old EXCEPT !.default = TRUE, !.stamp = now].row = old.row
               /\ [old EXCEPT !.default = TRUE, !.stamp = now].default
    BY DEF Row, Rows
  <2>3. ASSUME NEW s \in Styles
        PROVE  /\ style'[s] \in Row
               /\ style'[s].row = IF s = h.style THEN "archived" ELSE style[s].row
               /\ s \in next /\ s # h.style => style'[s].default
               /\ s \notin next /\ s # h.style => style'[s] = style[s]
    <3>1. CASE s = h.style
      <4>1. style'[s] = [style[s] EXCEPT !.row = "archived", !.default = FALSE, !.stamp = now]
        BY <1>4, <3>1
      <4>2. PICK filed \in Row :
              filed = [style[s] EXCEPT !.row = "archived", !.default = FALSE, !.stamp = now]
        BY <2>1, <2>2
      <4>3. filed.row = "archived"
        BY <2>1, <4>2 DEF Row
      <4> QED BY <3>1, <4>1, <4>2, <4>3
    <3>2. CASE s # h.style /\ s \in next
      <4>1. style'[s] = [style[s] EXCEPT !.default = TRUE, !.stamp = now]
        BY <1>4, <3>2
      <4> QED BY <2>1, <2>2, <3>2, <4>1
    <3>3. CASE s # h.style /\ s \notin next
      <4>1. style'[s] = style[s]
        BY <1>4, <3>3
      <4> QED BY <2>1, <3>3, <4>1
    <3> QED BY <3>1, <3>2, <3>3
  <2>4. next \subseteq Styles
    BY <1>4 DEF Fallbacks
  <2>5. style' \in [Styles -> Row]
    BY <1>4, <2>3
  <2> QED BY <2>3, <2>4, <2>5
<1>6. StylesTyped' /\ \A q \in Api : handler'[q] # handler[q] => q = p
  <2>1. AnswerStyle(p, h.approved) /\ h.approved \in BOOLEAN /\ UNCHANGED shelf
    BY <1>1 DEF AdminArchive, StylesOnly
  <2>2. handler' \in [Api -> StyleHandlers]
    BY <2>1, AnswerMoves
  <2> QED BY <1>5, <2>1, <2>2 DEF StylesTyped, AnswerStyle, Suspend
<1>7. ASSUME CurrentRead(p), LiveDefault \/ Existing = {}, (\E s \in Styles : Live(s))'
      PROVE  LiveDefault'
  <2>1. h.default = style[h.style].default
    BY <1>1, <1>7 DEF CurrentRead, AdminArchive, At
  <2>2. PICK s \in Styles : s # h.style /\ Live(s)
    BY <1>5, <1>7 DEF Live
  <2>3. LiveDefault
    BY <1>7, <2>2 DEF Existing, Exists, Live
  <2>4. CASE h.default
    <3>1. s \in others
      BY <2>2, <2>4 DEF Fallbacks
    <3>2. next # {}
      <4>1. Cardinality(next) = 1
        BY <1>4, <3>1
      <4> QED BY <4>1, FS_EmptySet
    <3>3. PICK t \in next : t \in Styles /\ t # h.style /\ Live(t)
      BY <2>4, <3>2 DEF Fallbacks
    <3> QED BY <1>5, <3>3 DEF LiveDefault, Live
  <2>5. CASE ~h.default
    <3>1. PICK t \in Styles : Live(t) /\ style[t].default
      BY <2>3 DEF LiveDefault
    <3>2. t # h.style /\ t \notin next
      BY <2>1, <2>5, <3>1
    <3>3. style'[t] = style[t]
      BY <1>5, <3>1, <3>2
    <3> QED BY <3>1, <3>3 DEF LiveDefault, Live
  <2> QED BY <2>4, <2>5
<1> QED
  BY <1>6, <1>7 DEF DefaultsKept

LEMMA RowWrites ==
  ASSUME NEW old \in Row, NEW r \in Rows, NEW d \in BOOLEAN, NEW now \in Stamps
  PROVE  /\ [old EXCEPT !.stamp = now] \in Row
         /\ [[old EXCEPT !.default = d] EXCEPT !.stamp = now] \in Row
         /\ [[old EXCEPT !.row = r] EXCEPT !.stamp = now] \in Row
<1>1. PICK a \in Row : a = [old EXCEPT !.default = d]
  BY DEF Row
<1>2. PICK b \in Row : b = [old EXCEPT !.row = r]
  BY DEF Row
<1>3. \A row \in Row : [row EXCEPT !.stamp = now] \in Row
  BY DEF Row
<1> QED
  BY <1>1, <1>2, <1>3

LEMMA RestoreStep ==
  ASSUME StylesAssumption, StylesTyped, NEW p \in Api, AdminRestore(p)
  PROVE  StylesTyped' /\ DefaultsKept
<1> DEFINE h == handler[p]
<1>1. h \in [at: {"admin_edit", "admin_archive", "admin_restore"}, style: Styles,
             default: BOOLEAN, approved: BOOLEAN]
  <2>1. h \in StyleHandlers /\ h.at = "admin_restore"
    BY DEF AdminRestore, At, StylesTyped
  <2> QED BY <2>1 DEF StyleHandlers, Idle
<1>2. PICK now \in Stamps : now = Now
  <2>1. Clock
    BY DEF AdminRestore
  <2> QED BY <2>1, NextUpdatedAt DEF Clock, Stamps, StylesAssumption
<1>3. PICK old \in Row : old = style[h.style] /\ h.style \in Styles
  BY <1>1 DEF StylesTyped
<1>4. PICK live \in Rows : live = IF h.approved THEN "approved" ELSE "draft"
  BY DEF Rows
<1>5. PICK default \in BOOLEAN : default = (old.default \/ ~LiveDefault)
  OBVIOUS
<1>6. PICK row \in Row :
        /\ row = [[old EXCEPT !.row = live, !.default = default] EXCEPT !.stamp = now]
        /\ row.row = live /\ row.default = default
  <2>1. PICK c \in Row : c = [old EXCEPT !.row = live, !.default = default]
    BY DEF Row
  <2>2. PICK row \in Row : row = [c EXCEPT !.stamp = now]
    BY DEF Row
  <2>3. c.row = live /\ c.default = default
    BY <2>1 DEF Row
  <2>4. row.row = live /\ row.default = default
    BY <2>2, <2>3 DEF Row
  <2> QED BY <2>1, <2>2, <2>4
<1>7. style' = [s \in Styles |->
                  IF s \in {h.style}
                  THEN [[style[s] EXCEPT !.row = IF h.approved THEN "approved" ELSE "draft",
                                         !.default = style[s].default \/ ~LiveDefault]
                          EXCEPT !.stamp = now]
                  ELSE style[s]]
  BY <1>2, Zenon DEF AdminRestore, Write
<1>8. style' = [s \in Styles |-> IF s = h.style THEN row ELSE style[s]]
  <2>1. ASSUME NEW s \in Styles
        PROVE  (IF s \in {h.style}
                THEN [[style[s] EXCEPT !.row = IF h.approved THEN "approved" ELSE "draft",
                                       !.default = style[s].default \/ ~LiveDefault]
                        EXCEPT !.stamp = now]
                ELSE style[s]) = IF s = h.style THEN row ELSE style[s]
    <3>1. CASE s = h.style
      <4>1. /\ (IF h.approved THEN "approved" ELSE "draft") = live
            /\ (style[s].default \/ ~LiveDefault) = default
            /\ style[s] = old
        BY <1>3, <1>4, <1>5, <3>1, Zenon
      <4> QED BY <1>6, <3>1, <4>1, Zenon
    <3>2. CASE s # h.style
      BY <3>2
    <3> QED BY <3>1, <3>2
  <2> QED BY <1>7, <2>1, Zenon
<1>9. StylesTyped' /\ \A q \in Api : handler'[q] # handler[q] => q = p
  <2>1. AnswerStyle(p, h.approved) /\ h.approved \in BOOLEAN /\ UNCHANGED shelf
    BY <1>1 DEF AdminRestore, StylesOnly
  <2>2. handler' \in [Api -> StyleHandlers]
    BY <2>1, AnswerMoves
  <2> QED BY <1>8, <2>1, <2>2 DEF StylesTyped, AnswerStyle, Suspend
<1>10. LiveDefault'
  <2>1. style'[h.style] = row /\ (row.row = "approved" \/ row.row = "draft")
    BY <1>3, <1>4, <1>6, <1>8
  <2>2. CASE row.default
    BY <1>3, <2>1, <2>2 DEF LiveDefault, Live
  <2>3. CASE ~row.default
    <3>1. LiveDefault /\ ~old.default
      BY <1>5, <1>6, <2>3
    <3>2. PICK s \in Styles : Live(s) /\ style[s].default
      BY <3>1 DEF LiveDefault
    <3>3. style'[s] = style[s]
      BY <1>3, <1>8, <3>1, <3>2
    <3> QED BY <3>2, <3>3 DEF LiveDefault, Live
  <2> QED BY <2>2, <2>3
<1> QED
  BY <1>9, <1>10 DEF DefaultsKept

\* The other writes of styles, by requests that are at none of those points.
LEMMA OtherWrites ==
  ASSUME StylesAssumption, StylesTyped, NEW p \in Api,
         ClearOthers(p) \/ EditWrite(p) \/ AdminEdit(p) \/ DecideFamily(p)
  PROVE  StylesTyped' /\ DefaultsKept
<1> DEFINE h == handler[p]
<1>1. PICK now \in Stamps : now = Now
  <2>1. Clock
    BY DEF ClearOthers, EditWrite, AdminEdit, DecideFamily
  <2> QED BY <2>1, NextUpdatedAt DEF Clock, Stamps, StylesAssumption
<1>2. \A s \in Styles : style[s] \in Row
  BY DEF StylesTyped
<1>3. h \in StyleHandlers
  BY DEF StylesTyped
<1>4. h.at \notin {"sync", "admin_archive", "admin_restore"}
  BY DEF ClearOthers, EditWrite, AdminEdit, DecideFamily, At
<1>5. CASE ClearOthers(p)
  <2>1. style' = [s \in Styles |-> IF s \in Existing \ {h.style}
                                   THEN [[style[s] EXCEPT !.default = FALSE] EXCEPT !.stamp = now]
                                   ELSE style[s]]
    BY <1>1, <1>5, Zenon DEF ClearOthers, Write
  <2>2. style' \in [Styles -> Row]
    <3>1. \A s \in Styles : [[style[s] EXCEPT !.default = FALSE] EXCEPT !.stamp = now] \in Row
      BY <1>2, RowWrites DEF Rows
    <3> QED BY <1>2, <2>1, <3>1, Zenon
  <2>3. h \in [at: {"undefault", "edit"}, style: Styles, choice: {"keep", "set", "unset"}]
    BY <1>3, <1>5 DEF ClearOthers, At, StyleHandlers, Idle
  <2>4. [h EXCEPT !.at = "edit"] \in StyleHandlers
    BY <2>3 DEF StyleHandlers
  <2>5. Suspend(p, [h EXCEPT !.at = "edit"]) /\ UNCHANGED shelf
    BY <1>5 DEF ClearOthers, StylesOnly
  <2>6. StylesTyped'
    BY <2>2, <2>4, <2>5, StyleMoves DEF StylesTyped
  <2> QED BY <1>4, <2>5, <2>6 DEF DefaultsKept, Suspend, StylesTyped
<1>6. CASE EditWrite(p)
  <2>1. h \in [at: {"undefault", "edit"}, style: Styles, choice: {"keep", "set", "unset"}]
    BY <1>3, <1>6 DEF EditWrite, At, StyleHandlers, Idle
  <2>2. style' = [s \in Styles |->
                    IF s \in {h.style}
                    THEN [[style[s] EXCEPT !.default =
                             IF h.choice = "keep" THEN style[s].default ELSE h.choice = "set"]
                            EXCEPT !.stamp = now]
                    ELSE style[s]]
    BY <1>1, <1>6, Zenon DEF EditWrite, Write
  <2>3. style' \in [Styles -> Row]
    <3>1. \A s \in Styles : (IF h.choice = "keep" THEN style[s].default ELSE h.choice = "set") \in BOOLEAN
      BY <1>2 DEF Row
    <3>2. \A s \in Styles : [[style[s] EXCEPT !.default =
                                IF h.choice = "keep" THEN style[s].default ELSE h.choice = "set"]
                               EXCEPT !.stamp = now] \in Row
      <4>1. "draft" \in Rows
        BY DEF Rows
      <4> QED BY <1>2, <3>1, <4>1, RowWrites, Zenon
    <3> QED BY <1>2, <2>2, <3>2, Zenon
  <2>4. Suspend(p, Idle) /\ Idle \in StyleHandlers /\ UNCHANGED shelf
    BY <1>6 DEF EditWrite, Finish, StylesOnly, StyleHandlers
  <2>5. StylesTyped'
    BY <2>3, <2>4, StyleMoves DEF StylesTyped
  <2> QED BY <1>4, <2>4, <2>5 DEF DefaultsKept, Suspend, StylesTyped
<1>7. CASE AdminEdit(p)
  <2>1. h \in [at: {"admin_edit", "admin_archive", "admin_restore"}, style: Styles,
               default: BOOLEAN, approved: BOOLEAN]
    BY <1>3, <1>7 DEF AdminEdit, At, StyleHandlers, Idle
  <2>2. style' = [s \in Styles |-> IF s \in {h.style} THEN [style[s] EXCEPT !.stamp = now]
                                   ELSE style[s]]
    BY <1>1, <1>7, Zenon DEF AdminEdit, Write
  <2>3. style' \in [Styles -> Row]
    <3>1. \A s \in Styles : [style[s] EXCEPT !.stamp = now] \in Row
      BY <1>2, RowWrites DEF Rows
    <3> QED BY <1>2, <2>2, <3>1, Zenon
  <2>4. AnswerStyle(p, h.approved) /\ h.approved \in BOOLEAN /\ UNCHANGED shelf
    BY <1>7, <2>1 DEF AdminEdit, StylesOnly
  <2>5. StylesTyped'
    BY <2>3, <2>4, AnswerMoves DEF StylesTyped
  <2> QED BY <1>4, <2>4, <2>5 DEF DefaultsKept, AnswerStyle, Suspend, StylesTyped
<1>8. CASE DecideFamily(p)
  <2>1. PICK approve \in BOOLEAN :
          /\ style' = [s \in Styles |->
                         IF s \in Existing
                         THEN [[style[s] EXCEPT !.row = IF approve THEN "approved" ELSE "draft"]
                                 EXCEPT !.stamp = now]
                         ELSE style[s]]
          /\ shelf' = IF approve THEN "approved" ELSE "draft"
          /\ Warm(p, approve)
    BY <1>1, <1>8, Zenon DEF DecideFamily, Write
  <2>2. style' \in [Styles -> Row]
    <3>1. (IF approve THEN "approved" ELSE "draft") \in Rows
      BY DEF Rows
    <3>2. \A s \in Styles : [[style[s] EXCEPT !.row = IF approve THEN "approved" ELSE "draft"]
                               EXCEPT !.stamp = now] \in Row
      BY <1>2, <3>1, RowWrites, Zenon
    <3> QED BY <1>2, <2>1, <3>2, Zenon
  <2>3. StylesTyped'
    BY <2>1, <2>2, WarmMoves DEF StylesTyped
  <2> QED BY <1>4, <2>1, <2>3 DEF DefaultsKept, Warm, Finish, Suspend, StylesTyped
<1> QED
  BY <1>5, <1>6, <1>7, <1>8

\* The steps that write no style.
LEMMA NoWrites ==
  ASSUME StylesTyped, NEW p \in Api,
         \/ \E s \in Styles : SyncCount(p, s) \/ ContributorEdit(p, s) \/ AdminBegin(p, s)
         \/ StyleAnswer(p) \/ ShelveFamily(p)
         \/ PackRead(p) \/ PackLook(p) \/ PackBuild(p) \/ PackFails(p) \/ PackHand(p),
         IsFiniteSet(Styles)
  PROVE  StylesTyped' /\ DefaultsKept
<1> DEFINE h == handler[p]
<1>0. h \in StyleHandlers /\ Idle \in StyleHandlers
  BY DEF StylesTyped, StyleHandlers
<1>1. ASSUME UNCHANGED <<style, shelf>>, handler' \in [Api -> StyleHandlers]
      PROVE  StylesTyped' /\ DefaultsKept
  BY <1>1 DEF StylesTyped, DefaultsKept
<1>2. ASSUME NEW s \in Styles, SyncCount(p, s)
      PROVE  StylesTyped' /\ DefaultsKept
  <2>1. Cardinality(Existing) \in 0..Cardinality(Styles)
    BY FS_Subset, FS_CardinalityType DEF Existing
  <2>2. [at |-> "sync", style |-> s, count |-> Cardinality(Existing)] \in StyleHandlers
    BY <2>1 DEF StyleHandlers
  <2>3. handler' \in [Api -> StyleHandlers]
    BY <1>2, <2>2, StyleMoves DEF SyncCount, Begin
  <2> QED BY <1>1, <1>2, <2>3 DEF SyncCount, HandlersOnly, styleVars
<1>3. ASSUME NEW s \in Styles, ContributorEdit(p, s)
      PROVE  StylesTyped' /\ DefaultsKept
  <2>1. PICK choice \in {"keep", "set", "unset"} :
          Begin(p, [at |-> IF choice = "set" THEN "undefault" ELSE "edit", style |-> s,
                    choice |-> choice])
    BY <1>3 DEF ContributorEdit
  <2>2. [at |-> IF choice = "set" THEN "undefault" ELSE "edit", style |-> s, choice |-> choice]
          \in StyleHandlers
    BY DEF StyleHandlers
  <2>3. handler' \in [Api -> StyleHandlers]
    BY <2>1, <2>2, StyleMoves DEF Begin
  <2> QED BY <1>1, <1>3, <2>3 DEF ContributorEdit, HandlersOnly, styleVars
<1>4. ASSUME NEW s \in Styles, AdminBegin(p, s)
      PROVE  StylesTyped' /\ DefaultsKept
  <2>1. PICK point \in {"admin_edit", "admin_archive", "admin_restore"} :
          Begin(p, [at |-> point, style |-> s, default |-> style[s].default, approved |-> Approved])
    BY <1>4 DEF AdminBegin
  <2>2. style[s].default \in BOOLEAN /\ Approved \in BOOLEAN
    BY DEF StylesTyped, Row, Approved
  <2>3. [at |-> point, style |-> s, default |-> style[s].default, approved |-> Approved]
          \in StyleHandlers
    BY <2>2 DEF StyleHandlers
  <2>4. handler' \in [Api -> StyleHandlers]
    BY <2>1, <2>3, StyleMoves DEF Begin
  <2> QED BY <1>1, <1>4, <2>4 DEF AdminBegin, HandlersOnly, styleVars
<1>5. CASE StyleAnswer(p)
  <2>1. handler' \in [Api -> StyleHandlers]
    BY <1>5, WarmMoves DEF StyleAnswer
  <2> QED BY <1>1, <1>5, <2>1 DEF StyleAnswer, HandlersOnly, styleVars
<1>6. CASE ShelveFamily(p)
  <2>1. handler' \in [Api -> StyleHandlers]
    BY <1>6, WarmMoves DEF ShelveFamily
  <2> QED BY <1>6, <2>1 DEF ShelveFamily, StylesTyped, DefaultsKept, Approved
<1>7. CASE PackRead(p)
  <2>1. CASE Wanted = {}
    BY <1>0, <1>1, <1>7, <2>1, StyleMoves DEF PackRead, Finish, HandlersOnly, styleVars
  <2>2. CASE Wanted # {}
    <3>1. Wanted \in SUBSET Contents /\ At(p, "idle") \in BOOLEAN
      BY DEF Wanted, Contents, StylesTyped, Row, At
    <3>2. [at |-> "pack_look", wanted |-> Wanted, hand |-> At(p, "idle")] \in StyleHandlers
      BY <3>1 DEF StyleHandlers
    <3>3. handler' \in [Api -> StyleHandlers]
      BY <1>7, <2>2, <3>2, StyleMoves DEF PackRead
    <3> QED BY <1>1, <1>7, <3>3 DEF PackRead, HandlersOnly, styleVars
  <2> QED BY <2>1, <2>2
<1>8. CASE PackLook(p) \/ PackBuild(p)
  <2>1. h.at \in {"pack_look", "pack_build"}
    BY <1>8 DEF PackLook, PackBuild, At
  <2>2. h \in [at: {"pack_look", "pack_build", "pack_hand"}, wanted: SUBSET Contents, hand: BOOLEAN]
    BY <1>0, <2>1 DEF StyleHandlers, Idle
  <2>3. [h EXCEPT !.at = "pack_hand"] \in StyleHandlers /\ [h EXCEPT !.at = "pack_build"] \in StyleHandlers
    BY <2>2 DEF StyleHandlers
  <2>4. handler' \in [Api -> StyleHandlers]
    BY <1>8, <2>3, StyleMoves DEF PackLook, PackBuild
  <2> QED BY <1>1, <1>8, <2>4 DEF PackLook, PackBuild, HandlersOnly, styleVars
<1>9. CASE PackFails(p) \/ PackHand(p)
  <2>1. handler' \in [Api -> StyleHandlers]
    BY <1>0, <1>9, StyleMoves DEF PackFails, PackHand, Finish
  <2> QED BY <1>1, <1>9, <2>1 DEF PackFails, PackHand, HandlersOnly, styleVars
<1> QED
  BY <1>2, <1>3, <1>4, <1>5, <1>6, <1>7, <1>8, <1>9

LEMMA StylesKeep ==
  ASSUME StylesAssumption, IsFiniteSet(Styles), StylesTyped, [StylesNext]_<<styleVars, handler>>
  PROVE  StylesTyped' /\ DefaultsKept
<1>1. CASE UNCHANGED <<styleVars, handler>>
  BY <1>1 DEF styleVars, StylesTyped, DefaultsKept
<1>2. ASSUME NEW p \in Api,
             SyncUpsert(p) \/ AdminArchive(p) \/ AdminRestore(p) \/ ClearOthers(p) \/ EditWrite(p)
               \/ AdminEdit(p) \/ DecideFamily(p)
      PROVE  StylesTyped' /\ DefaultsKept
  BY <1>2, SyncStep, ArchiveStep, RestoreStep, OtherWrites
<1>3. ASSUME NEW p \in Api,
             \/ \E s \in Styles : SyncCount(p, s) \/ ContributorEdit(p, s) \/ AdminBegin(p, s)
             \/ StyleAnswer(p) \/ ShelveFamily(p)
             \/ PackRead(p) \/ PackLook(p) \/ PackBuild(p) \/ PackFails(p) \/ PackHand(p)
      PROVE  StylesTyped' /\ DefaultsKept
  BY <1>3, NoWrites
<1> QED
  BY <1>1, <1>2, <1>3 DEF StylesNext

LEMMA StylesStart ==
  ASSUME StylesAssumption, HandlersIdle, StylesInit
  PROVE  StylesTyped
<1>1. NoRow \in Row
  BY DEF NoRow, Row, Rows, Stamps, StylesAssumption
<1> QED
  BY <1>1 DEF HandlersIdle, StylesInit, StylesTyped, StyleHandlers

\* While no request is about to write a default that it chose from an older
\* read, no archiving, restoring or processing takes the default of a family
\* away, and the first style gets it: for any number of styles, requests, writes.
THEOREM DefaultStaysKept == IsFiniteSet(Styles) => (StylesSpec => DefaultKept)
<1>1. ASSUME IsFiniteSet(Styles)
      PROVE  StylesSpec => DefaultKept
  <2>1. ASSUME StylesTyped, [StylesNext]_<<styleVars, handler>>
        PROVE  StylesTyped' /\ [DefaultsKept]_style
    BY <1>1, <2>1, StylesAssumption, StylesKeep
  <2>2. HandlersIdle /\ StylesInit => StylesTyped
    BY StylesAssumption, StylesStart
  <2> QED BY <2>1, <2>2, PTL DEF StylesSpec, DefaultKept, DefaultsKept
<1> QED
  BY <1>1

-----------------------------------------------------------------------------
(* The types of the packages, with those of the requests that build them.  *)

PackagesTyped ==
  /\ bucket \subseteq [key: SUBSET Contents, zip: SUBSET Contents]
  /\ handed \in [zip: SUBSET Contents, wanted: SUBSET Contents]

LEMMA PackagesTypedKeep ==
  ASSUME StylesTyped, PackagesTyped, [StylesNext]_<<styleVars, handler>>
  PROVE  PackagesTyped'
<1>1. CASE UNCHANGED <<bucket, handed>>
  BY <1>1 DEF PackagesTyped
<1>2. ASSUME NEW p \in Api, handler[p].at \in {"pack_build", "pack_hand"}
      PROVE  handler[p].wanted \in SUBSET Contents
  BY <1>2 DEF StylesTyped, StyleHandlers, Idle
<1>3. ASSUME NEW p \in Api, PackBuild(p)
      PROVE  PackagesTyped'
  <2>1. handler[p].wanted \in SUBSET Contents
    BY <1>2, <1>3 DEF PackBuild, At
  <2> QED
    BY <1>3, <2>1 DEF PackBuild, PackageKey, Packed, PackagesTyped
<1>4. ASSUME NEW p \in Api, PackHand(p)
      PROVE  PackagesTyped'
  <2>1. handler[p].wanted \in SUBSET Contents
    BY <1>2, <1>4 DEF PackHand, At
  <2>2. UNCHANGED handed
        \/ \E o \in bucket : handed' = [zip |-> o.zip, wanted |-> handler[p].wanted]
    BY <1>4 DEF PackHand, Packed
  <2>3. handed' \in [zip: SUBSET Contents, wanted: SUBSET Contents]
    BY <2>1, <2>2 DEF PackagesTyped
  <2> QED
    BY <1>4, <2>3 DEF PackHand, PackagesTyped
<1>5. ASSUME NEW p \in Api, NEW s \in Styles,
             SyncCount(p, s) \/ ContributorEdit(p, s) \/ AdminBegin(p, s)
      PROVE  UNCHANGED <<bucket, handed>>
  BY <1>5 DEF SyncCount, ContributorEdit, AdminBegin, HandlersOnly, styleVars
<1>6. ASSUME NEW p \in Api,
             SyncUpsert(p) \/ ClearOthers(p) \/ EditWrite(p) \/ AdminEdit(p) \/ AdminArchive(p)
               \/ AdminRestore(p)
      PROVE  UNCHANGED <<bucket, handed>>
  BY <1>6 DEF SyncUpsert, ClearOthers, EditWrite, AdminEdit, AdminArchive, AdminRestore, StylesOnly
<1>7. ASSUME NEW p \in Api,
             StyleAnswer(p) \/ DecideFamily(p) \/ ShelveFamily(p) \/ PackRead(p) \/ PackLook(p)
               \/ PackFails(p)
      PROVE  UNCHANGED <<bucket, handed>>
  BY <1>7 DEF StyleAnswer, DecideFamily, ShelveFamily, PackRead, PackLook, PackFails, HandlersOnly,
              styleVars
<1>8. CASE UNCHANGED <<styleVars, handler>>
  BY <1>1, <1>8 DEF styleVars
<1> QED
  BY <1>1, <1>3, <1>4, <1>5, <1>6, <1>7, <1>8 DEF StylesNext

\* The variables of StylePackages keep their types.
THEOREM StylesTypes == IsFiniteSet(Styles) => (StylesSpec => []StylesTypeOK)
<1>1. ASSUME IsFiniteSet(Styles)
      PROVE  StylesSpec => []StylesTypeOK
  <2> DEFINE Types == StylesTyped /\ PackagesTyped
  <2>1. ASSUME Types, [StylesNext]_<<styleVars, handler>>
        PROVE  Types'
    BY <1>1, <2>1, StylesAssumption, StylesKeep, PackagesTypedKeep
  <2>2. HandlersIdle /\ StylesInit => Types
    BY StylesAssumption, StylesStart DEF StylesInit, PackagesTyped
  <2>3. Types => StylesTypeOK
    BY DEF StylesTyped, PackagesTyped, StylesTypeOK, HandlersWithin
  <2> QED BY <2>1, <2>2, <2>3, PTL DEF StylesSpec
<1> QED
  BY <1>1
=============================================================================
