--------------------------- MODULE StylePackages ----------------------------
(***************************************************************************)
(* The styles of one family and the zip packages built from them.  Uploads *)
(* that are processed, contributors and administrators write the styles,   *)
(* each after reads that may be old by then; exactly one live style should *)
(* be the default.  A download builds the package of the approved styles   *)
(* once, stores it in the bucket under a key made of what it contains, and *)
(* hands out the stored object ever after.                                 *)
(***************************************************************************)
EXTENDS Naturals, FiniteSets, Handlers

CONSTANTS
  Styles,      \* slugs of styles
  Regular,     \* those of weight 400 that are not italic
  MaxStamps    \* bound: writes to styles

ASSUME StylesAssumption == Regular \subseteq Styles /\ MaxStamps \in Nat

VARIABLES
  style,    \* the fontStyle rows of the family
  shelf,    \* fontFamily.status
  bucket,   \* the packages in the object store
  handed    \* history: the last package handed out and what was asked for

styleVars == <<style, shelf, bucket, handed>>

Rows == {"none", "draft", "approved", "archived"}
Stamps == 0..MaxStamps
Contents == [style: Styles, file: Stamps, stamp: Stamps]

\* stamp: updatedAt;  file: fileKey and sha256, named by the stamp of its write.
Row == [row: Rows, default: BOOLEAN, file: Stamps, stamp: Stamps]
NoRow == [row |-> "none", default |-> FALSE, file |-> 0, stamp |-> 0]

StylesInit ==
  /\ style = [s \in Styles |-> NoRow]
  /\ shelf = "draft"
  /\ bucket = {}
  /\ handed = [zip |-> {}, wanted |-> {}]

Exists(s) == style[s].row # "none"
Live(s) == style[s].row \in {"draft", "approved"}
Existing == {s \in Styles : Exists(s)}
LiveDefault == \E s \in Styles : Live(s) /\ style[s].default

\* The next updatedAt.
Now == CHOOSE n \in 0..(MaxStamps + 1) :
         /\ \A s \in Styles : style[s].stamp < n
         /\ n = 1 \/ \E s \in Styles : style[s].stamp = n - 1
Clock == Now <= MaxStamps

\* A write of the fields in g of all rows in some, at once.
Write(some, g(_)) ==
  style' = [s \in Styles |-> IF s \in some THEN [g(style[s]) EXCEPT !.stamp = Now] ELSE style[s]]

StylesOnly == UNCHANGED <<shelf, bucket, handed>>
HandlersOnly == UNCHANGED styleVars
Approved == shelf = "approved"

\* After its commit a staff request asks for the package to be warmed, if the
\* family was approved when the request read it.
Warm(p, approved) ==
  IF approved THEN Suspend(p, [at |-> "pack_read"]) ELSE Finish(p)
AnswerStyle(p, approved) == Suspend(p, [at |-> "style_answer", approved |-> approved])

-----------------------------------------------------------------------------
(* font-style-sync.service: a font file has been inspected                 *)

SyncCount(p, s) ==
  /\ Clock
  /\ Begin(p, [at |-> "sync", style |-> s, count |-> Cardinality(Existing)])
  /\ HandlersOnly

\* Mutant (MCLibrary): the first style is not made the default.
OnlyRegularDefault(h, row) ==
  IF row.row # "none" /\ h.count = 1 THEN row.default ELSE h.style \in Regular

\* isDefault of the upsert: the count tells the first style, or the only one.
SyncedDefault(h, row) ==
  IF row.row = "none" THEN h.count = 0 \/ h.style \in Regular
  ELSE IF h.count = 1 THEN row.default ELSE h.style \in Regular

SyncUpsert(p) ==
  LET h == handler[p]
      Synced(row) == [row EXCEPT !.row = IF @ = "none" THEN "draft" ELSE @,
                                 !.default = SyncedDefault(h, row), !.file = Now] IN
  /\ At(p, "sync") /\ Clock
  /\ Write({h.style}, Synced)
  /\ Finish(p)
  /\ StylesOnly

-----------------------------------------------------------------------------
(* submissions.service: updateContributorStyle                             *)

\* choice: the isDefault of the request, "keep" when it has none.
ContributorEdit(p, s) ==
  /\ Exists(s) /\ Clock
  /\ \E choice \in {"keep", "set", "unset"} :
       Begin(p, [at |-> IF choice = "set" THEN "undefault" ELSE "edit", style |-> s,
                 choice |-> choice])
  /\ HandlersOnly

ClearOthers(p) ==
  LET Undefaulted(row) == [row EXCEPT !.default = FALSE] IN
  /\ At(p, "undefault") /\ Clock
  /\ Write(Existing \ {handler[p].style}, Undefaulted)
  /\ Suspend(p, [handler[p] EXCEPT !.at = "edit"])
  /\ StylesOnly

EditWrite(p) ==
  LET h == handler[p]
      Edited(row) == [row EXCEPT !.default =
                        IF h.choice = "keep" THEN @ ELSE h.choice = "set"] IN
  /\ At(p, "edit") /\ Clock
  /\ Write({h.style}, Edited)
  /\ Finish(p)
  /\ StylesOnly

-----------------------------------------------------------------------------
(* admin.service: styles and family                                        *)

AdminBegin(p, s) ==
  /\ Exists(s) /\ Clock
  /\ \E point \in {"admin_edit", "admin_archive", "admin_restore"} :
       Begin(p, [at |-> point, style |-> s, default |-> style[s].default, approved |-> Approved])
  /\ HandlersOnly

\* updateFamilyStyle writes neither the status nor the default.
AdminEdit(p) ==
  LET h == handler[p]
      Same(row) == row IN
  /\ At(p, "admin_edit") /\ Clock
  /\ Write({h.style}, Same)
  /\ AnswerStyle(p, h.approved)
  /\ StylesOnly

\* The candidates for the default when the default style is archived.
Fallbacks(s) == {t \in Styles \ {s} : Live(t)}

\* archiveFamilyStyle: the style read is the one asked about, whatever has
\* become of it; the fallback is read inside the transaction.
AdminArchive(p) ==
  LET h == handler[p]
      others == IF h.default THEN Fallbacks(h.style) ELSE {} IN
  /\ At(p, "admin_archive") /\ Clock
  /\ \E next \in {T \in SUBSET others : Cardinality(T) = IF others = {} THEN 0 ELSE 1} :
       style' = [s \in Styles |->
         IF s = h.style THEN [style[s] EXCEPT !.row = "archived", !.default = FALSE, !.stamp = Now]
         ELSE IF s \in next THEN [style[s] EXCEPT !.default = TRUE, !.stamp = Now]
         ELSE style[s]]
  /\ AnswerStyle(p, h.approved)
  /\ StylesOnly

AdminRestore(p) ==
  LET h == handler[p]
      Restored(row) == [row EXCEPT !.row = IF h.approved THEN "approved" ELSE "draft",
                                   !.default = @ \/ ~LiveDefault] IN
  /\ At(p, "admin_restore") /\ Clock
  /\ Write({h.style}, Restored)
  /\ AnswerStyle(p, h.approved)
  /\ StylesOnly

\* getStyleDetailForAdmin: the answer is what the style is by then; styles are
\* never deleted.  The warm-up that was asked for before it comes any time later.
StyleAnswer(p) ==
  /\ At(p, "style_answer")
  /\ Warm(p, handler[p].approved)
  /\ HandlersOnly

\* applyReviewDecision touches all styles.
DecideFamily(p) ==
  /\ At(p, "idle") /\ Clock /\ Existing # {}
  /\ \E approve \in BOOLEAN :
       LET Decided(row) == [row EXCEPT !.row = IF approve THEN "approved" ELSE "draft"] IN
       /\ Write(Existing, Decided)
       /\ shelf' = IF approve THEN "approved" ELSE "draft"
       /\ Warm(p, approve)
  /\ UNCHANGED <<bucket, handed>>

\* archiveFamily and restoreFamily leave the styles alone.
ShelveFamily(p) ==
  /\ At(p, "idle") /\ shelf # "draft"
  /\ shelf' = IF Approved THEN "archived" ELSE "approved"
  /\ Warm(p, shelf = "archived")
  /\ UNCHANGED <<style, bucket, handed>>

-----------------------------------------------------------------------------
(* downloads.service                                                       *)

\* getApprovedFamilyPackageData.
Wanted ==
  IF Approved THEN {[style |-> s, file |-> style[s].file, stamp |-> style[s].stamp] :
                      s \in {t \in Styles : style[t].row = "approved"}}
  ELSE {}

\* Mutant (MCLibrary): the key does not name the time of the last update.
KeyWithoutTime(wanted) == {[c EXCEPT !.stamp = 0] : c \in wanted}

\* buildFamilyPackageKey: the signature of ids, hashes and times of update.
PackageKey(wanted) == wanted

Packed(wanted) == {o \in bucket : o.key = PackageKey(wanted)}

\* issueFamilyDownload, and warmFamilyPackage once the job is at work.
PackRead(p) ==
  LET hand == At(p, "idle") IN
  /\ hand \/ At(p, "pack_read")
  /\ IF Wanted = {} THEN Finish(p)
     ELSE Suspend(p, [at |-> "pack_look", wanted |-> Wanted, hand |-> hand])
  /\ HandlersOnly

PackLook(p) ==
  LET h == handler[p] IN
  /\ At(p, "pack_look")
  /\ Suspend(p, [h EXCEPT !.at = IF Packed(h.wanted) # {} THEN "pack_hand" ELSE "pack_build"])
  /\ HandlersOnly

\* The files are fetched by the keys that were read; the zip is stored under
\* the key, over what another request may have stored there meanwhile.
PackBuild(p) ==
  LET h == handler[p] IN
  /\ At(p, "pack_build")
  /\ bucket' = (bucket \ Packed(h.wanted)) \cup {[key |-> PackageKey(h.wanted), zip |-> h.wanted]}
  /\ Suspend(p, [h EXCEPT !.at = "pack_hand"])
  /\ UNCHANGED <<style, shelf, handed>>

\* A file is gone or a call fails: the request or job ends with an error.
PackFails(p) ==
  /\ At(p, "pack_build") \/ At(p, "pack_look")
  /\ Finish(p)
  /\ HandlersOnly

PackHand(p) ==
  LET h == handler[p] IN
  /\ At(p, "pack_hand")
  /\ IF h.hand
     THEN \E o \in Packed(h.wanted) : handed' = [zip |-> o.zip, wanted |-> h.wanted]
     ELSE UNCHANGED handed
  /\ Finish(p)
  /\ UNCHANGED <<style, shelf, bucket>>

-----------------------------------------------------------------------------
StylesNext ==
  \E p \in Api :
    \/ \E s \in Styles : SyncCount(p, s) \/ ContributorEdit(p, s) \/ AdminBegin(p, s)
    \/ SyncUpsert(p) \/ ClearOthers(p) \/ EditWrite(p)
    \/ AdminEdit(p) \/ AdminArchive(p) \/ AdminRestore(p) \/ StyleAnswer(p)
    \/ DecideFamily(p) \/ ShelveFamily(p)
    \/ PackRead(p) \/ PackLook(p) \/ PackBuild(p) \/ PackFails(p) \/ PackHand(p)

StyleHandlers ==
  {Idle} \cup [at: {"pack_read"}] \cup [at: {"sync"}, style: Styles, count: 0..Cardinality(Styles)]
    \cup [at: {"undefault", "edit"}, style: Styles, choice: {"keep", "set", "unset"}]
    \cup [at: {"admin_edit", "admin_archive", "admin_restore"}, style: Styles,
          default: BOOLEAN, approved: BOOLEAN]
    \cup [at: {"style_answer"}, approved: BOOLEAN]
    \cup [at: {"pack_look", "pack_build", "pack_hand"}, wanted: SUBSET Contents, hand: BOOLEAN]

StylesTypeOK ==
  /\ style \in [Styles -> Row]
  /\ shelf \in {"draft", "approved", "archived"}
  /\ bucket \subseteq [key: SUBSET Contents, zip: SUBSET Contents]
  /\ handed \in [zip: SUBSET Contents, wanted: SUBSET Contents]
  /\ HandlersWithin(StyleHandlers)

\* A package that is handed out holds exactly the styles, files and names that
\* were approved when it was asked for, whoever built it, and when.
PackageFaithful == handed.zip = handed.wanted

\* While nothing is under way that chose a default from an older read, archiving
\* or restoring a style, or processing a new one, never takes the default of a
\* family away, and the first style of a family gets it.
CurrentRead(p) ==
  LET h == handler[p] IN
  \/ h.at = "admin_restore"
  \/ h.at = "admin_archive" /\ h.default = style[h.style].default
  \/ h.at = "sync" /\ ~Exists(h.style) /\ (Existing = {} => h.count = 0)
DefaultKept ==
  [][\A p \in Api :
       /\ handler[p].at \in {"sync", "admin_archive", "admin_restore"} /\ CurrentRead(p)
       /\ handler'[p] # handler[p] /\ style' # style
       /\ LiveDefault \/ Existing = {}
       /\ (\E s \in Styles : Live(s))'
       => LiveDefault']_style
=============================================================================
