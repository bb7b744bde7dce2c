---------------------------- MODULE VisitorLinks ----------------------------
(***************************************************************************)
(* What visitors hold of the fonts of one family: the ids of the styles    *)
(* that pages and collections have shown, files in caches that may be kept *)
(* for an hour, and links to files and packages in the bucket, signed for  *)
(* a quarter of an hour.  None of these is called back when staff take the *)
(* family or a style away; requests that have checked before go on.        *)
(***************************************************************************)
EXTENDS Naturals, Handlers

CONSTANTS
  Faces,      \* styles of the family
  LinkTime,   \* lifetime of a signed link, in ticks
  CopyTime    \* lifetime of a cached file, in ticks

ASSUME VisitAssumption == LinkTime \in Nat \ {0} /\ CopyTime \in Nat \ {0}

VARIABLES
  open,       \* the family is approved
  faces,      \* the styles that are approved
  preset,     \* the default style
  known,      \* the styles whose ids visitors have seen
  held,       \* what visitors hold of each style, with the time that is left
  gone        \* history: for how long nobody can have been given the style

visitVars == <<open, faces, preset, known, held, gone>>

Holding == [link: 0..LinkTime, package: 0..LinkTime, copy: 0..CopyTime]
Nothing == [link |-> 0, package |-> 0, copy |-> 0]
Longest == IF LinkTime < CopyTime THEN CopyTime ELSE LinkTime

VisitInit ==
  /\ open = FALSE /\ faces = {} /\ preset \in Faces
  /\ known = {}
  /\ held = [s \in Faces |-> Nothing]
  /\ gone = [s \in Faces |-> 0]

\* getFamilyDetail, getFamilyStyles: the approved styles of a public family.
ShownFaces == IF open THEN faces ELSE {}

\* The requests that have passed the check of a style and not yet answered.
Giving(s) ==
  {p \in Api : \/ handler[p].at \in {"asset", "link"} /\ handler[p].face = s
               \/ handler[p].at = "package" /\ s \in handler[p].faces}

-----------------------------------------------------------------------------
(* Staff and time                                                          *)

\* Decisions, archiving and restoring, of the family and of its styles.
ChangeStanding ==
  /\ \/ open' = ~open /\ UNCHANGED <<faces, preset>>
     \/ /\ \E s \in Faces : faces' \in {faces \ {s}, faces \cup {s}}
        /\ UNCHANGED <<open, preset>>
     \/ preset' \in Faces \ {preset} /\ UNCHANGED <<open, faces>>
  /\ gone' = [s \in Faces |-> IF s \in ShownFaces' THEN 0 ELSE gone[s]]
  /\ UNCHANGED <<known, held, handler>>

Less(n) == IF n = 0 THEN 0 ELSE n - 1

\* Links expire and caches drop the files that are too old.
VisitTick ==
  /\ \E s \in Faces : held[s] # Nothing
  /\ held' = [s \in Faces |-> [link |-> Less(held[s].link), package |-> Less(held[s].package),
                               copy |-> Less(held[s].copy)]]
  /\ gone' = [s \in Faces |->
       IF s \in ShownFaces \/ Giving(s) # {} THEN 0
       ELSE IF gone[s] < Longest THEN gone[s] + 1 ELSE Longest]
  /\ UNCHANGED <<open, faces, preset, known, handler>>

-----------------------------------------------------------------------------
(* The catalogue: a page answers after it has recorded the view            *)

\* mapFamilyListItem: the default style or, if it is not approved, the first.
PreviewFaces ==
  IF ~open \/ faces = {} THEN {{}}
  ELSE IF preset \in faces THEN {{preset}} ELSE {{s} : s \in faces}

\* What the visitor learns of the answer is in the page that is waited for.
FamilyPage(p) ==
  /\ Begin(p, [at |-> "page", faces |-> ShownFaces])
  /\ UNCHANGED visitVars

\* The family is in a published collection, whose page shows its public
\* families; the list of collections shows the first of them only.
ListCollections(p) ==
  /\ \E some \in PreviewFaces \cup {{}} : Begin(p, [at |-> "page", faces |-> some])
  /\ UNCHANGED visitVars

CollectionPage(p) ==
  /\ \E some \in PreviewFaces : Begin(p, [at |-> "page", faces |-> some])
  /\ UNCHANGED visitVars

PageAnswer(p) ==
  /\ At(p, "page") /\ Finish(p)
  /\ known' = known \cup handler[p].faces
  /\ UNCHANGED <<open, faces, preset, held, gone>>

-----------------------------------------------------------------------------
(* Files, links and packages: a check in the database, then calls to the   *)
(* bucket, then the answer.                                                *)

\* Mutant (MCAccounts): only the family is looked at.
ServedByFamily(s) == open

\* A style is served while it and its family are approved.
Served(s) == open /\ s \in faces

\* getApprovedStyleAsset, and the answer with its Cache-Control.
AssetBegin(p, s) ==
  /\ s \in known /\ Served(s)
  /\ Begin(p, [at |-> "asset", face |-> s])
  /\ UNCHANGED visitVars

AssetSend(p) ==
  /\ At(p, "asset") /\ Finish(p)
  /\ held' = [held EXCEPT ![handler[p].face].copy = CopyTime]
  /\ UNCHANGED <<open, faces, preset, known, gone>>

\* issueStyleDownload: the link is signed, then the download is recorded.
LinkBegin(p, s) ==
  /\ s \in known /\ Served(s)
  /\ Begin(p, [at |-> "link", face |-> s])
  /\ UNCHANGED visitVars

LinkHand(p) ==
  /\ At(p, "link") /\ Finish(p)
  /\ held' = [held EXCEPT ![handler[p].face].link = LinkTime]
  /\ UNCHANGED <<open, faces, preset, known, gone>>

\* issueFamilyDownload: the package of the styles that were approved.
PackageBegin(p) ==
  /\ ShownFaces # {}
  /\ Begin(p, [at |-> "package", faces |-> ShownFaces])
  /\ UNCHANGED visitVars

PackageHand(p) ==
  /\ At(p, "package") /\ Finish(p)
  /\ held' = [s \in Faces |->
       IF s \in handler[p].faces THEN [held[s] EXCEPT !.package = LinkTime] ELSE held[s]]
  /\ UNCHANGED <<open, faces, preset, known, gone>>

\* The bucket or the database fails before the answer.
VisitFails(p) ==
  /\ handler[p].at \in {"page", "asset", "link", "package"}
  /\ Finish(p)
  /\ UNCHANGED visitVars

-----------------------------------------------------------------------------
VisitStep(p) ==
  PageAnswer(p) \/ AssetSend(p) \/ LinkHand(p) \/ PackageHand(p) \/ VisitFails(p)

VisitNext ==
  \/ ChangeStanding \/ VisitTick
  \/ \E p \in Api :
       \/ FamilyPage(p) \/ ListCollections(p) \/ CollectionPage(p) \/ PackageBegin(p)
       \/ \E s \in Faces : AssetBegin(p, s) \/ LinkBegin(p, s)
       \/ VisitStep(p)

VisitSpec == HandlersIdle /\ VisitInit /\ [][VisitNext]_<<visitVars, handler>>

\* Time goes on, and requests end.
VisitFairness ==
  /\ WF_<<visitVars, handler>>(VisitTick)
  /\ \A p \in Api : WF_<<visitVars, handler>>(VisitStep(p))

VisitHandlers ==
  {Idle} \cup [at: {"page", "package"}, faces: SUBSET Faces] \cup [at: {"asset", "link"}, face: Faces]

VisitTypeOK ==
  /\ open \in BOOLEAN /\ faces \subseteq Faces /\ preset \in Faces /\ known \subseteq Faces
  /\ held \in [Faces -> Holding]
  /\ gone \in [Faces -> 0..Longest]
  /\ HandlersWithin(VisitHandlers)

\* What visitors hold of a style is never younger than the last moment at which
\* the style was public or a request was answering that had found it public: a
\* link or a package is gone a quarter of an hour after it, a copy an hour.
HeldExpires ==
  \A s \in Faces :
    /\ held[s].link > 0 => held[s].link + gone[s] <= LinkTime
    /\ held[s].package > 0 => held[s].package + gone[s] <= LinkTime
    /\ held[s].copy > 0 => held[s].copy + gone[s] <= CopyTime

\* A style that is taken out of public for good, with its family or alone, is
\* gone in the end: its links and the packages with it expire and its copies
\* are dropped, although requests were answered after it was taken away.
LinksEnd ==
  \A s \in Faces : <>[](s \notin ShownFaces) => <>[](held[s] = Nothing)
=============================================================================
