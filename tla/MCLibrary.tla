----------------------------- MODULE MCLibrary ------------------------------
(* Instances for TLC of the modules about the catalogue, its packages, its *)
(* administration and the pages that staff, contributors and visitors see. *)
(* Each behaviour is one of the part that is chosen at the start; the      *)
(* variables of the other parts stand still.                               *)
EXTENDS StylePackages, ContentAdmin, CatalogueReads, ReviewReports, AuditTrail, TLC

CONSTANTS a1, a2, bold, text, e1, e2, tag1, tag2, ofl, gpl, pub1, pub2, file1, w1, w2

VARIABLE part

libraryVars == <<part, handler, styleVars, contentVars, readVars, reportVars, auditVars>>

LibraryInit ==
  /\ part \in {"styles", "slugs", "collections", "tags", "licenses", "browse", "search",
              "reports", "audit"}
  /\ HandlersIdle
  /\ StylesInit /\ ContentInit /\ ReadsInit /\ ReportsInit /\ AuditInit
  /\ part = "slugs" \/ table = "entry"
  /\ part = "audit" \/ listing = "events"
  /\ part = "browse" \/ shop = [f \in Fonts |-> [approved |-> FALSE, published |-> 0,
                                                publisher |-> pub1]]

\* One reader at a time: readers do not meet.
Single == handler'[a2] = handler[a2]

OnStyles ==
  /\ part = "styles" /\ StylesNext
  /\ UNCHANGED <<contentVars, readVars, reportVars, auditVars>>

OnContent ==
  /\ \E p \in Api :
       \/ part = "slugs" /\ OnSlugs(p)
       \/ part = "collections" /\ OnCollections(p)
       \/ part = "tags" /\ OnTags(p)
       \/ part = "licenses" /\ OnLicenses(p)
  /\ UNCHANGED <<styleVars, readVars, reportVars, auditVars>>

OnReads ==
  /\ \/ part = "browse" /\ BrowseNext
     \/ part = "search" /\ SearchNext
  /\ Single
  /\ UNCHANGED <<styleVars, contentVars, reportVars, auditVars>>

OnReports ==
  /\ part = "reports" /\ ReportsNext
  /\ UNCHANGED <<styleVars, contentVars, readVars, auditVars>>

\* Bounds: five rows, two of which may be of one time, and one session that ends.
OnAudit ==
  /\ part = "audit" /\ AuditNext /\ Single
  /\ Cardinality(trail' \cup left') <= 5 /\ Cardinality(left') <= 1
  /\ UNCHANGED <<styleVars, contentVars, readVars, reportVars>>

LibraryNext ==
  /\ part' = part
  /\ OnStyles \/ OnContent \/ OnReads \/ OnReports \/ OnAudit

LibrarySpec == LibraryInit /\ [][LibraryNext]_libraryVars
=============================================================================
