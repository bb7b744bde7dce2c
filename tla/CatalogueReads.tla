--------------------------- MODULE CatalogueReads ---------------------------
(***************************************************************************)
(* What visitors read of the public catalogue.  Browsing asks for one page *)
(* after the other, each a count and a query of its own; a search takes    *)
(* its hits from the index, which may lag behind, and fetches their rows   *)
(* afterwards; the filters that are offered come from queries of their     *)
(* own.  Families are published, taken back and reindexed all the while.   *)
(***************************************************************************)
EXTENDS Naturals, FiniteSets, Sequences, SequencesExt, Orders, Handlers

CONSTANTS
  Fonts,        \* families; numbers, in the order of their insertion
  Publishers,
  PageSize,
  MaxTime       \* bound: times of publication 1..MaxTime

ASSUME ReadsAssumption ==
  /\ Fonts \subseteq Nat /\ IsFiniteSet(Fonts)
  /\ PageSize \in Nat \ {0} /\ MaxTime \in Nat

VARIABLES
  shop,     \* per family: approved or not, publishedAt, publisher
  hits,     \* the families that have a document in the index
  moved     \* history: the requests during which the catalogue has changed

readVars == <<shop, hits, moved>>

Font == [approved: BOOLEAN, published: 0..MaxTime, publisher: Publishers]

ReadsInit ==
  /\ shop \in [Fonts -> [approved: {FALSE}, published: {0}, publisher: Publishers]]
  /\ hits = {}
  /\ moved = {}

Public == {f \in Fonts : shop[f].approved}

\* A decision, an archive or a restore; several in the same millisecond.
Publish(f) ==
  /\ \E t \in 1..MaxTime :
       /\ \A g \in Fonts : shop[g].published <= t
       /\ shop' = [shop EXCEPT ![f].approved = TRUE, ![f].published = t]
  /\ ~shop[f].approved
  /\ moved' = Api
  /\ UNCHANGED <<hits, handler>>

Retire(f) ==
  /\ shop[f].approved
  /\ shop' = [shop EXCEPT ![f].approved = FALSE]
  /\ moved' = Api
  /\ UNCHANGED <<hits, handler>>

\* A search job runs, some time after the change: see PublicationIndex.
Reindex(f) ==
  /\ hits' = IF shop[f].approved THEN hits \cup {f} ELSE hits \ {f}
  /\ moved' = Api
  /\ UNCHANGED <<shop, handler>>

-----------------------------------------------------------------------------
(* catalog.service: listFonts                                              *)

\* Mutant (MCLibrary): no second column.
ByTimeOnly(f, g) == shop[f].published >= shop[g].published

\* buildOrderBy, newest: by publishedAt, then by insertedAt, descending.
Before(f, g) ==
  \/ shop[f].published > shop[g].published
  \/ shop[f].published = shop[g].published /\ f >= g

\* The results a query may return: PostgreSQL leaves ties in any order.
Results(found) ==
  {s \in SetToSeqs(found) : \A i, j \in 1..Len(s) : i <= j => Before(s[i], s[j])}

\* skip and take.
PageOf(s, page) ==
  LET skip == (page - 1) * PageSize
      left == Len(s) - skip IN
  SubSeq(s, skip + 1, IF left < PageSize THEN Len(s) ELSE skip + PageSize)

\* buildFamilyWhere
Matching(publisher) ==
  {f \in Public : publisher # None => shop[f].publisher = publisher}

\* A visitor at the first page, with a filter that was offered or without.
Visit(publisher) ==
  [at |-> "count", page |-> 1, publisher |-> publisher, seen |-> <<>>, total |-> 0]

BrowseBegin(p) ==
  /\ Begin(p, Visit(None))
  /\ moved' = moved \ {p}
  /\ UNCHANGED <<shop, hits>>

BrowseCount(p) ==
  /\ At(p, "count")
  /\ Suspend(p, [handler[p] EXCEPT !.at = "rows",
                                   !.total = Cardinality(Matching(handler[p].publisher))])
  /\ UNCHANGED readVars

\* hasNext tells the visitor whether to go on.
BrowseRows(p) ==
  LET h == handler[p]
      hasNext == h.page * PageSize < h.total IN
  /\ At(p, "rows")
  /\ \E s \in Results(Matching(h.publisher)) :
       Suspend(p, [h EXCEPT !.at = IF hasNext THEN "count" ELSE "browsed",
                            !.page = IF hasNext THEN @ + 1 ELSE @,
                            !.seen = @ \o PageOf(s, h.page)])
  /\ UNCHANGED readVars

BrowseEnd(p) == At(p, "browsed") /\ Finish(p) /\ UNCHANGED readVars

-----------------------------------------------------------------------------
(* catalog.service: getFilters                                             *)

\* The publishers of at least one family that is approved.
OfferedPublishers == {shop[f].publisher : f \in Public}

ReadFilters(p) ==
  /\ Begin(p, [at |-> "filters", offered |-> OfferedPublishers])
  /\ moved' = moved \ {p}
  /\ UNCHANGED <<shop, hits>>

\* The visitor picks one of the publishers, or leaves.
PickFilter(p) ==
  /\ At(p, "filters")
  /\ \/ \E publisher \in handler[p].offered :
          Suspend(p, Visit(publisher))
     \/ Finish(p)
  /\ UNCHANGED readVars

-----------------------------------------------------------------------------
(* catalog.service: searchFonts with a query text                          *)

\* The order of the hits in the index, which is that of the documents.
Ranked == Ascending(hits)

SearchBegin(p) ==
  /\ Begin(p, [at |-> "ask", page |-> 1, ids |-> <<>>, total |-> 0, seen |-> <<>>])
  /\ moved' = moved \ {p}
  /\ UNCHANGED <<shop, hits>>

\* The index answers with the ids of a page and the number of all its hits.
SearchAsk(p) ==
  LET ids == PageOf(Ranked, handler[p].page) IN
  /\ At(p, "ask")
  /\ Suspend(p, [handler[p] EXCEPT !.at = IF ids = <<>> THEN "searched" ELSE "fetch",
                                   !.ids = ids, !.total = Cardinality(hits)])
  /\ UNCHANGED readVars

\* The families behind the hits that are approved, in the order of the hits.
Fetched(ids) ==
  LET stay == {i \in DOMAIN ids : shop[ids[i]].approved} IN
  [k \in 1..Cardinality(stay) |-> ids[Ascending(stay)[k]]]

\* A page may come out short: whether there is another one is the index's word.
SearchFetch(p) ==
  LET h == handler[p]
      hasNext == h.page * PageSize < h.total IN
  /\ At(p, "fetch")
  /\ Suspend(p, [h EXCEPT !.at = IF hasNext THEN "ask" ELSE "searched",
                          !.page = IF hasNext THEN @ + 1 ELSE @,
                          !.seen = @ \o Fetched(h.ids)])
  /\ UNCHANGED readVars

SearchEnd(p) == At(p, "searched") /\ Finish(p) /\ UNCHANGED readVars

-----------------------------------------------------------------------------
CatalogueMoves == \E f \in Fonts : Publish(f) \/ Retire(f)

BrowseNext ==
  \/ CatalogueMoves
  \/ \E p \in Api :
       \/ BrowseBegin(p) \/ BrowseCount(p) \/ BrowseRows(p) \/ BrowseEnd(p)
       \/ ReadFilters(p) \/ PickFilter(p)

SearchNext ==
  \/ CatalogueMoves
  \/ \E f \in Fonts : Reindex(f)
  \/ \E p \in Api :
       \/ SearchBegin(p) \/ SearchAsk(p) \/ SearchFetch(p) \/ SearchEnd(p)

ReadsSpec == HandlersIdle /\ ReadsInit /\ [][BrowseNext \/ SearchNext]_<<readVars, handler>>

ReadsTypeOK ==
  /\ shop \in [Fonts -> Font]
  /\ hits \subseteq Fonts
  /\ moved \subseteq Api
  /\ \A p \in Api : handler[p].at \in {"idle", "count", "rows", "browsed", "filters", "ask",
                                        "fetch", "searched"}

\* A visitor who pages through the newest fonts to the end, all or those of a
\* publisher, sees every one exactly once, as long as nothing is published or
\* retired; a publisher that the page of filters offered has one at least.
BrowseComplete ==
  \A p \in Api \ moved :
    At(p, "browsed") =>
      LET seen == handler[p].seen IN
      /\ ToSet(seen) = Matching(handler[p].publisher)
      /\ Len(seen) = Cardinality(ToSet(seen))
      /\ handler[p].publisher # None => seen # <<>>

\* A search that pages to the end while the catalogue rests finds every public
\* family that has a document exactly once and no family that is not public,
\* also when the index is behind and pages come out short.
SearchComplete ==
  \A p \in Api \ moved :
    At(p, "searched") =>
      LET seen == handler[p].seen IN
      /\ ToSet(seen) = hits \cap Public
      /\ Len(seen) = Cardinality(ToSet(seen))

\* Pages lose and repeat nothing, of the catalogue as of a search.
PagesComplete == BrowseComplete /\ SearchComplete
=============================================================================
