----------------------------- MODULE ProjectListing -----------------------------
(***************************************************************************)
(* A listing that is read page by page while its rows change: the Projects *)
(* of a user, newest updated first, or the Runs of a Project, newest       *)
(* created first, over the API, in the browser and as an MCP tool          *)
(* (project-read.ts, project-insights.ts, project-management.ts and the    *)
(* D1 repositories).  Ids are random, so rows may come in any order of     *)
(* them; a timestamp is that of whichever Worker writes it.                *)
(***************************************************************************)
EXTENDS Integers, FiniteSets, SequencesExt, FiniteSetsExt, RowOrder

CONSTANTS RowIds,         \* numbers, in the order of the ids
          Instants,       \* timestamps, numbers above zero
          ListPageSize    \* listPageSize

ASSUME ListingAssumption ==
    /\ IsFiniteSet(RowIds) /\ RowIds \subseteq Int /\ Instants \subseteq Nat \ {0}
    /\ ListPageSize \in Nat \ {0}

VARIABLES rowAt,          \* the timestamp of each row; 0 before it is created, -1 once deleted
          listing,        \* the reader: [of, cursor, seen]
          untouched       \* history: the rows that are as they were when the listing began

listingVars == <<rowAt, listing, untouched>>

NoCursor == [at |-> 0, id |-> 0]
Listed   == {i \in RowIds : rowAt[i] > 0}

ListingInit ==
    /\ rowAt = [i \in RowIds |-> 0] /\ untouched = {}
    /\ listing = [of |-> "none", cursor |-> NoCursor, seen |-> <<>>]

-----------------------------------------------------------------------------
(* The rows                                                                *)

CreateRow(i) ==
    /\ rowAt[i] = 0
    /\ \E t \in Instants : rowAt' = [rowAt EXCEPT ![i] = t]
    /\ UNCHANGED <<listing, untouched>>

\* A Project alone is ever updated; the same title again writes nothing.
RenameProject(i) ==
    /\ listing.of # "runs" /\ i \in Listed
    /\ \E t \in Instants : rowAt' = [rowAt EXCEPT ![i] = t]
    /\ untouched' = untouched \ {i}
    /\ UNCHANGED listing

DeleteProject(i) ==
    /\ listing.of # "runs" /\ i \in Listed
    /\ rowAt' = [rowAt EXCEPT ![i] = -1]
    /\ untouched' = untouched \ {i}
    /\ UNCHANGED listing

-----------------------------------------------------------------------------
(* The reader                                                              *)

Newer(a, b) == a.at > b.at \/ (a.at = b.at /\ a.id > b.id)

\* Mutant: the cursor is a timestamp alone.
AfterInstant(row, cursor) == cursor = NoCursor \/ row.at < cursor.at

\* The WHERE of both queries
AfterCursor(row, cursor) == cursor = NoCursor \/ Newer(cursor, row)

\* One row more than a page is asked for: it tells whether there is a next page.
Fetch(cursor) ==
    LET rows == {[at |-> rowAt[i], id |-> i] : i \in Listed}
        next == InOrder({row \in rows : AfterCursor(row, cursor)}, Newer)
    IN  SubSeq(next, 1, Min({Len(next), ListPageSize + 1}))

ItemIds(rows)    == [n \in 1 .. Min({Len(rows), ListPageSize}) |-> rows[n].id]
NextCursor(rows) == IF Len(rows) > ListPageSize THEN rows[ListPageSize] ELSE NoCursor

BeginListing(of) ==
    /\ listing.of = "none"
    /\ LET rows == Fetch(NoCursor) IN
         listing' = [of |-> of, cursor |-> NextCursor(rows), seen |-> ItemIds(rows)]
    /\ untouched' = Listed
    /\ UNCHANGED rowAt

\* "Load more": the cursor of the last page is handed back.
ContinueListing ==
    /\ listing.cursor # NoCursor
    /\ LET rows == Fetch(listing.cursor) IN
         listing' = [listing EXCEPT !.cursor = NextCursor(rows), !.seen = @ \o ItemIds(rows)]
    /\ UNCHANGED <<rowAt, untouched>>

ListingNext ==
    \/ \E i \in RowIds : CreateRow(i) \/ RenameProject(i) \/ DeleteProject(i)
    \/ \E of \in {"projects", "runs"} : BeginListing(of)
    \/ ContinueListing

ListingSpec == ListingInit /\ [][ListingNext]_listingVars

-----------------------------------------------------------------------------
\* A listing read to its end shows every row that was there all the while and was not touched,
\* and shows it once, whatever was created, renamed or deleted in between, and however many
\* rows have one timestamp.
ListingIsComplete ==
    listing.cursor = NoCursor =>
        \A i \in untouched : Cardinality({n \in DOMAIN listing.seen : listing.seen[n] = i}) = 1
=============================================================================
