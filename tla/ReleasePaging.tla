--------------------------- MODULE ReleasePaging ---------------------------
(***************************************************************************)
(* A client walks the release list page by page (listReleasePage) while    *)
(* releases are created and updated.  The server keeps nothing between the *)
(* pages: a page ends with a cursor, the updatedAt and the id of its last  *)
(* row, and the next one begins behind it.                                 *)
(*                                                                         *)
(* The database keeps updated_at in finer units than the cursor: a         *)
(* timestamptz has microseconds, a Date and its ISO string milliseconds.   *)
(* Fraction is the number of instants the cursor cannot tell apart; with   *)
(* Fraction = 1 this is the in-memory repository, which stores the string. *)
(***************************************************************************)
EXTENDS Naturals, Sequences, FiniteSets

CONSTANTS
    Ids,        \* release ids, ordered as uuids are
    Limit,      \* rows in a page
    Fraction,   \* instants of the database in one of the cursor
    MaxTime,    \* bound: the clock of the database
    MaxOpen     \* bound: transactions open at a time

ASSUME PagingAssumption ==
    /\ Ids \subseteq Nat /\ IsFiniteSet(Ids)
    /\ Limit \in Nat \ {0} /\ Fraction \in Nat \ {0}
    /\ MaxTime \in Nat /\ MaxOpen \in Nat

VARIABLES
    now,       \* clock of the database
    releases,  \* id -> [updatedAt, listed], listed: it passes the client's filter
    open,      \* <<id, start>>: transactions that are going to update a release
    walk,      \* "start", "next" or "end": what the client does next
    cursor,    \* nextCursor of the last page: a set of at most one element
    pages,     \* the pages the client was shown, each a set of [id, updatedAt]
    touched    \* releases created or updated since the walk began

database == <<now, releases, open, touched>>
client == <<walk, cursor, pages>>
vars == <<database, client>>

Times == 0 .. MaxTime

\* The cursor's clock.
Instant(t) == t \div Fraction

Positions == [id : Ids, updatedAt : Times]

-----------------------------------------------------------------------------
(* listReleaseRows and listReleasePage                                     *)

\* ORDER BY updated_at DESC, id DESC: x comes before y.
Precedes(x, y) ==
    \/ x.updatedAt > y.updatedAt
    \/ x.updatedAt = y.updatedAt /\ x.id > y.id

\* iso: the row's updatedAt cut to the cursor's clock, read back by the
\* database as the first of its instants there.
CursorOf(row) == [id |-> row.id, updatedAt |-> Fraction * Instant(row.updatedAt)]

\* Seeded fault: the id does not break ties.
TimeOnly(bound, row) == bound.updatedAt > row.updatedAt

\* (updated_at, id) < (cursor.updatedAt, cursor.id)
Behind(bound, row) == Precedes(bound, row)

Row(r) == [id |-> r, updatedAt |-> releases[r].updatedAt]

\* What the query returns, but for its LIMIT.
Rows ==
    {row \in {Row(r) : r \in {q \in DOMAIN releases : releases[q].listed}} :
        \A bound \in cursor : Behind(bound, row)}

\* Seeded fault: the row that was fetched to look ahead is on the page.
OneTooMany(rows) ==
    {row \in rows : Cardinality({x \in rows : Precedes(x, row)}) <= Limit}

\* The first rows, as many as a page holds.
PageOf(rows) ==
    {row \in rows : Cardinality({x \in rows : Precedes(x, row)}) < Limit}

\* Seeded fault: the query fetches no more than the page.
NoLookahead(rows) == FALSE

\* One row more than the page is fetched: there is another page.
More(rows) == PageOf(rows) # rows

IsLast(row, page) == row \in page /\ \A x \in page \ {row} : Precedes(x, row)

\* A page is one statement, which sees one state of the table.
ListReleasePage ==
    LET page == PageOf(Rows)
    IN  /\ walk # "end"
        /\ pages' = Append(pages, page)
        /\ \/ /\ ~ More(Rows)
              /\ cursor' = {}
              /\ walk' = "end"
           \/ /\ More(Rows)
              /\ \E last \in page : IsLast(last, page) /\ cursor' = {CursorOf(last)}
              /\ walk' = "next"
        /\ touched' = IF walk = "start" THEN {} ELSE touched
        /\ UNCHANGED <<now, releases, open>>

-----------------------------------------------------------------------------
(* Releases                                                                *)

Write(r, row) ==
    /\ releases' = [q \in DOMAIN releases \cup {r} |-> IF q = r THEN row ELSE releases[q]]
    /\ touched' = touched \cup {r}

Tick ==
    /\ now < MaxTime
    /\ now' = now + 1
    /\ UNCHANGED <<releases, open, touched, client>>

CreateRelease(r) ==
    /\ r \notin DOMAIN releases
    /\ \E listed \in BOOLEAN : Write(r, [updatedAt |-> now, listed |-> listed])
    /\ UNCHANGED <<now, open, client>>

\* BEGIN: what now() returns until COMMIT, however long the transaction waits
\* for the lock on the release.
Begin(r) ==
    /\ r \in DOMAIN releases
    /\ Cardinality(open) < MaxOpen
    /\ open' = open \cup {<<r, now>>}
    /\ UNCHANGED <<now, releases, touched, client>>

\* updateReleaseState, or the update in a transaction that began earlier: the
\* new state may pass the filter or not.
UpdateRelease(r) ==
    /\ r \in DOMAIN releases
    /\ \E listed \in BOOLEAN :
        \/ /\ Write(r, [updatedAt |-> now, listed |-> listed])
           /\ UNCHANGED open
        \/ \E t \in {u \in Times : <<r, u>> \in open} :
            /\ Write(r, [updatedAt |-> t, listed |-> listed])
            /\ open' = open \ {<<r, t>>}
    /\ UNCHANGED <<now, client>>

-----------------------------------------------------------------------------
Init ==
    /\ now = 0
    /\ releases = [r \in {} |-> [updatedAt |-> 0, listed |-> FALSE]]
    /\ open = {}
    /\ walk = "start"
    /\ cursor = {}
    /\ pages = << >>
    /\ touched = {}

Next ==
    \/ Tick \/ ListReleasePage
    \/ \E r \in Ids : CreateRelease(r) \/ Begin(r) \/ UpdateRelease(r)

Spec == Init /\ [][Next]_vars

-----------------------------------------------------------------------------
(* Properties                                                              *)

\* Rows exist for created releases only, transactions started in the past, and
\* the client holds a cursor exactly while it has a page to fetch.
TypeOK ==
    /\ now \in Times
    /\ DOMAIN releases \subseteq Ids
    /\ \A r \in DOMAIN releases :
          /\ releases[r].updatedAt \in 0 .. now
          /\ releases[r].listed \in BOOLEAN
    /\ open \subseteq (DOMAIN releases) \X (0 .. now)
    /\ walk \in {"start", "next", "end"}
    /\ cursor \subseteq Positions /\ \A b, c \in cursor : b = c
    /\ cursor # {} <=> walk = "next"
    /\ \A i \in DOMAIN pages : pages[i] \subseteq Positions /\ Cardinality(pages[i]) <= Limit
    /\ touched \subseteq DOMAIN releases

\* The pages of a walk, put together, are in the order of the list, whatever
\* was written between them: a row version never appears twice, and a release
\* appears again only with an older updatedAt (docs/06-tool-contracts.md).
PagesDescend ==
    \A i, j \in DOMAIN pages : i < j =>
        \A x \in pages[i], y \in pages[j] : Precedes(x, y)

\* The last rows of the pages so far.
Boundaries ==
    {last \in Positions : \E i \in DOMAIN pages : IsLast(last, pages[i])}

\* A release that nobody writes during a walk is on one of its pages, unless
\* the cursor that ended a page could not tell it from that page's last row.
UntouchedAreShown ==
    walk = "end" =>
        \A r \in DOMAIN releases \ touched :
            releases[r].listed =>
                \/ \E i \in DOMAIN pages : Row(r) \in pages[i]
                \/ \E last \in Boundaries :
                    /\ Precedes(last, Row(r))
                    /\ Instant(last.updatedAt) = Instant(releases[r].updatedAt)
                    /\ last.updatedAt > Fraction * Instant(last.updatedAt)
=============================================================================
