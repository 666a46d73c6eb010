------------------------ MODULE ReleasePagingProofs ------------------------
(***************************************************************************)
(* Proofs about ReleasePaging, for any ids, any page size, any resolution  *)
(* of the cursor and any number of transactions.                           *)
(*                                                                         *)
(* The inductive invariant says what the cursor stands for: everything     *)
(* shown so far precedes it or is at it, so that what lies behind it       *)
(* comes later in the list (CursorInv); and a release that nobody wrote    *)
(* during the walk is shown, lies behind the cursor, or was lost in the    *)
(* cursor's rounding (WalkInv).                                            *)
(***************************************************************************)
EXTENDS ReleasePaging, FiniteSetTheorems, TLAPS

TypeInv ==
    /\ now \in Times
    /\ DOMAIN releases \subseteq Ids
    /\ \A r \in DOMAIN releases : releases[r].updatedAt \in Times
    /\ open \subseteq Ids \X Times
    /\ walk \in {"start", "next", "end"}
    /\ cursor \subseteq Positions
    /\ pages \in Seq(SUBSET Positions)
    /\ touched \subseteq DOMAIN releases

CursorInv ==
    /\ walk = "start" => pages = << >> /\ cursor = {}
    /\ walk = "next" => cursor # {}
    /\ walk = "end" => cursor = {}
    /\ \A i \in DOMAIN pages, b \in cursor :
        \A x \in pages[i] : Precedes(x, b) \/ x = b

Shown(r) == \E i \in DOMAIN pages : Row(r) \in pages[i]

Lost(r) ==
    \E last \in Boundaries :
        /\ Precedes(last, Row(r))
        /\ Instant(last.updatedAt) = Instant(releases[r].updatedAt)
        /\ last.updatedAt > Fraction * Instant(last.updatedAt)

WalkInv ==
    walk # "start" =>
        \A r \in DOMAIN releases \ touched :
            releases[r].listed =>
                \/ Shown(r)
                \/ Lost(r)
                \/ walk = "next" /\ \A b \in cursor : Behind(b, Row(r))

IInv == TypeInv /\ CursorInv /\ PagesDescend /\ WalkInv

-----------------------------------------------------------------------------
(* The order of the list, and the cursor's clock                           *)

LEMMA PositionType ==
    ASSUME NEW x \in Positions
    PROVE  /\ x.id \in Ids /\ x.id \in Nat
           /\ x.updatedAt \in Times /\ x.updatedAt \in Nat
           /\ x = [id |-> x.id, updatedAt |-> x.updatedAt]
<1>1. PICK id \in Ids, t \in Times : x = [id |-> id, updatedAt |-> t]
    BY DEF Positions
<1>2. Ids \subseteq Nat /\ Times \subseteq Nat
    BY PagingAssumption DEF PagingAssumption, Times
<1> QED BY <1>1, <1>2

LEMMA PrecedesTransitive ==
    ASSUME NEW x \in Positions, NEW y \in Positions, NEW z \in Positions,
           Precedes(x, y), Precedes(y, z)
    PROVE  Precedes(x, z)
BY PositionType DEF Precedes

LEMMA PrecedesTotal ==
    ASSUME NEW x \in Positions, NEW y \in Positions
    PROVE  x = y \/ Precedes(x, y) \/ Precedes(y, x)
<1>1. x.id \in Nat /\ y.id \in Nat /\ x.updatedAt \in Nat /\ y.updatedAt \in Nat
    BY PositionType
<1>2. x.id = y.id /\ x.updatedAt = y.updatedAt => x = y
    BY PositionType
<1> QED BY <1>1, <1>2 DEF Precedes

LEMMA PrecedesIrreflexive ==
    ASSUME NEW x \in Positions PROVE ~ Precedes(x, x)
BY PositionType DEF Precedes

\* Cutting a time to the cursor's clock does not move it forward, and a time
\* between the two has the same instant.
LEMMA InstantCuts ==
    ASSUME NEW t \in Nat, NEW u \in Nat
    PROVE  /\ Fraction * Instant(t) \in Nat
           /\ Fraction * Instant(t) <= t
           /\ Fraction * Instant(t) <= u /\ u <= t => Instant(u) = Instant(t)
BY PagingAssumption DEF PagingAssumption, Instant

LEMMA CursorIsPosition ==
    ASSUME NEW row \in Positions
    PROVE  /\ CursorOf(row) \in Positions
           /\ Precedes(row, CursorOf(row)) \/ row = CursorOf(row)
<1> DEFINE t == row.updatedAt
           cut == Fraction * Instant(t)
<1>1. t \in Nat /\ t <= MaxTime /\ MaxTime \in Nat /\ row.id \in Ids
    BY PositionType, PagingAssumption DEF PagingAssumption, Times
<1>2. cut \in Nat /\ cut <= t
    BY <1>1, InstantCuts
<1>3. CursorOf(row) \in Positions
    BY <1>1, <1>2 DEF CursorOf, Positions, Times
<1>4. CASE cut = t
    BY <1>3, <1>4, PositionType DEF CursorOf
<1>5. CASE cut < t
    BY <1>1, <1>2, <1>3, <1>5 DEF CursorOf, Precedes
<1> QED BY <1>1, <1>2, <1>3, <1>4, <1>5

\* What the cursor hides behind a row that was on the page.
LEMMA CursorLoses ==
    ASSUME NEW row \in Positions, NEW other \in Positions,
           Precedes(row, other), ~ Behind(CursorOf(row), other)
    PROVE  /\ Instant(row.updatedAt) = Instant(other.updatedAt)
           /\ row.updatedAt > Fraction * Instant(row.updatedAt)
<1> DEFINE t == row.updatedAt
           u == other.updatedAt
           cut == Fraction * Instant(t)
<1>1. t \in Nat /\ u \in Nat /\ row.id \in Nat /\ other.id \in Nat
    BY PositionType
<1>2. cut \in Nat /\ cut <= t
    BY <1>1, InstantCuts
<1>3. u <= t
    BY <1>1 DEF Precedes
<1>4. cut <= u
    BY <1>1, <1>2 DEF CursorOf, Precedes, Behind
<1>5. cut # t
    BY <1>1, <1>2 DEF CursorOf, Precedes, Behind
<1>6. Instant(u) = Instant(t)
    BY <1>1, <1>3, <1>4, InstantCuts
<1> QED BY <1>1, <1>2, <1>5, <1>6

-----------------------------------------------------------------------------
(* Pages                                                                   *)

\* The query returns finitely many rows.
LEMMA RowsFinite ==
    ASSUME TypeInv
    PROVE  Rows \subseteq Positions /\ IsFiniteSet(Rows)
<1> DEFINE S == {r \in DOMAIN releases :
                    releases[r].listed /\ \A bound \in cursor : Behind(bound, Row(r))}
           f == [r \in S |-> Row(r)]
<1>1. IsFiniteSet(S)
    BY PagingAssumption, FS_Subset DEF PagingAssumption, TypeInv
<1>2. Rows = {Row(r) : r \in S}
    BY DEF Rows
<1>3. ASSUME NEW r \in S PROVE Row(r) \in Positions
    <2>1. r \in Ids /\ releases[r].updatedAt \in Times
        BY DEF TypeInv
    <2> QED BY <2>1 DEF Row, Positions
<1>4. f \in Surjection(S, Rows)
    BY <1>2 DEF Surjection
<1>5. IsFiniteSet(Rows)
    BY <1>1, <1>4, FS_Surjection
<1> QED BY <1>2, <1>3, <1>5

\* What is on a page precedes what is not.
LEMMA PagePrecedes ==
    ASSUME NEW rows, rows \subseteq Positions, IsFiniteSet(rows),
           NEW x \in PageOf(rows), NEW y \in rows \ PageOf(rows)
    PROVE  Precedes(x, y)
<1> DEFINE Before(z) == {w \in rows : Precedes(w, z)}
<1>1. x \in rows /\ y \in rows /\ x \in Positions /\ y \in Positions
    BY DEF PageOf
<1>2. IsFiniteSet(Before(x)) /\ IsFiniteSet(Before(y))
    BY FS_Subset
<1>3. Cardinality(Before(x)) \in Nat /\ Cardinality(Before(y)) \in Nat
    BY <1>2, FS_CardinalityType
<1>4. Cardinality(Before(x)) < Limit /\ ~ Cardinality(Before(y)) < Limit
    BY <1>1 DEF PageOf
<1>5. ASSUME Precedes(y, x) PROVE FALSE
    <2>1. Before(y) \subseteq Before(x)
        BY <1>1, <1>5, PrecedesTransitive
    <2>2. Cardinality(Before(y)) <= Cardinality(Before(x))
        BY <1>2, <2>1, FS_Subset
    <2> QED BY <1>3, <1>4, <2>2, PagingAssumption DEF PagingAssumption
<1>6. x # y
    BY <1>4
<1> QED BY <1>1, <1>5, <1>6, PrecedesTotal

\* A page holds no more than Limit rows: the rows before a row of the page
\* number it, and no two of its rows have the same number.
LEMMA PageIsBounded ==
    ASSUME NEW rows, rows \subseteq Positions, IsFiniteSet(rows)
    PROVE  Cardinality(PageOf(rows)) <= Limit
<1> DEFINE Before(z) == {w \in rows : Precedes(w, z)}
           Places == 0 .. (Limit - 1)
           place == [z \in PageOf(rows) |-> Cardinality(Before(z))]
<1>1. PageOf(rows) \subseteq rows
    BY DEF PageOf
<1>2. ASSUME NEW z \in PageOf(rows)
      PROVE  IsFiniteSet(Before(z)) /\ Cardinality(Before(z)) \in Places
    <2>1. IsFiniteSet(Before(z))
        BY FS_Subset
    <2>2. Cardinality(Before(z)) \in Nat
        BY <2>1, FS_CardinalityType
    <2>3. Cardinality(Before(z)) < Limit
        BY <1>2 DEF PageOf
    <2> QED BY <2>1, <2>2, <2>3, PagingAssumption DEF PagingAssumption
<1>3. ASSUME NEW x \in PageOf(rows), NEW y \in PageOf(rows), Precedes(x, y)
      PROVE  Cardinality(Before(x)) # Cardinality(Before(y))
    <2>1. x \in rows /\ y \in rows /\ x \in Positions /\ y \in Positions
        BY <1>1
    <2>2. x \in Before(y) /\ x \notin Before(x)
        BY <1>3, <2>1, PrecedesIrreflexive
    <2>3. Before(x) \in SUBSET Before(y)
        BY <1>3, <2>1, PrecedesTransitive
    <2> QED BY <1>2, <2>2, <2>3, FS_Subset
<1>4. place \in Injection(PageOf(rows), Places)
    <2>1. place \in [PageOf(rows) -> Places]
        BY <1>2
    <2>2. ASSUME NEW x \in PageOf(rows), NEW y \in PageOf(rows), place[x] = place[y]
          PROVE  x = y
        <3>1. Cardinality(Before(x)) = Cardinality(Before(y))
            BY <2>2
        <3>2. x \in Positions /\ y \in Positions
            BY <1>1
        <3> QED BY <1>3, <3>1, <3>2, PrecedesTotal
    <2> QED BY <2>1, <2>2 DEF Injection, IsInjective
<1>5. IsFiniteSet(Places) /\ Cardinality(Places) = Limit
    BY FS_Interval, PagingAssumption DEF PagingAssumption
<1> QED BY <1>4, <1>5, FS_Injection

-----------------------------------------------------------------------------
(* The next page                                                           *)

LEMMA PageType ==
    ASSUME TypeInv, CursorInv, ListReleasePage
    PROVE  /\ TypeInv'
           /\ PageOf(Rows) \subseteq Positions
           /\ pages' = Append(pages, PageOf(Rows))
<1>1. Rows \subseteq Positions
    BY RowsFinite
<1>2. PageOf(Rows) \subseteq Positions
    BY <1>1 DEF PageOf
<1>3. pages' \in Seq(SUBSET Positions)
    BY <1>2 DEF ListReleasePage, TypeInv
<1>4. cursor' \subseteq Positions
    BY <1>2, CursorIsPosition DEF ListReleasePage
<1> QED BY <1>2, <1>3, <1>4 DEF ListReleasePage, TypeInv

LEMMA PageDescends ==
    ASSUME TypeInv, CursorInv, PagesDescend, ListReleasePage
    PROVE  PagesDescend'
<1> DEFINE page == PageOf(Rows)
           n == Len(pages) + 1
<1>1. pages' = Append(pages, page) /\ page \subseteq Positions /\ page \subseteq Rows
    BY PageType DEF PageOf
<1>2. pages \in Seq(SUBSET Positions)
    BY DEF TypeInv
<1>3. DOMAIN pages' = 1 .. n /\ DOMAIN pages = 1 .. Len(pages) /\ Len(pages) \in Nat
    BY <1>1, <1>2
<1>4. pages'[n] = page /\ \A i \in 1 .. Len(pages) : pages'[i] = pages[i] /\ pages[i] \subseteq Positions
    BY <1>1, <1>2
<1>5. ASSUME NEW i \in 1 .. Len(pages), NEW x \in pages[i], NEW y \in page
      PROVE  Precedes(x, y)
    <2>1. cursor # {}
        BY <1>2, <1>3, <1>5 DEF CursorInv, ListReleasePage, TypeInv
    <2>2. PICK b \in cursor : TRUE
        BY <2>1
    <2>3. Precedes(b, y)
        BY <1>1, <2>2 DEF Rows, Behind
    <2>4. Precedes(x, b) \/ x = b
        BY <1>3, <1>5, <2>2 DEF CursorInv
    <2>5. x \in Positions /\ y \in Positions /\ b \in Positions
        BY <1>1, <1>4, <2>2 DEF TypeInv
    <2> QED BY <2>3, <2>4, <2>5, PrecedesTransitive
<1>6. ASSUME NEW i \in DOMAIN pages', NEW j \in DOMAIN pages', i < j,
             NEW x \in pages'[i], NEW y \in pages'[j]
      PROVE  Precedes(x, y)
    <2>1. CASE j = n
        <3>1. i \in 1 .. Len(pages) /\ x \in pages[i] /\ y \in page
            BY <1>3, <1>4, <1>6, <2>1
        <3> QED BY <3>1, <1>5
    <2>2. CASE j # n
        <3>1. i \in DOMAIN pages /\ j \in DOMAIN pages /\ x \in pages[i] /\ y \in pages[j]
            BY <1>3, <1>4, <1>6, <2>2
        <3> QED BY <3>1, <1>6 DEF PagesDescend
    <2> QED BY <2>1, <2>2
<1> QED BY <1>6 DEF PagesDescend

LEMMA PageMovesCursor ==
    ASSUME TypeInv, CursorInv, PagesDescend, ListReleasePage
    PROVE  CursorInv'
<1> DEFINE page == PageOf(Rows)
           n == Len(pages) + 1
<1>1. pages' = Append(pages, page) /\ page \subseteq Positions
    BY PageType
<1>2. pages \in Seq(SUBSET Positions)
    BY DEF TypeInv
<1>3. /\ DOMAIN pages' = 1 .. n /\ DOMAIN pages = 1 .. Len(pages) /\ Len(pages) \in Nat
      /\ pages'[n] = page
      /\ \A i \in 1 .. Len(pages) : pages'[i] = pages[i] /\ pages[i] \subseteq Positions
    BY <1>1, <1>2
<1>4. PagesDescend'
    BY PageDescends
<1>5. ASSUME NEW last \in page, IsLast(last, page), cursor' = {CursorOf(last)}
      PROVE  \A i \in DOMAIN pages', b \in cursor' :
                \A x \in pages'[i] : Precedes(x, b) \/ x = b
    <2> SUFFICES ASSUME NEW i \in DOMAIN pages', NEW x \in pages'[i]
                 PROVE  Precedes(x, CursorOf(last)) \/ x = CursorOf(last)
        BY <1>5
    <2>1. last \in Positions /\ x \in Positions
        BY <1>1, <1>3
    <2>2. x = last \/ Precedes(x, last)
        <3>1. CASE i = n
            BY <3>1, <1>3, <1>5 DEF IsLast
        <3>2. CASE i # n
            <4>1. i < n /\ n \in DOMAIN pages' /\ last \in pages'[n]
                BY <3>2, <1>3
            <4> QED BY <4>1, <1>4 DEF PagesDescend
        <3> QED BY <3>1, <3>2
    <2>3. CursorOf(last) \in Positions /\ (Precedes(last, CursorOf(last)) \/ last = CursorOf(last))
        BY <2>1, CursorIsPosition
    <2> QED BY <2>1, <2>2, <2>3, PrecedesTransitive
<1>6. CASE ~ More(Rows)
    BY <1>6 DEF ListReleasePage, CursorInv
<1>7. CASE More(Rows)
    <2>1. PICK last \in page : IsLast(last, page) /\ cursor' = {CursorOf(last)}
        BY <1>7 DEF ListReleasePage
    <2>2. walk' = "next" /\ cursor' # {}
        BY <1>7, <2>1 DEF ListReleasePage
    <2> QED BY <1>5, <2>1, <2>2 DEF CursorInv
<1> QED BY <1>6, <1>7

LEMMA PageKeepsUntouched ==
    ASSUME TypeInv, CursorInv, WalkInv, ListReleasePage
    PROVE  WalkInv'
<1> DEFINE page == PageOf(Rows)
           n == Len(pages) + 1
<1>1. pages' = Append(pages, page) /\ page \subseteq Positions /\ page \subseteq Rows
    BY PageType DEF PageOf
<1>2. pages \in Seq(SUBSET Positions) /\ Rows \subseteq Positions /\ IsFiniteSet(Rows)
    BY RowsFinite DEF TypeInv
<1>3. /\ DOMAIN pages' = 1 .. n /\ DOMAIN pages = 1 .. Len(pages) /\ Len(pages) \in Nat
      /\ n \in 1 .. n /\ pages'[n] = page
      /\ \A i \in 1 .. Len(pages) : pages'[i] = pages[i] /\ i \in 1 .. n
    BY <1>1, <1>2
<1>4. releases' = releases /\ walk # "end" /\ walk' # "start"
    BY DEF ListReleasePage
<1> SUFFICES ASSUME NEW r \in DOMAIN releases, r \notin touched', releases[r].listed
             PROVE  \/ Shown(r)'
                    \/ Lost(r)'
                    \/ walk' = "next" /\ \A b \in cursor' : Behind(b, Row(r))
    BY <1>4 DEF WalkInv, Row
<1>5. Row(r)' = Row(r)
    BY <1>4 DEF Row
<1>6. Shown(r) => Shown(r)'
    BY <1>3, <1>5 DEF Shown
<1>7. Lost(r) => Lost(r)'
    BY <1>3, <1>4, <1>5 DEF Lost, Boundaries
<1>8. Shown(r) \/ Lost(r) \/ Row(r) \in Rows
    <2>1. CASE walk = "start"
        BY <2>1 DEF CursorInv, Rows
    <2>2. CASE walk # "start"
        <3>1. touched' = touched
            BY <2>2 DEF ListReleasePage
        <3> QED BY <2>2, <3>1 DEF WalkInv, Rows
    <2> QED BY <2>1, <2>2
<1>9. CASE Row(r) \in page
    BY <1>3, <1>5, <1>9 DEF Shown
<1>10. CASE Row(r) \in Rows \ page
    <2>1. More(Rows)
        BY <1>10 DEF More
    <2>2. PICK last \in page : IsLast(last, page) /\ cursor' = {CursorOf(last)}
        BY <2>1 DEF ListReleasePage
    <2>3. Precedes(last, Row(r)) /\ last \in Positions /\ Row(r) \in Positions
        BY <1>1, <1>2, <1>10, <2>2, PagePrecedes
    <2>4. CASE Behind(CursorOf(last), Row(r))
        BY <2>1, <2>2, <2>4 DEF ListReleasePage
    <2>5. CASE ~ Behind(CursorOf(last), Row(r))
        <3>1. /\ Instant(last.updatedAt) = Instant(Row(r).updatedAt)
              /\ last.updatedAt > Fraction * Instant(last.updatedAt)
            BY <2>3, <2>5, CursorLoses
        <3>2. Row(r).updatedAt = releases[r].updatedAt
            BY DEF Row
        <3>3. last \in Boundaries'
            BY <1>3, <2>2, <2>3 DEF Boundaries
        <3> QED BY <1>4, <1>5, <2>3, <3>1, <3>2, <3>3 DEF Lost
    <2> QED BY <2>4, <2>5
<1> QED BY <1>6, <1>7, <1>8, <1>9, <1>10

-----------------------------------------------------------------------------
(* The other steps                                                         *)

\* What the rest of the API does to the client's walk: nothing, but releases
\* that are written are no longer untouched.
LEMMA OtherStep ==
    ASSUME IInv, UNCHANGED client, touched \subseteq touched',
           \A r \in DOMAIN releases' \ touched' :
               r \in DOMAIN releases /\ releases'[r] = releases[r],
           TypeInv'
    PROVE  IInv'
<1>1. CursorInv' /\ PagesDescend'
    BY DEF IInv, client, CursorInv, PagesDescend
<1>2. Boundaries' = Boundaries
    BY DEF client, Boundaries
<1>3. WalkInv'
    <2> SUFFICES ASSUME walk # "start",
                        NEW r \in DOMAIN releases' \ touched', releases'[r].listed
                 PROVE  \/ Shown(r)'
                        \/ Lost(r)'
                        \/ walk = "next" /\ \A b \in cursor : Behind(b, Row(r)')
        BY DEF WalkInv, client
    <2>1. r \in DOMAIN releases \ touched /\ releases'[r] = releases[r] /\ Row(r)' = Row(r)
        BY DEF Row
    <2>2. Shown(r)' = Shown(r) /\ Lost(r)' = Lost(r)
        BY <1>2, <2>1 DEF client, Shown, Lost
    <2> QED BY <2>1, <2>2 DEF IInv, WalkInv
<1> QED BY <1>1, <1>3 DEF IInv

LEMMA WriteStep ==
    ASSUME IInv, NEW r \in Ids, NEW t \in Times, NEW listed \in BOOLEAN,
           Write(r, [updatedAt |-> t, listed |-> listed]),
           UNCHANGED <<now, client>>, open' \subseteq open
    PROVE  IInv'
<1>1. /\ DOMAIN releases' = DOMAIN releases \cup {r}
      /\ releases'[r].updatedAt = t
      /\ \A q \in DOMAIN releases' : q # r => q \in DOMAIN releases /\ releases'[q] = releases[q]
      /\ touched' = touched \cup {r}
    BY DEF Write
<1>2. TypeInv'
    BY <1>1 DEF IInv, TypeInv, client
<1> QED BY <1>1, <1>2, OtherStep

LEMMA Inductive == IInv /\ [Next]_vars => IInv'
<1> SUFFICES ASSUME IInv, [Next]_vars PROVE IInv'
    OBVIOUS
<1>1. CASE Tick
    <2>1. now' \in Times
        BY <1>1, PagingAssumption DEF PagingAssumption, Tick, Times, IInv, TypeInv
    <2>2. TypeInv'
        BY <1>1, <2>1 DEF Tick, IInv, TypeInv, client
    <2> QED BY <1>1, <2>2, OtherStep DEF Tick
<1>2. CASE ListReleasePage
    BY <1>2, PageType, PageDescends, PageMovesCursor, PageKeepsUntouched DEF IInv
<1>3. ASSUME NEW r \in Ids, CreateRelease(r) PROVE IInv'
    <2>1. PICK listed \in BOOLEAN : Write(r, [updatedAt |-> now, listed |-> listed])
        BY <1>3 DEF CreateRelease
    <2>2. now \in Times
        BY DEF IInv, TypeInv
    <2> QED BY <1>3, <2>1, <2>2, WriteStep DEF CreateRelease
<1>4. ASSUME NEW r \in Ids, Begin(r) PROVE IInv'
    <2>1. TypeInv'
        BY <1>4 DEF Begin, IInv, TypeInv, client
    <2> QED BY <1>4, <2>1, OtherStep DEF Begin
<1>5. ASSUME NEW r \in Ids, UpdateRelease(r) PROVE IInv'
    <2>1. PICK listed \in BOOLEAN :
            \/ /\ Write(r, [updatedAt |-> now, listed |-> listed])
               /\ UNCHANGED open
            \/ \E t \in {u \in Times : <<r, u>> \in open} :
                /\ Write(r, [updatedAt |-> t, listed |-> listed])
                /\ open' = open \ {<<r, t>>}
        BY <1>5 DEF UpdateRelease
    <2>2. PICK t \in Times :
            Write(r, [updatedAt |-> t, listed |-> listed]) /\ open' \subseteq open
        BY <2>1 DEF IInv, TypeInv
    <2> QED BY <1>5, <2>2, WriteStep DEF UpdateRelease
<1>6. CASE UNCHANGED vars
    <2>1. TypeInv'
        BY <1>6 DEF vars, database, client, IInv, TypeInv
    <2> QED BY <1>6, <2>1, OtherStep DEF vars, database
<1> QED BY <1>1, <1>2, <1>3, <1>4, <1>5, <1>6 DEF Next

LEMMA Initial == Init => IInv
<1> SUFFICES ASSUME Init PROVE IInv
    OBVIOUS
<1>1. DOMAIN releases = {} /\ pages = << >> /\ pages \in Seq(SUBSET Positions) /\ DOMAIN pages = {}
    BY DEF Init
<1>2. TypeInv
    BY <1>1, PagingAssumption DEF PagingAssumption, Init, TypeInv, Times
<1> QED BY <1>1, <1>2 DEF IInv, CursorInv, PagesDescend, WalkInv, Init

\* The invariant holds in every reachable state.
THEOREM Invariance == Spec => []IInv
BY Initial, Inductive, PTL DEF Spec

\* Beside the invariant, what TypeOK says is inductive: updates carry the past
\* and no page grows beyond its limit.
LEMMA TypeStep ==
    ASSUME IInv, TypeOK, [Next]_vars
    PROVE  TypeOK'
<1>1. now \in Nat /\ TypeInv /\ TypeInv'
    <2>1. Times \subseteq Nat
        BY DEF Times
    <2> QED BY <2>1, Inductive DEF IInv, TypeInv
<1>2. CASE Tick
    <2>1. 0 .. now \subseteq 0 .. now'
        BY <1>1, <1>2 DEF Tick
    <2> QED BY <1>1, <1>2, <2>1 DEF Tick, client, TypeOK, TypeInv
<1>3. CASE ListReleasePage
    <2> DEFINE page == PageOf(Rows)
    <2>1. page \subseteq Positions /\ pages' = Append(pages, page)
        BY <1>3, PageType DEF IInv
    <2>2. Cardinality(page) <= Limit
        BY <1>1, RowsFinite, PageIsBounded
    <2>3. pages \in Seq(SUBSET Positions)
        BY <1>1 DEF TypeInv
    <2> HIDE DEF page
    <2>4. \A i \in DOMAIN pages' : pages'[i] = page \/ (i \in DOMAIN pages /\ pages'[i] = pages[i])
        BY <2>1, <2>3
    <2>5. \A i \in DOMAIN pages' : pages'[i] \subseteq Positions /\ Cardinality(pages'[i]) <= Limit
        BY <2>1, <2>2, <2>4 DEF TypeOK
    <2>6. (\A b, c \in cursor' : b = c) /\ (cursor' # {} <=> walk' = "next")
        BY <1>3 DEF ListReleasePage
    <2> QED BY <1>1, <1>3, <2>5, <2>6 DEF ListReleasePage, TypeOK, TypeInv
<1>4. ASSUME NEW r \in Ids, NEW t \in 0 .. now, NEW listed \in BOOLEAN,
             Write(r, [updatedAt |-> t, listed |-> listed]),
             UNCHANGED <<now, client>>, open' \subseteq open
      PROVE  TypeOK'
    <2>1. /\ DOMAIN releases' = DOMAIN releases \cup {r}
          /\ releases'[r].updatedAt = t /\ releases'[r].listed = listed
          /\ \A q \in DOMAIN releases' : q # r => q \in DOMAIN releases /\ releases'[q] = releases[q]
          /\ touched' = touched \cup {r}
        BY <1>4 DEF Write
    <2>2. \A q \in DOMAIN releases' :
            releases'[q].updatedAt \in 0 .. now /\ releases'[q].listed \in BOOLEAN
        BY <2>1 DEF TypeOK
    <2>3. open' \subseteq (DOMAIN releases') \X (0 .. now)
        BY <1>4, <2>1 DEF TypeOK
    <2> QED BY <1>1, <1>4, <2>1, <2>2, <2>3 DEF client, TypeOK, TypeInv
<1>5. ASSUME NEW r \in Ids, CreateRelease(r) PROVE TypeOK'
    <2>1. PICK listed \in BOOLEAN : Write(r, [updatedAt |-> now, listed |-> listed])
        BY <1>5 DEF CreateRelease
    <2>2. now \in 0 .. now /\ open' \subseteq open /\ UNCHANGED <<now, client>>
        BY <1>1, <1>5 DEF CreateRelease
    <2> QED BY <1>4, <2>1, <2>2
<1>6. ASSUME NEW r \in Ids, Begin(r) PROVE TypeOK'
    BY <1>1, <1>6 DEF Begin, client, TypeOK, TypeInv
<1>7. ASSUME NEW r \in Ids, UpdateRelease(r) PROVE TypeOK'
    <2>1. PICK listed \in BOOLEAN :
            \/ /\ Write(r, [updatedAt |-> now, listed |-> listed])
               /\ UNCHANGED open
            \/ \E t \in {u \in Times : <<r, u>> \in open} :
                /\ Write(r, [updatedAt |-> t, listed |-> listed])
                /\ open' = open \ {<<r, t>>}
        BY <1>7 DEF UpdateRelease
    <2>2. PICK t \in 0 .. now :
            Write(r, [updatedAt |-> t, listed |-> listed]) /\ open' \subseteq open
        <3>1. now \in 0 .. now
            BY <1>1
        <3>2. \A u : <<r, u>> \in open => u \in 0 .. now
            BY DEF TypeOK
        <3> QED BY <2>1, <3>1, <3>2
    <2>3. UNCHANGED <<now, client>>
        BY <1>7 DEF UpdateRelease
    <2> QED BY <1>4, <2>2, <2>3
<1>8. CASE UNCHANGED vars
    BY <1>8 DEF vars, database, client, TypeOK
<1> QED BY <1>2, <1>3, <1>5, <1>6, <1>7, <1>8 DEF Next

\* No release is updated in the future, no transaction outlives the release it
\* updates, and no page is longer than the limit that was asked for.
THEOREM TypeCorrect == Spec => []TypeOK
<1>1. Init => TypeOK
    <2> SUFFICES ASSUME Init PROVE TypeOK
        OBVIOUS
    <2>1. DOMAIN releases = {} /\ DOMAIN pages = {} /\ 0 \in Times
        BY PagingAssumption DEF PagingAssumption, Init, Times
    <2> QED BY <2>1 DEF Init, TypeOK
<1>2. IInv /\ TypeOK /\ [Next]_vars => TypeOK'
    BY TypeStep
<1> QED BY <1>1, <1>2, Invariance, PTL DEF Spec

\* Whatever is written between the pages of a walk, the walk goes down the
\* list and never up or around (keyset pages of listReleasePage).
THEOREM WalkDescends == Spec => []PagesDescend
<1>1. IInv => PagesDescend
    BY DEF IInv
<1> QED BY <1>1, Invariance, PTL

\* A walk that ended has shown every release nobody wrote meanwhile, but for
\* those behind a page's last row in the same instant of the cursor's clock.
THEOREM WalkIsComplete == Spec => []UntouchedAreShown
<1>1. IInv => UntouchedAreShown
    BY DEF IInv, WalkInv, UntouchedAreShown, Shown, Lost
<1> QED BY <1>1, Invariance, PTL

AllShown ==
    walk = "end" =>
        \A r \in DOMAIN releases \ touched : releases[r].listed => Shown(r)

\* With a cursor as fine as the database's clock, as in the in-memory
\* repository, the walk is complete without exception: it is the rounding of
\* updatedAt that loses releases.
THEOREM ExactCursorIsComplete == Spec => [](Fraction = 1 => AllShown)
<1>1. ASSUME IInv, Fraction = 1 PROVE AllShown
    <2>1. ASSUME NEW r PROVE ~ Lost(r)
        <3> SUFFICES ASSUME NEW last \in Positions,
                            last.updatedAt > Fraction * Instant(last.updatedAt)
                     PROVE  FALSE
            BY DEF Lost, Boundaries
        <3>1. last.updatedAt \in Nat /\ last.updatedAt > last.updatedAt
            BY <1>1, PositionType DEF Instant
        <3> QED BY <3>1
    <2> QED BY <1>1, <2>1 DEF IInv, WalkInv, AllShown
<1>2. IInv => (Fraction = 1 => AllShown)
    BY <1>1
<1> QED BY <1>2, Invariance, PTL
=============================================================================
