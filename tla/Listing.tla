------------------------------ MODULE Listing ------------------------------
(***************************************************************************)
(* Reading a list page by page while it grows: GET /v1/databases and        *)
(* /v1/drills (handlers/v1_databases.go, v1_drills.go, drill/store.go), the *)
(* alert feed of the API and of the app, and the audit log of the account   *)
(* (v1_alerts.go, audit_viewer.go, audit/log.go).  All four are keyset       *)
(* pages, newest first, which fetch one row more than they show to learn     *)
(* whether there is another page.                                           *)
(*                                                                         *)
(* A row gets its place in the order (now() of its transaction, or the next  *)
(* value of the audit table's sequence) before it commits, so rows appear    *)
(* out of order, also behind the reader.  Accounts, columns and the JSON of   *)
(* a page are left out; a cursor is the key of a row, which its encodings     *)
(* keep to the last digit.                                                  *)
(***************************************************************************)
EXTENDS Naturals, FiniteSets

CONSTANTS
    Rows,          \* bound: ids of the rows, numbers
    MaxPage,       \* v1MaxLimit, and the largest page of audit/log.go
    DefaultPage,   \* auditLogPageSize, and what audit/log.go makes of a larger page
    MaxTime        \* bound: the last moment a row is created

ASSUME ListingAssumption ==
    /\ Rows \subseteq Nat \ {0} /\ IsFiniteSet(Rows) /\ MaxTime \in Nat
    /\ MaxPage \in Nat /\ DefaultPage \in 1 .. (MaxPage - 1)

Feeds == {"databases", "drills", "alerts", "auditLog"}

VARIABLES
    feed,          \* the list that is read
    row,           \* each row: no row, written by an open transaction, committed
    at,            \* created_at
    matches,       \* the row is one the feed selects (AlertActions)
    cursor,        \* the last row of the page before; 0 before the first page
    base,          \* history: the rows that were there when the reader began
    listed,        \* what the reader has seen
    twice,         \* history: some row was on two pages
    oversize,      \* history: the reader asked the alert feed for its largest page
    reader         \* "new", "reading", "done"

listVars == <<feed, row, at, matches, cursor, base, listed, twice, oversize, reader>>

ListingInit ==
    /\ feed \in Feeds
    /\ row = [r \in Rows |-> "none"] /\ at = [r \in Rows |-> 0] /\ matches = [r \in Rows |-> FALSE]
    /\ cursor = 0 /\ base = {} /\ listed = {} /\ twice = FALSE /\ oversize = FALSE
    /\ reader = "new"

-----------------------------------------------------------------------------
(* The writers.  An id of the API's tables is random; the audit table's      *)
(* sequence hands its out in order.                                         *)

Write(r, t, m) ==
    /\ row[r] = "none"
    /\ \A q \in Rows : row[q] # "none" => at[q] <= t
    /\ feed \in {"alerts", "auditLog"} => \A q \in Rows : row[q] # "none" => q < r
    /\ feed # "alerts" => m
    /\ row' = [row EXCEPT ![r] = "open"] /\ at' = [at EXCEPT ![r] = t]
    /\ matches' = [matches EXCEPT ![r] = m]
    /\ UNCHANGED <<feed, cursor, base, listed, twice, oversize, reader>>

Commit(r) ==
    /\ row[r] = "open" /\ row' = [row EXCEPT ![r] = "there"]
    /\ UNCHANGED <<feed, at, matches, cursor, base, listed, twice, oversize, reader>>

Rollback(r) ==
    /\ row[r] = "open" /\ row' = [row EXCEPT ![r] = "gone"]
    /\ UNCHANGED <<feed, at, matches, cursor, base, listed, twice, oversize, reader>>

-----------------------------------------------------------------------------
(* The reader *)

Selected == {r \in Rows : row[r] = "there" /\ matches[r]}

\* (created_at, id) < ($2, $3), or e.id < $2.
Older(q, r) ==
    IF feed \in {"databases", "drills"}
    THEN at[q] < at[r] \/ (at[q] = at[r] /\ q < r)
    ELSE q < r

\* The rows a query with this cursor selects, before its LIMIT.
After(c) == {r \in Selected : c = 0 \/ Older(r, c)}

\* ORDER BY ... DESC LIMIT n of the rows S.
Newest(S, n) ==
    {r \in S : Cardinality({q \in S : Older(r, q)}) < n}

\* ListForAccount and ListAlertsForAccount: a page that is too large becomes the default.
Clamped(n) == IF n > MaxPage THEN DefaultPage ELSE n
\* ListTargetsPage and ListDrillsPage take the limit as it comes.
Fetched(limit) ==
    Newest(After(cursor), IF feed \in {"alerts", "auditLog"} THEN Clamped(limit + 1) ELSE limit + 1)

\* Mutant: the cursor is the extra row, which is then on no page.
NextCursor_Extra(page, fetched) == CHOOSE r \in fetched : \A q \in fetched : ~Older(q, r)
\* The oldest row of the page shown.
NextCursor(page, fetched) == CHOOSE r \in page : \A q \in page : ~Older(q, r)

\* One request.
ReadPage(limit) ==
    LET fetched == Fetched(limit)
        page == Newest(fetched, limit)
        more == Cardinality(fetched) > limit
    IN  /\ reader # "done"
        /\ base' = IF reader = "new" THEN Selected ELSE base
        /\ listed' = listed \cup page /\ twice' = (twice \/ page \cap listed # {})
        /\ oversize' = (oversize \/ (feed = "alerts" /\ limit = MaxPage))
        /\ cursor' = IF more THEN NextCursor(page, fetched) ELSE cursor
        /\ reader' = IF more THEN "reading" ELSE "done"
        /\ UNCHANGED <<feed, row, at, matches>>

\* parsePageParams bounds the API's limit; the audit page has its own.
v1ListDatabases(limit) == feed = "databases" /\ ReadPage(limit)
v1ListDrills(limit) == feed = "drills" /\ ReadPage(limit)
v1ListAlerts(limit) == feed = "alerts" /\ ReadPage(limit)
auditLog == feed = "auditLog" /\ ReadPage(DefaultPage)

ListingNext ==
    \/ \E r \in Rows, t \in 0 .. MaxTime, m \in BOOLEAN : Write(r, t, m)
    \/ \E r \in Rows : Commit(r) \/ Rollback(r)
    \/ \E limit \in 1 .. MaxPage :
          v1ListDatabases(limit) \/ v1ListDrills(limit) \/ v1ListAlerts(limit)
    \/ auditLog

ListingSpec == ListingInit /\ [][ListingNext]_listVars

-----------------------------------------------------------------------------
ListingTypeOK ==
    /\ feed \in Feeds /\ row \in [Rows -> {"none", "open", "there", "gone"}]
    /\ at \in [Rows -> 0 .. MaxTime] /\ matches \in [Rows -> BOOLEAN]
    /\ cursor \in Rows \cup {0} /\ base \subseteq Rows /\ listed \subseteq Rows
    /\ twice \in BOOLEAN /\ oversize \in BOOLEAN /\ reader \in {"new", "reading", "done"}

\* A reader that follows next_cursor to the end has seen every row that was there when it
\* began, whatever was written meanwhile and however it chose its limits (v1ListDatabases,
\* v1ListDrills, v1ListAlerts, auditLog).  The exception is the alert feed's largest page:
\* the extra row takes it over the store's maximum, the store falls back to its default,
\* and the short page has no next_cursor.
WalkComplete == reader = "done" /\ ~oversize => base \subseteq listed

\* No row is on two pages of one walk (the strict comparison with the cursor).
NoRowTwice == ~twice

\* A walk over the pages of a growing list shows every row that was there, and none twice
\* (ListTargetsPage, ListDrillsPage, ListForAccount).
ListingSafe == ListingTypeOK /\ WalkComplete /\ NoRowTwice

=============================================================================
