---------------------------- MODULE ServerProofs ----------------------------
(***************************************************************************)
(* Proofs about the parts of the server around the drills, for any number of  *)
(* rows, requests, keys, drills, phones and jobs, and that their              *)
(* interleaving in MCServer keeps every one of them.  Each part has its own   *)
(* invariant, named ...Inv, and the comment above it says what it carries.     *)
(***************************************************************************)
EXTENDS MCServer, FiniteSetTheorems, SequenceTheorems, TLAPS


-----------------------------------------------------------------------------
(* The pages of a listing.  The rows of a page are the newest that the       *)
(* cursor has not passed, and a row the reader has not got is older than the *)
(* cursor, for as long as it exists.                                         *)

\* Every order the queries use is a strict total one: no two rows share a place.
LEMMA OlderIsOrder ==
    ASSUME ListingTypeOK
    PROVE  /\ \A q \in Rows : ~Older(q, q)
           /\ \A p, q, r \in Rows : Older(p, q) /\ Older(q, r) => Older(p, r)
           /\ \A q, r \in Rows : q # r => Older(q, r) \/ Older(r, q)
<1>1. /\ \A q \in Rows : q \in Nat /\ at[q] \in Nat
  BY ListingAssumption DEF ListingTypeOK
<1> QED BY <1>1 DEF Older

\* The place of a row in a set of rows, counted from the newest.
Place(S, r) == Cardinality({q \in S : Older(r, q)})

\* A set of rows is finite.
LEMMA RowsFinite ==
    ASSUME NEW S \in SUBSET Rows
    PROVE  IsFiniteSet(S) /\ Cardinality(S) \in Nat
  BY FS_Subset, FS_CardinalityType, ListingAssumption

\* The place of a row is a number, within the size of the set.
LEMMA PlaceIsNat ==
    ASSUME NEW S \in SUBSET Rows, NEW r
    PROVE  Place(S, r) \in Nat /\ Place(S, r) <= Cardinality(S)
<1> DEFINE T == {q \in S : Older(r, q)}
<1>1. T \in SUBSET S /\ T \in SUBSET Rows
  OBVIOUS
<1> HIDE DEF T
<1>2. Cardinality(T) \in Nat /\ Cardinality(T) <= Cardinality(S)
  BY <1>1, RowsFinite, FS_Subset
<1> QED BY <1>2 DEF Place, T

\* A row is counted at no place before its own, so its place is below the number of rows.
LEMMA PlaceInside ==
    ASSUME ListingTypeOK, NEW S \in SUBSET Rows, NEW r \in S
    PROVE  Place(S, r) < Cardinality(S)
<1> DEFINE T == {q \in S : Older(r, q)}
<1>1. T \in SUBSET S /\ T \in SUBSET Rows /\ r \in S /\ r \notin T
  BY OlderIsOrder
<1> HIDE DEF T
<1>2. T # S
  BY <1>1
<1>3. Cardinality(T) \in Nat /\ Cardinality(S) \in Nat /\ Cardinality(T) <= Cardinality(S)
      /\ Cardinality(T) # Cardinality(S)
  BY <1>1, <1>2, RowsFinite, FS_Subset
<1>4. Cardinality(T) < Cardinality(S)
  BY <1>3
<1> QED BY <1>4 DEF Place, T

\* An older row has the higher place.
LEMMA PlaceOrders ==
    ASSUME ListingTypeOK, NEW S \in SUBSET Rows, NEW q \in S, NEW r \in Rows, Older(r, q)
    PROVE  Place(S, q) < Place(S, r)
<1> DEFINE Q == {p \in S : Older(q, p)}
           R == {p \in S : Older(r, p)}
<1>1. Q \in SUBSET R /\ q \in R /\ q \notin Q /\ R \in SUBSET Rows
  BY OlderIsOrder
<1> HIDE DEF Q, R
<1>2. Cardinality(Q) \in Nat /\ Cardinality(R) \in Nat /\ Cardinality(Q) <= Cardinality(R)
  BY <1>1, RowsFinite, FS_Subset
<1>3. Cardinality(Q) # Cardinality(R)
  <2>1. Q # R BY <1>1
  <2>2. IsFiniteSet(R) BY <1>1, RowsFinite
  <2> QED BY <1>1, <2>1, <2>2, FS_Subset
<1>4. Cardinality(Q) < Cardinality(R)
  BY <1>2, <1>3
<1> QED BY <1>4 DEF Place, Q, R

\* No two rows have the same place.
LEMMA PlacesDiffer ==
    ASSUME ListingTypeOK, NEW S \in SUBSET Rows, NEW q \in S, NEW r \in S, q # r
    PROVE  Place(S, q) # Place(S, r)
<1>1. Older(q, r) \/ Older(r, q)
  BY OlderIsOrder
<1>2. Place(S, q) \in Nat /\ Place(S, r) \in Nat
  BY PlaceIsNat
<1>3. q \in Rows /\ r \in Rows
  OBVIOUS
<1> QED BY <1>1, <1>2, <1>3, PlaceOrders

\* A page has as many rows as it may, unless it has them all.
LEMMA PageIsFull ==
    ASSUME ListingTypeOK, NEW S \in SUBSET Rows, NEW n \in Nat, n <= Cardinality(S)
    PROVE  Cardinality(Newest(S, n)) >= n
<1> DEFINE k == Cardinality(S)
           rest == S \ Newest(S, n)
           place == [r \in rest |-> Place(S, r)]
<1>1. k \in Nat /\ IsFiniteSet(S) /\ Newest(S, n) \in SUBSET S
  BY RowsFinite DEF Newest
<1>2. IsFiniteSet(rest) /\ IsFiniteSet(Newest(S, n)) /\ rest \in SUBSET S
  BY <1>1, FS_Subset
<1>3. ASSUME NEW r \in rest PROVE Place(S, r) \in n .. (k - 1)
  <2>1. r \in S /\ ~(Place(S, r) < n)
    BY DEF Newest, Place
  <2>2. Place(S, r) \in Nat /\ Place(S, r) < k
    BY <2>1, PlaceIsNat, PlaceInside
  <2> QED BY <2>1, <2>2, <1>1
<1>4. place \in [rest -> n .. (k - 1)]
  BY <1>3
<1>5. \A q, r \in rest : q # r => place[q] # place[r]
  BY <1>2, PlacesDiffer
<1>6. IsFiniteSet(n .. (k - 1)) /\ Cardinality(n .. (k - 1)) = k - n
  <2>1. n \in Int /\ k - 1 \in Int
    BY <1>1
  <2>2. Cardinality(n .. (k - 1)) = IF n > k - 1 THEN 0 ELSE (k - 1) - n + 1
    BY <2>1, FS_Interval
  <2>3. IsFiniteSet(n .. (k - 1))
    BY <2>1, FS_Interval
  <2> QED BY <2>2, <2>3, <1>1
<1> HIDE DEF place
<1>7. Cardinality(rest) <= k - n
  <2>1. Cardinality(rest) \in Nat /\ k - n \in Nat
    BY <1>1, <1>2, FS_CardinalityType
  <2>2. SUFFICES ASSUME Cardinality(rest) > Cardinality(n .. (k - 1)) PROVE FALSE
    BY <2>1, <1>6
  <2>3. \E q, r \in rest : q # r /\ place[q] = place[r]
    BY <2>2, <1>2, <1>4, <1>6, FS_PigeonHole
  <2> QED BY <2>3, <1>5
<1>8. S = Newest(S, n) \cup rest /\ Newest(S, n) \cap rest = {}
  BY <1>1
<1>9. Cardinality(S) = Cardinality(Newest(S, n)) + Cardinality(rest)
  <2> HIDE DEF rest
  <2>1. Cardinality(Newest(S, n) \cup rest)
          = Cardinality(Newest(S, n)) + Cardinality(rest) - Cardinality(Newest(S, n) \cap rest)
    BY <1>2, FS_Union
  <2>2. Cardinality(Newest(S, n) \cap rest) = 0
    BY <1>8, FS_EmptySet
  <2>3. Cardinality(Newest(S, n)) \in Nat /\ Cardinality(rest) \in Nat
    BY <1>2, FS_CardinalityType
  <2>4. Cardinality(S) = Cardinality(Newest(S, n) \cup rest)
    BY <1>8
  <2> DEFINE a == Cardinality(Newest(S, n))
             b == Cardinality(rest)
             c == Cardinality(Newest(S, n) \cap rest)
             d == Cardinality(Newest(S, n) \cup rest)
  <2>5. d = a + b - c /\ c = 0 /\ a \in Nat /\ b \in Nat /\ Cardinality(S) = d
    BY <2>1, <2>2, <2>3, <2>4
  <2> HIDE DEF a, b, c, d
  <2>6. Cardinality(S) = a + b
    BY <2>5
  <2> QED BY <2>6 DEF a, b
<1>10. Cardinality(Newest(S, n)) \in Nat /\ Cardinality(rest) \in Nat
  BY <1>2, FS_CardinalityType
<1> HIDE DEF rest
<1> QED BY <1>1, <1>7, <1>9, <1>10

\* A page of a list that fits is the list.
LEMMA ShortListIsAll ==
    ASSUME ListingTypeOK, NEW S \in SUBSET Rows, NEW n \in Nat, Cardinality(S) <= n
    PROVE  Newest(S, n) = S
<1>1. ASSUME NEW r \in S PROVE Cardinality({q \in S : Older(r, q)}) < n
  <2>1. Place(S, r) \in Nat /\ Place(S, r) < Cardinality(S) /\ Cardinality(S) \in Nat
    BY PlaceIsNat, PlaceInside, RowsFinite
  <2> QED BY <2>1 DEF Place
<1> QED BY <1>1 DEF Newest

\* A page that has fewer rows than it may has them all.
LEMMA ShortPageIsAll ==
    ASSUME ListingTypeOK, NEW S \in SUBSET Rows, NEW n \in Nat, Cardinality(Newest(S, n)) < n
    PROVE  Newest(S, n) = S
<1>1. Cardinality(S) \in Nat /\ Newest(S, n) \in SUBSET Rows
  BY RowsFinite DEF Newest
<1>2. Cardinality(Newest(S, n)) \in Nat
  BY <1>1, RowsFinite
<1>3. ~(n <= Cardinality(S))
  <2>1. SUFFICES ASSUME n <= Cardinality(S) PROVE FALSE
    OBVIOUS
  <2>2. Cardinality(Newest(S, n)) >= n
    BY <2>1, PageIsFull
  <2> QED BY <2>2, <1>2
<1>4. Cardinality(S) <= n
  BY <1>1, <1>3
<1> QED BY <1>4, ShortListIsAll

\* A set of rows has an oldest one: the places are fewer than the rows otherwise.
LEMMA OldestExists ==
    ASSUME ListingTypeOK, NEW S \in SUBSET Rows, S # {}
    PROVE  \E r \in S : \A q \in S : ~Older(q, r)
<1> DEFINE k == Cardinality(S)
           place == [r \in S |-> Place(S, r)]
<1>1. IsFiniteSet(S) /\ k \in Nat /\ k # 0
  BY RowsFinite, FS_EmptySet
<1>2. PICK r \in S : ~(Place(S, r) < k - 1)
  <2>1. SUFFICES ASSUME \A r \in S : Place(S, r) < k - 1 PROVE FALSE
    OBVIOUS
  <2>2. place \in [S -> 0 .. (k - 2)]
    <3>1. ASSUME NEW r \in S PROVE Place(S, r) \in 0 .. (k - 2)
      <4>1. Place(S, r) \in Nat BY PlaceIsNat
      <4> QED BY <4>1, <2>1, <1>1
    <3> QED BY <3>1
  <2>3. IsFiniteSet(0 .. (k - 2)) /\ Cardinality(0 .. (k - 2)) < k
    <3>1. 0 \in Int /\ k - 2 \in Int
      BY <1>1
    <3>2. IsFiniteSet(0 .. (k - 2))
      BY <3>1, FS_Interval
    <3>3. Cardinality(0 .. (k - 2)) = IF 0 > k - 2 THEN 0 ELSE (k - 2) - 0 + 1
      BY <3>1, FS_Interval
    <3> QED BY <3>2, <3>3, <1>1
  <2>4. \A q, r \in S : q # r => place[q] # place[r]
    BY PlacesDiffer
  <2> HIDE DEF place
  <2>5. \E q, r \in S : q # r /\ place[q] = place[r]
    BY <2>2, <2>3, <1>1, FS_PigeonHole
  <2> QED BY <2>4, <2>5
<1>3. ASSUME NEW q \in S, Older(q, r) PROVE FALSE
  <2>1. Place(S, r) < Place(S, q)
    BY <1>3, PlaceOrders
  <2>2. Place(S, q) < k /\ Place(S, q) \in Nat /\ Place(S, r) \in Nat
    BY PlaceInside, PlaceIsNat
  <2> HIDE DEF k
  <2> QED BY <2>1, <2>2, <1>1, <1>2
<1> QED BY <1>3

\* The cursor of a page is its oldest row.
LEMMA CursorIsOldest ==
    ASSUME ListingTypeOK, NEW S \in SUBSET Rows, S # {}, NEW fetched
    PROVE  /\ NextCursor(S, fetched) \in S
           /\ \A q \in S : ~Older(q, NextCursor(S, fetched))
  BY OldestExists DEF NextCursor

\* What the cursor leaves behind is on the page: a row that matches and is not older than
\* the page's oldest row.
LEMMA PageReachesCursor ==
    ASSUME ListingTypeOK, NEW S \in SUBSET Rows, NEW n, NEW limit, NEW c \in Newest(Newest(S, n), limit),
           n \in Nat, limit \in Nat, NEW r \in S, ~Older(r, c)
    PROVE  r \in Newest(Newest(S, n), limit)
<1> DEFINE F == Newest(S, n)
<1>1. F \in SUBSET S /\ F \in SUBSET Rows /\ c \in F /\ c \in Rows /\ r \in Rows
  BY DEF Newest
<1>2. CASE r = c
  BY <1>2
<1>3. CASE r # c
  <2>1. Older(c, r)
    BY <1>1, <1>3, OlderIsOrder
  <2>2. Place(S, r) < Place(S, c) /\ Place(S, r) \in Nat /\ Place(S, c) \in Nat /\ Place(S, c) < n
    <3>1. Place(S, r) < Place(S, c) BY <1>1, <2>1, PlaceOrders
    <3>2. Place(S, c) < n BY <1>1 DEF Newest, Place
    <3> QED BY <3>1, <3>2, PlaceIsNat
  <2>3. Place(S, r) < n
    BY <2>2
  <2>4. r \in F
    BY <2>3 DEF Newest, Place
  <2>5. Place(F, r) < Place(F, c) /\ Place(F, r) \in Nat /\ Place(F, c) \in Nat /\ Place(F, c) < limit
    <3> HIDE DEF F
    <3>1. Place(F, r) < Place(F, c) BY <1>1, <2>1, <2>4, PlaceOrders
    <3>2. Place(F, c) < limit BY DEF Newest, Place, F
    <3> QED BY <3>1, <3>2, <1>1, PlaceIsNat
  <2>6. Place(F, r) < limit
    BY <2>5
  <2> QED BY <2>4, <2>6 DEF Newest, Place
<1> QED BY <1>2, <1>3

-----------------------------------------------------------------------------
\* The reader's rows are there to stay.
ReaderRows ==
    /\ base \subseteq Selected /\ listed \subseteq Selected
    /\ cursor # 0 => cursor \in Selected

\* Where the reader stands: up to the cursor it has seen what was there, and nothing beyond.
ReaderPlace ==
    /\ reader = "new" => base = {} /\ listed = {} /\ cursor = 0
    /\ reader = "reading" =>
          /\ cursor # 0
          /\ \A r \in base : ~Older(r, cursor) => r \in listed
          /\ \A r \in listed : ~Older(r, cursor)

\* The invariant of a walk.
ListingInv ==
    /\ ListingTypeOK /\ ReaderRows /\ ReaderPlace
    /\ WalkComplete /\ NoRowTwice

\* An empty list has nothing to miss.
LEMMA ListingStart == ListingInit => ListingInv
<1> SUFFICES ASSUME ListingInit PROVE ListingInv
  OBVIOUS
<1>1. ListingTypeOK
  <2>1. at \in [Rows -> 0 .. MaxTime] /\ row \in [Rows -> {"none", "open", "there", "gone"}]
    BY ListingAssumption DEF ListingInit
  <2>2. matches \in [Rows -> BOOLEAN]
    BY Zenon DEF ListingInit
  <2>3. twice \in BOOLEAN /\ oversize \in BOOLEAN
    BY Zenon DEF ListingInit
  <2> QED BY <2>1, <2>2, <2>3 DEF ListingInit, ListingTypeOK
<1>2. ReaderRows /\ ReaderPlace /\ WalkComplete
  BY DEF ListingInit, ReaderRows, ReaderPlace, WalkComplete
<1>3. NoRowTwice
  BY DEF ListingInit, NoRowTwice
<1> QED BY <1>1, <1>2, <1>3 DEF ListingInv

\* A step of a writer leaves the rows that are there, and their order, alone.
LEMMA WriterKeeps ==
    ASSUME ListingInv, ListingTypeOK',
           UNCHANGED <<feed, cursor, base, listed, twice, oversize, reader>>,
           \A r \in Selected : r \in Selected' /\ at'[r] = at[r]
    PROVE  ListingInv'
<1>1. \A q, r \in Selected : Older(q, r)' <=> Older(q, r)
  BY DEF Older
<1>2. ReaderRows'
  BY DEF ListingInv, ReaderRows
<1>3. ReaderPlace'
  <2>1. \A r \in base \cup listed : cursor # 0 => (Older(r, cursor)' <=> Older(r, cursor))
    BY <1>1 DEF ListingInv, ReaderRows
  <2> QED BY <2>1 DEF ListingInv, ReaderPlace
<1>4. WalkComplete'
  BY DEF ListingInv, WalkComplete
<1>5. NoRowTwice'
  BY DEF ListingInv, NoRowTwice
<1> QED BY <1>2, <1>3, <1>4, <1>5 DEF ListingInv

\* A page and its cursor have their types.
LEMMA ReadTypes ==
    ASSUME ListingInv, NEW limit \in 1 .. MaxPage, ReadPage(limit)
    PROVE  ListingTypeOK'
<1> DEFINE fetched == Fetched(limit)
           page == Newest(fetched, limit)
<1>1. After(cursor) \subseteq Rows /\ fetched \subseteq After(cursor) /\ page \subseteq fetched
      /\ Selected \subseteq Rows
  BY DEF After, Selected, Fetched, Newest
<1>2. UNCHANGED <<feed, row, at, matches>> /\ reader' \in {"reading", "done"}
      /\ listed' = listed \cup page /\ base' \in {Selected, base}
  BY DEF ReadPage
<1>3. cursor' \in Rows \cup {0}
  <2>1. CASE Cardinality(fetched) > limit
    <3>1. page # {}
      <4>1. limit \in Nat /\ Cardinality(fetched) \in Nat /\ limit >= 1 /\ fetched \in SUBSET Rows
        BY <1>1, RowsFinite, ListingAssumption
      <4>2. ListingTypeOK
        BY DEF ListingInv
      <4> HIDE DEF fetched
      <4>3. Cardinality(page) >= limit
        BY <4>1, <4>2, <2>1, PageIsFull
      <4> QED BY <4>1, <4>3, FS_EmptySet
    <3>2. page \in SUBSET Rows /\ ListingTypeOK
      BY <1>1 DEF ListingInv
    <3>3. cursor' = NextCursor(page, fetched)
      BY <2>1 DEF ReadPage
    <3> HIDE DEF page, fetched
    <3>4. cursor' \in page
      BY <3>1, <3>2, <3>3, CursorIsOldest
    <3> QED BY <3>2, <3>4
  <2>2. CASE ~(Cardinality(fetched) > limit)
    BY <2>2 DEF ReadPage, ListingInv, ListingTypeOK
  <2> QED BY <2>1, <2>2
<1>4. twice' \in BOOLEAN /\ oversize' \in BOOLEAN
  BY Zenon DEF ReadPage
<1> HIDE DEF page, fetched
<1> QED BY <1>1, <1>2, <1>3, <1>4 DEF ListingInv, ListingTypeOK

\* A page read keeps the reader's place.
LEMMA ReadKeeps ==
    ASSUME ListingInv, NEW limit \in 1 .. MaxPage, ReadPage(limit),
           feed = "auditLog" => limit = DefaultPage
    PROVE  ListingInv'
<1> DEFINE fetched == Fetched(limit)
           page == Newest(fetched, limit)
           n == IF feed \in {"alerts", "auditLog"} THEN Clamped(limit + 1) ELSE limit + 1
           left == After(cursor)
           more == Cardinality(fetched) > limit
<1>1. limit \in Nat /\ limit >= 1 /\ n \in Nat /\ left \in SUBSET Rows /\ left \in SUBSET Selected
      /\ fetched = Newest(left, n) /\ fetched \in SUBSET left /\ page \in SUBSET fetched
      /\ fetched \in SUBSET Rows /\ ListingTypeOK
  BY ListingAssumption DEF Clamped, Fetched, After, Selected, Newest, ListingInv
<1>2. (feed = "alerts" => limit # MaxPage) => n = limit + 1
  BY <1>1, ListingAssumption DEF Clamped
<1>3. /\ reader # "done" /\ UNCHANGED <<feed, row, at, matches>>
      /\ base' = IF reader = "new" THEN Selected ELSE base
      /\ listed' = listed \cup page
      /\ cursor' = IF more THEN NextCursor(page, fetched) ELSE cursor
      /\ reader' = IF more THEN "reading" ELSE "done"
  BY DEF ReadPage
<1>4. (twice' <=> (twice \/ page \cap listed # {}))
      /\ (oversize' <=> (oversize \/ (feed = "alerts" /\ limit = MaxPage)))
  BY DEF ReadPage
<1>5. ListingTypeOK'
  BY ReadTypes
<1>6. Selected' = Selected /\ \A q, r : Older(q, r)' <=> Older(q, r)
  BY <1>3 DEF Selected, Older
<1>7. \A r \in left : cursor = 0 \/ Older(r, cursor)
  BY DEF After
<1>8. \A r \in Selected : cursor # 0 /\ r \notin left => ~Older(r, cursor)
  BY DEF After
<1>9. cursor = 0 => left = Selected
  BY DEF After
<1>10. more => page # {}
  <2>1. SUFFICES ASSUME more PROVE page # {}
    OBVIOUS
  <2>2. Cardinality(fetched) \in Nat
    BY <1>1, RowsFinite
  <2> HIDE DEF fetched, n, left
  <2>3. Cardinality(page) >= limit
    BY <1>1, <2>1, <2>2, PageIsFull
  <2> QED BY <1>1, <2>3, FS_EmptySet
<1>11. more => cursor' \in page /\ \A q \in page : ~Older(q, cursor')
  <2> HIDE DEF fetched, n, left, page
  <2>1. page \in SUBSET Rows
    BY <1>1
  <2> QED BY <1>1, <1>3, <1>10, <2>1, CursorIsOldest
<1>12. more => \A r \in left : ~Older(r, cursor') => r \in page
  <2>1. SUFFICES ASSUME more, NEW r \in left, ~Older(r, cursor') PROVE r \in page
    OBVIOUS
  <2>2. cursor' \in Newest(Newest(left, n), limit)
    BY <1>1, <1>11, <2>1
  <2> HIDE DEF left, n, fetched
  <2>3. r \in Newest(Newest(left, n), limit)
    BY <1>1, <2>1, <2>2, PageReachesCursor
  <2> QED BY <1>1, <2>3
<1>13. ~more /\ n = limit + 1 => page = left
  <2>1. SUFFICES ASSUME ~more, n = limit + 1 PROVE page = left
    OBVIOUS
  <2> HIDE DEF left, n, fetched
  <2>2. Cardinality(fetched) \in Nat
    BY <1>1, RowsFinite
  <2>3. Cardinality(fetched) <= limit /\ Cardinality(fetched) < n
    BY <1>1, <2>1, <2>2
  <2>4. fetched = left
    BY <1>1, <2>3, ShortPageIsAll
  <2>5. page = fetched
    BY <1>1, <2>3, ShortListIsAll
  <2> QED BY <2>4, <2>5
<1>14. ReaderRows /\ ReaderPlace /\ WalkComplete /\ NoRowTwice
  BY DEF ListingInv
<1>15. cursor \in Rows \cup {0} /\ base \subseteq Rows /\ listed \subseteq Rows /\ Selected \subseteq Rows
       /\ reader \in {"new", "reading", "done"}
  BY <1>1 DEF ListingTypeOK, Selected
<1> HIDE DEF fetched, page, n, left
<1>16. ReaderRows'
  <2>1. base' \subseteq Selected /\ listed' \subseteq Selected
    BY <1>1, <1>3, <1>14 DEF ReaderRows
  <2>2. cursor' # 0 => cursor' \in Selected
    <3>1. CASE more BY <3>1, <1>1, <1>11
    <3>2. CASE ~more BY <3>2, <1>3, <1>14 DEF ReaderRows
    <3> QED BY <3>1, <3>2
  <2> QED BY <2>1, <2>2, <1>6 DEF ReaderRows
<1>17. \A r \in base' : r \in listed \/ r \in left
  <2>1. CASE reader = "new"
    BY <2>1, <1>3, <1>9, <1>14 DEF ReaderPlace
  <2>2. CASE reader = "reading"
    BY <2>2, <1>3, <1>8, <1>14 DEF ReaderPlace, ReaderRows
  <2> QED BY <2>1, <2>2, <1>3, <1>15
<1>18. \A r \in listed : reader = "reading" /\ ~Older(r, cursor)
  BY <1>3, <1>14, <1>15 DEF ReaderPlace
<1>19. ReaderPlace'
  <2>1. CASE more
    <3>1. reader' = "reading" /\ cursor' \in page /\ cursor' \in Rows /\ cursor' # 0
      BY <2>1, <1>1, <1>3, <1>11, ListingAssumption
    <3>2. ASSUME NEW r \in base', ~Older(r, cursor') PROVE r \in listed'
      BY <2>1, <3>2, <1>3, <1>12, <1>17
    <3>3. ASSUME NEW r \in listed' PROVE ~Older(r, cursor')
      <4>1. CASE r \in page BY <4>1, <2>1, <1>11
      <4>2. CASE r \in listed
        <5>1. ~Older(r, cursor) /\ reader = "reading" /\ cursor # 0 /\ cursor \in Rows /\ r \in Rows
          BY <4>2, <1>14, <1>15, <1>18 DEF ReaderPlace
        <5>2. Older(cursor', cursor)
          BY <5>1, <3>1, <1>1, <1>7
        <5> QED BY <5>1, <5>2, <3>1, <1>1, OlderIsOrder
      <4> QED BY <4>1, <4>2, <1>3
    <3>4. (\A r \in base' : ~Older(r, cursor)' => r \in listed') /\ \A r \in listed' : ~Older(r, cursor)'
      <4>1. \A r : Older(r, cursor)' <=> Older(r, cursor')
        BY <1>3 DEF Older
      <4> QED BY <3>2, <3>3, <4>1
    <3> QED BY <3>1, <3>4 DEF ReaderPlace
  <2>2. CASE ~more
    BY <2>2, <1>3 DEF ReaderPlace
  <2> QED BY <2>1, <2>2
<1>20. WalkComplete'
  <2>1. SUFFICES ASSUME reader' = "done", ~oversize' PROVE base' \subseteq listed'
    BY DEF WalkComplete
  <2>2. ~more /\ n = limit + 1
    BY <2>1, <1>2, <1>3, <1>4
  <2>3. page = left
    BY <2>2, <1>13
  <2> QED BY <2>3, <1>3, <1>17
<1>21. NoRowTwice'
  <2>1. page \cap listed = {}
    <3>1. SUFFICES ASSUME NEW r \in page, r \in listed PROVE FALSE
      OBVIOUS
    <3>2. ~Older(r, cursor) /\ reader = "reading" /\ cursor # 0
      BY <3>1, <1>14, <1>18 DEF ReaderPlace
    <3> QED BY <3>2, <1>1, <1>7
  <2> QED BY <2>1, <1>4, <1>14 DEF NoRowTwice
<1> QED BY <1>5, <1>16, <1>19, <1>20, <1>21 DEF ListingInv

\* One case for each action of the list.
LEMMA ListingStep == ListingInv /\ [ListingNext]_listVars => ListingInv'
<1> SUFFICES ASSUME ListingInv, [ListingNext]_listVars PROVE ListingInv'
  OBVIOUS
<1>1. ListingTypeOK
  BY DEF ListingInv
<1>2. ASSUME NEW r \in Rows, NEW t \in 0 .. MaxTime, NEW m \in BOOLEAN, Write(r, t, m)
      PROVE ListingInv'
  <2>1. matches' \in [Rows -> BOOLEAN]
    BY <1>1, <1>2, Zenon DEF Write, ListingTypeOK
  <2>2. row' \in [Rows -> {"none", "open", "there", "gone"}] /\ at' \in [Rows -> 0 .. MaxTime]
    BY <1>1, <1>2 DEF Write, ListingTypeOK
  <2>3. UNCHANGED <<feed, cursor, base, listed, twice, oversize, reader>>
    BY <1>2 DEF Write
  <2>4. ListingTypeOK'
    BY <1>1, <2>1, <2>2, <2>3 DEF ListingTypeOK
  <2>5. ASSUME NEW q \in Selected PROVE q \in Selected' /\ at'[q] = at[q]
    <3>1. q # r /\ q \in Rows /\ row[q] = "there" /\ matches[q]
      BY <1>2 DEF Write, Selected
    <3>2. row'[q] = row[q] /\ at'[q] = at[q]
      BY <1>1, <1>2, <3>1 DEF Write, ListingTypeOK
    <3>3. matches'[q] = matches[q]
      BY <1>1, <1>2, <3>1, Zenon DEF Write, ListingTypeOK
    <3> QED BY <3>1, <3>2, <3>3 DEF Selected
  <2> QED BY <2>3, <2>4, <2>5, WriterKeeps
<1>3. ASSUME NEW r \in Rows, Commit(r) \/ Rollback(r) PROVE ListingInv'
  <2>1. UNCHANGED <<feed, at, matches, cursor, base, listed, twice, oversize, reader>> /\ row[r] = "open"
    BY <1>3 DEF Commit, Rollback
  <2>2. row' \in [Rows -> {"none", "open", "there", "gone"}] /\ \A q \in Rows : q # r => row'[q] = row[q]
    BY <1>1, <1>3 DEF Commit, Rollback, ListingTypeOK
  <2>3. ListingTypeOK'
    BY <1>1, <2>1, <2>2 DEF ListingTypeOK
  <2>4. \A q \in Selected : q \in Selected' /\ at'[q] = at[q]
    BY <2>1, <2>2 DEF Selected
  <2> QED BY <2>1, <2>3, <2>4, WriterKeeps
<1>4. ASSUME NEW limit \in 1 .. MaxPage,
             v1ListDatabases(limit) \/ v1ListDrills(limit) \/ v1ListAlerts(limit)
      PROVE  ListingInv'
  BY <1>4, ReadKeeps DEF v1ListDatabases, v1ListDrills, v1ListAlerts
<1>5. ASSUME auditLog PROVE ListingInv'
  <2>1. DefaultPage \in 1 .. MaxPage
    BY ListingAssumption
  <2> QED BY <1>5, <2>1, ReadKeeps DEF auditLog
<1>6. ASSUME UNCHANGED listVars PROVE ListingInv'
  <2>1. UNCHANGED <<feed, row, at, matches, cursor, base, listed, twice, oversize, reader>>
    BY <1>6 DEF listVars
  <2>2. ListingTypeOK'
    BY <1>1, <2>1 DEF ListingTypeOK
  <2>3. \A q \in Selected : q \in Selected' /\ at'[q] = at[q]
    BY <2>1 DEF Selected
  <2> QED BY <2>1, <2>2, <2>3, WriterKeeps
<1> QED BY <1>2, <1>3, <1>4, <1>5, <1>6 DEF ListingNext

\* Whatever the limits a reader chooses and whatever is written and committed around it, it
\* sees every row that was there when it began, and none twice (ListTargetsPage,
\* ListDrillsPage, ListForAccount, ListAlertsForAccount).
THEOREM WalksAreComplete == ListingSpec => []ListingSafe
<1>1. ListingInv => ListingSafe
  BY DEF ListingInv, ListingSafe
<1> QED BY <1>1, ListingStart, ListingStep, PTL DEF ListingSpec

-----------------------------------------------------------------------------
(* The databases.  Who has counted room for a database and not inserted it   *)
(* yet stands alone between the two, and what is kept of an answer belongs   *)
(* to the request with its key.                                              *)

FormRecords ==
    [at : {"idle", "count", "insert", "end", "lookup", "attach", "answer", "stat", "write",
           "rename", "find", "drill"},
     kind : {"web", "api", "sample"}, key : Keys \cup {"none"}, body : Nat,
     db : Slots \cup {"none"}, left : Nat]

\* The types of the variables.
CatalogTypes ==
    /\ target \in [Slots -> {"none", "real", "sample"}] /\ checks \in [Slots -> Nat]
    /\ stripped \in [Slots -> Nat] /\ dump \in {"none", "half", "whole"}
    /\ stored \in [Keys -> [status : {0, 201, 403}, body : Nat, db : Slots \cup {"none"}]]
    /\ form \in [Clients -> FormRecords]
    /\ made \in [Keys -> Nat] /\ excused \in [Keys -> Nat] /\ unanswered \subseteq Keys
    /\ uncounted \in Nat /\ bare \in BOOLEAN /\ forms \in 0 .. MaxForms

\* Where a request of each kind can be, and what it carries there.
FormKnown(f) ==
    /\ f.kind = "web" => f.at \in {"idle", "count", "insert", "end"}
    /\ f.kind = "api" =>
          /\ f.key \in Keys /\ f.at \in {"lookup", "count", "insert", "attach", "answer"}
          /\ f.at \in {"lookup", "count", "insert"} => f.left = f.body
          /\ f.at = "answer" => f.left \in {201, 403, 500}
    /\ f.kind = "sample" =>
          f.at \in {"stat", "write", "rename", "find", "insert", "attach", "drill"}

FormsKnown == \A c \in Clients : FormKnown(form[c])

\* Requests that have counted and have not inserted.
Inserting == {c \in Clients : form[c].at = "insert" /\ form[c].kind # "sample"}

\* The databases there are and the ones under way.
Room == Cardinality(Real) + Cardinality(Inserting) <= DbLimit + Cardinality(Clients) - 1 + uncounted

\* Requests of a key that found no answer and have not inserted.
Pending(k) == {c \in Clients : form[c].kind = "api" /\ form[c].key = k /\ form[c].at \in {"count", "insert"}}

\* A key leaves a trace once its first request has looked for an answer.
Begun(k) ==
    \/ stored[k].status # 0 \/ k \in unanswered
    \/ \E c \in Clients : form[c].kind = "api" /\ form[c].key = k /\ form[c].at # "lookup"

\* Databases of a key, made and under way.
KeyRoom ==
    \A k \in Keys : made[k] + Cardinality(Pending(k)) <= excused[k] + (IF Begun(k) THEN 1 ELSE 0)

\* The database a request works on has what it has been given so far: t, x and y are the
\* targets, the assertions on them and those deleted.
Stands(d, n, t, x, y) == d \in Slots /\ t[d] = "real" /\ x[d] + y[d] >= n
AttachTrue(f, t, x, y) ==
    /\ f.kind = "api" /\ f.at = "attach" =>
          f.db \in Slots /\ t[f.db] = "real" /\ x[f.db] + y[f.db] + f.left >= f.body
    /\ f.kind = "api" /\ f.at = "answer" /\ f.left = 201 => Stands(f.db, f.body, t, x, y)
    /\ f.kind = "sample" /\ f.at = "attach" => f.db \in Slots

AnswersTrue ==
    /\ \A c \in Clients : AttachTrue(form[c], target, checks, stripped)
    /\ \A k \in Keys : stored[k].status = 201 =>
          Stands(stored[k].db, stored[k].body, target, checks, stripped)

\* The dump is there once a request has passed it, and the sample has its assertion, or
\* somebody is about to add it.
DumpThere ==
    \A c \in Clients :
        form[c].kind = "sample" /\ form[c].at \in {"find", "insert", "attach", "drill"} => dump = "whole"
SampleChecked ==
    \A d \in Slots : target[d] = "sample" =>
        \/ checks[d] + stripped[d] > 0 \/ bare
        \/ \E o \in Clients : Runs(o, "sample", "attach") /\ form[o].db = d

CatalogInv ==
    /\ CatalogTypes /\ FormsKnown /\ Room /\ KeyRoom /\ AnswersTrue /\ DumpThere /\ SampleChecked

\* A client without a request.
LEMMA FreeForm == Free \in FormRecords /\ FormKnown(Free) /\ Free.kind = "web" /\ Free.at = "idle"
  BY DEF Free, FormRecords, FormKnown

\* The sets that Room counts are finite.
LEMMA InsertingFinite ==
    /\ IsFiniteSet(Inserting) /\ Cardinality(Inserting) \in Nat
    /\ IsFiniteSet(Real) /\ Cardinality(Real) \in Nat
    /\ IsFiniteSet(Live) /\ Cardinality(Live) \in Nat
    /\ Cardinality(Clients) \in Nat /\ Cardinality(Clients) # 0
    /\ \A k : IsFiniteSet(Pending(k)) /\ Cardinality(Pending(k)) \in Nat
<1>1. /\ Inserting \in SUBSET Clients /\ Real \in SUBSET Slots /\ Live \in SUBSET Slots
      /\ \A k : Pending(k) \in SUBSET Clients
  BY DEF Inserting, Real, Live, Pending
<1>2. /\ IsFiniteSet(Inserting) /\ IsFiniteSet(Real) /\ IsFiniteSet(Live)
      /\ \A k : IsFiniteSet(Pending(k))
  BY <1>1, FS_Subset, CatalogAssumption
<1> QED BY <1>2, FS_CardinalityType, FS_EmptySet, CatalogAssumption

\* What the invariant says of databases and answers is CatalogSafe.
LEMMA CatalogImplies == CatalogInv => CatalogSafe
<1> SUFFICES ASSUME CatalogInv PROVE CatalogSafe
  OBVIOUS
<1>1. CatalogTypeOK
  BY DEF CatalogInv, CatalogTypes, CatalogTypeOK, FormRecords
<1>2. DatabaseOvershoot
  BY InsertingFinite, CatalogAssumption DEF CatalogInv, Room, DatabaseOvershoot, CatalogTypes
<1>3. KeyedDatabase
  <2>1. ASSUME NEW k \in Keys PROVE made[k] <= 1 + excused[k]
    <3>1. made[k] \in Nat /\ excused[k] \in Nat
      BY DEF CatalogInv, CatalogTypes
    <3>2. made[k] + Cardinality(Pending(k)) <= excused[k] + (IF Begun(k) THEN 1 ELSE 0)
      BY DEF CatalogInv, KeyRoom
    <3> QED BY <3>1, <3>2, InsertingFinite
  <2> QED BY <2>1 DEF KeyedDatabase
<1>4. ReplayedIsTrue
  BY DEF CatalogInv, AnswersTrue, ReplayedIsTrue, Stands
<1>5. SampleReady
  BY DEF CatalogInv, DumpThere, SampleChecked, SampleReady, Runs
<1> QED BY <1>1, <1>2, <1>3, <1>4, <1>5 DEF CatalogSafe

\* No request and no database.
LEMMA CatalogStart == CatalogInit => CatalogInv
<1> SUFFICES ASSUME CatalogInit PROVE CatalogInv
  OBVIOUS
<1>1. CatalogTypes
  <2>1. bare \in BOOLEAN
    BY Zenon DEF CatalogInit
  <2>2. form \in [Clients -> FormRecords]
    BY FreeForm DEF CatalogInit
  <2>3. stored \in [Keys -> [status : {0, 201, 403}, body : Nat, db : Slots \cup {"none"}]]
    BY DEF CatalogInit, NoAnswer
  <2> QED BY <2>1, <2>2, <2>3, CatalogAssumption DEF CatalogInit, CatalogTypes
<1>2. \A c \in Clients : form[c] = Free
  BY DEF CatalogInit
<1>3. FormsKnown
  BY <1>2, FreeForm DEF FormsKnown
<1>4. Room
  <2>1. Real = {} /\ Inserting = {} /\ uncounted = 0
    BY <1>2, FreeForm DEF CatalogInit, Real, Inserting
  <2>2. Cardinality(Real) = 0 /\ Cardinality(Inserting) = 0
    BY <2>1, FS_EmptySet
  <2>3. Cardinality(Clients) \in Nat /\ Cardinality(Clients) # 0 /\ DbLimit \in Nat
    BY InsertingFinite, CatalogAssumption
  <2> QED BY <2>1, <2>2, <2>3 DEF Room
<1>5. KeyRoom
  <2>1. ASSUME NEW k \in Keys PROVE made[k] + Cardinality(Pending(k)) <= excused[k] + (IF Begun(k) THEN 1 ELSE 0)
    <3>1. Pending(k) = {} /\ made[k] = 0 /\ excused[k] = 0
      BY <1>2, FreeForm DEF CatalogInit, Pending
    <3> QED BY <3>1, FS_EmptySet
  <2> QED BY <2>1 DEF KeyRoom
<1>6. AnswersTrue /\ DumpThere /\ SampleChecked
  BY <1>2, FreeForm DEF CatalogInit, AnswersTrue, AttachTrue, DumpThere, SampleChecked, NoAnswer
<1> QED BY <1>1, <1>3, <1>4, <1>5, <1>6 DEF CatalogInv

-----------------------------------------------------------------------------
\* What a step does to the record of its request, f, and to the other requests.
Moved(c, f) ==
    /\ form' \in [Clients -> FormRecords] /\ form'[c] = f
    /\ \A o \in Clients : o # c => form'[o] = form[o]

\* A record written for a client is the client's only change.
LEMMA MoveWhole ==
    ASSUME CatalogTypes, NEW c \in Clients, NEW f \in FormRecords, form' = [form EXCEPT ![c] = f]
    PROVE  Moved(c, f)
  BY DEF Moved, CatalogTypes

\* The records the helpers write: at, db and left are what a request changes.
LEMMA MoveFields ==
    ASSUME CatalogTypes, NEW c \in Clients, NEW a \in {"count", "insert", "end", "attach", "answer", "write",
                                                       "rename", "find", "drill"}
    PROVE  LET f == form[c]
           IN  /\ Go(c, a) => Moved(c, [f EXCEPT !.at = a])
               /\ form' = [form EXCEPT ![c].left = @ - 1] /\ f.left # 0 => Moved(c, [f EXCEPT !.left = f.left - 1])
               /\ \A d \in Slots : form' = [form EXCEPT ![c].at = a, ![c].db = d]
                                      => Moved(c, [f EXCEPT !.at = a, !.db = d])
<1> DEFINE f == form[c]
<1>1. f \in FormRecords
  BY DEF CatalogTypes
<1>2. [f EXCEPT !.at = a] \in FormRecords /\ (Go(c, a) => form' = [form EXCEPT ![c] = [f EXCEPT !.at = a]])
  BY <1>1 DEF FormRecords, Go, CatalogTypes
<1>3. f.left # 0 => [f EXCEPT !.left = f.left - 1] \in FormRecords
  BY <1>1 DEF FormRecords
<1>5. ASSUME NEW d \in Slots
      PROVE  /\ [f EXCEPT !.at = a, !.db = d] \in FormRecords
             /\ form' = [form EXCEPT ![c].at = a, ![c].db = d]
                  => form' = [form EXCEPT ![c] = [f EXCEPT !.at = a, !.db = d]]
  BY ZenonT(20), <1>1, <1>5 DEF FormRecords, CatalogTypes
<1>6. form' = [form EXCEPT ![c].left = @ - 1] => form' = [form EXCEPT ![c] = [f EXCEPT !.left = f.left - 1]]
  BY <1>1 DEF FormRecords, CatalogTypes
<1> QED BY <1>2, <1>3, <1>5, <1>6, MoveWhole

\* An answer leaves the rest of the request as it is.
LEMMA MoveAnswer ==
    ASSUME CatalogTypes, NEW c \in Clients, NEW n \in Nat, Answers(c, n)
    PROVE  Moved(c, [form[c] EXCEPT !.at = "answer", !.left = n])
<1> DEFINE f == form[c]
<1>1. f \in FormRecords
  BY DEF CatalogTypes
<1>2. /\ [f EXCEPT !.at = "answer", !.left = n] \in FormRecords
      /\ form' = [form EXCEPT ![c] = [f EXCEPT !.at = "answer", !.left = n]]
  BY ZenonT(20), <1>1 DEF FormRecords, Answers, CatalogTypes
<1> QED BY <1>2, MoveWhole

\* A new database takes a row that no other has.
LEMMA SlotIsFree ==
    ASSUME FreeSlot
    PROVE  NewSlot \in Slots /\ target[NewSlot] = "none"
  BY DEF FreeSlot, NewSlot

-----------------------------------------------------------------------------
\* Steps that make no database and start none.
LEMMA RoomKept ==
    ASSUME CatalogTypes, Room, Real' = Real, uncounted' = uncounted, Inserting' \in SUBSET Inserting
    PROVE  Room'
<1>1. Cardinality(Inserting') \in Nat /\ Cardinality(Inserting') <= Cardinality(Inserting)
  BY InsertingFinite, FS_Subset, FS_CardinalityType
<1>2. Cardinality(Real) \in Nat /\ Cardinality(Inserting) \in Nat /\ Cardinality(Clients) \in Nat
      /\ uncounted \in Nat /\ DbLimit \in Nat
  BY InsertingFinite, CatalogAssumption DEF CatalogTypes
<1>3. Cardinality(Real)' = Cardinality(Real) /\ Cardinality(Inserting)' = Cardinality(Inserting')
  OBVIOUS
<1> QED BY <1>1, <1>2, <1>3 DEF Room

\* A request that counts is not among those that insert, so they are fewer than the clients.
LEMMA RoomCounted ==
    ASSUME CatalogTypes, Room, Real' = Real, NEW c \in Clients, c \notin Inserting,
           Inserting' = Inserting \cup {c},
           \/ uncounted' = uncounted /\ Cardinality(Real) < DbLimit
           \/ uncounted' = uncounted + 1
    PROVE  Room'
<1>1. Inserting \in SUBSET (Clients \ {c}) /\ IsFiniteSet(Clients)
  BY CatalogAssumption DEF Inserting
<1>2. IsFiniteSet(Clients \ {c}) /\ Cardinality(Clients \ {c}) = Cardinality(Clients) - 1
  BY <1>1, FS_RemoveElement
<1>3. Cardinality(Inserting) <= Cardinality(Clients) - 1
  BY <1>1, <1>2, FS_Subset
<1>4. Cardinality(Inserting)' = Cardinality(Inserting) + 1
  BY InsertingFinite, FS_AddElement
<1>5. Cardinality(Real)' = Cardinality(Real)
  OBVIOUS
<1>6. Cardinality(Real) \in Nat /\ Cardinality(Inserting) \in Nat /\ Cardinality(Clients) \in Nat
      /\ uncounted \in Nat /\ DbLimit \in Nat
  BY InsertingFinite, CatalogAssumption DEF CatalogTypes
<1> QED BY <1>3, <1>4, <1>5, <1>6 DEF Room

\* An insert turns a request that held room into a database that does.
LEMMA RoomInserted ==
    ASSUME CatalogTypes, Room, NEW d, Real' = Real \cup {d}, NEW c \in Inserting,
           Inserting' = Inserting \ {c}, uncounted' = uncounted
    PROVE  Room'
<1>1. Cardinality(Inserting)' = Cardinality(Inserting) - 1
  BY InsertingFinite, FS_RemoveElement
<1>2. Cardinality(Real)' = IF d \in Real THEN Cardinality(Real) ELSE Cardinality(Real) + 1
  BY InsertingFinite, FS_AddElement
<1>3. Cardinality(Real) \in Nat /\ Cardinality(Inserting) \in Nat /\ Cardinality(Clients) \in Nat
      /\ uncounted \in Nat /\ DbLimit \in Nat
  BY InsertingFinite, CatalogAssumption DEF CatalogTypes
<1> QED BY <1>1, <1>2, <1>3 DEF Room

\* Steps that make no database under a key and start none.
LEMMA KeysKept ==
    ASSUME CatalogTypes, KeyRoom, made' = made, excused' = excused,
           \A k \in Keys : Pending(k)' \in SUBSET Pending(k) /\ (Begun(k) => Begun(k)')
    PROVE  KeyRoom'
<1>1. SUFFICES ASSUME NEW k \in Keys
      PROVE  made'[k] + Cardinality(Pending(k)') <= excused'[k] + (IF Begun(k)' THEN 1 ELSE 0)
  BY DEF KeyRoom
<1>2. Cardinality(Pending(k)') \in Nat /\ Cardinality(Pending(k)') <= Cardinality(Pending(k))
  BY InsertingFinite, FS_Subset, FS_CardinalityType
<1>3. made[k] \in Nat /\ excused[k] \in Nat /\ Cardinality(Pending(k)) \in Nat
  BY InsertingFinite DEF CatalogTypes
<1>4. made[k] + Cardinality(Pending(k)) <= excused[k] + (IF Begun(k) THEN 1 ELSE 0)
  BY DEF KeyRoom
<1>5. CASE Begun(k)
  <2>1. Begun(k)' BY <1>5
  <2> QED BY <1>2, <1>3, <1>4, <1>5, <2>1
<1>6. CASE ~Begun(k)
  <2>1. made[k] + Cardinality(Pending(k)) <= excused[k]
    BY <1>3, <1>4, <1>6
  <2>2. made'[k] + Cardinality(Pending(k)') <= excused'[k]
    BY <1>2, <1>3, <2>1
  <2> QED BY <1>2, <1>3, <2>2
<1> QED BY <1>5, <1>6

\* What a database has been given is never taken from it, and it stays the database it is.
Grows ==
    \A d \in Slots :
        /\ target[d] # "none" => target'[d] = target[d]
        /\ checks'[d] + stripped'[d] >= checks[d] + stripped[d]

\* What is true of a database stays true while the rows only grow.
LEMMA StandsKept ==
    ASSUME CatalogTypes, CatalogTypes', Grows, NEW d, NEW n \in Nat, Stands(d, n, target, checks, stripped)
    PROVE  Stands(d, n, target', checks', stripped')
  BY DEF CatalogTypes, Grows, Stands

\* The same of what a request has yet to attach or to answer.
LEMMA AttachKept ==
    ASSUME CatalogTypes, CatalogTypes', Grows, NEW f \in FormRecords, AttachTrue(f, target, checks, stripped)
    PROVE  AttachTrue(f, target', checks', stripped')
<1>1. f.left \in Nat /\ f.body \in Nat
  BY DEF FormRecords
<1>2. f.kind = "api" /\ f.at = "answer" /\ f.left = 201 => Stands(f.db, f.body, target', checks', stripped')
  BY <1>1, StandsKept DEF AttachTrue
<1>3. f.kind = "api" /\ f.at = "attach" =>
          f.db \in Slots /\ target'[f.db] = "real" /\ checks'[f.db] + stripped'[f.db] + f.left >= f.body
  BY <1>1 DEF AttachTrue, CatalogTypes, Grows
<1> QED BY <1>2, <1>3 DEF AttachTrue

\* The answers stay true when every request's record is as it was or true anew.
LEMMA AnswersStayTrue ==
    ASSUME CatalogTypes, CatalogTypes', Grows, AnswersTrue,
           \A o \in Clients : form'[o] = form[o] \/ AttachTrue(form'[o], target', checks', stripped'),
           \A k \in Keys :
              \/ stored'[k] = stored[k]
              \/ stored'[k].status = 201 => Stands(stored'[k].db, stored'[k].body, target', checks', stripped')
    PROVE  AnswersTrue'
<1>1. ASSUME NEW o \in Clients PROVE AttachTrue(form'[o], target', checks', stripped')
  <2>1. form[o] \in FormRecords /\ AttachTrue(form[o], target, checks, stripped)
    BY DEF CatalogTypes, AnswersTrue
  <2> QED BY <2>1, AttachKept
<1>2. ASSUME NEW k \in Keys, stored'[k].status = 201
      PROVE  Stands(stored'[k].db, stored'[k].body, target', checks', stripped')
  <2>1. stored[k].body \in Nat
    BY DEF CatalogTypes
  <2> QED BY <1>2, <2>1, StandsKept DEF AnswersTrue
<1> QED BY <1>1, <1>2 DEF AnswersTrue

\* The sample keeps its assertion, or the one about to add it.
LEMMA SampleStays ==
    ASSUME CatalogTypes, CatalogTypes', Grows, SampleChecked, bare => bare',
           \A d \in Slots : target'[d] = "sample" /\ target[d] # "sample" =>
              \E o \in Clients : form'[o].kind = "sample" /\ form'[o].at = "attach" /\ form'[o].db = d,
           \A o \in Clients : form[o].kind = "sample" /\ form[o].at = "attach" =>
              \/ form'[o] = form[o]
              \/ bare'
              \/ form[o].db \in Slots /\ checks'[form[o].db] + stripped'[form[o].db] > 0
    PROVE  SampleChecked'
<1>1. SUFFICES ASSUME NEW d \in Slots, target'[d] = "sample"
      PROVE  \/ checks'[d] + stripped'[d] > 0 \/ bare'
             \/ \E o \in Clients : form'[o].kind = "sample" /\ form'[o].at = "attach" /\ form'[o].db = d
  BY DEF SampleChecked, Runs
<1>2. CASE target[d] # "sample"
  BY <1>1, <1>2
<1>3. CASE target[d] = "sample"
  <2>1. checks[d] \in Nat /\ stripped[d] \in Nat /\ checks'[d] \in Nat /\ stripped'[d] \in Nat
        /\ checks'[d] + stripped'[d] >= checks[d] + stripped[d]
    BY DEF CatalogTypes, Grows
  <2>2. CASE checks[d] + stripped[d] > 0
    BY <2>1, <2>2
  <2>3. CASE bare
    BY <2>3
  <2>4. CASE \E o \in Clients : Runs(o, "sample", "attach") /\ form[o].db = d
    BY <2>4 DEF Runs
  <2> QED BY <1>3, <2>2, <2>3, <2>4 DEF SampleChecked
<1> QED BY <1>2, <1>3

-----------------------------------------------------------------------------
\* A request that passes on without counting, looking up or inserting.
LEMMA QuietStep ==
    ASSUME CatalogInv, CatalogTypes', NEW c \in Clients, NEW f \in FormRecords, Moved(c, f),
           UNCHANGED <<target, made, excused, uncounted>>, Grows, FormKnown(f),
           unanswered \subseteq unanswered', bare => bare', dump = "whole" => dump' = "whole",
           f.at = "insert" /\ f.kind # "sample" => form[c].at = "insert" /\ form[c].kind # "sample",
           f.kind = "api" /\ f.at \in {"count", "insert"} =>
              form[c].kind = "api" /\ form[c].key = f.key /\ form[c].at \in {"count", "insert"},
           form[c].kind = "api" /\ form[c].at # "lookup" =>
              \/ f.kind = "api" /\ f.key = form[c].key /\ f.at # "lookup"
              \/ form[c].key \in unanswered' \/ stored'[form[c].key].status # 0,
           f = form[c] \/ AttachTrue(f, target', checks', stripped'),
           \A k \in Keys :
              \/ stored'[k] = stored[k]
              \/ /\ stored'[k].status # 0
                 /\ stored'[k].status = 201 => Stands(stored'[k].db, stored'[k].body, target', checks', stripped'),
           f.kind = "sample" /\ f.at \in {"find", "insert", "attach", "drill"} => dump' = "whole",
           form[c].kind = "sample" /\ form[c].at = "attach" =>
              \/ f = form[c] \/ bare'
              \/ form[c].db \in Slots /\ checks'[form[c].db] + stripped'[form[c].db] > 0
    PROVE  CatalogInv'
<1>1. CatalogTypes /\ FormsKnown /\ Room /\ KeyRoom /\ AnswersTrue /\ DumpThere /\ SampleChecked
  BY DEF CatalogInv
<1>2. form'[c] = f /\ \A o \in Clients : o # c => form'[o] = form[o]
  BY DEF Moved
<1>3. FormsKnown'
  BY <1>1, <1>2 DEF FormsKnown
<1>4. Room'
  <2>1. Real' = Real /\ Inserting' \in SUBSET Inserting
    BY <1>2 DEF Real, Inserting
  <2> QED BY <1>1, <2>1, RoomKept
<1>5. KeyRoom'
  <2>1. ASSUME NEW k \in Keys PROVE Pending(k)' \in SUBSET Pending(k)
    BY <1>2 DEF Pending
  <2>2. ASSUME NEW k \in Keys, Begun(k) PROVE Begun(k)'
    <3>1. CASE stored[k].status # 0 \/ k \in unanswered
      BY <3>1 DEF Begun
    <3>2. CASE \E o \in Clients : form[o].kind = "api" /\ form[o].key = k /\ form[o].at # "lookup"
      BY <3>2, <1>2 DEF Begun
    <3> QED BY <2>2, <3>1, <3>2 DEF Begun
  <2> QED BY <1>1, <2>1, <2>2, KeysKept
<1>6. AnswersTrue'
  BY <1>1, <1>2, AnswersStayTrue
<1>7. DumpThere'
  BY <1>1, <1>2 DEF DumpThere
<1>8. SampleChecked'
  <2>1. \A o \in Clients : form[o].kind = "sample" /\ form[o].at = "attach" =>
              \/ form'[o] = form[o]
              \/ bare'
              \/ form[o].db \in Slots /\ checks'[form[o].db] + stripped'[form[o].db] > 0
    BY <1>2
  <2> QED BY <1>1, <2>1, SampleStays
<1> QED BY <1>3, <1>4, <1>5, <1>6, <1>7, <1>8 DEF CatalogInv

\* A step that leaves rows, answers, keys and counts alone moves one request only.
LEMMA PassesOn ==
    ASSUME CatalogInv, NEW c \in Clients, NEW f \in FormRecords, Moved(c, f), FormKnown(f),
           UNCHANGED <<target, checks, stripped, stored, made, excused, uncounted>>,
           forms' \in 0 .. MaxForms, dump' \in {"none", "half", "whole"}, dump = "whole" => dump' = "whole",
           unanswered' \subseteq Keys, unanswered \subseteq unanswered',
           bare' \in BOOLEAN, bare => bare',
           f.at = "insert" => f.kind = "sample", f.at = "count" => f.kind # "api",
           form[c].kind = "api" /\ form[c].at # "lookup" =>
              \/ f.kind = "api" /\ f.key = form[c].key /\ f.at # "lookup"
              \/ form[c].key \in unanswered',
           AttachTrue(f, target, checks, stripped),
           f.kind = "sample" /\ f.at \in {"find", "insert", "attach", "drill"} => dump' = "whole",
           form[c].kind = "sample" /\ form[c].at = "attach" => bare'
    PROVE  CatalogInv'
<1>1. CatalogTypes'
  BY DEF CatalogInv, CatalogTypes, Moved
<1>2. Grows
  BY DEF Grows, CatalogInv, CatalogTypes
<1>3. AttachTrue(f, target', checks', stripped')
  OBVIOUS
<1> QED BY <1>1, <1>2, <1>3, QuietStep

\* A request is over.
LEMMA LeaveStep ==
    ASSUME CatalogInv, NEW c \in Clients, Leave(c),
           UNCHANGED <<target, checks, stripped, stored, dump, made, excused, uncounted, forms>>,
           unanswered' \subseteq Keys, unanswered \subseteq unanswered', bare' \in BOOLEAN, bare => bare',
           form[c].kind = "api" /\ form[c].at # "lookup" => form[c].key \in unanswered',
           form[c].kind = "sample" /\ form[c].at = "attach" => bare'
    PROVE  CatalogInv'
<1>1. Moved(c, Free)
  BY FreeForm, MoveWhole DEF Leave, CatalogInv
<1>2. AttachTrue(Free, target, checks, stripped)
  BY FreeForm DEF AttachTrue
<1>3. forms' \in 0 .. MaxForms /\ dump' \in {"none", "half", "whole"}
  BY DEF CatalogInv, CatalogTypes
<1> QED BY <1>1, <1>2, <1>3, FreeForm, PassesOn

\* A request arrives.
LEMMA SubmitStep ==
    ASSUME CatalogInv, NEW c \in Clients, NEW f \in FormRecords, Submit(c, f), FormKnown(f),
           f.at \in {"count", "lookup", "stat"}, f.at = "count" => f.kind = "web",
           UNCHANGED <<target, checks, stripped, stored, dump, made, excused, unanswered, uncounted, bare>>
    PROVE  CatalogInv'
<1>1. Moved(c, f) /\ form[c].at = "idle"
  BY MoveWhole DEF Submit, CatalogInv
<1>2. AttachTrue(f, target, checks, stripped)
  BY DEF AttachTrue
<1>3. form[c].kind = "web"
  BY <1>1 DEF CatalogInv, FormsKnown, FormKnown, CatalogTypes, FormRecords
<1>4. forms' \in 0 .. MaxForms
  BY CatalogAssumption DEF Submit, CatalogInv, CatalogTypes
<1>5. bare' \in BOOLEAN
  BY Zenon DEF CatalogInv, CatalogTypes
<1>6. unanswered' \subseteq Keys /\ dump' \in {"none", "half", "whole"}
  BY DEF CatalogInv, CatalogTypes
<1> QED BY <1>1, <1>2, <1>3, <1>4, <1>5, <1>6, PassesOn

-----------------------------------------------------------------------------
\* The count lets a request on to its insert.
LEMMA CountStep ==
    ASSUME CatalogInv, NEW c \in Clients, NEW S, Real \subseteq S, S \subseteq Slots,
           CountRead(c, S, "insert"), form[c].at = "count", form[c].kind # "sample",
           UNCHANGED <<target, checks, stripped, stored, dump, made, excused, unanswered, bare, forms>>
    PROVE  CatalogInv'
<1> DEFINE f == [form[c] EXCEPT !.at = "insert"]
<1>1. CatalogTypes /\ FormsKnown /\ Room /\ KeyRoom /\ AnswersTrue /\ DumpThere /\ SampleChecked
  BY DEF CatalogInv
<1>2. Moved(c, f)
  BY <1>1, MoveFields DEF CountRead
<1>3. form[c] \in FormRecords /\ f.at = "insert" /\ f.kind = form[c].kind /\ f.key = form[c].key
      /\ f.body = form[c].body /\ f.left = form[c].left /\ f.db = form[c].db
  BY <1>1 DEF CatalogTypes, FormRecords
<1> HIDE DEF f
<1>4. form'[c] = f /\ form' \in [Clients -> FormRecords] /\ \A o \in Clients : o # c => form'[o] = form[o]
  BY <1>2 DEF Moved
<1>5. \/ uncounted' = uncounted /\ Cardinality(S) < DbLimit
      \/ uncounted' = uncounted + 1
  <2>1. PICK unread \in BOOLEAN :
          /\ ~AtLimit(IF unread THEN 0 ELSE Cardinality(S))
          /\ uncounted' = uncounted + (IF unread THEN 1 ELSE 0)
    BY DEF CountRead
  <2>2. uncounted \in Nat /\ DbLimit \in Nat /\ Cardinality(S) \in Nat
    BY <1>1, CatalogAssumption, FS_Subset, FS_CardinalityType DEF CatalogTypes
  <2> QED BY <2>1, <2>2 DEF AtLimit
<1>6. \/ uncounted' = uncounted /\ Cardinality(Real) < DbLimit
      \/ uncounted' = uncounted + 1
  <2>1. Cardinality(Real) <= Cardinality(S) /\ Cardinality(S) \in Nat /\ Cardinality(Real) \in Nat
    BY CatalogAssumption, FS_Subset, FS_CardinalityType, InsertingFinite
  <2> QED BY <1>5, <2>1, CatalogAssumption
<1>7. CatalogTypes'
  <2>1. uncounted' \in Nat
    BY <1>1, <1>5 DEF CatalogTypes
  <2> QED BY <1>1, <1>4, <2>1 DEF CatalogTypes
<1>8. FormsKnown'
  <2>1. FormKnown(f)
    BY <1>1, <1>3 DEF FormsKnown, FormKnown
  <2> QED BY <1>1, <1>4, <2>1 DEF FormsKnown
<1>9. Room'
  <2>1. c \notin Inserting /\ Inserting' = Inserting \cup {c} /\ Real' = Real
    BY <1>3, <1>4 DEF Inserting, Real
  <2> QED BY <1>1, <1>6, <2>1, RoomCounted
<1>10. KeyRoom'
  <2>1. \A k \in Keys : Pending(k)' \in SUBSET Pending(k) /\ (Begun(k) => Begun(k)')
    BY <1>3, <1>4 DEF Pending, Begun
  <2> QED BY <1>1, <2>1, KeysKept
<1>11. Grows
  BY <1>1 DEF Grows, CatalogTypes
<1>12. AnswersTrue'
  <2>1. AttachTrue(f, target', checks', stripped')
    BY <1>3 DEF AttachTrue
  <2> QED BY <1>1, <1>4, <1>7, <1>11, <2>1, AnswersStayTrue
<1>13. DumpThere' /\ SampleChecked'
  <2>1. DumpThere'
    BY <1>1, <1>3, <1>4 DEF DumpThere
  <2>2. \A o \in Clients : form[o].kind = "sample" /\ form[o].at = "attach" => form'[o] = form[o]
    BY <1>4
  <2> QED BY <1>1, <1>7, <1>11, <2>1, <2>2, SampleStays
<1> QED BY <1>7, <1>8, <1>9, <1>10, <1>12, <1>13 DEF CatalogInv

\* A row is inserted, and its request goes on with it.
LEMMA InsertStep ==
    ASSUME CatalogInv, NEW c \in Clients, NEW kind \in {"real", "sample"}, NEW next \in {"end", "attach"},
           CreateTarget(c, kind, next), form[c].at = "insert",
           kind = "sample" <=> form[c].kind = "sample", next = "end" <=> form[c].kind = "web",
           UNCHANGED <<checks, stripped, stored, dump, excused, unanswered, uncounted, bare, forms>>,
           made' = IF form[c].kind = "api" THEN [made EXCEPT ![form[c].key] = @ + 1] ELSE made
    PROVE  CatalogInv'
<1> DEFINE d == NewSlot
           f == [form[c] EXCEPT !.at = next, !.db = NewSlot]
<1>1. CatalogTypes /\ FormsKnown /\ Room /\ KeyRoom /\ AnswersTrue /\ DumpThere /\ SampleChecked
  BY DEF CatalogInv
<1>2. d \in Slots /\ target[d] = "none" /\ target' = [target EXCEPT ![d] = kind]
      /\ form' = [form EXCEPT ![c].at = next, ![c].db = NewSlot]
  BY SlotIsFree DEF CreateTarget
<1>3. Moved(c, f)
  BY <1>1, <1>2, MoveFields
<1>4. form[c] \in FormRecords /\ f.at = next /\ f.kind = form[c].kind /\ f.key = form[c].key
      /\ f.body = form[c].body /\ f.left = form[c].left /\ f.db = d
  BY <1>1, <1>2 DEF CatalogTypes, FormRecords
<1> HIDE DEF f, d
<1>5. form'[c] = f /\ form' \in [Clients -> FormRecords] /\ \A o \in Clients : o # c => form'[o] = form[o]
  BY <1>3 DEF Moved
<1>6. FormKnown(form[c])
  BY <1>1 DEF FormsKnown
<1>7. CatalogTypes'
  <2>1. made' \in [Keys -> Nat]
    BY <1>1, <1>6 DEF CatalogTypes, FormKnown
  <2>2. target' \in [Slots -> {"none", "real", "sample"}]
    BY <1>1, <1>2 DEF CatalogTypes
  <2> QED BY <1>1, <1>5, <2>1, <2>2 DEF CatalogTypes
<1>8. FormsKnown'
  <2>1. FormKnown(f)
    BY <1>4, <1>6 DEF FormKnown, FormRecords
  <2> QED BY <1>1, <1>5, <2>1 DEF FormsKnown
<1>9. Room'
  <2>1. CASE kind = "sample"
    <3>1. Real' = Real /\ Inserting' \in SUBSET Inserting
      BY <1>1, <1>2, <1>4, <1>5, <2>1 DEF Real, Inserting, CatalogTypes
    <3> QED BY <1>1, <3>1, RoomKept
  <2>2. CASE kind # "sample"
    <3>1. Real' = Real \cup {d}
      BY <1>1, <1>2, <2>2 DEF Real, CatalogTypes
    <3>2. c \in Inserting /\ Inserting' = Inserting \ {c}
      BY <1>4, <1>5, <2>2 DEF Inserting
    <3> QED BY <1>1, <3>1, <3>2, RoomInserted
  <2> QED BY <2>1, <2>2
<1>10. KeyRoom'
  <2>1. \A k \in Keys : Begun(k) => Begun(k)'
    BY <1>4, <1>5 DEF Begun
  <2>2. CASE form[c].kind # "api"
    <3>1. \A k \in Keys : Pending(k)' \in SUBSET Pending(k)
      BY <1>4, <1>5, <2>2 DEF Pending
    <3> QED BY <1>1, <2>1, <2>2, <3>1, KeysKept
  <2>3. CASE form[c].kind = "api"
    <3> SUFFICES ASSUME NEW k \in Keys
        PROVE  made'[k] + Cardinality(Pending(k)') <= excused'[k] + (IF Begun(k)' THEN 1 ELSE 0)
      BY DEF KeyRoom
    <3>1. made[k] + Cardinality(Pending(k)) <= excused[k] + (IF Begun(k) THEN 1 ELSE 0)
      BY <1>1 DEF KeyRoom
    <3>2. made[k] \in Nat /\ excused[k] \in Nat /\ Cardinality(Pending(k)) \in Nat
      BY <1>1, InsertingFinite DEF CatalogTypes
    <3>3. made'[k] + Cardinality(Pending(k)') = made[k] + Cardinality(Pending(k))
      <4>1. CASE k = form[c].key
        <5>1. c \in Pending(k) /\ Pending(k)' = Pending(k) \ {c}
          BY <1>4, <1>5, <2>3, <4>1 DEF Pending
        <5>2. Cardinality(Pending(k)') = Cardinality(Pending(k)) - 1
          BY ZenonT(20), <5>1, InsertingFinite, FS_RemoveElement
        <5>3. made'[k] = made[k] + 1
          BY <1>1, <2>3, <4>1 DEF CatalogTypes
        <5> QED BY <5>2, <5>3, <3>2
      <4>2. CASE k # form[c].key
        <5>1. Pending(k)' = Pending(k)
          BY <1>4, <1>5, <2>3, <4>2 DEF Pending
        <5>2. made'[k] = made[k]
          BY <1>1, <2>3, <4>2 DEF CatalogTypes
        <5> QED BY <5>1, <5>2
      <4> QED BY <4>1, <4>2
    <3>4. excused'[k] = excused[k] /\ (Begun(k) => Begun(k)')
      BY <2>1
    <3>5. (IF Begun(k) THEN 1 ELSE 0) <= (IF Begun(k)' THEN 1 ELSE 0)
      BY <3>4
    <3>6. CASE Begun(k)
      <4>1. Begun(k)' BY <3>4, <3>6
      <4>2. made[k] + Cardinality(Pending(k)) <= excused[k] + 1 BY <3>1, <3>6
      <4> QED BY <3>3, <3>4, <4>1, <4>2
    <3>7. CASE ~Begun(k)
      <4>1. made[k] + Cardinality(Pending(k)) <= excused[k] BY <3>1, <3>2, <3>7
      <4>2. made'[k] + Cardinality(Pending(k)') <= excused'[k] BY <3>3, <3>4, <4>1
      <4>3. excused'[k] \in Nat /\ made'[k] + Cardinality(Pending(k)') \in Nat
        BY <3>2, <3>3, <3>4
      <4> QED BY <4>2, <4>3
    <3> QED BY <3>6, <3>7
  <2> QED BY <2>2, <2>3
<1>11. Grows
  BY <1>1, <1>2 DEF Grows, CatalogTypes
<1>12. AnswersTrue'
  <2>1. AttachTrue(f, target', checks', stripped')
    <3>1. f.kind = "api" => f.left = f.body /\ kind = "real" /\ target'[d] = "real" /\ next = "attach"
      BY <1>1, <1>2, <1>4, <1>6 DEF FormKnown, CatalogTypes
    <3>2. checks'[d] \in Nat /\ stripped'[d] \in Nat /\ f.body \in Nat
      BY <1>1, <1>2, <1>4 DEF CatalogTypes, FormRecords
    <3> QED BY <3>1, <3>2, <1>2, <1>4 DEF AttachTrue
  <2> QED BY <1>1, <1>5, <1>7, <1>11, <2>1, AnswersStayTrue
<1>13. DumpThere' /\ SampleChecked'
  <2>1. DumpThere'
    BY <1>1, <1>4, <1>5 DEF DumpThere
  <2>2. \A o \in Clients : form[o].kind = "sample" /\ form[o].at = "attach" => form'[o] = form[o]
    BY <1>5
  <2>3. ASSUME NEW e \in Slots, target'[e] = "sample", target[e] # "sample"
        PROVE \E o \in Clients : form'[o].kind = "sample" /\ form'[o].at = "attach" /\ form'[o].db = e
    <3>1. e = d /\ kind = "sample"
      BY <1>1, <1>2, <2>3 DEF CatalogTypes
    <3>2. form'[c].kind = "sample" /\ form'[c].at = "attach" /\ form'[c].db = e
      BY <1>4, <1>5, <3>1
    <3> QED BY <3>2
  <2> QED BY <1>1, <1>7, <1>11, <2>1, <2>2, <2>3, SampleStays
<1> QED BY <1>7, <1>8, <1>9, <1>10, <1>12, <1>13 DEF CatalogInv

\* A request that finds no answer under its key, or cannot look, goes on, with a reason
\* when the key has a trace already.
LEMMA MissStep ==
    ASSUME CatalogInv, NEW c \in Clients, Runs(c, "api", "lookup"), Go(c, "count"),
           NEW unread \in BOOLEAN, Unanswered(c, unread), Excuse(c, unread),
           UNCHANGED <<target, checks, stripped, stored, dump, made, unanswered, uncounted, bare, forms>>
    PROVE  CatalogInv'
<1> DEFINE f == [form[c] EXCEPT !.at = "count"]
           x == form[c].key
           had == \/ unread /\ stored[x].status # 0
                  \/ x \in unanswered \/ Rivals(c) # {}
<1>1. CatalogTypes /\ FormsKnown /\ Room /\ KeyRoom /\ AnswersTrue /\ DumpThere /\ SampleChecked
  BY DEF CatalogInv
<1>2. Moved(c, f)
  BY <1>1, MoveFields
<1>3. form[c] \in FormRecords /\ f.at = "count" /\ f.kind = "api" /\ f.key = x
      /\ f.body = form[c].body /\ f.left = form[c].left /\ f.db = form[c].db
      /\ form[c].kind = "api" /\ form[c].at = "lookup"
  BY <1>1 DEF CatalogTypes, FormRecords, Runs
<1>4. x \in Keys /\ f.left = f.body
  BY <1>1, <1>3 DEF FormsKnown, FormKnown
<1>5. ~had => x \notin unanswered /\ Rivals(c) = {} /\ stored[x].status = 0
  BY DEF Replayed, Unanswered
<1>14. excused' = [excused EXCEPT ![x] = @ + (IF had THEN 1 ELSE 0)]
  BY DEF Excuse
<1> HIDE DEF f, x, had
<1>6. form'[c] = f /\ form' \in [Clients -> FormRecords] /\ \A o \in Clients : o # c => form'[o] = form[o]
  BY <1>2 DEF Moved
<1>7. CatalogTypes'
  <2>1. excused' \in [Keys -> Nat]
    BY <1>1, <1>4, <1>14 DEF CatalogTypes
  <2> QED BY <1>1, <1>6, <2>1 DEF CatalogTypes
<1>8. FormsKnown'
  <2>1. FormKnown(f)
    BY <1>3, <1>4 DEF FormKnown
  <2> QED BY <1>1, <1>6, <2>1 DEF FormsKnown
<1>9. Room'
  <2>1. Real' = Real /\ Inserting' \in SUBSET Inserting
    BY <1>3, <1>6 DEF Real, Inserting
  <2> QED BY <1>1, <2>1, RoomKept
<1>10. KeyRoom'
  <2> SUFFICES ASSUME NEW k \in Keys
      PROVE  made'[k] + Cardinality(Pending(k)') <= excused'[k] + (IF Begun(k)' THEN 1 ELSE 0)
    BY DEF KeyRoom
  <2>1. made[k] + Cardinality(Pending(k)) <= excused[k] + (IF Begun(k) THEN 1 ELSE 0)
    BY <1>1 DEF KeyRoom
  <2>2. made[k] \in Nat /\ excused[k] \in Nat /\ Cardinality(Pending(k)) \in Nat /\ made'[k] = made[k]
    BY <1>1, InsertingFinite DEF CatalogTypes
  <2>3. CASE k # x
    <3>1. Pending(k)' = Pending(k) /\ (Begun(k)' <=> Begun(k))
      BY <1>3, <1>6, <2>3 DEF Pending, Begun
    <3>2. excused'[k] = excused[k]
      BY <1>1, <1>14, <2>3 DEF CatalogTypes
    <3> QED BY <2>1, <2>2, <3>1, <3>2
  <2>4. CASE k = x
    <3>1. c \notin Pending(k) /\ Pending(k)' = Pending(k) \cup {c} /\ Begun(k)'
      BY <1>3, <1>6, <2>4 DEF Pending, Begun
    <3>2. Cardinality(Pending(k)') = Cardinality(Pending(k)) + 1
      BY <3>1, InsertingFinite, FS_AddElement
    <3>3. CASE had
      <4>1. excused'[k] = excused[k] + 1
        BY <1>1, <1>14, <2>4, <3>3 DEF CatalogTypes
      <4> QED BY <2>1, <2>2, <3>1, <3>2, <4>1
    <3>4. CASE ~had
      <4>1. excused'[k] = excused[k]
        BY <1>1, <1>14, <2>4, <3>4 DEF CatalogTypes
      <4>2. ~Begun(k)
        <5>1. ASSUME NEW o \in Clients, form[o].kind = "api", form[o].key = k, form[o].at # "lookup"
              PROVE  FALSE
          <6>1. o # c
            BY <1>3, <5>1
          <6>2. form[o].at # "idle"
            BY <1>1, <5>1 DEF FormsKnown, FormKnown
          <6>3. o \in Rivals(c)
            BY <2>4, <5>1, <6>1, <6>2 DEF Rivals, x
          <6> QED BY <1>5, <3>4, <6>3
        <5> QED BY <1>5, <2>4, <3>4, <5>1 DEF Begun
      <4> QED BY <2>1, <2>2, <3>1, <3>2, <4>1, <4>2
    <3> QED BY <3>3, <3>4
  <2> QED BY <2>3, <2>4
<1>11. Grows
  BY <1>1 DEF Grows, CatalogTypes
<1>12. AnswersTrue'
  <2>1. AttachTrue(f, target', checks', stripped')
    BY <1>3 DEF AttachTrue
  <2> QED BY <1>1, <1>6, <1>7, <1>11, <2>1, AnswersStayTrue
<1>13. DumpThere' /\ SampleChecked'
  <2>1. DumpThere'
    BY <1>1, <1>3, <1>6 DEF DumpThere
  <2>2. \A o \in Clients : form[o].kind = "sample" /\ form[o].at = "attach" => form'[o] = form[o]
    BY <1>3, <1>6
  <2> QED BY <1>1, <1>7, <1>11, <2>1, <2>2, SampleStays
<1> QED BY <1>7, <1>8, <1>9, <1>10, <1>12, <1>13 DEF CatalogInv

\* Types of the variables that most steps leave alone.
LEMMA TypesAtRest ==
    ASSUME CatalogInv, UNCHANGED <<dump, unanswered, bare, forms>>
    PROVE  /\ forms' \in 0 .. MaxForms /\ dump' \in {"none", "half", "whole"} /\ unanswered' \subseteq Keys
           /\ bare' \in BOOLEAN /\ (bare => bare')
<1>1. bare' \in BOOLEAN /\ (bare => bare')
  BY Zenon DEF CatalogInv, CatalogTypes
<1> QED BY <1>1 DEF CatalogInv, CatalogTypes

\* The fields of a record that moves on.
LEMMA MovedOn ==
    ASSUME NEW f \in FormRecords, NEW a \in {"count", "insert", "end", "attach", "answer", "write",
                                             "rename", "find", "drill"}
    PROVE  LET g == [f EXCEPT !.at = a]
           IN  /\ g \in FormRecords /\ g.at = a /\ g.kind = f.kind /\ g.key = f.key
               /\ g.body = f.body /\ g.db = f.db /\ g.left = f.left
  BY DEF FormRecords

\* The handler answers.
LEMMA AnswerStep ==
    ASSUME CatalogInv, NEW c \in Clients, NEW n \in {201, 403, 500}, Answers(c, n), form[c].kind = "api",
           form[c].at \in {"count", "insert", "attach"},
           n = 201 => form[c].at = "attach" /\ form[c].left = 0,
           UNCHANGED <<target, checks, stripped, stored, dump, made, excused, unanswered, uncounted, bare, forms>>
    PROVE  CatalogInv'
<1> DEFINE f == [form[c] EXCEPT !.at = "answer", !.left = n]
<1>1. form[c] \in FormRecords /\ n \in Nat /\ FormKnown(form[c]) /\ AttachTrue(form[c], target, checks, stripped)
  BY DEF CatalogInv, CatalogTypes, FormsKnown, AnswersTrue
<1>2. f \in FormRecords /\ f.at = "answer" /\ f.kind = "api" /\ f.key = form[c].key
      /\ f.body = form[c].body /\ f.db = form[c].db /\ f.left = n
  <2>1. f = [form[c] EXCEPT !.at = "answer", !.left = n]
    OBVIOUS
  <2> DEFINE g == form[c]
  <2>2. g \in FormRecords /\ n \in Nat /\ f = [g EXCEPT !.at = "answer", !.left = n] /\ g.kind = "api"
    BY <1>1, <2>1
  <2> HIDE DEF f, g
  <2>3. f \in FormRecords /\ f.at = "answer" /\ f.kind = g.kind /\ f.key = g.key
        /\ f.body = g.body /\ f.db = g.db /\ f.left = n
    BY <2>2 DEF FormRecords
  <2> QED BY <2>2, <2>3 DEF g
<1>3. Moved(c, f)
  BY ZenonT(20), <1>1, MoveAnswer DEF CatalogInv
<1> HIDE DEF f
<1>4. FormKnown(f)
  BY <1>1, <1>2 DEF FormKnown
<1>5. AttachTrue(f, target, checks, stripped)
  <2>1. CASE n = 201
    <3>1. form[c].db \in Slots /\ target[form[c].db] = "real"
          /\ checks[form[c].db] + stripped[form[c].db] + 0 >= form[c].body
      BY <1>1, <2>1 DEF AttachTrue
    <3>2. checks[form[c].db] \in Nat /\ stripped[form[c].db] \in Nat
      BY <3>1 DEF CatalogInv, CatalogTypes
    <3>3. Stands(f.db, f.body, target, checks, stripped)
      BY <1>2, <3>1, <3>2 DEF Stands
    <3> QED BY <1>2, <3>3 DEF AttachTrue
  <2>2. CASE n # 201
    BY <1>2, <2>2 DEF AttachTrue
  <2> QED BY <2>1, <2>2
<1> QED BY <1>2, <1>3, <1>4, <1>5, TypesAtRest, PassesOn

\* The form of the pages (targetCreate).
LEMMA targetCreateStep ==
    ASSUME CatalogInv, NEW c \in Clients, targetCreate(c)
    PROVE  CatalogInv'
<1>1. CASE /\ Submit(c, [Free EXCEPT !.at = "count"])
           /\ UNCHANGED <<target, checks, stripped, stored, dump, made, excused, unanswered, uncounted, bare>>
  <2> DEFINE f == [Free EXCEPT !.at = "count"]
  <2>1. f \in FormRecords /\ FormKnown(f) /\ f.at = "count" /\ f.kind = "web"
    BY DEF Free, FormRecords, FormKnown
  <2> HIDE DEF f
  <2> QED BY <1>1, <2>1, SubmitStep DEF f
<1>2. CASE /\ Runs(c, "web", "count") /\ CountRead(c, Real, "insert")
           /\ UNCHANGED <<target, checks, stripped, stored, dump, made, excused, unanswered, bare, forms>>
  BY <1>2, CountStep DEF Runs, Real
<1>3. CASE /\ Runs(c, "web", "insert") /\ CreateTarget(c, "real", "end")
           /\ UNCHANGED <<checks, stripped, stored, dump, made, excused, unanswered, uncounted, bare, forms>>
  BY <1>3, InsertStep DEF Runs
<1>4. CASE /\ Runs(c, "web", "end") /\ Leave(c)
           /\ UNCHANGED <<target, checks, stripped, stored, dump, made, excused, unanswered, uncounted, bare, forms>>
  BY <1>4, TypesAtRest, LeaveStep DEF Runs
<1> QED BY <1>1, <1>2, <1>3, <1>4 DEF targetCreate

\* The middleware that replays or keeps an answer (v1Idempotency).
LEMMA v1IdempotencyStep ==
    ASSUME CatalogInv, NEW c \in Clients, v1Idempotency(c)
    PROVE  CatalogInv'
<1>1. ASSUME NEW k \in Keys, NEW b \in Bodies,
             Submit(c, [Free EXCEPT !.at = "lookup", !.kind = "api", !.key = k, !.body = b, !.left = b]),
             UNCHANGED <<target, checks, stripped, stored, dump, made, excused, unanswered, uncounted, bare>>
      PROVE  CatalogInv'
  <2> DEFINE f == [Free EXCEPT !.at = "lookup", !.kind = "api", !.key = k, !.body = b, !.left = b]
  <2>1. f \in FormRecords /\ FormKnown(f) /\ f.at = "lookup"
    BY CatalogAssumption DEF Free, FormRecords, FormKnown
  <2> HIDE DEF f
  <2> QED BY <1>1, <2>1, SubmitStep DEF f
<1>2. CASE /\ Runs(c, "api", "lookup") /\ Replayed(c) /\ Leave(c)
           /\ UNCHANGED <<target, checks, stripped, stored, dump, made, excused, unanswered, uncounted, bare, forms>>
  BY <1>2, TypesAtRest, LeaveStep DEF Runs
<1>3. CASE /\ Runs(c, "api", "lookup") /\ Go(c, "count")
           /\ \E unread \in BOOLEAN : Unanswered(c, unread) /\ Excuse(c, unread)
           /\ UNCHANGED <<target, checks, stripped, stored, dump, made, unanswered, uncounted, bare, forms>>
  BY <1>3, MissStep
<1>4. CASE /\ Runs(c, "api", "answer") /\ RecordAnswer(c, form[c].left) /\ Leave(c)
           /\ UNCHANGED <<target, checks, stripped, dump, made, excused, uncounted, bare, forms>>
  <2> DEFINE k == form[c].key
             answer == [status |-> form[c].left, body |-> form[c].body, db |-> form[c].db]
  <2>1. /\ form[c] \in FormRecords /\ form[c].kind = "api" /\ form[c].at = "answer"
        /\ k \in Keys /\ form[c].left \in {201, 403, 500}
        /\ form[c].left = 201 => Stands(form[c].db, form[c].body, target, checks, stripped)
    BY <1>4 DEF CatalogInv, CatalogTypes, FormsKnown, FormKnown, AnswersTrue, AttachTrue, Runs
  <2>2. bare' \in BOOLEAN /\ (bare => bare')
    BY <1>4, Zenon DEF CatalogInv, CatalogTypes
  <2>3. CASE unanswered' = unanswered \cup {k} /\ UNCHANGED stored
    <3>1. unanswered' \subseteq Keys /\ unanswered \subseteq unanswered' /\ form[c].key \in unanswered'
      BY <2>1, <2>3 DEF CatalogInv, CatalogTypes
    <3> QED BY <1>4, <2>1, <2>2, <2>3, <3>1, LeaveStep
  <2>4. CASE /\ Recorded(form[c].left) /\ UNCHANGED unanswered
             /\ stored' = IF stored[k].status = 0 THEN [stored EXCEPT ![k] = answer] ELSE stored
    <3>1. answer \in [status : {0, 201, 403}, body : Nat, db : Slots \cup {"none"}]
      BY <2>1, <2>4 DEF FormRecords, Recorded
    <3>2. answer.status = form[c].left /\ answer.body = form[c].body /\ answer.db = form[c].db
      OBVIOUS
    <3> HIDE DEF answer
    <3>3. /\ stored' \in [Keys -> [status : {0, 201, 403}, body : Nat, db : Slots \cup {"none"}]]
          /\ stored'[k].status # 0
          /\ \A x \in Keys : stored'[x] = stored[x] \/ (x = k /\ stored'[x] = answer)
      BY <2>1, <2>4, <3>1, <3>2 DEF CatalogInv, CatalogTypes
    <3>4. Moved(c, Free)
      BY <1>4, FreeForm, MoveWhole DEF Leave, CatalogInv
    <3>5. CatalogTypes'
      BY <1>4, <2>2, <2>4, <3>3, <3>4 DEF CatalogInv, CatalogTypes, Moved
    <3>6. Grows
      BY <1>4 DEF Grows, CatalogInv, CatalogTypes
    <3>7. AttachTrue(Free, target', checks', stripped')
      BY FreeForm DEF AttachTrue
    <3>8. \A x \in Keys :
              \/ stored'[x] = stored[x]
              \/ /\ stored'[x].status # 0
                 /\ stored'[x].status = 201 => Stands(stored'[x].db, stored'[x].body, target', checks', stripped')
      BY <1>4, <2>1, <3>2, <3>3
    <3>9. UNCHANGED <<target, made, excused, uncounted>> /\ unanswered \subseteq unanswered' /\ dump' = dump
      BY <1>4, <2>4
    <3> QED BY <2>1, <2>2, <3>3, <3>4, <3>5, <3>6, <3>7, <3>8, <3>9, FreeForm, QuietStep
  <2> QED BY <1>4, <2>3, <2>4 DEF RecordAnswer
<1> QED BY <1>1, <1>2, <1>3, <1>4 DEF v1Idempotency

\* An assertion is added: the step of a request that does so is quiet.
LEMMA AssertionGrows ==
    ASSUME CatalogInv, NEW d \in Slots, CreateAssertion(d), UNCHANGED <<target, stripped>>
    PROVE  /\ checks' \in [Slots -> Nat] /\ Grows /\ checks'[d] + stripped'[d] > 0
           /\ checks'[d] + stripped'[d] = checks[d] + stripped[d] + 1
<1>1. checks \in [Slots -> Nat] /\ stripped \in [Slots -> Nat]
  BY DEF CatalogInv, CatalogTypes
<1>2. checks' = [checks EXCEPT ![d] = checks[d] + 1]
  BY <1>1 DEF CreateAssertion
<1> QED BY <1>1, <1>2 DEF Grows

\* The endpoint of the API (v1CreateDatabase).
LEMMA v1CreateDatabaseStep ==
    ASSUME CatalogInv, NEW c \in Clients, v1CreateDatabase(c)
    PROVE  CatalogInv'
<1>1. CASE /\ Runs(c, "api", "count") /\ CountRead(c, Live, "insert")
           /\ UNCHANGED <<target, checks, stripped, stored, dump, made, excused, unanswered, bare, forms>>
  BY <1>1, CountStep DEF Runs, Real, Live
<1>2. CASE /\ Runs(c, "api", "count") /\ AtLimit(Cardinality(Live)) /\ Answers(c, 403)
           /\ UNCHANGED <<target, checks, stripped, stored, dump, made, excused, unanswered, uncounted, bare, forms>>
  BY <1>2, AnswerStep DEF Runs
<1>3. CASE /\ Runs(c, "api", "insert") /\ CreateTarget(c, "real", "attach")
           /\ made' = [made EXCEPT ![form[c].key] = @ + 1]
           /\ UNCHANGED <<checks, stripped, stored, dump, excused, unanswered, uncounted, bare, forms>>
  BY <1>3, InsertStep DEF Runs
<1>4. CASE /\ Runs(c, "api", "attach") /\ ~Attached(c) /\ CreateAssertion(form[c].db)
           /\ form' = [form EXCEPT ![c].left = @ - 1]
           /\ UNCHANGED <<target, stripped, stored, dump, made, excused, unanswered, uncounted, bare, forms>>
  <2> DEFINE g == form[c]
             f == [g EXCEPT !.left = g.left - 1]
             d == g.db
  <2>1. /\ g \in FormRecords /\ FormKnown(g) /\ g.kind = "api" /\ g.at = "attach" /\ g.left # 0
        /\ d \in Slots /\ target[d] = "real" /\ checks[d] + stripped[d] + g.left >= g.body
        /\ CatalogTypes
    BY <1>4 DEF CatalogInv, CatalogTypes, FormsKnown, AnswersTrue, AttachTrue, Runs, Attached
  <2>2. Moved(c, f)
    <3>1. "count" \in {"count", "insert", "end", "attach", "answer", "write", "rename", "find", "drill"}
      OBVIOUS
    <3> QED BY <1>4, <2>1, <3>1, MoveFields
  <2> HIDE DEF g
  <2>3. f \in FormRecords /\ f.at = g.at /\ f.kind = g.kind /\ f.key = g.key /\ f.body = g.body /\ f.db = g.db
        /\ f.left = g.left - 1
    BY <2>1 DEF FormRecords
  <2> HIDE DEF f
  <2>4. FormKnown(f)
    BY <2>1, <2>3 DEF FormKnown
  <2>5. checks' \in [Slots -> Nat] /\ Grows /\ checks'[d] + stripped'[d] = checks[d] + stripped[d] + 1
    BY <1>4, <2>1, AssertionGrows DEF g
  <2>6. CatalogTypes'
    <3>1. bare' \in BOOLEAN
      BY <1>4, <2>1, Zenon DEF CatalogTypes
    <3> QED BY <1>4, <2>1, <2>2, <2>5, <3>1 DEF CatalogTypes, Moved
  <2>7. AttachTrue(f, target', checks', stripped')
    <3>1. checks[d] \in Nat /\ stripped[d] \in Nat /\ g.left \in Nat /\ g.body \in Nat
      BY <2>1 DEF CatalogTypes, FormRecords
    <3>2. checks'[d] + stripped'[d] + f.left >= f.body
      <4> DEFINE a == checks[d] + stripped[d]
                 b == checks'[d] + stripped'[d]
      <4>1. a \in Nat /\ b = a + 1 /\ a + g.left >= g.body
        BY <2>1, <2>5, <3>1
      <4> HIDE DEF a, b
      <4>2. b + (g.left - 1) >= g.body
        BY <3>1, <4>1
      <4> QED BY <2>3, <4>2 DEF b
    <3>3. target'[d] = "real"
      BY <1>4, <2>1
    <3> QED BY <2>1, <2>3, <3>2, <3>3 DEF AttachTrue
  <2>8. UNCHANGED <<target, made, excused, uncounted>> /\ unanswered \subseteq unanswered' /\ (bare => bare')
        /\ stored' = stored /\ dump' = dump
    BY <1>4
  <2> QED BY <2>1, <2>2, <2>3, <2>4, <2>5, <2>6, <2>7, <2>8, QuietStep DEF g
<1>5. CASE /\ Runs(c, "api", "attach") /\ Attached(c) /\ Answers(c, 201)
           /\ UNCHANGED <<target, checks, stripped, stored, dump, made, excused, unanswered, uncounted, bare, forms>>
  BY <1>5, AnswerStep DEF Runs, Attached
<1>6. CASE /\ form[c].kind = "api" /\ form[c].at \in {"insert", "attach"} /\ Answers(c, 500)
           /\ UNCHANGED <<target, checks, stripped, stored, dump, made, excused, unanswered, uncounted, bare, forms>>
  BY <1>6, AnswerStep
<1> QED BY <1>1, <1>2, <1>3, <1>4, <1>5, <1>6 DEF v1CreateDatabase

\* A step of a request for the sample that neither inserts nor adds the assertion.
LEMMA SamplePass ==
    ASSUME CatalogInv, NEW c \in Clients, NEW a \in {"insert", "write", "rename", "find", "drill"}, Go(c, a),
           form[c].kind = "sample", form[c].at # "attach",
           dump' = dump \/ dump' = "whole", dump = "whole" => dump' = "whole",
           a \in {"find", "insert", "drill"} => dump' = "whole",
           UNCHANGED <<target, checks, stripped, stored, made, excused, unanswered, uncounted, bare, forms>>
    PROVE  CatalogInv'
<1> DEFINE f == [form[c] EXCEPT !.at = a]
<1>1. form[c] \in FormRecords /\ CatalogTypes
  BY DEF CatalogInv, CatalogTypes
<1>2. f \in FormRecords /\ f.at = a /\ f.kind = "sample"
  BY <1>1 DEF FormRecords
<1>3. Moved(c, f)
  BY <1>1, MoveFields
<1> HIDE DEF f
<1>4. FormKnown(f) /\ AttachTrue(f, target, checks, stripped)
  BY <1>2 DEF FormKnown, AttachTrue
<1>5. bare' \in BOOLEAN /\ (bare => bare')
  BY <1>1, Zenon DEF CatalogTypes
<1>6. forms' \in 0 .. MaxForms /\ dump' \in {"none", "half", "whole"} /\ unanswered' \subseteq Keys
  BY <1>1 DEF CatalogTypes
<1> QED BY <1>2, <1>3, <1>4, <1>5, <1>6, PassesOn

\* The sample database (runSampleDrill).
LEMMA runSampleDrillStep ==
    ASSUME CatalogInv, NEW c \in Clients, runSampleDrill(c)
    PROVE  CatalogInv'
<1> DEFINE Others == UNCHANGED <<target, checks, stripped, stored, made, excused, unanswered, uncounted, bare, forms>>
           SampleThere == \E d \in Slots : target[d] = "sample"
<1>1. CASE /\ Submit(c, [Free EXCEPT !.at = "stat", !.kind = "sample"])
           /\ UNCHANGED <<target, checks, stripped, stored, dump, made, excused, unanswered, uncounted, bare>>
  <2> DEFINE f == [Free EXCEPT !.at = "stat", !.kind = "sample"]
  <2>1. f \in FormRecords /\ FormKnown(f) /\ f.at = "stat"
    BY DEF Free, FormRecords, FormKnown
  <2> HIDE DEF f
  <2> QED BY <1>1, <2>1, SubmitStep DEF f
<1>2. CASE Runs(c, "sample", "drill") /\ Leave(c) /\ Others /\ UNCHANGED dump
  BY <1>2, TypesAtRest, LeaveStep DEF Runs
<1>3. CASE MaterializeSample(c) /\ Others
  BY <1>3, SamplePass DEF MaterializeSample, WriteDump, Runs
<1>4. CASE Runs(c, "sample", "find") /\ Go(c, IF SampleThere THEN "drill" ELSE "insert") /\ Others /\ UNCHANGED dump
  <2>1. dump = "whole"
    BY <1>4 DEF CatalogInv, DumpThere, Runs
  <2> QED BY <1>4, <2>1, SamplePass DEF Runs
<1>5. CASE Runs(c, "sample", "insert") /\ SampleThere /\ Go(c, "drill") /\ Others /\ UNCHANGED dump
  <2>1. dump = "whole"
    BY <1>5 DEF CatalogInv, DumpThere, Runs
  <2> QED BY <1>5, <2>1, SamplePass DEF Runs
<1>6. CASE /\ Runs(c, "sample", "insert") /\ CreateTarget(c, "sample", "attach")
           /\ UNCHANGED <<checks, stripped, stored, dump, made, excused, unanswered, uncounted, bare, forms>>
  BY <1>6, InsertStep DEF Runs
<1>7. CASE /\ Runs(c, "sample", "attach") /\ Go(c, "drill")
           /\ (CreateAssertion(form[c].db) /\ UNCHANGED bare) \/ (bare' = TRUE /\ UNCHANGED checks)
           /\ UNCHANGED <<target, stripped, stored, dump, made, excused, unanswered, uncounted, forms>>
  <2> DEFINE f == [form[c] EXCEPT !.at = "drill"]
  <2>1. form[c] \in FormRecords /\ CatalogTypes /\ form[c].kind = "sample" /\ form[c].at = "attach"
        /\ form[c].db \in Slots /\ dump = "whole"
    BY <1>7 DEF CatalogInv, CatalogTypes, AnswersTrue, AttachTrue, DumpThere, Runs
  <2>2. f \in FormRecords /\ f.at = "drill" /\ f.kind = "sample"
    BY <2>1 DEF FormRecords
  <2>3. Moved(c, f)
    BY <1>7, <2>1, MoveFields
  <2> HIDE DEF f
  <2>4. FormKnown(f) /\ AttachTrue(f, target', checks', stripped')
    BY <2>2 DEF FormKnown, AttachTrue
  <2>5. bare' \in BOOLEAN /\ (bare => bare')
    <3>1. bare' = bare \/ bare' = TRUE
      BY <1>7
    <3>2. bare \in BOOLEAN
      BY <2>1 DEF CatalogTypes
    <3>3. CASE bare' = bare
      BY <3>2, <3>3
    <3>4. CASE bare' = TRUE
      BY <3>4, Zenon
    <3> QED BY <3>1, <3>3, <3>4
  <2>6. checks' \in [Slots -> Nat] /\ Grows
        /\ (bare' \/ checks'[form[c].db] + stripped'[form[c].db] > 0)
    <3>1. CASE CreateAssertion(form[c].db) /\ UNCHANGED bare
      BY <1>7, <2>1, <3>1, AssertionGrows
    <3>2. CASE bare' = TRUE /\ UNCHANGED checks
      BY <1>7, <2>1, <3>2 DEF Grows, CatalogTypes
    <3> QED BY <1>7, <3>1, <3>2
  <2>7. CatalogTypes'
    BY <1>7, <2>1, <2>3, <2>5, <2>6 DEF CatalogTypes, Moved
  <2>8. UNCHANGED <<target, made, excused, uncounted>> /\ unanswered \subseteq unanswered'
        /\ stored' = stored /\ dump' = dump
    BY <1>7
  <2> QED BY <2>1, <2>2, <2>3, <2>4, <2>5, <2>6, <2>7, <2>8, QuietStep
<1> HIDE DEF Others, SampleThere
<1>8. ASSUME ensureSampleTarget(c) PROVE CatalogInv'
  BY <1>3, <1>4, <1>5, <1>6, <1>7, <1>8 DEF ensureSampleTarget, Others, SampleThere
<1> QED BY <1>1, <1>2, <1>8 DEF runSampleDrill, Others

\* A request whose client is gone.
LEMMA AbandonStep ==
    ASSUME CatalogInv, NEW c \in Clients, AbandonForm(c)
    PROVE  CatalogInv'
<1>1. unanswered' \subseteq Keys /\ unanswered \subseteq unanswered'
      /\ (form[c].kind = "api" /\ form[c].at # "lookup" => form[c].key \in unanswered')
  BY DEF AbandonForm, CatalogInv, CatalogTypes, FormsKnown, FormKnown
<1>2. bare' \in BOOLEAN /\ (bare => bare')
  BY Zenon DEF AbandonForm
<1>3. form[c].kind = "sample" /\ form[c].at = "attach" => bare'
  BY DEF AbandonForm, Runs
<1> QED BY <1>1, <1>2, <1>3, LeaveStep DEF AbandonForm

\* Assertions added and deleted by hand.
LEMMA AssertionStep ==
    ASSUME CatalogInv, NEW d \in Slots, assertionCreate(d) \/ assertionDelete(d)
    PROVE  CatalogInv'
<1>1. PICK c \in Clients : TRUE
  BY CatalogAssumption
<1>2. checks \in [Slots -> Nat] /\ stripped \in [Slots -> Nat] /\ CatalogTypes /\ form[c] \in FormRecords
      /\ FormKnown(form[c])
  BY <1>1 DEF CatalogInv, CatalogTypes, FormsKnown
<1>3. Moved(c, form[c])
  BY <1>1, <1>2 DEF Moved, CatalogTypes, assertionCreate, assertionDelete
<1>4. UNCHANGED <<target, stored, dump, form, made, excused, unanswered, uncounted, bare>>
  BY DEF assertionCreate, assertionDelete
<1>5. checks' \in [Slots -> Nat] /\ stripped' \in [Slots -> Nat] /\ Grows
  <2>1. CASE assertionCreate(d)
    BY <1>2, <2>1, AssertionGrows DEF assertionCreate
  <2>2. CASE assertionDelete(d)
    BY <1>2, <2>2 DEF assertionDelete, DeleteAssertion, Grows
  <2> QED BY <2>1, <2>2
<1>6. forms' \in 0 .. MaxForms
  BY <1>2, CatalogAssumption DEF CatalogTypes, assertionCreate, assertionDelete
<1>7. bare' \in BOOLEAN /\ (bare => bare')
  BY <1>2, <1>4, Zenon DEF CatalogTypes
<1>8. CatalogTypes'
  BY <1>2, <1>4, <1>5, <1>6, <1>7 DEF CatalogTypes
<1>9. form[c].kind = "sample" /\ form[c].at \in {"find", "insert", "attach", "drill"} => dump' = "whole"
  BY <1>1, <1>4 DEF CatalogInv, DumpThere
<1> QED BY <1>1, <1>2, <1>3, <1>4, <1>5, <1>7, <1>8, <1>9, QuietStep

\* A restart drops the requests and keeps the rows.
LEMMA RedeployStep ==
    ASSUME CatalogInv, Redeploy
    PROVE  CatalogInv'
<1>1. CatalogTypes /\ FormsKnown /\ Room /\ KeyRoom /\ AnswersTrue /\ DumpThere /\ SampleChecked
  BY DEF CatalogInv
<1>2. \A c \in Clients : form'[c] = Free
  BY DEF Redeploy
<1>3. UNCHANGED <<target, checks, stripped, stored, made, excused, uncounted, forms>> /\ dump' = "none"
  BY DEF Redeploy
<1>4. unanswered' \subseteq Keys /\ unanswered \subseteq unanswered'
      /\ \A c \in Clients : form[c].kind = "api" /\ form[c].at # "lookup" => form[c].key \in unanswered'
  BY <1>1 DEF Redeploy, CatalogTypes, FormsKnown, FormKnown
<1>5. bare' \in BOOLEAN /\ (bare => bare')
  BY Zenon DEF Redeploy
<1>6. (\E c \in Clients : form[c].kind = "sample" /\ form[c].at = "attach") => bare'
  BY DEF Redeploy, Runs
<1>7. CatalogTypes'
  <2>1. form' \in [Clients -> FormRecords]
    BY FreeForm DEF Redeploy
  <2> QED BY <1>1, <1>3, <1>4, <1>5, <2>1 DEF CatalogTypes
<1>8. FormsKnown'
  BY <1>2, FreeForm DEF FormsKnown
<1>9. Room'
  <2>1. Real' = Real /\ Inserting' \in SUBSET Inserting
    BY <1>2, <1>3, FreeForm DEF Real, Inserting
  <2> QED BY <1>1, <1>3, <2>1, RoomKept
<1>10. KeyRoom'
  <2>1. \A k \in Keys : Pending(k)' \in SUBSET Pending(k)
    BY <1>2, FreeForm DEF Pending
  <2>2. \A k \in Keys : Begun(k) => Begun(k)'
    BY <1>3, <1>4 DEF Begun
  <2> QED BY <1>1, <1>3, <2>1, <2>2, KeysKept
<1>11. Grows
  BY <1>1, <1>3 DEF Grows, CatalogTypes
<1>12. AnswersTrue'
  <2>1. AttachTrue(Free, target', checks', stripped')
    BY FreeForm DEF AttachTrue
  <2> QED BY <1>1, <1>2, <1>3, <1>7, <1>11, <2>1, AnswersStayTrue
<1>13. DumpThere'
  BY <1>2, FreeForm DEF DumpThere
<1>14. SampleChecked'
  BY <1>1, <1>3, <1>5, <1>6, <1>7, <1>11, SampleStays
<1> QED BY <1>7, <1>8, <1>9, <1>10, <1>12, <1>13, <1>14 DEF CatalogInv

\* One case for each handler.
LEMMA CatalogStep == CatalogInv /\ [CatalogNext]_dbVars => CatalogInv'
<1> SUFFICES ASSUME CatalogInv, [CatalogNext]_dbVars PROVE CatalogInv'
  OBVIOUS
<1>1. CASE UNCHANGED dbVars
  <2>1. UNCHANGED <<target, checks, stripped, stored, dump, form, made, excused, unanswered, uncounted, bare, forms>>
    BY <1>1 DEF dbVars
  <2>2. /\ Real' = Real /\ Inserting' = Inserting /\ \A k : Pending(k)' = Pending(k)
        /\ \A k : Begun(k)' <=> Begun(k)
    BY <2>1 DEF Real, Inserting, Pending, Begun
  <2>3. Room'
    BY <2>1, <2>2 DEF CatalogInv, Room
  <2>4. KeyRoom'
    BY <2>1, <2>2, KeysKept DEF CatalogInv
  <2>5. CatalogTypes' /\ FormsKnown' /\ DumpThere'
    BY <2>1 DEF CatalogInv, CatalogTypes, FormsKnown, DumpThere
  <2>6. AnswersTrue'
    BY <2>1 DEF CatalogInv, AnswersTrue
  <2>7. SampleChecked'
    BY <2>1 DEF CatalogInv, SampleChecked, Runs
  <2> QED BY <2>3, <2>4, <2>5, <2>6, <2>7 DEF CatalogInv
<1>2. CASE CatalogNext
  BY <1>2, targetCreateStep, v1IdempotencyStep, v1CreateDatabaseStep, runSampleDrillStep, AbandonStep,
     AssertionStep, RedeployStep DEF CatalogNext
<1> QED BY <1>1, <1>2

\* However requests race, repeat, fail half way or die with a release: the plan is exceeded
\* only by requests that counted side by side or could not read the count, a key makes a
\* second database only with a reason (a race, an answer that was lost, a lookup that
\* failed), a replayed answer is true, and a drill of the sample finds its dump
\* (targetCreate, v1CreateDatabase, v1Idempotency, ensureSampleTarget).
THEOREM DatabasesAreSafe == CatalogSpec => []CatalogSafe
<1> QED BY CatalogStart, CatalogStep, CatalogImplies, PTL DEF CatalogSpec

-----------------------------------------------------------------------------
(* Evidence outside the house.  Every signature that is stored, on its way   *)
(* or in somebody's hands was made here, of a rendering that was made here,  *)
(* with a time that the column keeps.                                        *)

\* In a finite set of numbers, one stands at every place: the places are as many as the
\* numbers, and no two numbers share one.
LEMMA EveryPlaceTaken ==
    ASSUME NEW S \in SUBSET Nat, IsFiniteSet(S), NEW i \in 1 .. Cardinality(S)
    PROVE  \E k \in S : Cardinality({l \in S : l < k}) = i - 1
<1> DEFINE below(x) == {y \in S : y < x}
           n == Cardinality(S)
           place == [x \in S |-> Cardinality(below(x))]
<1>1. n \in Nat
  BY FS_CardinalityType
<1>2. ASSUME NEW x \in S PROVE Cardinality(below(x)) \in 0 .. (n - 1) /\ IsFiniteSet(below(x))
  <2>1. below(x) \in SUBSET S /\ x \notin below(x)
    OBVIOUS
  <2> HIDE DEF below
  <2>2. IsFiniteSet(below(x)) /\ Cardinality(below(x)) \in Nat /\ Cardinality(below(x)) <= n
        /\ Cardinality(below(x)) # n
    BY <2>1, FS_Subset, FS_CardinalityType
  <2> QED BY <1>1, <2>2
<1>3. ASSUME NEW x \in S, NEW y \in S, x < y PROVE Cardinality(below(x)) < Cardinality(below(y))
  <2>1. below(x) \in SUBSET below(y) /\ x \in below(y) /\ x \notin below(x)
    <3>1. x \in Nat /\ y \in Nat /\ \A z \in S : z \in Nat
      OBVIOUS
    <3>2. ASSUME NEW z \in below(x) PROVE z \in below(y)
      <4>1. z \in S /\ z < x /\ z \in Nat
        BY <3>1
      <4> QED BY <1>3, <3>1, <4>1
    <3>3. x < y /\ ~(x < x)
      BY <1>3, <3>1
    <3> QED BY <3>2, <3>3
  <2> HIDE DEF below
  <2>2. Cardinality(below(x)) <= Cardinality(below(y)) /\ Cardinality(below(x)) # Cardinality(below(y))
    BY <2>1, <1>2, FS_Subset
  <2> QED BY <1>1, <1>2, <2>2
<1>4. place \in [S -> 0 .. (n - 1)]
  <2> HIDE DEF below
  <2> QED BY <1>2
<1>5. \A x, y \in S : place[x] = place[y] => x = y
  <2> SUFFICES ASSUME NEW x \in S, NEW y \in S, x # y PROVE Cardinality(below(x)) # Cardinality(below(y))
    OBVIOUS
  <2>1. x < y \/ y < x
    OBVIOUS
  <2> HIDE DEF below
  <2> QED BY <1>1, <1>2, <1>3, <2>1
<1>6. IsFiniteSet(0 .. (n - 1)) /\ Cardinality(0 .. (n - 1)) = n
  <2>1. 0 \in Int /\ n - 1 \in Int
    BY <1>1
  <2>2. IsFiniteSet(0 .. (n - 1)) /\ Cardinality(0 .. (n - 1)) = IF 0 > n - 1 THEN 0 ELSE (n - 1) - 0 + 1
    BY <2>1, FS_Interval
  <2> QED BY <1>1, <2>2
<1> HIDE DEF place
<1>7. place \in Injection(S, 0 .. (n - 1))
  BY <1>4, <1>5 DEF Injection, IsInjective
<1>8. place \in Surjection(S, 0 .. (n - 1))
  BY <1>6, <1>7, FS_Injection
<1>9. i - 1 \in 0 .. (n - 1)
  BY <1>1
<1>10. PICK k \in S : place[k] = i - 1
  BY <1>8, <1>9 DEF Surjection
<1> QED BY <1>10 DEF place

\* The keys in fingerprint order are keys, and the active one comes before them.
LEMMA KeysInOrder ==
    ASSUME NEW a \in SignKeys, NEW keys \in SUBSET SignKeys
    PROVE  /\ <<a>> \o Sorted(keys) \in Seq(SignKeys)
           /\ <<a>> \o Sorted(keys) # <<>> /\ (<<a>> \o Sorted(keys))[1] = a
<1> DEFINE nth(i) == CHOOSE k \in keys : Cardinality({l \in keys : l < k}) = i - 1
           n == Cardinality(keys)
           s == Sorted(keys)
<1>1. keys \in SUBSET Nat /\ IsFiniteSet(keys) /\ n \in Nat
  BY HandoverAssumption, FS_Subset, FS_CardinalityType
<1>2. ASSUME NEW i \in 1 .. n PROVE nth(i) \in SignKeys
  <2>1. \E k \in keys : Cardinality({l \in keys : l < k}) = i - 1
    BY <1>1, EveryPlaceTaken
  <2> QED BY <2>1
<1>3. s \in [1 .. n -> SignKeys]
  <2>1. s = [i \in 1 .. n |-> nth(i)]
    BY DEF Sorted
  <2> HIDE DEF s, nth
  <2> QED BY <1>2, <2>1
<1> HIDE DEF s, n
<1>4. s \in Seq(SignKeys)
  BY <1>1, <1>3
<1>5. <<a>> \in Seq(SignKeys) /\ Len(<<a>>) = 1 /\ <<a>>[1] = a
  OBVIOUS
<1>6. <<a>> \o s \in Seq(SignKeys) /\ Len(<<a>> \o s) = 1 + Len(s) /\ (<<a>> \o s)[1] = a
  BY <1>4, <1>5
<1>7. <<a>> \o s # <<>>
  BY <1>4, <1>6
<1> QED BY <1>6, <1>7 DEF s

\* A time that was cut to what the column keeps is kept.
LEMMA CutIsKept ==
    ASSUME NEW t \in Ticks
    PROVE  SignedAt(t) \in Ticks /\ Stored(SignedAt(t)) = SignedAt(t)
<1>1. t \in Nat /\ t <= MaxTick /\ MaxTick \in Nat /\ Micro \in Nat /\ Micro > 0
  BY HandoverAssumption DEF Ticks
<1> DEFINE q == t \div Micro
           r == t % Micro
           u == t - r
           p == u \div Micro
           z == u % Micro
<1>2. q \in Nat /\ r \in Nat /\ r < Micro /\ t = Micro * q + r
  BY <1>1
<1>3. u \in Nat /\ u <= t
  BY <1>1, <1>2
<1>4. p \in Nat /\ z \in Nat /\ z < Micro /\ u = Micro * p + z
  BY <1>1, <1>3
<1>5. u = Micro * q
  BY <1>1, <1>2
<1> HIDE DEF q, r, u, p, z
<1>6. z = Micro * (q - p)
  BY <1>1, <1>2, <1>4, <1>5
<1>7. q - p \in Int /\ (q - p >= 1 => Micro * (q - p) >= Micro) /\ (q - p <= 0 => Micro * (q - p) <= 0)
  <2>1. ASSUME NEW d \in Int PROVE (d >= 1 => Micro * d >= Micro) /\ (d <= 0 => Micro * d <= 0)
    BY <1>1
  <2>2. q - p \in Int
    BY <1>2, <1>4
  <2> QED BY <2>1, <2>2
<1>8. z = 0
  BY <1>1, <1>4, <1>6, <1>7
<1>9. u - z = u
  BY <1>3, <1>8
<1> QED BY <1>1, <1>3, <1>9 DEF Stored, SignedAt, Ticks, u, r, z

\* What the server signed, with the time as the column keeps it.
Signature(p, t) == [keyID |-> p.by, digest |-> p.pdf, signedAt |-> t, value |-> <<p.by, p.pdf, t>>]
Made(s, sealed) == s = NoSig \/ \E p \in sealed, t \in Ticks : Stored(t) = t /\ s = Signature(p, t)

Renderings == [pdf : 1 .. MaxVersions, by : SignKeys]
Halves == [pdf : 0 .. MaxVersions, sig : Sigs]
Handed == [report : Reports \cup {0}, pdf : 0 .. MaxVersions, sig : Sigs]
Bundles ==
    [phase : {"none", "listed", "stream"}, todo : SUBSET Reports, before : SUBSET Reports,
     names : SUBSET Reports, part : (Reports \cup {0}) \X (0 .. MaxVersions), out : SUBSET Handed]

KeysKnown == active \in SignKeys /\ retired \subseteq SignKeys /\ pem \in Seq(SignKeys)
FilesKnown ==
    /\ pdf \in [Reports -> 0 .. MaxVersions] /\ versions \in 0 .. MaxVersions
    /\ issued \subseteq Renderings /\ sigRow \in [Reports -> Sigs] /\ worker \in [Reports -> Halves]
    /\ \A r \in Reports : Made(sigRow[r], issued) /\ Made(worker[r].sig, issued)

\* What a client or a bundle holds, and what the bundle may still hold, with the databases its
\* reader is shown and what was issued.
HandKnown(h, sealed) == h \in Handed /\ Made(h.sig, sealed)
ZipKnown(z, shown, sealed) ==
    /\ z \in Bundles
    /\ (z.phase # "none" => shown \subseteq z.before) /\ (z.phase # "stream" => z.part = <<0, 0>>)
    /\ z.names \subseteq z.before /\ (z.part # <<0, 0>> => z.part[1] \in z.names)
    /\ \A p \in z.out : p.report \in z.before /\ Made(p.sig, sealed)

\* The invariant of evidence outside the house: every signature there is was made here.
HandoverInv ==
    /\ KeysKnown /\ FilesKnown /\ sees \subseteq Reports
    /\ HandKnown(hand, issued) /\ ZipKnown(zip, sees, issued)

\* A signature made once stays made.
LEMMA MadeGrows == ASSUME NEW s, NEW a, NEW b, a \subseteq b, Made(s, a) PROVE Made(s, b)
  BY DEF Made

\* Nobody holds anything at first.
LEMMA NothingHeld ==
    /\ NoSig \in Sigs /\ NoHalf \in Halves /\ NoHalf.sig = NoSig
    /\ \A sealed : \A shown \in SUBSET Reports : ZipKnown(NoZip, shown, sealed)
    /\ \A sealed : HandKnown(NoHand, sealed)
<1>1. 0 \in Ticks /\ 0 \in 0 .. MaxVersions
  BY HandoverAssumption DEF Ticks
<1>2. NoSig \in Sigs
  BY <1>1 DEF NoSig, Sigs
<1>3. NoHalf \in Halves /\ NoHalf.sig = NoSig
  BY <1>1, <1>2 DEF NoHalf, Halves
<1>4. NoZip \in Bundles
  BY <1>1 DEF NoZip, Bundles
<1>5. \A sealed : \A shown \in SUBSET Reports : ZipKnown(NoZip, shown, sealed)
  BY <1>4 DEF ZipKnown, NoZip
<1>6. \A sealed : HandKnown(NoHand, sealed)
  BY <1>1, <1>2 DEF HandKnown, NoHand, Handed, Made
<1> QED BY <1>2, <1>3, <1>5, <1>6

\* Nothing is signed at first.
LEMMA HandoverStart == HandoverInit => HandoverInv
<1> SUFFICES ASSUME HandoverInit PROVE HandoverInv
  OBVIOUS
<1>1. KeysKnown
  BY DEF HandoverInit, KeysKnown
<1>2. FilesKnown
  <2>1. \A r \in Reports : sigRow[r] = NoSig /\ worker[r].sig = NoSig
    BY NothingHeld DEF HandoverInit
  <2>2. 0 \in 0 .. MaxVersions
    BY HandoverAssumption
  <2>3. sigRow \in [Reports -> Sigs] /\ worker \in [Reports -> Halves]
        /\ pdf \in [Reports -> 0 .. MaxVersions]
    BY <2>2, NothingHeld DEF HandoverInit
  <2> QED BY <2>1, <2>2, <2>3 DEF HandoverInit, FilesKnown, Made
<1> QED BY <1>1, <1>2, NothingHeld DEF HandoverInit, HandoverInv

\* A new rendering with its signature.
LEMMA PutKeeps == ASSUME HandoverInv, NEW r \in Reports, Put(r) PROVE HandoverInv'
<1> DEFINE v == versions + 1
<1>1. PICK t \in Ticks :
        /\ worker' = [worker EXCEPT ![r] = [pdf |-> v, sig |-> Sign(v, SignedAt(t))]]
        /\ pdf' = [pdf EXCEPT ![r] = v]
        /\ issued' = issued \cup {[pdf |-> v, by |-> active]}
  BY DEF Put
<1>2. v \in 1 .. MaxVersions /\ versions' = v /\ UNCHANGED <<active, retired, pem, sigRow, sees, zip, hand>>
  BY HandoverAssumption DEF Put, keyVars, HandoverInv, FilesKnown
<1> DEFINE p == [pdf |-> v, by |-> active]
           u == SignedAt(t)
           h == [pdf |-> v, sig |-> Sign(v, u)]
<1>3. u \in Ticks /\ Stored(u) = u
  BY CutIsKept
<1>4. p \in Renderings /\ Sign(v, u) = Signature(p, u)
  BY <1>2 DEF Renderings, Sign, Signature, HandoverInv, KeysKnown
<1>5. Sign(v, u) \in Sigs
  BY <1>2, <1>3 DEF Sign, Sigs, HandoverInv, KeysKnown
<1>6. h \in Halves /\ h.sig = Sign(v, u)
  BY <1>2, <1>5 DEF Halves
<1>7. Made(h.sig, issued')
  BY <1>1, <1>3, <1>4, <1>6 DEF Made
<1>8. worker' = [worker EXCEPT ![r] = h] /\ pdf' = [pdf EXCEPT ![r] = v] /\ issued' = issued \cup {p}
  BY <1>1
<1> HIDE DEF h, u, p, v
<1>9. issued \subseteq issued' /\ issued' \subseteq Renderings
  BY <1>4, <1>8 DEF HandoverInv, FilesKnown
<1>10. FilesKnown'
  <2>1. worker' \in [Reports -> Halves] /\ \A x \in Reports : worker'[x] = IF x = r THEN h ELSE worker[x]
    BY <1>6, <1>8 DEF HandoverInv, FilesKnown
  <2>2. ASSUME NEW x \in Reports PROVE Made(sigRow[x], issued') /\ Made(worker'[x].sig, issued')
    <3>1. Made(sigRow[x], issued')
      BY <1>9, MadeGrows DEF HandoverInv, FilesKnown
    <3>2. CASE x = r
      BY <1>7, <2>1, <3>1, <3>2
    <3>3. CASE x # r
      <4>1. worker'[x] = worker[x] /\ Made(worker[x].sig, issued)
        BY <2>1, <3>3 DEF HandoverInv, FilesKnown
      <4>2. Made(worker[x].sig, issued')
        BY <4>1, <1>9, MadeGrows
      <4> QED BY <3>1, <4>1, <4>2
    <3> QED BY <3>2, <3>3
  <2>3. pdf' \in [Reports -> 0 .. MaxVersions] /\ versions' \in 0 .. MaxVersions
    <3>1. v \in 0 .. MaxVersions
      BY <1>2
    <3> QED BY <1>2, <1>8, <3>1 DEF HandoverInv, FilesKnown
  <2> QED BY <1>2, <1>9, <2>1, <2>2, <2>3 DEF HandoverInv, FilesKnown
<1>11. HandKnown(hand, issued')
  BY <1>9, MadeGrows DEF HandoverInv, HandKnown
<1>12. ZipKnown(zip, sees, issued')
  <2>1. ASSUME NEW x \in zip.out PROVE Made(x.sig, issued')
    BY <1>9, MadeGrows DEF HandoverInv, ZipKnown
  <2> QED BY <2>1 DEF HandoverInv, ZipKnown
<1> QED BY <1>2, <1>10, <1>11, <1>12 DEF HandoverInv, KeysKnown

\* The other steps of the files issue nothing.
LEMMA RecordKeeps == ASSUME HandoverInv, NEW r \in Reports, RecordSignature(r) PROVE HandoverInv'
<1> DEFINE s == worker[r].sig
           k == [s EXCEPT !.signedAt = Stored(s.signedAt)]
<1>1. worker[r] \in Halves /\ s \in Sigs /\ Made(s, issued)
  BY DEF HandoverInv, FilesKnown, Halves
<1>2. UNCHANGED <<active, retired, pem, pdf, versions, issued, sees, zip, hand>>
      /\ worker' = [worker EXCEPT ![r] = NoHalf]
      /\ (sigRow' = [sigRow EXCEPT ![r] = k] \/ sigRow' = sigRow)
  BY DEF RecordSignature, keyVars
<1>3. k = s
  <2>1. Stored(s.signedAt) = s.signedAt
    <3>1. CASE s = NoSig
      <4>1. s.signedAt = 0
        BY <3>1 DEF NoSig
      <4>2. 0 - (0 % Micro) = 0
        BY HandoverAssumption
      <4> QED BY <4>1, <4>2 DEF Stored
    <3>2. CASE s # NoSig
      <4> HIDE DEF s
      <4>1. PICK p \in issued, t \in Ticks : Stored(t) = t /\ s = Signature(p, t)
        BY <1>1, <3>2 DEF Made
      <4>2. s.signedAt = t
        BY <4>1 DEF Signature
      <4> QED BY <4>1, <4>2
    <3> QED BY <3>1, <3>2
  <2> HIDE DEF s
  <2> QED BY <1>1, <2>1 DEF Sigs
<1> HIDE DEF k, s
<1>4. /\ worker' \in [Reports -> Halves] /\ sigRow' \in [Reports -> Sigs]
      /\ \A x \in Reports : Made(sigRow'[x], issued) /\ Made(worker'[x].sig, issued)
  <2>1. worker' \in [Reports -> Halves]
        /\ \A x \in Reports : worker'[x] = NoHalf \/ worker'[x] = worker[x]
    BY <1>2, NothingHeld DEF HandoverInv, FilesKnown
  <2>2. sigRow' \in [Reports -> Sigs] /\ \A x \in Reports : sigRow'[x] = s \/ sigRow'[x] = sigRow[x]
    BY <1>1, <1>2, <1>3 DEF HandoverInv, FilesKnown
  <2>3. Made(NoSig, issued)
    BY DEF Made
  <2>4. ASSUME NEW x \in Reports PROVE Made(sigRow'[x], issued) /\ Made(worker'[x].sig, issued)
    <3>1. Made(sigRow[x], issued) /\ Made(worker[x].sig, issued)
      BY DEF HandoverInv, FilesKnown
    <3>2. Made(sigRow'[x], issued)
      BY <1>1, <2>2, <3>1
    <3>3. worker'[x].sig = NoSig \/ worker'[x] = worker[x]
      BY <2>1, NothingHeld
    <3> QED BY <2>3, <3>1, <3>2, <3>3
  <2> QED BY <2>1, <2>2, <2>4
<1> QED BY <1>2, <1>4 DEF HandoverInv, KeysKnown, FilesKnown

\* A rotation of the signing key (NewSignerWithVerificationKeys).
LEMMA RotationKeeps == ASSUME HandoverInv, NewSignerWithVerificationKeys PROVE HandoverInv'
<1>1. /\ UNCHANGED <<pem, pdf, sigRow, versions, issued, sees, hand>>
      /\ worker' = [r \in Reports |-> NoHalf] /\ zip' = NoZip
      /\ active' \in SignKeys /\ retired' \subseteq SignKeys
  BY DEF NewSignerWithVerificationKeys, HandoverInv, KeysKnown
<1>2. worker' \in [Reports -> Halves] /\ \A r \in Reports : worker'[r].sig = NoSig
  BY <1>1, NothingHeld
<1>3. FilesKnown'
  <2>1. \A r \in Reports : Made(worker'[r].sig, issued)
    BY <1>2 DEF Made
  <2> QED BY <1>1, <1>2, <2>1 DEF HandoverInv, FilesKnown
<1> QED BY <1>1, <1>3, NothingHeld DEF HandoverInv, KeysKnown

\* The page of the public keys (evidenceSigningKeys).
LEMMA KeysTakenKeeps == ASSUME HandoverInv, evidenceSigningKeys PROVE HandoverInv'
<1>1. AllPublicKeysPEM \in Seq(SignKeys)
  <2>1. VerificationKeys \ {active} \in SUBSET SignKeys /\ active \in SignKeys
    BY DEF HandoverInv, KeysKnown, VerificationKeys
  <2> QED BY <2>1, KeysInOrder DEF AllPublicKeysPEM
<1> QED BY <1>1 DEF evidenceSigningKeys, HandoverInv, KeysKnown, FilesKnown, keyVars, fileVars

\* What is handed out is what is stored.
LEMMA HandStep ==
    ASSUME HandoverInv, NEW r \in Reports, v1GetEvidence(r) \/ v1GetSignature(r)
    PROVE  HandoverInv'
<1>1. UNCHANGED <<active, retired, pem, pdf, sigRow, worker, versions, issued, sees, zip>>
      /\ (hand' = [hand EXCEPT !.report = r, !.pdf = pdf[r]]
          \/ hand' = [hand EXCEPT !.report = r, !.sig = sigRow[r]])
  BY DEF v1GetEvidence, v1GetSignature, keyVars, fileVars
<1>2. /\ pdf[r] \in 0 .. MaxVersions /\ sigRow[r] \in Sigs /\ Made(sigRow[r], issued)
      /\ hand \in Handed /\ Made(hand.sig, issued)
  BY DEF HandoverInv, FilesKnown, HandKnown
<1>3. hand' \in Handed /\ (hand'.sig = hand.sig \/ hand'.sig = sigRow[r])
  BY <1>1, <1>2 DEF Handed
<1>4. HandKnown(hand', issued)
  BY <1>2, <1>3 DEF HandKnown
<1> QED BY <1>1, <1>4 DEF HandoverInv, KeysKnown, FilesKnown

\* A step of the bundle.
LEMMA ZipStep ==
    ASSUME HandoverInv, ZipKnown(zip', sees', issued), sees' \subseteq Reports,
           UNCHANGED <<active, retired, pem, pdf, sigRow, worker, versions, issued, hand>>
    PROVE  HandoverInv'
  BY DEF HandoverInv, KeysKnown, FilesKnown

\* The PDF of a report goes into the archive.
LEMMA BundlePDFKeeps == ASSUME HandoverInv, NEW r \in Reports, BundlePDF(r) PROVE HandoverInv'
<1>1. /\ UNCHANGED <<active, retired, pem, pdf, sigRow, worker, versions, issued, hand, sees>>
      /\ zip.phase = "stream"
      /\ \/ zip' = [zip EXCEPT !.part = <<r, pdf[r]>>] /\ r \in zip.names
         \/ zip' = [zip EXCEPT !.todo = zip.todo \ {r}]
  BY DEF BundlePDF, keyVars, fileVars
<1>2. zip \in Bundles /\ ZipKnown(zip, sees, issued) /\ pdf[r] \in 0 .. MaxVersions
  BY DEF HandoverInv, ZipKnown, FilesKnown
<1>3. CASE zip' = [zip EXCEPT !.part = <<r, pdf[r]>>] /\ r \in zip.names
  <2>1. zip' \in Bundles /\ zip'.part[1] = r /\ zip'.phase = zip.phase /\ zip'.before = zip.before
        /\ zip'.names = zip.names /\ zip'.out = zip.out
    BY <1>2, <1>3 DEF Bundles
  <2>2. ZipKnown(zip', sees', issued)
    BY <1>1, <1>2, <1>3, <2>1 DEF ZipKnown
  <2> QED BY <1>1, <2>2, ZipStep DEF HandoverInv
<1>4. CASE zip' = [zip EXCEPT !.todo = zip.todo \ {r}]
  <2>1. zip' \in Bundles /\ zip'.part = zip.part /\ zip'.phase = zip.phase /\ zip'.before = zip.before
        /\ zip'.names = zip.names /\ zip'.out = zip.out
    BY <1>2, <1>4 DEF Bundles
  <2>2. ZipKnown(zip', sees', issued)
    BY <1>1, <1>2, <2>1 DEF ZipKnown
  <2> QED BY <1>1, <2>2, ZipStep DEF HandoverInv
<1> QED BY <1>1, <1>3, <1>4

\* Its signature does.
LEMMA BundleSignatureKeeps == ASSUME HandoverInv, BundleSignature PROVE HandoverInv'
<1> DEFINE r == zip.part[1]
<1>1. PICK sig \in {sigRow[r], NoSig} :
        zip' = [zip EXCEPT !.part = <<0, 0>>, !.todo = zip.todo \ {r},
                    !.out = zip.out \cup {[report |-> r, pdf |-> zip.part[2], sig |-> sig]}]
  BY DEF BundleSignature
<1>2. zip.phase = "stream" /\ zip.part # <<0, 0>>
      /\ UNCHANGED <<active, retired, pem, pdf, sigRow, worker, versions, issued, hand, sees>>
  BY DEF BundleSignature, keyVars, fileVars
<1>3. zip \in Bundles /\ ZipKnown(zip, sees, issued)
  BY DEF HandoverInv, ZipKnown
<1>4. r \in zip.names /\ r \in Reports /\ r \in zip.before /\ zip.part[2] \in 0 .. MaxVersions
  BY <1>2, <1>3 DEF ZipKnown, Bundles
<1>5. sig \in Sigs /\ Made(sig, issued)
  BY <1>4, NothingHeld DEF HandoverInv, FilesKnown, Made
<1> DEFINE h == [report |-> r, pdf |-> zip.part[2], sig |-> sig]
<1>6. h \in Handed /\ h.report = r /\ h.sig = sig
  BY <1>4, <1>5 DEF Handed
<1>7. zip' = [zip EXCEPT !.part = <<0, 0>>, !.todo = zip.todo \ {r}, !.out = zip.out \cup {h}]
  BY <1>1
<1> HIDE DEF h, r
<1>8. zip' \in Bundles /\ zip'.part = <<0, 0>> /\ zip'.phase = zip.phase /\ zip'.before = zip.before
      /\ zip'.names = zip.names /\ zip'.out = zip.out \cup {h}
  <2>1. <<0, 0>> \in (Reports \cup {0}) \X (0 .. MaxVersions)
    BY HandoverAssumption
  <2> QED BY <1>3, <1>6, <1>7, <2>1 DEF Bundles
<1>9. ZipKnown(zip', sees', issued)
  <2>1. ASSUME NEW p \in zip'.out PROVE p.report \in zip'.before /\ Made(p.sig, issued)
    BY <1>3, <1>4, <1>5, <1>6, <1>8 DEF ZipKnown
  <2> QED BY <1>2, <1>3, <1>8, <2>1 DEF ZipKnown
<1> QED BY <1>2, <1>9, ZipStep DEF HandoverInv

\* The bundle is begun, listed, or a report is taken out of its reader's scope.
LEMMA BundleKeeps ==
    ASSUME HandoverInv, evidenceBundle \/ ListNames \/ (\E r \in Reports : Unassign(r))
    PROVE  HandoverInv'
<1>1. zip \in Bundles /\ ZipKnown(zip, sees, issued) /\ sees \subseteq Reports
  BY DEF HandoverInv, ZipKnown
<1>2. CASE evidenceBundle
  <2> DEFINE t == {r \in Reports : pdf[r] # 0}
  <2>1. /\ UNCHANGED <<active, retired, pem, pdf, sigRow, worker, versions, issued, hand, sees>>
        /\ zip' = [NoZip EXCEPT !.phase = "listed", !.before = sees, !.todo = t]
    BY <1>2 DEF evidenceBundle, keyVars, fileVars
  <2>2. zip' = [phase |-> "listed", todo |-> t, before |-> sees, names |-> {}, part |-> <<0, 0>>,
                out |-> {}]
    BY <2>1 DEF NoZip
  <2>3. <<0, 0>> \in (Reports \cup {0}) \X (0 .. MaxVersions)
    BY HandoverAssumption
  <2>4. zip' \in Bundles
    BY <1>1, <2>2, <2>3 DEF Bundles
  <2>5. ZipKnown(zip', sees', issued)
    <3>1. /\ zip'.phase = "listed" /\ zip'.before = sees /\ zip'.names = {} /\ zip'.part = <<0, 0>>
          /\ zip'.out = {} /\ sees' = sees
      <4> HIDE DEF t
      <4>1. sees' = sees
        BY <2>1
      <4>2. /\ zip'.phase = "listed" /\ zip'.before = sees /\ zip'.names = {} /\ zip'.part = <<0, 0>>
            /\ zip'.out = {}
        BY <2>2
      <4> QED BY <4>1, <4>2
    <3> QED BY <2>4, <3>1 DEF ZipKnown
  <2> QED BY <1>1, <2>1, <2>5, ZipStep
<1>3. CASE ListNames
  <2>1. PICK names \in {sees, NamesUnread} : zip' = [zip EXCEPT !.phase = "stream", !.names = names]
    BY <1>3 DEF ListNames
  <2>2. zip.phase = "listed"
        /\ UNCHANGED <<active, retired, pem, pdf, sigRow, worker, versions, issued, hand, sees>>
    BY <1>3 DEF ListNames, keyVars, fileVars
  <2>3. names \subseteq sees
    BY DEF NamesUnread
  <2>4. zip' \in Bundles /\ zip'.part = zip.part /\ zip'.before = zip.before
        /\ zip'.names = names /\ zip'.out = zip.out
    BY <1>1, <2>1, <2>3 DEF Bundles
  <2>5. ZipKnown(zip', sees', issued)
    BY <1>1, <2>2, <2>3, <2>4 DEF ZipKnown
  <2> QED BY <1>1, <2>2, <2>5, ZipStep
<1>4. ASSUME NEW r \in Reports, Unassign(r) PROVE HandoverInv'
  <2>1. UNCHANGED <<active, retired, pem, pdf, sigRow, worker, versions, issued, hand, zip>>
        /\ sees' \subseteq sees
    BY <1>4 DEF Unassign, keyVars, fileVars
  <2>2. ZipKnown(zip', sees', issued)
    BY <1>1, <2>1 DEF ZipKnown
  <2> QED BY <1>1, <2>1, <2>2, ZipStep
<1> QED BY <1>2, <1>3, <1>4

\* One case for each action of the handover.
LEMMA HandoverStep == HandoverInv /\ [HandoverNext]_handVars => HandoverInv'
<1> SUFFICES ASSUME HandoverInv, [HandoverNext]_handVars PROVE HandoverInv'
  OBVIOUS
<1>1. ASSUME NEW r \in Reports, Purge(r) PROVE HandoverInv'
  <2>1. UNCHANGED <<active, retired, pem, sigRow, worker, versions, issued, sees, zip, hand>>
        /\ pdf' = [pdf EXCEPT ![r] = 0]
    BY <1>1 DEF Purge, keyVars
  <2>2. pdf' \in [Reports -> 0 .. MaxVersions]
    <3>1. 0 \in 0 .. MaxVersions
      BY HandoverAssumption
    <3> QED BY <2>1, <3>1 DEF HandoverInv, FilesKnown
  <2> QED BY <2>1, <2>2 DEF HandoverInv, KeysKnown, FilesKnown
<1>2. CASE UNCHANGED handVars
  BY <1>2 DEF handVars, keyVars, fileVars, HandoverInv, KeysKnown, FilesKnown
<1> QED BY <1>1, <1>2, PutKeeps, RecordKeeps, RotationKeeps, KeysTakenKeeps, HandStep, BundlePDFKeeps,
        BundleSignatureKeeps, BundleKeeps DEF HandoverNext

\* What is accepted under a key was made with it: nobody else has a value of it.
LEMMA AcceptedIsIssued ==
    ASSUME HandoverInv, NEW v \in 1 .. MaxVersions, NEW sig \in Forgeries, NEW k \in SignKeys,
           sig.keyID = k, Verify(k, v, sig)
    PROVE  [pdf |-> v, by |-> k] \in issued
<1> DEFINE x == sig.value
           foreign == {<<Outsider, n, t>> : n \in 1 .. MaxVersions, t \in Ticks}
<1>1. x = <<k, v, sig.signedAt>> /\ x[1] = k /\ x[2] = v /\ x # <<>>
  BY DEF Verify
<1>2. \/ \E p \in Held : x = p.sig.value
      \/ \E r \in Reports : x = sigRow[r].value
      \/ x \in foreign
  BY DEF Forgeries
<1>3. x \notin foreign
  <2>1. SUFFICES ASSUME NEW n, NEW t, x = <<Outsider, n, t>> PROVE FALSE
    OBVIOUS
  <2> QED BY <1>1, <2>1, HandoverAssumption
<1>4. \E s : Made(s, issued) /\ x = s.value
  <2>1. CASE \E p \in Held : x = p.sig.value
    <3>1. PICK p \in Held : x = p.sig.value
      BY <2>1
    <3>2. Made(p.sig, issued)
      BY DEF Held, HandoverInv, HandKnown, ZipKnown
    <3> QED BY <3>1, <3>2
  <2>2. CASE \E r \in Reports : x = sigRow[r].value
    BY <2>2 DEF HandoverInv, FilesKnown
  <2> QED BY <1>2, <1>3, <2>1, <2>2
<1>5. PICK s : Made(s, issued) /\ x = s.value
  BY <1>4
<1>6. PICK p \in issued, t \in Ticks : s = Signature(p, t)
  <2>1. s.value # <<>>
    BY <1>1, <1>5
  <2>2. NoSig.value = <<>>
    BY DEF NoSig
  <2>3. s # NoSig
    BY <2>1, <2>2
  <2> QED BY <1>5, <2>3 DEF Made
<1>7. x = <<p.by, p.pdf, t>>
  BY <1>5, <1>6 DEF Signature
<1>8. p.by = k /\ p.pdf = v /\ p \in Renderings
  BY <1>1, <1>6, <1>7 DEF HandoverInv, FilesKnown
<1> QED BY <1>6, <1>8 DEF Renderings

\* What the invariant says of signatures, keys and bundles is HandoverSafe.
LEMMA HandoverImplies == HandoverInv => HandoverSafe
<1> SUFFICES ASSUME HandoverInv PROVE HandoverSafe
  OBVIOUS
<1>1. HandoverTypeOK
  <2>1. ASSUME NEW r \in Reports PROVE {sigRow[r], worker[r].sig, hand.sig} \subseteq Sigs
    BY DEF HandoverInv, FilesKnown, HandKnown, Handed, Halves
  <2>2. zip.todo \subseteq Reports /\ zip.names \subseteq Reports
    BY DEF HandoverInv, ZipKnown, Bundles
  <2> QED BY <2>1, <2>2 DEF HandoverTypeOK, HandoverInv, KeysKnown, FilesKnown
<1>2. Genuine
  <2>1. SUFFICES ASSUME NEW v \in 1 .. MaxVersions, NEW sig \in Forgeries,
                        verifyEvidence(v, sig) \/ dokazVerify(pem, v, sig)
                 PROVE  [pdf |-> v, by |-> sig.keyID] \in issued
    BY DEF Genuine
  <2>2. sig.keyID \in SignKeys /\ Verify(sig.keyID, v, sig)
    <3>1. CASE verifyEvidence(v, sig)
      BY <3>1 DEF verifyEvidence, VerificationKeys, HandoverInv, KeysKnown
    <3>2. CASE dokazVerify(pem, v, sig)
      <4>1. pem \in Seq(SignKeys) /\ pem # <<>>
        BY <3>2 DEF dokazVerify, HandoverInv, KeysKnown
      <4>2. pem[1] \in SignKeys
        BY <4>1
      <4> QED BY <3>2, <4>2 DEF dokazVerify
    <3> QED BY <2>1, <3>1, <3>2
  <2> QED BY <2>2, AcceptedIsIssued
<1>3. ASSUME NEW p \in Held, p.sig # NoSig, p.pdf = p.sig.digest PROVE Verify(p.sig.keyID, p.pdf, p.sig)
  <2>1. Made(p.sig, issued)
    BY DEF Held, HandoverInv, HandKnown, ZipKnown
  <2>2. PICK q \in issued, t \in Ticks : p.sig = Signature(q, t)
    BY <1>3, <2>1 DEF Made
  <2>3. /\ p.sig.keyID = q.by /\ p.sig.digest = q.pdf /\ p.sig.signedAt = t
        /\ p.sig.value = <<q.by, q.pdf, t>>
    BY <2>2 DEF Signature
  <2> QED BY <1>3, <2>3 DEF Verify
<1>4. HandedOutVerifies
  BY <1>3 DEF HandedOutVerifies, verifyEvidence
<1>5. PublishedVerifies
  <2>1. SUFFICES ASSUME NEW p \in Held, p.sig # NoSig, p.pdf = p.sig.digest, p.sig.keyID = active,
                        pem = AllPublicKeysPEM
                 PROVE  dokazVerify(pem, p.pdf, p.sig)
    BY DEF PublishedVerifies
  <2>2. pem # <<>> /\ pem[1] = active
    <3>1. VerificationKeys \ {active} \in SUBSET SignKeys /\ active \in SignKeys
      BY DEF HandoverInv, KeysKnown, VerificationKeys
    <3> QED BY <2>1, <3>1, KeysInOrder DEF AllPublicKeysPEM
  <2> QED BY <1>3, <2>1, <2>2 DEF dokazVerify
<1>6. BundleInScope
  BY DEF HandoverInv, ZipKnown, BundleInScope
<1> QED BY <1>1, <1>2, <1>4, <1>5, <1>6 DEF HandoverSafe

\* Finalize, verifyEvidence, dokaz-verify and evidenceBundle: what verifies was signed here; what
\* was handed out verifies online while the server keeps its key, and offline with the published
\* keys if its key is in use; and a bundle holds what its reader may see.
THEOREM EvidenceTravels == HandoverSpec => []HandoverSafe
<1> QED BY HandoverStart, HandoverStep, HandoverImplies, PTL DEF HandoverSpec

-----------------------------------------------------------------------------
(* The checks.  A verdict is what the last statement of the plan made of the *)
(* restored database, and an error leaves it undecided.                      *)

\* A finite set of numbers has a largest one: numbered from the largest on, its members
\* would have fewer numbers than they are.
LEMMA Largest ==
    ASSUME NEW S \in SUBSET Int, IsFiniteSet(S), S # {}
    PROVE  \E m \in S : \A k \in S : k <= m
<1> DEFINE above(x) == {y \in S : y > x}
           k == Cardinality(S)
           place == [x \in S |-> Cardinality(above(x))]
<1>1. k \in Nat /\ k # 0
  BY FS_CardinalityType, FS_EmptySet
<1>2. ASSUME NEW x \in S PROVE Cardinality(above(x)) \in Nat /\ IsFiniteSet(above(x))
  <2>1. above(x) \in SUBSET S
    OBVIOUS
  <2> HIDE DEF above
  <2> QED BY <2>1, FS_Subset, FS_CardinalityType
<1>3. ASSUME NEW x \in S, NEW y \in S, x < y PROVE Cardinality(above(y)) < Cardinality(above(x))
  <2>1. above(y) \in SUBSET above(x) /\ y \in above(x) /\ y \notin above(y)
    <3>1. x \in Int /\ y \in Int /\ \A z \in S : z \in Int
      OBVIOUS
    <3>2. ASSUME NEW z \in above(y) PROVE z \in above(x)
      <4>1. z \in S /\ z > y /\ z \in Int
        BY <3>1
      <4> QED BY <1>3, <3>1, <4>1
    <3>3. y > x /\ ~(y > y)
      BY <1>3, <3>1
    <3> QED BY <3>2, <3>3
  <2> HIDE DEF above
  <2>2. Cardinality(above(y)) <= Cardinality(above(x)) /\ Cardinality(above(y)) # Cardinality(above(x))
    BY <2>1, <1>2, FS_Subset
  <2> QED BY <1>2, <2>2
<1>4. PICK x \in S : above(x) = {}
  <2> SUFFICES ASSUME \A x \in S : above(x) # {} PROVE FALSE
    OBVIOUS
  <2>1. ASSUME NEW x \in S PROVE Cardinality(above(x)) \in 1 .. (k - 1)
    <3>1. above(x) \in SUBSET S /\ x \notin above(x) /\ above(x) # {}
      OBVIOUS
    <3> HIDE DEF above
    <3>2. Cardinality(above(x)) <= k /\ Cardinality(above(x)) # k /\ Cardinality(above(x)) # 0
      BY <3>1, <1>2, FS_Subset, FS_EmptySet
    <3> QED BY <3>2, <1>1, <1>2
  <2>2. place \in [S -> 1 .. (k - 1)]
    <3> HIDE DEF above
    <3> QED BY <2>1
  <2>3. IsFiniteSet(1 .. (k - 1)) /\ Cardinality(1 .. (k - 1)) < k
    <3>1. 1 \in Int /\ k - 1 \in Int
      BY <1>1
    <3>2. IsFiniteSet(1 .. (k - 1)) /\ Cardinality(1 .. (k - 1)) = IF 1 > k - 1 THEN 0 ELSE (k - 1) - 1 + 1
      BY <3>1, FS_Interval
    <3> QED BY <3>2, <1>1
  <2>4. \A x, y \in S : x # y => place[x] # place[y]
    <3> SUFFICES ASSUME NEW x \in S, NEW y \in S, x # y PROVE Cardinality(above(x)) # Cardinality(above(y))
      OBVIOUS
    <3>1. x < y \/ y < x
      OBVIOUS
    <3> HIDE DEF above
    <3> QED BY <3>1, <1>2, <1>3
  <2> HIDE DEF place
  <2>5. \E x, y \in S : x # y /\ place[x] = place[y]
    BY <2>2, <2>3, FS_PigeonHole
  <2> QED BY <2>4, <2>5
<1> QED BY <1>4

\* The end of a query's text.
LEMMA BodyEnd ==
    ASSUME NEW n \in Nat, NEW q \in [1 .. n -> Tokens]
    PROVE  LET text == {i \in DOMAIN q : q[i] # " "}
               end == IF text = {} THEN 0 ELSE CHOOSE i \in text : \A k \in text : k <= i
           IN  /\ end \in 0 .. n /\ \A i \in text : i <= end
               /\ Body(q) = SubSeq(q, 1, IF end > 0 /\ q[end] = ";" THEN end - 1 ELSE end)
<1> DEFINE text == {i \in DOMAIN q : q[i] # " "}
           end == IF text = {} THEN 0 ELSE CHOOSE i \in text : \A k \in text : k <= i
<1>1. text \in SUBSET (1 .. n) /\ text \in SUBSET Int
  <2>1. DOMAIN q = 1 .. n
    OBVIOUS
  <2>2. text \in SUBSET (1 .. n)
    BY <2>1
  <2>3. \A i \in 1 .. n : i \in Int
    OBVIOUS
  <2> HIDE DEF text
  <2> QED BY <2>2, <2>3
<1>2. IsFiniteSet(text)
  <2>1. IsFiniteSet(1 .. n)
    BY FS_Interval
  <2> HIDE DEF text
  <2> QED BY <1>1, <2>1, FS_Subset
<1>3. text # {} => end \in text /\ \A i \in text : i <= end
  <2> HIDE DEF text
  <2> QED BY <1>1, <1>2, Largest
<1>4. end \in 0 .. n /\ \A i \in text : i <= end
  <2>1. CASE text = {}
    <3>1. end = 0 BY <2>1
    <3> HIDE DEF text, end
    <3> QED BY <2>1, <3>1
  <2>2. CASE text # {}
    <3>1. end \in text /\ end \in 1 .. n
      <4> HIDE DEF text, end
      <4> QED BY <2>2, <1>1, <1>3
    <3> HIDE DEF text, end
    <3> QED BY <2>2, <1>3, <3>1
  <2> QED BY <2>1, <2>2
<1> QED BY <1>4 DEF Body

\* A query that passes the check is one statement.
OneStatement(q) ==
    /\ \A i \in DOMAIN q : q[i] # "DELETE"
    /\ ~ \E i, k \in DOMAIN q, j \in DOMAIN q :
            i < j /\ j < k /\ q[j] = ";" /\ {q[i], q[k]} \cap {";", " "} = {}

\* A query that passes validateReadOnlySQL is one read-only statement.
LEMMA CheckedIsOne ==
    ASSUME NEW q \in Queries, validateReadOnlySQL(q)
    PROVE  OneStatement(q)
<1>1. PICK n \in 0 .. MaxTokens : q \in [1 .. n -> Tokens]
  BY DEF Queries
<1> DEFINE text == {i \in DOMAIN q : q[i] # " "}
           end == IF text = {} THEN 0 ELSE CHOOSE i \in text : \A k \in text : k <= i
           last == IF end > 0 /\ q[end] = ";" THEN end - 1 ELSE end
<1>2. n \in Nat
  BY CheckAssumption
<1>3. /\ end \in 0 .. n /\ \A i \in text : i <= end
      /\ Body(q) = SubSeq(q, 1, last)
  BY <1>1, <1>2, BodyEnd
<1>4. ASSUME NEW i \in DOMAIN q, NEW k \in DOMAIN q, NEW j \in DOMAIN q,
             i < j, j < k, q[j] = ";", {q[i], q[k]} \cap {";", " "} = {}
      PROVE  FALSE
  <2>1. q[k] # " " /\ q[k] # ";" /\ DOMAIN q = 1 .. n
    BY <1>1, <1>4
  <2>2. k \in text
    BY <1>4, <2>1
  <2>3. end \in 0 .. n /\ k <= end
    BY <1>3, <2>2
  <2> HIDE DEF text, end
  <2>4. n \in Int /\ end \in Int /\ i \in Int /\ j \in Int /\ k \in Int /\ j >= 1 /\ end <= n /\ end >= 0
    <3>1. i \in 1 .. n /\ j \in 1 .. n /\ k \in 1 .. n
      BY <2>1
    <3>2. end \in 0 .. n
      BY <2>3
    <3> QED BY ONLY <1>2, <3>1, <3>2
  <2>5. last \in Int /\ k <= last /\ last <= n
    <3>1. CASE end > 0 /\ q[end] = ";"
      <4>1. k # end
        BY <2>1, <3>1
      <4>2. last = end - 1
        BY <3>1
      <4> HIDE DEF last
      <4> QED BY <2>3, <2>4, <4>1, <4>2
    <3>2. CASE ~(end > 0 /\ q[end] = ";")
      <4>1. last = end
        BY <3>2
      <4> HIDE DEF last
      <4> QED BY <2>3, <2>4, <4>1
    <3> QED BY <3>1, <3>2
  <2> HIDE DEF last
  <2>6. j \in 1 .. last /\ last >= 1
    <3>1. j < k
      BY <1>4
    <3> QED BY ONLY <2>4, <2>5, <3>1
  <2>7. q \in Seq(Tokens) /\ Len(q) = n
    BY <1>1, <1>2
  <2>8. j \in DOMAIN SubSeq(q, 1, last) /\ SubSeq(q, 1, last)[j] = q[j]
    <3>1. 1 \in 1 .. Len(q) + 1 /\ last \in 0 .. Len(q)
      BY <1>2, <2>5, <2>6, <2>7
    <3>2. SubSeq(q, 1, last) = [x \in 1 .. (last - 1 + 1) |-> q[1 + x - 1]]
      BY <2>4, <2>5, <2>6, <2>7
    <3>3. last - 1 + 1 = last /\ 1 + j - 1 = j
      BY <2>4, <2>5
    <3> QED BY <2>6, <3>2, <3>3
  <2>9. hasMultipleStatements(q)
    BY <1>3, <1>4, <2>8 DEF hasMultipleStatements
  <2> QED BY <2>9 DEF validateReadOnlySQL
<1>5. \A i \in DOMAIN q : q[i] # "DELETE"
  BY DEF validateReadOnlySQL
<1> QED BY <1>4, <1>5 DEF OneStatement

-----------------------------------------------------------------------------
\* No query at all is a query in the model.
LEMMA EmptyQuery == <<>> \in Queries /\ OneStatement(<<>>)
<1>1. <<>> \in [1 .. 0 -> Tokens]
  OBVIOUS
<1>2. 0 \in 0 .. MaxTokens
  BY CheckAssumption
<1>3. <<>> \in Queries
  BY <1>1, <1>2 DEF Queries
<1> QED BY <1>3 DEF OneStatement

\* What a configuration's number can be, and what intVal makes of it.
LEMMA NumbersKnown ==
    /\ Absent \in Numbers /\ Text \in Numbers /\ [is |-> "number", n |-> 1] \in Numbers
    /\ \A v \in Numbers : v.is \in {"absent", "text", "number"} /\ v.n \in Int
    /\ \A v \in Numbers : v # Text => intVal(v) = v.n
    /\ \A v \in Numbers : intVal(v) \in Int
  BY CheckAssumption DEF Numbers, Absent, Text, intVal

\* A specification that has been accepted, or none.
SpecKnown ==
    /\ spec \in [kind : AssertKinds \cup {""}, config : Configs]
    /\ OneStatement(spec.config.query)
    /\ checking \in {"stored", "ran", "error"} => ValidateConfig(spec.kind, spec.config)

\* The invariant of an assertion.
ChecksInv ==
    /\ SpecKnown /\ restored \in RestoredDbs
    /\ checking \in {"asked", "stored", "refused", "ran", "error"}
    /\ outcome \in [passed : BOOLEAN, seen : 0..MaxRows, truncated : BOOLEAN]
    /\ outcome.truncated => outcome.seen > RowCap
    /\ VerdictIsTrue

\* What is stored was validated, and a verdict is of what ran.
LEMMA ChecksImplies == ChecksInv => ChecksSafe
<1> SUFFICES ASSUME ChecksInv PROVE ChecksSafe
  OBVIOUS
<1>1. spec.kind \in AssertKinds \cup {""} /\ spec.config \in Configs
  BY DEF ChecksInv, SpecKnown
<1>2. CheckTypeOK
  BY <1>1 DEF ChecksInv, CheckTypeOK
<1>3. AcceptedRuns /\ VerdictIsTrue
  BY DEF ChecksInv, AcceptedRuns
<1>4. OneReadOnlyStatement
  BY DEF ChecksInv, SpecKnown, OneReadOnlyStatement, OneStatement
<1> QED BY <1>2, <1>3, <1>4 DEF ChecksSafe

\* No assertion at first.
LEMMA ChecksStart == CheckInit => ChecksInv
<1> SUFFICES ASSUME CheckInit PROVE ChecksInv
  OBVIOUS
<1>1. Blank \in Configs /\ Blank.query = <<>>
  BY EmptyQuery, NumbersKnown DEF Blank, Configs, Idents
<1>2. spec.kind = "" /\ spec.config = Blank /\ checking = "asked"
  BY DEF CheckInit
<1>3. SpecKnown
  <2>1. spec \in [kind : AssertKinds \cup {""}, config : Configs]
    BY <1>1 DEF CheckInit
  <2> QED BY <1>1, <1>2, <2>1, EmptyQuery DEF SpecKnown
<1>4. outcome \in [passed : BOOLEAN, seen : 0..MaxRows, truncated : BOOLEAN] /\ ~outcome.truncated
  <2> DEFINE B == BOOLEAN
  <2>1. FALSE \in B
    BY Zenon
  <2>2. 0 \in 0 .. MaxRows
    BY CheckAssumption
  <2>3. ~outcome.truncated
    BY DEF CheckInit
  <2>4. PICK b \in B : b = FALSE
    BY <2>1
  <2> HIDE DEF B
  <2>5. outcome \in [passed : B, seen : 0..MaxRows, truncated : B]
    BY <2>2, <2>4 DEF CheckInit
  <2> QED BY <2>3, <2>5 DEF B
<1>5. VerdictIsTrue
  BY <1>2 DEF VerdictIsTrue
<1> QED BY <1>2, <1>3, <1>4, <1>5 DEF ChecksInv, CheckInit

\* A configuration is stored when it is accepted, and then it is one Run understands.
LEMMA StoreStep ==
    ASSUME ChecksInv, NEW kind \in AssertKinds \cup {"other"}, NEW c \in Configs, NEW ok \in BOOLEAN,
           ok => ValidateConfig(kind, c), kind # "sql_query" => c.query = <<>>, StoreSpec(kind, c, ok)
    PROVE  ChecksInv'
<1>1. UNCHANGED <<restored, outcome>>
  BY DEF StoreSpec
<1>2. CASE ok
  <2>1. spec' = [kind |-> kind, config |-> c] /\ checking' = "stored" /\ kind \in AssertKinds
    BY <1>2 DEF StoreSpec, ValidateConfig
  <2>2. spec'.kind = kind /\ spec'.config = c /\ spec' \in [kind : AssertKinds \cup {""}, config : Configs]
    BY <2>1
  <2>3. OneStatement(c.query)
    <3>1. CASE kind = "sql_query"
      BY <1>2, <3>1, CheckedIsOne DEF ValidateConfig, Configs
    <3>2. CASE kind # "sql_query"
      BY <3>2, EmptyQuery
    <3> QED BY <3>1, <3>2
  <2>4. SpecKnown'
    BY <1>2, <2>2, <2>3 DEF SpecKnown
  <2> QED BY <1>1, <2>1, <2>4 DEF ChecksInv, VerdictIsTrue
<1>3. CASE ~ok
  <2>1. spec' = spec /\ checking' = "refused"
    BY <1>3 DEF StoreSpec
  <2>2. SpecKnown'
    BY <2>1 DEF ChecksInv, SpecKnown
  <2> QED BY <1>1, <2>1, <2>2 DEF ChecksInv, VerdictIsTrue
<1> QED BY <1>2, <1>3

\* An assertion that could not run concludes nothing.
LEMMA ErrorStep ==
    ASSUME ChecksInv, checking = "stored", Fails("error")
    PROVE  ChecksInv'
<1>1. UNCHANGED <<spec, restored, outcome>> /\ checking' = "error"
  BY DEF Fails
<1>2. SpecKnown'
  BY <1>1 DEF ChecksInv, SpecKnown
<1> QED BY <1>1, <1>2 DEF ChecksInv, VerdictIsTrue

\* A verdict is recorded: it keeps the invariant when it is true.
LEMMA ConcludeStep ==
    ASSUME ChecksInv, checking = "stored", NEW p \in BOOLEAN, NEW n \in 0 .. MaxRows, NEW t \in BOOLEAN,
           Concludes(p, n, t), t => n > RowCap,
           Text \notin {spec.config.minRows, spec.config.expected} => (p <=> Holds)
    PROVE  ChecksInv'
<1>1. UNCHANGED <<spec, restored>> /\ checking' = "ran"
      /\ outcome' = [passed |-> p, seen |-> n, truncated |-> t]
  BY DEF Concludes
<1>2. outcome'.passed = p /\ outcome'.seen = n /\ outcome'.truncated = t
  BY <1>1
<1>3. outcome' \in [passed : BOOLEAN, seen : 0..MaxRows, truncated : BOOLEAN]
  <2> DEFINE B == BOOLEAN
  <2>1. p \in B /\ t \in B
    OBVIOUS
  <2> HIDE DEF B
  <2>2. outcome' \in [passed : B, seen : 0..MaxRows, truncated : B]
    BY <1>1, <2>1
  <2> QED BY <2>2 DEF B
<1>4. SpecKnown'
  BY <1>1 DEF ChecksInv, SpecKnown
<1>5. Holds' <=> Holds
  BY <1>1 DEF Holds, Tables, Columns
<1>6. VerdictIsTrue'
  BY <1>1, <1>2, <1>5 DEF VerdictIsTrue
<1>7. outcome'.truncated => outcome'.seen > RowCap
  BY <1>2
<1> QED BY <1>1, <1>3, <1>4, <1>6, <1>7 DEF ChecksInv

\* An assertion that runs concludes what the data says, kind by kind.
LEMMA RunStep ==
    ASSUME ChecksInv, Run
    PROVE  ChecksInv'
<1> DEFINE c == spec.config
<1>1. checking = "stored" /\ c \in Configs /\ ValidateConfig(spec.kind, c)
  BY DEF ChecksInv, SpecKnown, Run
<1>2. /\ restored.rows \in Int /\ restored.rows <= MaxRows /\ restored.nulls \in Int
      /\ restored.nulls <= MaxRows /\ restored.answer \in Int /\ restored.answer <= MaxRows
      /\ MaxRows \in Nat /\ RowCap \in Nat
  BY CheckAssumption DEF ChecksInv, RestoredDbs
<1>3. /\ c.minRows \in Numbers /\ c.expected \in Numbers
      /\ intVal(c.minRows) \in Int /\ intVal(c.expected) \in Int
  BY <1>1, NumbersKnown DEF Configs
<1>4. Text \notin {c.minRows, c.expected} =>
        intVal(c.minRows) = c.minRows.n /\ intVal(c.expected) = c.expected.n
  BY <1>3, NumbersKnown
<1>5. TableRows(c) \in Int /\ TableRows(c) <= MaxRows /\ (TableRows(c) >= 0 <=> Tables)
      /\ (Tables => TableRows(c) = restored.rows)
  BY <1>2 DEF TableRows, Tables
<1>6. ColumnNulls(c) \in Int /\ ColumnNulls(c) <= MaxRows /\ (ColumnNulls(c) >= 0 <=> Columns)
      /\ (Columns => ColumnNulls(c) = restored.nulls)
  BY <1>2, <1>5 DEF ColumnNulls, Columns
<1>7. CASE runRowCount(c)
  <2>1. spec.kind = "row_count" /\ ValidIdent(c.table)
    BY <1>1, <1>7 DEF runRowCount, ValidateConfig
  <2>2. CASE TableRows(c) < 0
    BY <1>1, <1>7, <2>1, <2>2, ErrorStep DEF runRowCount
  <2>3. CASE ~(TableRows(c) < 0)
    <3> DEFINE p == TableRows(c) >= intVal(c.minRows)
    <3>1. Concludes(p, TableRows(c), FALSE)
      BY <1>7, <2>1, <2>3 DEF runRowCount
    <3>2. TableRows(c) \in 0 .. MaxRows
      BY <1>2, <1>5, <2>3
    <3>3. Text \notin {c.minRows, c.expected} => (p <=> Holds)
      BY <1>4, <1>5, <2>1, <2>3 DEF Holds
    <3>4. p \in BOOLEAN /\ FALSE \in BOOLEAN
      <4>1. p \in BOOLEAN
        BY <1>3, <1>5
      <4>2. FALSE \in BOOLEAN
        BY Zenon
      <4> QED BY <4>1, <4>2
    <3> HIDE DEF p
    <3> QED BY <1>1, <3>1, <3>2, <3>3, <3>4, ConcludeStep
  <2> QED BY <2>2, <2>3
<1>8. CASE runTableExists(c)
  <2>1. spec.kind = "table_exists" /\ ValidIdent(c.table)
    BY <1>1, <1>8 DEF runTableExists, ValidateConfig
  <2> DEFINE p == TableRows(c) >= 0
  <2>2. Concludes(p, 0, FALSE)
    BY <1>8, <2>1 DEF runTableExists
  <2>3. p <=> Holds
    BY <1>5, <2>1 DEF Holds
  <2>4. p \in BOOLEAN /\ FALSE \in BOOLEAN
    <3>1. p \in BOOLEAN
      BY <1>5
    <3>2. FALSE \in BOOLEAN
      BY Zenon
    <3> QED BY <3>1, <3>2
  <2>5. 0 \in 0 .. MaxRows
    BY <1>2
  <2> HIDE DEF p
  <2> QED BY <1>1, <2>2, <2>3, <2>4, <2>5, ConcludeStep
<1>9. CASE runColumnExists(c)
  <2>1. spec.kind = "column_exists" /\ ValidIdent(c.table) /\ ValidIdent(c.column)
    BY <1>1, <1>9 DEF runColumnExists, ValidateConfig
  <2> DEFINE p == ColumnNulls(c) >= 0
  <2>2. Concludes(p, 0, FALSE)
    BY <1>9, <2>1 DEF runColumnExists
  <2>3. p <=> Holds
    BY <1>6, <2>1 DEF Holds
  <2>4. p \in BOOLEAN /\ FALSE \in BOOLEAN
    <3>1. p \in BOOLEAN
      BY <1>6
    <3>2. FALSE \in BOOLEAN
      BY Zenon
    <3> QED BY <3>1, <3>2
  <2>5. 0 \in 0 .. MaxRows
    BY <1>2
  <2> HIDE DEF p
  <2> QED BY <1>1, <2>2, <2>3, <2>4, <2>5, ConcludeStep
<1>10. CASE runNoNulls(c)
  <2>1. spec.kind = "no_nulls" /\ ValidIdent(c.table) /\ ValidIdent(c.column)
    BY <1>1, <1>10 DEF runNoNulls, ValidateConfig
  <2>2. CASE ColumnNulls(c) < 0
    BY <1>1, <1>10, <2>1, <2>2, ErrorStep DEF runNoNulls
  <2>3. CASE ~(ColumnNulls(c) < 0)
    <3> DEFINE p == ColumnNulls(c) = 0
    <3>1. Concludes(p, ColumnNulls(c), FALSE)
      BY <1>10, <2>1, <2>3 DEF runNoNulls
    <3>2. ColumnNulls(c) \in 0 .. MaxRows
      BY <1>2, <1>6, <2>3
    <3>3. p <=> Holds
      BY <1>6, <2>1, <2>3 DEF Holds
    <3>4. p \in BOOLEAN /\ FALSE \in BOOLEAN
      BY Zenon
    <3> HIDE DEF p
    <3> QED BY <1>1, <3>1, <3>2, <3>3, <3>4, ConcludeStep
  <2> QED BY <2>2, <2>3
<1>11. CASE runSQLQuery(c)
  <2>1. spec.kind = "sql_query" /\ validateReadOnlySQL(c.query)
    BY <1>1, <1>11 DEF runSQLQuery, ValidateConfig
  <2>2. CASE restored.answer < 0
    BY <1>1, <1>11, <2>1, <2>2, ErrorStep DEF runSQLQuery
  <2>3. CASE ~(restored.answer < 0)
    <3> DEFINE a == restored.answer
               p == Meets(c, Total(a))
               t == a > RowCap
    <3>1. Concludes(p, a, t)
      BY <1>11, <2>1, <2>3 DEF runSQLQuery, Total
    <3>2. a \in 0 .. MaxRows
      BY <1>2, <2>3
    <3>3. Text \notin {c.minRows, c.expected} => (p <=> Holds)
      BY <1>2, <1>4, <2>1, <2>3 DEF Holds, Meets, Total
    <3>4. p \in BOOLEAN /\ t \in BOOLEAN
      <4>1. p \in BOOLEAN
        BY Zenon DEF Meets
      <4>2. t \in BOOLEAN
        BY <1>2
      <4> QED BY <4>1, <4>2
    <3>5. t => a > RowCap
      OBVIOUS
    <3> HIDE DEF p, t, a
    <3> QED BY <1>1, <3>1, <3>2, <3>3, <3>4, <3>5, ConcludeStep
  <2> QED BY <2>2, <2>3
<1> QED BY <1>7, <1>8, <1>9, <1>10, <1>11 DEF Run

\* One case for each action of an assertion.
LEMMA ChecksStep == ChecksInv /\ [CheckNext]_checkVars => ChecksInv'
<1> SUFFICES ASSUME ChecksInv, [CheckNext]_checkVars PROVE ChecksInv'
  OBVIOUS
<1>1. ASSUME assertionForm PROVE ChecksInv'
  <2>1. PICK kind \in AssertKinds \cup {"other"}, table \in Idents, column \in Idents, input \in Numbers :
          LET c == buildAssertionConfig(kind, table, column, input)
          IN  StoreSpec(kind, c, kind \in AssertKinds /\ InputOK(kind, input) /\ ValidateConfig(kind, c))
    BY <1>1 DEF assertionForm
  <2> DEFINE c == buildAssertionConfig(kind, table, column, input)
             ok == kind \in AssertKinds /\ InputOK(kind, input) /\ ValidateConfig(kind, c)
  <2>2. c \in Configs /\ c.query = <<>>
    <3>1. Absent \in Numbers /\ [is |-> "number", n |-> 1] \in Numbers /\ <<>> \in Queries
      BY NumbersKnown, EmptyQuery
    <3>2. (IF kind # "row_count" THEN Absent
           ELSE IF input = Absent THEN [is |-> "number", n |-> 1] ELSE input) \in Numbers
      BY <3>1
    <3>3. (IF kind \in {"column_exists", "no_nulls"} THEN column ELSE "malformed") \in Idents
      BY DEF Idents
    <3> QED BY <3>1, <3>2, <3>3 DEF buildAssertionConfig, Blank, Configs
  <2>3. ok \in BOOLEAN
    BY Zenon
  <2>4. kind # "sql_query" => c.query = <<>>
    BY <2>2
  <2>5. StoreSpec(kind, c, ok)
    BY <2>1
  <2>6. ok => ValidateConfig(kind, c)
    OBVIOUS
  <2> HIDE DEF c, ok
  <2> QED BY <2>2, <2>3, <2>4, <2>5, <2>6, StoreStep
<1>2. ASSUME assertionBody PROVE ChecksInv'
  <2>1. PICK kind \in AssertKinds \cup {"other"} : \E c \in Asked(kind) : StoreSpec(kind, c, ValidateConfig(kind, c))
    BY <1>2 DEF assertionBody
  <2>2. PICK c \in Asked(kind) : StoreSpec(kind, c, ValidateConfig(kind, c))
    BY <2>1
  <2> DEFINE ok == ValidateConfig(kind, c)
  <2>3. c \in Configs /\ (kind # "sql_query" => c.query = <<>>)
    <3>1. Absent \in Numbers /\ <<>> \in Queries /\ Blank.table \in Idents /\ Blank.column \in Idents
      BY NumbersKnown, EmptyQuery DEF Blank, Idents
    <3> QED BY <3>1 DEF Asked, Configs
  <2>4. ok \in BOOLEAN
    BY Zenon DEF ValidateConfig
  <2>5. StoreSpec(kind, c, ok) /\ (ok => ValidateConfig(kind, c))
    BY <2>2
  <2> HIDE DEF ok
  <2> QED BY <2>3, <2>4, <2>5, StoreStep
<1>3. ASSUME UNCHANGED checkVars PROVE ChecksInv'
  <2>1. UNCHANGED <<spec, restored, checking, outcome>>
    BY <1>3 DEF checkVars
  <2>2. Holds' <=> Holds
    BY <2>1 DEF Holds, Tables, Columns
  <2>3. SpecKnown' /\ VerdictIsTrue'
    BY <2>1, <2>2 DEF ChecksInv, SpecKnown, VerdictIsTrue
  <2> QED BY <2>1, <2>3 DEF ChecksInv
<1> QED BY <1>1, <1>2, <1>3, RunStep DEF CheckNext

\* Whatever is asked of a database, in a form or a body, what is accepted is one read-only
\* statement that Run understands, and the verdict of the drill is the truth about the
\* restored database (ValidateConfig, validateReadOnlySQL, Run).
THEOREM VerdictsAreTrue == CheckSpec => []ChecksSafe
<1> QED BY ChecksStart, ChecksStep, ChecksImplies, PTL DEF CheckSpec

-----------------------------------------------------------------------------
(* The badge.  The score is a sum of three parts over a common denominator,  *)
(* and 80 of 100 leave none of them out.                                     *)

Verdicts == {"succeeded", "failed"}

\* The invariant of the badge: what is known of a drill is of the past.
ReadinessInv ==
    /\ cadence \in Cadences /\ hour \in Nat /\ jumps \in 0 .. MaxJumps
    /\ trial \in [Trials -> [status : {"none", "running"} \cup Verdicts, created : Nat, completed : Nat]]
    /\ \A d \in Trials : trial[d].completed <= hour

\* No drill at first.
LEMMA ReadinessStart == ReadinessInit => ReadinessInv
<1> SUFFICES ASSUME ReadinessInit PROVE ReadinessInv
  OBVIOUS
<1>1. trial \in [Trials -> [status : {"none", "running"} \cup Verdicts, created : Nat, completed : Nat]]
  BY DEF ReadinessInit
<1> QED BY <1>1, ReadinessAssumption DEF ReadinessInit, ReadinessInv

\* One case for each action of the history.
LEMMA ReadinessStep == ReadinessInv /\ [ReadinessNext]_readyVars => ReadinessInv'
<1> SUFFICES ASSUME ReadinessInv, [ReadinessNext]_readyVars PROVE ReadinessInv'
  OBVIOUS
<1> DEFINE Records == [status : {"none", "running"} \cup Verdicts, created : Nat, completed : Nat]
<1>1. ASSUME NEW d \in Trials, StartTrial(d) PROVE ReadinessInv'
  <2> DEFINE r == [status |-> "running", created |-> hour, completed |-> 0]
  <2>1. r \in Records /\ r.completed = 0
    BY DEF ReadinessInv
  <2> HIDE DEF r
  <2>2. trial' = [trial EXCEPT ![d] = r] /\ UNCHANGED <<hour, cadence, jumps>>
    BY <1>1 DEF StartTrial, r
  <2> QED BY <2>1, <2>2 DEF ReadinessInv
<1>2. ASSUME NEW d \in Trials, NEW v \in Verdicts, FinishTrial(d, v) PROVE ReadinessInv'
  <2> DEFINE r == [trial[d] EXCEPT !.status = v, !.completed = hour]
  <2>1. r \in Records /\ r.completed = hour
    BY DEF ReadinessInv, Verdicts
  <2>2. trial' = [trial EXCEPT ![d] = r] /\ UNCHANGED <<hour, cadence, jumps>>
    BY <1>2 DEF FinishTrial, ReadinessInv
  <2> HIDE DEF r
  <2> QED BY <2>1, <2>2 DEF ReadinessInv
<1>3. ASSUME SetTargetCadence PROVE ReadinessInv'
  BY <1>3 DEF SetTargetCadence, ReadinessInv
<1>4. ASSUME NEW n \in Jumps, HoursPass(n) PROVE ReadinessInv'
  <2>1. n \in Nat /\ hour' = hour + n /\ jumps' = jumps + 1 /\ jumps < MaxJumps /\ UNCHANGED <<cadence, trial>>
    BY <1>4, ReadinessAssumption DEF HoursPass
  <2>2. \A d \in Trials : trial[d].completed \in Nat
    BY DEF ReadinessInv
  <2> QED BY <2>1, <2>2, ReadinessAssumption DEF ReadinessInv
<1>5. ASSUME UNCHANGED readyVars PROVE ReadinessInv'
  BY <1>5 DEF readyVars, ReadinessInv
<1> QED BY <1>1, <1>2, <1>3, <1>4, <1>5 DEF ReadinessNext, Verdicts

-----------------------------------------------------------------------------
\* An order is kept by a factor.
LEMMA Scaled ==
    ASSUME NEW a \in Int, NEW b \in Int, NEW n \in Nat
    PROVE  /\ a <= b => a * n <= b * n
           /\ a < b /\ n > 0 => a * n < b * n
  OBVIOUS

\* The bounds of a quotient.
LEMMA Quotient ==
    ASSUME NEW x \in Nat, NEW d \in Nat, d > 0
    PROVE  /\ x \div d \in Nat
           /\ \A q \in Nat : x < (q + 1) * d => x \div d <= q
           /\ \A q \in Nat : x \div d >= q => x >= q * d
<1> DEFINE y == x \div d
<1>1. y \in Nat /\ y * d <= x /\ x < (y + 1) * d
  OBVIOUS
<1> HIDE DEF y
<1>2. ASSUME NEW q \in Nat, x < (q + 1) * d PROVE y <= q
  <2>1. SUFFICES ASSUME y >= q + 1 PROVE FALSE
    BY <1>1
  <2>2. (q + 1) * d <= y * d
    BY <1>1, <2>1, Scaled
  <2>3. (q + 1) * d \in Int /\ y * d \in Int
    BY <1>1
  <2> QED BY <1>1, <1>2, <2>2, <2>3
<1>3. ASSUME NEW q \in Nat, y >= q PROVE x >= q * d
  <2>1. q * d <= y * d
    BY <1>1, <1>3, Scaled
  <2>2. q * d \in Int /\ y * d \in Int
    BY <1>1
  <2> QED BY <1>1, <2>1, <2>2
<1> QED BY <1>1, <1>2, <1>3 DEF y

Intervals == {1, 24, 168, 720}

\* cadenceInterval gives one of four lengths.
LEMMA IntervalKnown == \A c : cadenceInterval(c) \in Intervals
  BY DEF cadenceInterval, Intervals

\* The last success: it is one, and none is later.
LEMMA LastSuccess ==
    ASSUME ReadinessInv, Succeeded # {}
    PROVE  LastSuccessAt \in 0 .. hour /\ \A d \in Succeeded : trial[d].completed <= LastSuccessAt
<1> DEFINE T == {trial[d].completed : d \in Succeeded}
<1>1. T \in SUBSET (0 .. hour) /\ T # {}
  BY DEF ReadinessInv, Succeeded
<1>2. T \in SUBSET Int
  <2>1. \A x \in 0 .. hour : x \in Int
    OBVIOUS
  <2> HIDE DEF T
  <2> QED BY <1>1, <2>1
<1>3. IsFiniteSet(T)
  <2>1. IsFiniteSet(0 .. hour)
    BY FS_Interval DEF ReadinessInv
  <2> HIDE DEF T
  <2> QED BY <1>1, <2>1, FS_Subset
<1>4. \E t \in T : \A k \in T : k <= t
  <2> HIDE DEF T
  <2> QED BY <1>1, <1>2, <1>3, Largest
<1>5. \E t \in T : \A d \in Succeeded : trial[d].completed <= t
  BY <1>4
<1>6. LastSuccessAt \in T /\ \A d \in Succeeded : trial[d].completed <= LastSuccessAt
  BY <1>5 DEF LastSuccessAt
<1> HIDE DEF T
<1> QED BY <1>1, <1>6

\* The three signals are each within their share, and the value is their rounded sum.
Sum(fresh, n, p, points, interval) ==
    (2 * (fresh * n + 30 * p * interval + points * interval * n) + interval * n) \div (2 * interval * n)

\* The value is one of 0 to 100, and 80 of them leave no signal out.
LEMMA SumBounds ==
    ASSUME NEW interval \in Intervals, NEW n \in Nat, n > 0, NEW p \in 0 .. n, NEW points \in {0, 10},
           NEW fresh \in 0 .. (60 * interval)
    PROVE  /\ Sum(fresh, n, p, points, interval) \in 0 .. 100
           /\ Sum(fresh, n, p, points, interval) >= 80 =>
                 2 * fresh >= 79 * interval /\ 60 * p >= 19 * n
<1> DEFINE f == fresh * n
           i == interval * n
           q == p * interval
           z == points * interval * n
           num == 2 * (fresh * n + 30 * p * interval + points * interval * n) + interval * n
           den == 2 * interval * n
<1>1. interval \in Nat /\ interval > 0
  BY DEF Intervals
<1>2. i \in Nat /\ i > 0 /\ f \in Nat /\ q \in Nat
  <2>1. i \in Nat /\ f \in Nat /\ q \in Nat
    BY <1>1
  <2>2. 0 * n < interval * n
    BY <1>1, Scaled
  <2> QED BY <2>1, <2>2
<1>3. f <= 60 * i
  <2>1. fresh * n <= (60 * interval) * n
    BY <1>1, Scaled
  <2> QED BY <2>1, <1>1
<1>4. q <= i
  <2>1. p * interval <= n * interval
    BY <1>1, Scaled
  <2> QED BY <2>1, <1>1
<1>5. z = points * i /\ z \in Nat /\ z <= 10 * i
  BY <1>1, <1>2
<1>6. num = 2 * f + 60 * q + 2 * z + i /\ den = 2 * i
  BY <1>1
<1>7. 79 * interval > 2 * fresh => 79 * i > 2 * f
  <2>1. SUFFICES ASSUME 2 * fresh < 79 * interval PROVE 79 * i > 2 * f
    BY <1>1
  <2>2. (2 * fresh) * n < (79 * interval) * n
    BY <1>1, <2>1, Scaled
  <2> QED BY <2>2, <1>1
<1>8. 60 * p < 19 * n => 60 * q < 19 * i
  <2>1. SUFFICES ASSUME 60 * p < 19 * n PROVE 60 * q < 19 * i
    OBVIOUS
  <2>2. (60 * p) * interval < (19 * n) * interval
    BY <1>1, <2>1, Scaled
  <2> QED BY <2>2, <1>1
<1>9. Sum(fresh, n, p, points, interval) = num \div den
  BY DEF Sum
<1> HIDE DEF f, i, q, z, num, den
<1>10. num \in Nat /\ den \in Nat /\ den > 0
  BY <1>2, <1>5, <1>6
<1>11. num \div den \in Nat /\ num \div den <= 100
  <2>1. num < (100 + 1) * den
    BY <1>2, <1>3, <1>4, <1>5, <1>6
  <2> QED BY <1>10, <2>1, Quotient
<1>12. num \div den >= 80 => num >= 160 * i
  <2>1. num \div den >= 80 => num >= 80 * den
    BY <1>10, Quotient
  <2> QED BY <2>1, <1>2, <1>6
<1>13. num >= 160 * i => 2 * f >= 79 * i /\ 60 * q >= 19 * i
  BY <1>2, <1>3, <1>4, <1>5, <1>6
<1>14. num \div den >= 80 => 2 * fresh >= 79 * interval /\ 60 * p >= 19 * n
  <2>1. SUFFICES ASSUME num \div den >= 80 PROVE 2 * fresh >= 79 * interval /\ 60 * p >= 19 * n
    OBVIOUS
  <2>2. 2 * f >= 79 * i /\ 60 * q >= 19 * i
    BY <1>12, <1>13, <2>1
  <2>3. ~(79 * interval > 2 * fresh) /\ ~(60 * p < 19 * n)
    BY <2>2, <1>2, <1>7, <1>8
  <2> QED BY <2>3, <1>1
<1> QED BY <1>9, <1>11, <1>14

\* The freshness lies within its share, and is high of recent successes only.
LEMMA FreshnessBounds ==
    ASSUME NEW age \in Nat, NEW interval \in Intervals
    PROVE  /\ Freshness(age, interval) \in 0 .. (60 * interval)
           /\ 2 * Freshness(age, interval) >= 79 * interval => 60 * age <= 101 * interval
<1>1. interval \in Nat /\ interval > 0
  BY DEF Intervals
<1> QED BY <1>1 DEF Freshness

\* What Compute puts together.
LEMMA ComputeIsSum ==
    ASSUME ReadinessInv, Terminal # {}, NEW last
    PROVE  LET interval == cadenceInterval(cadence)
               n == IF Recent(Terminal) = {} THEN 2 ELSE Cardinality(Recent(Terminal))
               p == IF Recent(Terminal) = {} THEN 1 ELSE Cardinality(Recent(Succeeded))
               fresh == IF Succeeded = {} THEN 0 ELSE Freshness(hour - LastSuccessAt, interval)
               points == IF last = "succeeded" THEN 10 ELSE 0
           IN  /\ interval \in Intervals /\ n \in Nat /\ n > 0 /\ p \in 0 .. n
               /\ fresh \in 0 .. (60 * interval) /\ points \in {0, 10}
               /\ Compute(last) = Sum(fresh, n, p, points, interval)
               /\ Succeeded # {} => hour - LastSuccessAt \in Nat
               /\ Recent(Terminal) # {} => /\ n = Cardinality(Recent(Terminal))
                                           /\ p = Cardinality(Recent(Succeeded))
               /\ Recent(Terminal) = {} => Recent(Succeeded) = {}
<1> DEFINE interval == cadenceInterval(cadence)
           n == IF Recent(Terminal) = {} THEN 2 ELSE Cardinality(Recent(Terminal))
           p == IF Recent(Terminal) = {} THEN 1 ELSE Cardinality(Recent(Succeeded))
           fresh == IF Succeeded = {} THEN 0 ELSE Freshness(hour - LastSuccessAt, interval)
           points == IF last = "succeeded" THEN 10 ELSE 0
<1>1. interval \in Intervals
  BY IntervalKnown
<1>2. Recent(Succeeded) \in SUBSET Recent(Terminal) /\ Recent(Terminal) \in SUBSET Trials
  BY DEF Recent, Succeeded, Terminal
<1>3. IsFiniteSet(Recent(Terminal)) /\ Cardinality(Recent(Terminal)) \in Nat
      /\ Cardinality(Recent(Succeeded)) \in Nat
      /\ Cardinality(Recent(Succeeded)) <= Cardinality(Recent(Terminal))
      /\ (Recent(Terminal) # {} => Cardinality(Recent(Terminal)) # 0)
  BY <1>2, FS_Subset, FS_CardinalityType, FS_EmptySet, ReadinessAssumption
<1>4. n \in Nat /\ n > 0 /\ p \in 0 .. n
  BY <1>3
<1>5. Succeeded # {} => hour - LastSuccessAt \in Nat
  <2>1. SUFFICES ASSUME Succeeded # {} PROVE hour - LastSuccessAt \in Nat
    OBVIOUS
  <2>2. LastSuccessAt \in 0 .. hour /\ hour \in Nat
    BY <2>1, LastSuccess DEF ReadinessInv
  <2> QED BY <2>2
<1>6. fresh \in 0 .. (60 * interval)
  <2>1. CASE Succeeded = {}
    <3>1. interval \in Nat
      BY <1>1 DEF Intervals
    <3>2. fresh = 0
      BY <2>1
    <3> HIDE DEF fresh, interval
    <3> QED BY <3>1, <3>2
  <2>2. CASE Succeeded # {}
    <3>1. fresh = Freshness(hour - LastSuccessAt, interval)
      BY <2>2
    <3> HIDE DEF fresh, interval
    <3> QED BY <2>2, <3>1, <1>1, <1>5, FreshnessBounds
  <2> QED BY <2>1, <2>2
<1>7. Compute(last) = Sum(fresh, n, p, points, interval)
  BY DEF Compute, Sum
<1> HIDE DEF interval, n, p, fresh
<1>8. points \in {0, 10}
  OBVIOUS
<1>9. (Recent(Terminal) # {} => n = Cardinality(Recent(Terminal)) /\ p = Cardinality(Recent(Succeeded)))
      /\ (Recent(Terminal) = {} => Recent(Succeeded) = {})
  BY <1>2 DEF n, p
<1> HIDE DEF points
<1> QED BY <1>1, <1>4, <1>5, <1>6, <1>7, <1>8, <1>9 DEF interval, n, p, fresh, points

\* What the invariant says of the drills makes the badge safe.
LEMMA ReadinessImplies == ReadinessInv => ReadinessSafe
<1> SUFFICES ASSUME ReadinessInv PROVE ReadinessSafe
  OBVIOUS
<1> DEFINE interval == cadenceInterval(cadence)
           n == IF Recent(Terminal) = {} THEN 2 ELSE Cardinality(Recent(Terminal))
           p == IF Recent(Terminal) = {} THEN 1 ELSE Cardinality(Recent(Succeeded))
           fresh == IF Succeeded = {} THEN 0 ELSE Freshness(hour - LastSuccessAt, interval)
<1>1. ASSUME NEW last, Terminal # {}
      PROVE  Compute(last) \in 0 .. 100
  <2> DEFINE points == IF last = "succeeded" THEN 10 ELSE 0
  <2>1. /\ interval \in Intervals /\ n \in Nat /\ n > 0 /\ p \in 0 .. n
        /\ fresh \in 0 .. (60 * interval) /\ points \in {0, 10}
        /\ Compute(last) = Sum(fresh, n, p, points, interval)
    BY <1>1, ComputeIsSum
  <2> HIDE DEF interval, n, p, fresh, points
  <2>2. Sum(fresh, n, p, points, interval) \in 0 .. 100
    BY <2>1, SumBounds
  <2> QED BY <2>1, <2>2
<1>2. Values \subseteq 0 .. 100
  <2>1. CASE Terminal = {}
    <3>1. Values = {0} BY <2>1 DEF Values
    <3> QED BY <3>1
  <2>2. CASE Terminal # {}
    BY <2>2, <1>1 DEF Values
  <2> QED BY <2>1, <2>2
<1>3. ReadinessTypeOK
  BY <1>2 DEF ReadinessInv, ReadinessTypeOK
<1>4. ASSUME NEW last \in LastStatus, Tone(last) = "green"
      PROVE  /\ \E d \in Terminal : /\ trial[d].status = "succeeded"
                                    /\ \A x \in Terminal : trial[x].completed <= trial[d].completed
             /\ 60 * (hour - LastSuccessAt) <= 101 * cadenceInterval(cadence)
             /\ 60 * Cardinality(Recent(Succeeded)) >= 19 * Cardinality(Recent(Terminal))
  <2> DEFINE points == IF last = "succeeded" THEN 10 ELSE 0
  <2>1. Terminal # {} /\ last # "failed" /\ Compute(last) >= 80
    BY <1>4 DEF Tone
  <2>2. PICK d \in Terminal : /\ last = trial[d].status
                              /\ \A y \in Terminal : trial[y].completed <= trial[d].completed
    BY DEF LastStatus
  <2>3. trial[d].status = "succeeded" /\ d \in Succeeded
    BY <2>1, <2>2 DEF Terminal, Succeeded
  <2>4. /\ interval \in Intervals /\ n \in Nat /\ n > 0 /\ p \in 0 .. n
        /\ fresh \in 0 .. (60 * interval) /\ points \in {0, 10}
        /\ Compute(last) = Sum(fresh, n, p, points, interval)
        /\ hour - LastSuccessAt \in Nat
        /\ Recent(Terminal) # {} => n = Cardinality(Recent(Terminal)) /\ p = Cardinality(Recent(Succeeded))
        /\ Recent(Terminal) = {} => Recent(Succeeded) = {}
    BY <2>1, <2>3, ComputeIsSum
  <2>5. fresh = Freshness(hour - LastSuccessAt, interval)
    BY <2>3
  <2>6. 2 * fresh >= 79 * interval /\ 60 * p >= 19 * n
    <3> HIDE DEF interval, n, p, fresh, points
    <3> QED BY <2>1, <2>4, SumBounds
  <2>7. 60 * (hour - LastSuccessAt) <= 101 * interval
    <3> HIDE DEF interval, n, p, fresh, points
    <3> QED BY <2>4, <2>5, <2>6, FreshnessBounds
  <2>8. 60 * Cardinality(Recent(Succeeded)) >= 19 * Cardinality(Recent(Terminal))
    <3>1. CASE Recent(Terminal) = {}
      <4>1. Cardinality(Recent(Succeeded)) = 0 /\ Cardinality(Recent(Terminal)) = 0
        BY <2>4, <3>1, FS_EmptySet
      <4> QED BY <4>1
    <3>2. CASE Recent(Terminal) # {}
      <4> HIDE DEF interval, n, p, fresh, points
      <4> QED BY <2>4, <2>6, <3>2
    <3> QED BY <3>1, <3>2
  <2> QED BY <2>2, <2>3, <2>7, <2>8
<1>5. GreenIsEarned
  BY <1>4 DEF GreenIsEarned
<1> QED BY <1>3, <1>5 DEF ReadinessSafe

\* The value of a badge is one of 0 to 100, and a green one has a success that is last, not
\* older than 101/60 of the interval, and 19 in 60 of the recent drills (Compute, decorate):
\* for any drills and hours.
THEOREM BadgesAreEarned == ReadinessSpec => []ReadinessSafe
<1> QED BY ReadinessStart, ReadinessStep, ReadinessImplies, PTL DEF ReadinessSpec

-----------------------------------------------------------------------------
(* What lifts the value.  Compute is monotone in each of its three signals,   *)
(* and a step without a reason moves none of them up: waiting only ages the    *)
(* last success and drops recent successes, a failure only adds to the drills *)
(* that ended.  The exception is a first drill that fails when the window has  *)
(* left it behind: it counts as no drill at all, and RunsAreShort excludes it. *)

\* Products are in the order of their factors.
LEMMA ProductMonotone ==
    ASSUME NEW a \in Nat, NEW b \in Nat, NEW c \in Nat, NEW d \in Nat, a <= b, c <= d
    PROVE  a * c <= b * d
<1>1. a * c <= b * c
  BY Scaled
<1>2. c * b <= d * b
  BY Scaled
<1>3. c * b = b * c /\ d * b = b * d /\ a * c \in Int /\ b * c \in Int /\ b * d \in Int
  OBVIOUS
<1> QED BY <1>1, <1>2, <1>3

\* Quotients are in the order of the fractions.
LEMMA QuotientMonotone ==
    ASSUME NEW a \in Nat, NEW c \in Nat, NEW n \in Nat, NEW m \in Nat, NEW k \in Nat,
           n > 0, m > 0, k > 0, c * n <= a * m
    PROVE  c \div (k * m) <= a \div (k * n)
<1> DEFINE b == k * n
           d == k * m
           y == a \div b
           z == c \div d
<1>1. b \in Nat /\ d \in Nat /\ b > 0 /\ d > 0
  BY Scaled
<1> HIDE DEF b, d
<1>2. y \in Nat /\ a < (y + 1) * b
  BY <1>1
<1>3. z \in Nat /\ z * d <= c
  BY <1>1
<1> HIDE DEF y, z
<1>4. SUFFICES ASSUME y + 1 <= z PROVE FALSE
  BY <1>2, <1>3 DEF y, z, b, d
<1>5. (y + 1) * d <= c
  <2>1. (y + 1) * d <= z * d
    BY <1>1, <1>2, <1>3, <1>4, Scaled
  <2>2. (y + 1) * d \in Int /\ z * d \in Int
    BY <1>1, <1>2, <1>3
  <2> QED BY <1>3, <2>1, <2>2
<1>6. ((y + 1) * d) * n <= c * n
  <2>1. (y + 1) * d \in Int
    BY <1>1, <1>2
  <2> QED BY <1>5, <2>1, Scaled
<1>7. a * m < ((y + 1) * b) * m
  <2>1. (y + 1) * b \in Int
    BY <1>1, <1>2
  <2> QED BY <1>2, <2>1, Scaled
<1>8. ((y + 1) * d) * n = ((y + 1) * b) * m
  BY <1>2 DEF b, d
<1>9. ((y + 1) * d) * n \in Int /\ c * n \in Int /\ a * m \in Int /\ ((y + 1) * b) * m \in Int
  BY <1>1, <1>2
<1> QED BY <1>6, <1>7, <1>8, <1>9

\* The value falls when none of its three signals rises.
LEMMA SumMonotone ==
    ASSUME NEW interval \in Intervals, NEW n \in Nat, n > 0, NEW m \in Nat, m > 0,
           NEW p \in Nat, NEW q \in Nat, q * n <= p * m,
           NEW x \in {0, 10}, NEW y \in {0, 10}, y <= x, NEW f \in Nat, NEW g \in Nat, g <= f
    PROVE  Sum(g, m, q, y, interval) <= Sum(f, n, p, x, interval)
<1> DEFINE a == 2 * (f * n + 30 * p * interval + x * interval * n) + interval * n
           c == 2 * (g * m + 30 * q * interval + y * interval * m) + interval * m
           k == 2 * interval
<1>1. interval \in Nat /\ interval > 0
  BY DEF Intervals
<1>2. a \in Nat /\ c \in Nat /\ k \in Nat /\ k > 0
  BY <1>1
<1>3. c * n <= a * m
  <2> DEFINE u == n * m
  <2>1. u \in Nat /\ q * n \in Nat /\ p * m \in Nat
    OBVIOUS
  <2>2. c * n = 2 * (g * u) + 60 * ((q * n) * interval) + 2 * ((y * interval) * u) + interval * u
    BY <1>1
  <2>3. a * m = 2 * (f * u) + 60 * ((p * m) * interval) + 2 * ((x * interval) * u) + interval * u
    BY <1>1
  <2> HIDE DEF u, a, c
  <2>4. g * u <= f * u
    BY <2>1, Scaled
  <2>5. (q * n) * interval <= (p * m) * interval
    BY <1>1, <2>1, Scaled
  <2>6. (y * interval) * u <= (x * interval) * u
    <3>1. y * interval \in Int /\ x * interval \in Int /\ y * interval <= x * interval
      BY <1>1
    <3> QED BY <3>1, <2>1, Scaled
  <2>7. /\ g * u \in Int /\ f * u \in Int /\ (q * n) * interval \in Int /\ (p * m) * interval \in Int
        /\ (y * interval) * u \in Int /\ (x * interval) * u \in Int /\ interval * u \in Int
    BY <1>1, <2>1
  <2> QED BY <2>2, <2>3, <2>4, <2>5, <2>6, <2>7
<1>4. Sum(g, m, q, y, interval) = c \div (k * m) /\ Sum(f, n, p, x, interval) = a \div (k * n)
  BY DEF Sum
<1> HIDE DEF a, c, k
<1> QED BY <1>2, <1>3, <1>4, QuotientMonotone

\* Successes that leave and failures that come lower the share of the successes.
LEMMA ShareFalls ==
    ASSUME NEW p \in Nat, NEW q \in Nat, NEW f \in Nat, NEW g \in Nat, q <= p, f <= g
    PROVE  q * (p + f) <= p * (q + g)
<1>1. q * f <= p * g
  BY ProductMonotone
<1>2. q * (p + f) = q * p + q * f /\ p * (q + g) = p * q + p * g /\ q * p = p * q
  OBVIOUS
<1>3. q * f \in Int /\ p * g \in Int /\ p * q \in Int
  OBVIOUS
<1> QED BY <1>1, <1>2, <1>3

\* An older success is worth no more (Compute's freshness).
LEMMA FreshnessFalls ==
    ASSUME NEW age \in Nat, NEW later \in Nat, age <= later, NEW interval \in Intervals
    PROVE  Freshness(later, interval) <= Freshness(age, interval)
<1>1. interval \in Nat /\ interval > 0
  BY DEF Intervals
<1> QED BY <1>1 DEF Freshness

\* The signals of Compute: the recent drills that ended, those that passed, the freshness.
Ended90 == IF Recent(Terminal) = {} THEN 2 ELSE Cardinality(Recent(Terminal))
Passed90 == IF Recent(Terminal) = {} THEN 1 ELSE Cardinality(Recent(Succeeded))
FreshNow == IF Succeeded = {} THEN 0
            ELSE Freshness(hour - LastSuccessAt, cadenceInterval(cadence))
Points(last) == IF last = "succeeded" THEN 10 ELSE 0

\* What they are, in any state: of the value, of the last success and of the counts.
SignalsKnown ==
    /\ Terminal # {} =>
          /\ Ended90 \in Nat /\ Ended90 > 0 /\ Passed90 \in Nat /\ FreshNow \in Nat
          /\ \A last \in Verdicts :
                Compute(last) = Sum(FreshNow, Ended90, Passed90, Points(last), cadenceInterval(cadence))
    /\ Succeeded # {} =>
          /\ LastSuccessAt \in {trial[d].completed : d \in Succeeded}
          /\ \A d \in Succeeded : trial[d].completed <= LastSuccessAt
          /\ LastSuccessAt \in Nat /\ hour - LastSuccessAt \in Nat
    /\ IsFiniteSet(Succeeded) /\ Cardinality(Succeeded) \in Nat
    /\ Cardinality(Recent(Succeeded)) \in Nat /\ Cardinality(Recent(Terminal \ Succeeded)) \in Nat
    /\ IsFiniteSet(Recent(Succeeded)) /\ IsFiniteSet(Recent(Terminal \ Succeeded))
    /\ IsFiniteSet(Recent(Terminal))
    /\ Cardinality(Recent(Terminal)) = Cardinality(Recent(Succeeded)) + Cardinality(Recent(Terminal \ Succeeded))
    /\ Terminal # {} => LastStatus # {}
    /\ LastStatus \subseteq Verdicts

\* Compute is Sum of these signals in every state the drills can reach.
LEMMA SignalsAreKnown == ReadinessInv => SignalsKnown
<1> SUFFICES ASSUME ReadinessInv PROVE SignalsKnown
  OBVIOUS
<1>1. ASSUME Terminal # {}
      PROVE  /\ Ended90 \in Nat /\ Ended90 > 0 /\ Passed90 \in Nat /\ FreshNow \in Nat
             /\ \A last \in Verdicts :
                Compute(last) = Sum(FreshNow, Ended90, Passed90, Points(last), cadenceInterval(cadence))
  <2>1. ASSUME NEW last
        PROVE  /\ cadenceInterval(cadence) \in Intervals
               /\ Ended90 \in Nat /\ Ended90 > 0 /\ Passed90 \in 0 .. Ended90
               /\ FreshNow \in 0 .. (60 * cadenceInterval(cadence))
               /\ Compute(last) = Sum(FreshNow, Ended90, Passed90, Points(last), cadenceInterval(cadence))
    BY <1>1, ComputeIsSum DEF Ended90, Passed90, FreshNow, Points
  <2>2. \A i \in Intervals : 60 * i \in Nat
    BY DEF Intervals
  <2>3. cadenceInterval(cadence) \in Intervals
    BY <2>1
  <2>4. \A x, y : y \in Nat /\ x \in 0 .. y => x \in Nat
    OBVIOUS
  <2> QED BY <2>1, <2>2, <2>3, <2>4
<1>2. ASSUME Succeeded # {}
      PROVE  /\ LastSuccessAt \in {trial[d].completed : d \in Succeeded}
             /\ \A d \in Succeeded : trial[d].completed <= LastSuccessAt
             /\ LastSuccessAt \in Nat /\ hour - LastSuccessAt \in Nat
  <2> DEFINE T == {trial[d].completed : d \in Succeeded}
  <2>1. LastSuccessAt \in 0 .. hour /\ \A d \in Succeeded : trial[d].completed <= LastSuccessAt
    BY <1>2, LastSuccess
  <2>2. LastSuccessAt \in Nat /\ hour - LastSuccessAt \in Nat
    BY <2>1 DEF ReadinessInv
  <2>3. \E t \in T : \A d \in Succeeded : trial[d].completed <= t
    <3>1. T \in SUBSET (0 .. hour) /\ T # {}
      BY <1>2 DEF ReadinessInv, Succeeded
    <3>2. T \in SUBSET Int
      <4>1. \A x \in 0 .. hour : x \in Int
        OBVIOUS
      <4> HIDE DEF T
      <4> QED BY <3>1, <4>1
    <3>3. IsFiniteSet(T)
      <4>1. IsFiniteSet(0 .. hour)
        BY FS_Interval DEF ReadinessInv
      <4> HIDE DEF T
      <4> QED BY <3>1, <4>1, FS_Subset
    <3>4. \E t \in T : \A k \in T : k <= t
      <4> HIDE DEF T
      <4> QED BY <3>1, <3>2, <3>3, Largest
    <3> QED BY <3>4
  <2>4. LastSuccessAt \in T
    BY <2>3 DEF LastSuccessAt
  <2> QED BY <2>1, <2>2, <2>4
<1>3. /\ Succeeded \in SUBSET Trials /\ Recent(Succeeded) \in SUBSET Trials
      /\ Recent(Terminal \ Succeeded) \in SUBSET Trials /\ Recent(Terminal) \in SUBSET Trials
  BY DEF Succeeded, Terminal, Recent
<1>4. /\ IsFiniteSet(Succeeded) /\ Cardinality(Succeeded) \in Nat
      /\ Cardinality(Recent(Succeeded)) \in Nat /\ Cardinality(Recent(Terminal \ Succeeded)) \in Nat
      /\ IsFiniteSet(Recent(Succeeded)) /\ IsFiniteSet(Recent(Terminal \ Succeeded))
      /\ IsFiniteSet(Recent(Terminal))
  BY <1>3, FS_Subset, FS_CardinalityType, ReadinessAssumption
<1>5. Cardinality(Recent(Terminal)) = Cardinality(Recent(Succeeded)) + Cardinality(Recent(Terminal \ Succeeded))
  <2>1. /\ Recent(Terminal) = Recent(Succeeded) \cup Recent(Terminal \ Succeeded)
        /\ Recent(Succeeded) \cap Recent(Terminal \ Succeeded) = {}
    BY DEF Recent, Terminal, Succeeded
  <2>2. ASSUME NEW S, NEW T, IsFiniteSet(S), IsFiniteSet(T), S \cap T = {},
               Cardinality(S) \in Nat, Cardinality(T) \in Nat
        PROVE  Cardinality(S \cup T) = Cardinality(S) + Cardinality(T)
    <3>1. Cardinality(S \cup T) = Cardinality(S) + Cardinality(T) - Cardinality(S \cap T)
      BY <2>2, FS_Union
    <3>2. Cardinality(S \cap T) = 0
      BY <2>2, FS_EmptySet
    <3> QED BY <2>2, <3>1, <3>2
  <2> QED BY <1>4, <2>1, <2>2
<1>6. Terminal # {} => LastStatus # {}
  <2> SUFFICES ASSUME Terminal # {} PROVE LastStatus # {}
    OBVIOUS
  <2> DEFINE T == {trial[d].completed : d \in Terminal}
  <2>1. T \in SUBSET (0 .. hour) /\ T # {}
    BY DEF ReadinessInv, Terminal
  <2>2. T \in SUBSET Int
    <3>1. \A x \in 0 .. hour : x \in Int
      OBVIOUS
    <3> HIDE DEF T
    <3> QED BY <2>1, <3>1
  <2>3. IsFiniteSet(T)
    <3>1. IsFiniteSet(0 .. hour)
      BY FS_Interval DEF ReadinessInv
    <3> HIDE DEF T
    <3> QED BY <2>1, <3>1, FS_Subset
  <2>4. PICK t \in T : \A k \in T : k <= t
    <3> HIDE DEF T
    <3> QED BY <2>1, <2>2, <2>3, Largest
  <2>5. PICK x \in Terminal : \A y \in Terminal : trial[y].completed <= trial[x].completed
    BY <2>4
  <2>6. trial[x].status \in LastStatus
    BY <2>5 DEF LastStatus
  <2> QED BY <2>6
<1>7. LastStatus \subseteq Verdicts
  BY DEF LastStatus, Terminal, Verdicts
<1> QED BY <1>1, <1>2, <1>4, <1>5, <1>6, <1>7 DEF SignalsKnown

\* The value of a state is at most that of the state before.
LEMMA ValueFalls ==
    ASSUME SignalsKnown, SignalsKnown', cadence' = cadence, Terminal # {}, Terminal' # {},
           FreshNow' <= FreshNow, Passed90' * Ended90 <= Passed90 * Ended90',
           NEW last \in Verdicts, NEW was \in Verdicts, last = "succeeded" => was = "succeeded"
    PROVE  Compute(last)' <= Compute(was)
<1>1. PICK i \in Intervals : i = cadenceInterval(cadence) /\ i = cadenceInterval(cadence')
  BY IntervalKnown
<1>2. PICK x \in {0, 10} : x = Points(was)
  BY DEF Points
<1>3. PICK y \in {0, 10} : y = Points(last)
  BY DEF Points
<1>4. y <= x
  BY <1>2, <1>3 DEF Points
<1>5. Compute(was) = Sum(FreshNow, Ended90, Passed90, x, i)
  BY <1>1, <1>2 DEF SignalsKnown
<1>6. Compute(last)' = Sum(FreshNow', Ended90', Passed90', y, i)
  BY <1>1, <1>3 DEF SignalsKnown, Points
<1>7. /\ Ended90 \in Nat /\ Ended90 > 0 /\ Passed90 \in Nat /\ FreshNow \in Nat
      /\ Ended90' \in Nat /\ Ended90' > 0 /\ Passed90' \in Nat /\ FreshNow' \in Nat
  BY DEF SignalsKnown
<1>8. PICK n \in Nat, p \in Nat, f \in Nat : n = Ended90 /\ p = Passed90 /\ f = FreshNow
  BY <1>7
<1>9. PICK m \in Nat, q \in Nat, g \in Nat : m = Ended90' /\ q = Passed90' /\ g = FreshNow'
  BY <1>7
<1>10. n > 0 /\ m > 0 /\ g <= f /\ q * n <= p * m
  BY <1>7, <1>8, <1>9
<1>11. Sum(g, m, q, y, i) <= Sum(f, n, p, x, i)
  BY <1>4, <1>10, SumMonotone
<1> QED BY <1>5, <1>6, <1>8, <1>9, <1>11

\* A running drill is younger than the time that can have passed under it.
RunsInv ==
    /\ ReadinessInv
    /\ \A d \in Trials : trial[d].status = "running" => hour - trial[d].created <= jumps * LongestRun

\* No drill runs at first.
LEMMA RunsStart == ReadinessInit => RunsInv
<1> SUFFICES ASSUME ReadinessInit PROVE RunsInv
  OBVIOUS
<1>1. \A d \in Trials : trial[d].status = "none"
  BY DEF ReadinessInit
<1> QED BY <1>1, ReadinessStart DEF RunsInv

\* While a drill runs, HoursPass takes at most LongestRun at a time.
LEMMA RunsStep == RunsInv /\ [ReadinessNext]_readyVars => RunsInv'
<1> SUFFICES ASSUME RunsInv, [ReadinessNext]_readyVars PROVE RunsInv'
  OBVIOUS
<1>0. ReadinessInv /\ ReadinessInv' /\ hour \in Nat /\ jumps \in Nat /\ LongestRun \in Nat
  BY ReadinessStep, ReadinessAssumption DEF RunsInv, ReadinessInv
<1>1. ASSUME NEW d \in Trials, StartTrial(d) PROVE RunsInv'
  <2> DEFINE r == [status |-> "running", created |-> hour, completed |-> 0]
  <2>1. r.created = hour
    OBVIOUS
  <2> HIDE DEF r
  <2>2. trial' = [trial EXCEPT ![d] = r] /\ UNCHANGED <<hour, cadence, jumps>>
    BY <1>1 DEF StartTrial, r
  <2>3. hour - hour <= jumps * LongestRun
    <3>1. jumps * LongestRun \in Nat
      BY <1>0
    <3> QED BY <1>0, <3>1
  <2>4. trial'[d].created = hour /\ \A x \in Trials : x # d => trial'[x] = trial[x]
    BY <2>1, <2>2, <1>0 DEF ReadinessInv
  <2>5. ASSUME NEW x \in Trials, trial'[x].status = "running"
        PROVE  hour' - trial'[x].created <= jumps' * LongestRun
    <3>1. CASE x = d
      BY <2>2, <2>3, <2>4, <3>1
    <3>2. CASE x # d
      BY <2>2, <2>4, <2>5, <3>2 DEF RunsInv
    <3> QED BY <3>1, <3>2
  <2> QED BY <1>0, <2>5 DEF RunsInv
<1>2. ASSUME NEW d \in Trials, NEW v \in Verdicts, FinishTrial(d, v) PROVE RunsInv'
  <2> DEFINE r == [trial[d] EXCEPT !.status = v, !.completed = hour]
  <2>1. r.status # "running"
    BY <1>0 DEF ReadinessInv, Verdicts
  <2>2. trial' = [trial EXCEPT ![d] = r] /\ UNCHANGED <<hour, cadence, jumps>>
    BY <1>2, <1>0 DEF FinishTrial, ReadinessInv
  <2> HIDE DEF r
  <2>3. trial'[d].status # "running" /\ \A x \in Trials : x # d => trial'[x] = trial[x]
    BY <2>1, <2>2, <1>0 DEF ReadinessInv
  <2> QED BY <1>0, <2>2, <2>3 DEF RunsInv
<1>3. ASSUME SetTargetCadence PROVE RunsInv'
  BY <1>0, <1>3 DEF SetTargetCadence, RunsInv
<1>4. ASSUME NEW n \in Jumps, HoursPass(n) PROVE RunsInv'
  <2>1. n \in Nat /\ hour' = hour + n /\ jumps' = jumps + 1 /\ UNCHANGED <<cadence, trial>>
    BY <1>4, ReadinessAssumption DEF HoursPass
  <2>2. ASSUME NEW d \in Trials, trial[d].status = "running"
        PROVE  hour' - trial[d].created <= jumps' * LongestRun
    <3>1. n <= LongestRun
      BY <1>0, <1>4, <2>1, <2>2 DEF HoursPass
    <3>2. trial[d].created \in Nat
      BY <1>0 DEF ReadinessInv
    <3>3. hour - trial[d].created <= jumps * LongestRun
      BY <2>2 DEF RunsInv
    <3>4. jumps * LongestRun \in Nat /\ (jumps + 1) * LongestRun = jumps * LongestRun + LongestRun
      BY <1>0
    <3> QED BY <1>0, <2>1, <3>1, <3>2, <3>3, <3>4
  <2> QED BY <1>0, <2>1, <2>2 DEF RunsInv
<1>5. ASSUME UNCHANGED readyVars PROVE RunsInv'
  BY <1>0, <1>5 DEF readyVars, RunsInv
<1> QED BY <1>1, <1>2, <1>3, <1>4, <1>5 DEF ReadinessNext, Verdicts

\* So a drill that ends is in the window.
LEMMA EndsInWindow ==
    ASSUME RunsInv, RunsAreShort, NEW d \in Trials, trial[d].status = "running"
    PROVE  trial[d].created > hour - 90 * 24
<1>1. /\ hour \in Nat /\ jumps \in Nat /\ jumps <= MaxJumps /\ MaxJumps \in Nat /\ LongestRun \in Nat
      /\ trial[d].created \in Nat
  BY ReadinessAssumption DEF RunsInv, ReadinessInv
<1>2. hour - trial[d].created <= jumps * LongestRun
  BY DEF RunsInv
<1>3. jumps * LongestRun <= MaxJumps * LongestRun
  BY <1>1, Scaled
<1>4. jumps * LongestRun \in Int /\ MaxJumps * LongestRun \in Int /\ MaxJumps * LongestRun < 90 * 24
  BY <1>1 DEF RunsAreShort
<1> QED BY <1>1, <1>2, <1>3, <1>4

\* The freshness of the same last success does not grow.
LEMMA FreshFalls ==
    ASSUME SignalsKnown, SignalsKnown', hour \in Nat, hour' \in Nat, hour <= hour', cadence' = cadence,
           Succeeded' = Succeeded, \A d \in Succeeded : trial'[d].completed = trial[d].completed
    PROVE  FreshNow' <= FreshNow
<1>1. CASE Succeeded = {}
  <2>1. FreshNow = 0 /\ FreshNow' = 0
    BY <1>1 DEF FreshNow
  <2> QED BY <2>1
<1>2. CASE Succeeded # {}
  <2>1. PICK d \in Succeeded : LastSuccessAt = trial[d].completed
    BY <1>2 DEF SignalsKnown
  <2>2. PICK x \in Succeeded : LastSuccessAt' = trial'[x].completed
    BY <1>2 DEF SignalsKnown
  <2>3. /\ trial[x].completed <= LastSuccessAt /\ trial'[d].completed <= LastSuccessAt'
        /\ LastSuccessAt \in Nat /\ LastSuccessAt' \in Nat
        /\ hour - LastSuccessAt \in Nat /\ hour' - LastSuccessAt' \in Nat
    BY <1>2 DEF SignalsKnown
  <2>4. LastSuccessAt' = LastSuccessAt
    BY <2>1, <2>2, <2>3
  <2>5. PICK i \in Intervals : i = cadenceInterval(cadence) /\ i = cadenceInterval(cadence')
    BY IntervalKnown
  <2>6. PICK a \in Nat : a = hour - LastSuccessAt
    BY <2>3
  <2>7. PICK b \in Nat : b = hour' - LastSuccessAt'
    BY <2>3
  <2>8. a <= b
    <3>1. PICK t \in Nat : t = LastSuccessAt
      BY <2>3
    <3>2. PICK h \in Nat : h = hour
      OBVIOUS
    <3>3. PICK k \in Nat : k = hour'
      OBVIOUS
    <3>4. a = h - t /\ b = k - t /\ h <= k
      BY <2>4, <2>6, <2>7, <3>1, <3>2, <3>3
    <3> QED BY <3>4
  <2>9. FreshNow = Freshness(a, i)
    BY <1>2, <2>5, <2>6 DEF FreshNow
  <2>10. FreshNow' = Freshness(b, i)
    BY <1>2, <2>5, <2>7 DEF FreshNow
  <2> QED BY <2>8, <2>9, <2>10, FreshnessFalls
<1> QED BY <1>1, <1>2

\* Fewer recent successes and more recent failures: the share falls.
LEMMA SharePasses ==
    ASSUME SignalsKnown, SignalsKnown', Terminal # {}, Terminal' # {},
           Cardinality(Recent(Succeeded))' <= Cardinality(Recent(Succeeded)),
           Cardinality(Recent(Terminal \ Succeeded)) <= Cardinality(Recent(Terminal \ Succeeded))'
    PROVE  Passed90' * Ended90 <= Passed90 * Ended90'
<1>1. PICK p \in Nat : p = Cardinality(Recent(Succeeded))
  BY DEF SignalsKnown
<1>2. PICK q \in Nat : q = Cardinality(Recent(Succeeded))'
  BY DEF SignalsKnown
<1>3. PICK f \in Nat : f = Cardinality(Recent(Terminal \ Succeeded))
  BY DEF SignalsKnown
<1>4. PICK g \in Nat : g = Cardinality(Recent(Terminal \ Succeeded))'
  BY DEF SignalsKnown
<1>5. q <= p /\ f <= g
  BY <1>1, <1>2, <1>3, <1>4
<1>6. /\ Recent(Terminal) = {} <=> p + f = 0
      /\ p + f # 0 => Ended90 = p + f /\ Passed90 = p
      /\ p + f = 0 => Ended90 = 2 /\ Passed90 = 1
  <2>1. Cardinality(Recent(Terminal)) = p + f /\ IsFiniteSet(Recent(Terminal))
    BY <1>1, <1>3 DEF SignalsKnown
  <2>2. Recent(Terminal) = {} <=> p + f = 0
    BY <2>1, FS_EmptySet
  <2> QED BY <2>1, <2>2, <1>1 DEF Ended90, Passed90
<1>7. /\ Recent(Terminal)' = {} <=> q + g = 0
      /\ q + g # 0 => Ended90' = q + g /\ Passed90' = q
      /\ q + g = 0 => Ended90' = 2 /\ Passed90' = 1
  <2>1. Cardinality(Recent(Terminal))' = q + g /\ IsFiniteSet(Recent(Terminal))'
    BY <1>2, <1>4 DEF SignalsKnown
  <2>2. Recent(Terminal)' = {} <=> q + g = 0
    BY <2>1, FS_EmptySet
  <2> QED BY <2>1, <2>2, <1>2 DEF Ended90, Passed90
<1>8. CASE p + f # 0 /\ q + g # 0
  BY <1>5, <1>6, <1>7, <1>8, ShareFalls
<1>9. CASE p + f = 0 /\ q + g # 0
  <2>1. q = 0 /\ Passed90' = q /\ Ended90 = 2 /\ Passed90 = 1 /\ Ended90' = q + g
    BY <1>5, <1>6, <1>7, <1>9
  <2> QED BY <2>1
<1>10. CASE q + g = 0
  <2>1. f = 0 /\ Ended90' = 2 /\ Passed90' = 1
    BY <1>5, <1>7, <1>10
  <2>2. CASE p = 0
    BY <1>6, <2>1, <2>2
  <2>3. CASE p # 0
    BY <1>6, <2>1, <2>3
  <2> QED BY <2>2, <2>3
<1> QED BY <1>8, <1>9, <1>10

\* No value of a state is above all those of the state before.
LEMMA ValuesFall ==
    ASSUME SignalsKnown, SignalsKnown', cadence' = cadence, Terminal # {}, Terminal' # {},
           FreshNow' <= FreshNow, Passed90' * Ended90 <= Passed90 * Ended90',
           "succeeded" \in LastStatus' => "succeeded" \in LastStatus,
           NEW w \in Values'
    PROVE  \E v \in Values : w <= v
<1>1. PICK last \in LastStatus' : w = Compute(last)'
  <2>1. Values' = {Compute(last)' : last \in LastStatus'}
    BY DEF Values
  <2> QED BY <2>1
<1>2. last \in Verdicts /\ LastStatus \subseteq Verdicts /\ LastStatus # {}
  BY <1>1 DEF SignalsKnown
<1>3. \E was \in LastStatus : last = "succeeded" => was = "succeeded"
  BY <1>1, <1>2
<1>4. PICK was \in LastStatus : last = "succeeded" => was = "succeeded"
  BY <1>3
<1>5. was \in Verdicts
  BY <1>2
<1>6. Compute(last)' <= Compute(was)
  BY <1>2, <1>4, <1>5, ValueFalls
<1>7. Compute(was) \in Values
  BY DEF Values
<1> QED BY <1>1, <1>6, <1>7

\* Steps that leave the drills that ended as they are: a start, and waiting.
LEMMA QuietFalls ==
    ASSUME SignalsKnown, SignalsKnown', hour \in Nat, hour' \in Nat, hour <= hour', cadence' = cadence,
           Terminal' = Terminal, Succeeded' = Succeeded,
           \A d \in Terminal : trial'[d] = trial[d] /\ trial[d].created \in Nat,
           Cardinality(Recent(Terminal \ Succeeded)) <= Cardinality(Recent(Terminal \ Succeeded))',
           NEW w \in Values'
    PROVE  \E v \in Values : w <= v
<1>1. CASE Terminal = {}
  BY <1>1 DEF Values
<1>2. CASE Terminal # {}
  <2>1. Succeeded \subseteq Terminal
    BY DEF Succeeded, Terminal
  <2>2. FreshNow' <= FreshNow
    BY <2>1, FreshFalls
  <2>3. Recent(Succeeded)' \subseteq Recent(Succeeded)
    <3> SUFFICES ASSUME NEW d \in Succeeded, trial'[d].created > hour' - 90 * 24
                 PROVE  trial[d].created > hour - 90 * 24
      BY DEF Recent
    <3>1. trial'[d].created = trial[d].created /\ trial[d].created \in Nat
      BY <2>1
    <3> QED BY <3>1
  <2>4. Cardinality(Recent(Succeeded))' <= Cardinality(Recent(Succeeded))
    BY <2>3, FS_Subset DEF SignalsKnown
  <2>5. Passed90' * Ended90 <= Passed90 * Ended90'
    BY <1>2, <2>4, SharePasses
  <2>6. LastStatus' = LastStatus
    BY DEF LastStatus
  <2> QED BY <1>2, <2>2, <2>5, <2>6, ValuesFall
<1> QED BY <1>1, <1>2

\* A first drill that fails in the window leaves the value at 0.
LEMMA ZeroSum ==
    ASSUME NEW interval \in Intervals, NEW n \in Nat, n > 0
    PROVE  Sum(0, n, 0, 0, interval) = 0
<1>1. interval \in Nat /\ interval > 0
  BY DEF Intervals
<1> DEFINE k == interval * n
<1>2. k \in Nat /\ k > 0
  BY <1>1, Scaled
<1>3. Sum(0, n, 0, 0, interval) = k \div (2 * k)
  BY <1>1 DEF Sum
<1> HIDE DEF k
<1>4. k \div (2 * k) = 0
  <2>1. k \div (2 * k) \in Nat /\ (k \div (2 * k)) * (2 * k) <= k
    BY <1>2
  <2>2. CASE k \div (2 * k) >= 1
    <3> DEFINE z == k \div (2 * k)
    <3>1. z \in Nat /\ z * (2 * k) <= k /\ 1 <= z
      BY <2>1, <2>2
    <3> HIDE DEF z
    <3>2. 1 * (2 * k) <= z * (2 * k)
      BY <3>1, <1>2, Scaled
    <3>3. z * (2 * k) \in Int
      BY <3>1, <1>2
    <3> QED BY <1>2, <3>1, <3>2, <3>3
  <2> QED BY <2>1, <2>2
<1> QED BY <1>3, <1>4

\* A drill that fails adds one recent failure or none, and no success.
LEMMA FailureFalls ==
    ASSUME RunsInv, RunsInv', SignalsKnown, SignalsKnown', RunsAreShort,
           NEW d \in Trials, FinishTrial(d, "failed"), NEW w \in Values'
    PROVE  \E v \in Values : w <= v
<1> DEFINE r == [trial[d] EXCEPT !.status = "failed", !.completed = hour]
<1>0. ReadinessInv /\ hour \in Nat /\ trial[d].status = "running"
  BY DEF RunsInv, ReadinessInv, FinishTrial
<1>1. r.status = "failed" /\ r.completed = hour /\ r.created = trial[d].created
  BY <1>0 DEF ReadinessInv
<1>2. trial' = [trial EXCEPT ![d] = r] /\ UNCHANGED <<hour, cadence, jumps>>
  BY <1>0 DEF FinishTrial, ReadinessInv
<1> HIDE DEF r
<1>3. /\ trial'[d].status = "failed" /\ trial'[d].completed = hour /\ trial'[d].created = trial[d].created
      /\ \A x \in Trials : x # d => trial'[x] = trial[x]
  BY <1>0, <1>1, <1>2 DEF ReadinessInv
<1>4. d \notin Terminal /\ d \notin Succeeded /\ Terminal \subseteq Trials /\ Succeeded \subseteq Terminal
  BY <1>0 DEF Terminal, Succeeded
<1>5. Succeeded' = Succeeded /\ Terminal' = Terminal \cup {d} /\ Terminal' # {}
  BY <1>0, <1>3 DEF Terminal, Succeeded
<1>6. \A x \in Terminal : trial'[x] = trial[x]
  BY <1>3, <1>4
<1>7. CASE Terminal # {}
  <2>1. FreshNow' <= FreshNow
    <3>1. hour' \in Nat /\ hour <= hour' /\ cadence' = cadence
      BY <1>0, <1>2
    <3> QED BY <1>0, <1>4, <1>5, <1>6, <3>1, FreshFalls
  <2>2. Recent(Succeeded)' = Recent(Succeeded)
    BY <1>2, <1>4, <1>5, <1>6 DEF Recent
  <2>3. Cardinality(Recent(Succeeded))' <= Cardinality(Recent(Succeeded))
    BY <2>2 DEF SignalsKnown
  <2>4. Recent(Terminal \ Succeeded) \subseteq Recent(Terminal \ Succeeded)'
    BY <1>2, <1>5, <1>6 DEF Recent
  <2>5. Cardinality(Recent(Terminal \ Succeeded)) <= Cardinality(Recent(Terminal \ Succeeded))'
    BY <2>4, FS_Subset DEF SignalsKnown
  <2>6. Passed90' * Ended90 <= Passed90 * Ended90'
    BY <1>5, <1>7, <2>3, <2>5, SharePasses
  <2>7. ASSUME "succeeded" \in LastStatus' PROVE "succeeded" \in LastStatus
    <3>1. PICK x \in Terminal' : /\ trial'[x].status = "succeeded"
                                 /\ \A y \in Terminal' : trial'[y].completed <= trial'[x].completed
      BY <2>7 DEF LastStatus
    <3>2. x \in Terminal
      BY <1>3, <1>5, <3>1
    <3>3. trial[x].status = "succeeded" /\ \A y \in Terminal : trial[y].completed <= trial[x].completed
      BY <1>5, <1>6, <3>1, <3>2
    <3> QED BY <3>2, <3>3 DEF LastStatus
  <2> QED BY <1>2, <1>5, <1>7, <2>1, <2>6, <2>7, ValuesFall
<1>8. CASE Terminal = {}
  <2>1. Succeeded = {} /\ Terminal' = {d} /\ Succeeded' = {}
    BY <1>4, <1>5, <1>8
  <2>2. d \in Recent(Terminal)' /\ Recent(Succeeded)' = {}
    BY <1>0, <1>2, <1>3, <2>1, EndsInWindow DEF Recent
  <2>3. FreshNow' = 0 /\ Passed90' = 0
    <3>1. Cardinality(Recent(Succeeded)') = 0
      BY <2>2, FS_EmptySet
    <3> QED BY <2>1, <2>2, <3>1 DEF FreshNow, Passed90
  <2>4. PICK i \in Intervals : i = cadenceInterval(cadence')
    BY IntervalKnown
  <2>5. PICK n \in Nat : n = Ended90' /\ n > 0
    BY <1>5 DEF SignalsKnown
  <2>6. ASSUME NEW last \in LastStatus' PROVE Compute(last)' = 0
    <3>1. last = "failed"
      BY <1>3, <2>1, <2>6 DEF LastStatus
    <3>2. last \in Verdicts
      BY <3>1 DEF Verdicts
    <3>3. Points(last) = 0
      BY <3>1 DEF Points
    <3>4. Compute(last)' = Sum(FreshNow', Ended90', Passed90', 0, i)
      BY <1>5, <2>4, <3>2, <3>3 DEF SignalsKnown, Points
    <3> QED BY <2>3, <2>5, <3>4, ZeroSum
  <2>7. w = 0
    <3>1. Values' = {Compute(last)' : last \in LastStatus'}
      BY <1>5 DEF Values
    <3> QED BY <2>6, <3>1
  <2>8. Values = {0}
    BY <1>8 DEF Values
  <2> QED BY <2>7, <2>8
<1> QED BY <1>7, <1>8

\* A step with none of the three reasons does not lift the value.
LEMMA NoReasonNoRise ==
    ASSUME RunsInv, RunsInv', SignalsKnown, SignalsKnown', RunsAreShort, ReadinessNext,
           ~ (Cardinality(Succeeded') > Cardinality(Succeeded)),
           ~ (Cardinality(Recent(Terminal \ Succeeded)') < Cardinality(Recent(Terminal \ Succeeded))),
           cadence' = cadence, NEW w \in Values'
    PROVE  \E v \in Values : w <= v
<1>0. /\ ReadinessInv /\ hour \in Nat /\ Terminal \subseteq Trials
      /\ \A x \in Trials : trial[x].created \in Nat
  BY DEF RunsInv, ReadinessInv, Terminal
<1>1. Cardinality(Recent(Terminal \ Succeeded)) <= Cardinality(Recent(Terminal \ Succeeded))'
  <2>1. PICK a \in Nat : a = Cardinality(Recent(Terminal \ Succeeded))
    BY DEF SignalsKnown
  <2>2. PICK b \in Nat : b = Cardinality(Recent(Terminal \ Succeeded))'
    BY DEF SignalsKnown
  <2>3. ~ (b < a)
    BY <2>1, <2>2
  <2> QED BY <2>1, <2>2, <2>3
<1>2. ASSUME NEW d \in Trials, StartTrial(d) PROVE \E v \in Values : w <= v
  <2> DEFINE r == [status |-> "running", created |-> hour, completed |-> 0]
  <2>1. r.status = "running"
    OBVIOUS
  <2> HIDE DEF r
  <2>2. trial' = [trial EXCEPT ![d] = r] /\ UNCHANGED <<hour, cadence, jumps>> /\ trial[d].status = "none"
    BY <1>2 DEF StartTrial, r
  <2>3. trial'[d].status = "running" /\ \A x \in Trials : x # d => trial'[x] = trial[x]
    BY <1>0, <2>1, <2>2 DEF ReadinessInv
  <2>4. Terminal' = Terminal /\ Succeeded' = Succeeded /\ d \notin Terminal
    BY <2>2, <2>3 DEF Terminal, Succeeded
  <2>5. \A x \in Terminal : trial'[x] = trial[x] /\ trial[x].created \in Nat
    BY <1>0, <2>3, <2>4
  <2>6. hour' \in Nat /\ hour <= hour'
    BY <1>0, <2>2
  <2> QED BY <1>0, <1>1, <2>4, <2>5, <2>6, QuietFalls
<1>3. ASSUME NEW n \in Jumps, HoursPass(n) PROVE \E v \in Values : w <= v
  <2>1. n \in Nat /\ hour' = hour + n /\ trial' = trial
    BY <1>3, ReadinessAssumption DEF HoursPass
  <2>2. hour' \in Nat /\ hour <= hour'
    BY <1>0, <2>1
  <2>3. Terminal' = Terminal /\ Succeeded' = Succeeded
    BY <2>1 DEF Terminal, Succeeded
  <2>4. \A x \in Terminal : trial'[x] = trial[x] /\ trial[x].created \in Nat
    BY <1>0, <2>1
  <2> QED BY <1>0, <1>1, <2>2, <2>3, <2>4, QuietFalls
<1>4. ASSUME NEW d \in Trials, FinishTrial(d, "succeeded") PROVE FALSE
  <2> DEFINE r == [trial[d] EXCEPT !.status = "succeeded", !.completed = hour]
  <2>1. r.status = "succeeded"
    BY <1>0 DEF ReadinessInv
  <2>2. trial' = [trial EXCEPT ![d] = r] /\ trial[d].status = "running"
    BY <1>0, <1>4 DEF FinishTrial, ReadinessInv
  <2> HIDE DEF r
  <2>3. trial'[d].status = "succeeded" /\ \A x \in Trials : x # d => trial'[x] = trial[x]
    BY <1>0, <2>1, <2>2 DEF ReadinessInv
  <2>4. Succeeded' = Succeeded \cup {d} /\ d \notin Succeeded
    BY <2>2, <2>3 DEF Succeeded
  <2>5. Cardinality(Succeeded \cup {d}) = Cardinality(Succeeded) + 1
    BY <2>4, FS_AddElement DEF SignalsKnown
  <2>6. PICK k \in Nat : k = Cardinality(Succeeded)
    BY DEF SignalsKnown
  <2>7. Cardinality(Succeeded') > Cardinality(Succeeded)
    BY <2>4, <2>5, <2>6
  <2> QED BY <2>7
<1>5. ASSUME NEW d \in Trials, FinishTrial(d, "failed") PROVE \E v \in Values : w <= v
  BY <1>5, FailureFalls
<1>6. ~ SetTargetCadence
  BY DEF SetTargetCadence
<1> QED BY <1>2, <1>3, <1>4, <1>5, <1>6 DEF ReadinessNext

\* The value of a badge rises only by a pass, by a failure that left the window or by a new
\* schedule (ReadinessStats, Compute).
THEOREM ScoreRisesByProof == RunsAreShort => (ReadinessSpec => RisesByProof)
<1> SUFFICES ASSUME RunsAreShort PROVE ReadinessSpec => RisesByProof
  OBVIOUS
<1> DEFINE A == (\E w \in Values' : \A v \in Values : w > v)
                  => (\/ Cardinality(Succeeded') > Cardinality(Succeeded)
                      \/ Cardinality(Recent(Terminal \ Succeeded)') < Cardinality(Recent(Terminal \ Succeeded))
                      \/ cadence' # cadence)
<1>1. RunsInv => SignalsKnown /\ ReadinessTypeOK
  BY SignalsAreKnown, ReadinessImplies DEF RunsInv, ReadinessSafe
<1>2. ASSUME RunsInv, RunsInv', SignalsKnown, SignalsKnown', ReadinessTypeOK, ReadinessTypeOK',
             [ReadinessNext]_readyVars
      PROVE  [A]_readyVars
  <2> SUFFICES ASSUME ReadinessNext,
                      ~ (Cardinality(Succeeded') > Cardinality(Succeeded)),
                      ~ (Cardinality(Recent(Terminal \ Succeeded)') < Cardinality(Recent(Terminal \ Succeeded))),
                      cadence' = cadence, NEW w \in Values', \A v \in Values : w > v
               PROVE  FALSE
    BY <1>2
  <2>1. PICK v \in Values : w <= v
    BY <1>2, NoReasonNoRise
  <2>2. w \in 0 .. 100 /\ v \in 0 .. 100
    BY <1>2 DEF ReadinessTypeOK
  <2> QED BY <2>1, <2>2
<1> QED BY <1>1, <1>2, RunsStart, RunsStep, PTL DEF ReadinessSpec, RisesByProof

-----------------------------------------------------------------------------
(* The flags.  A refresh is marked for as long as it runs, and what PostHog    *)
(* has answered once stays in the cache.                                    *)

FlagsInv ==
    /\ FlagsTypeOK /\ MarkedWhileRunning
    /\ DOMAIN given = Actors /\ evaluated \in [Actors -> FlagValues \cup {"none", "stored"}]
    /\ \A i \in Actors : evaluated[i] # "none" => fetches[i] = 1
    /\ \A i \in Actors : given[i].by = "posthog" => cached[i].has

\* One case for each action of the flags.
LEMMA FlagsStep == FlagsInv /\ [FlagsNext]_flagVars => FlagsInv'
<1> SUFFICES ASSUME FlagsInv, [FlagsNext]_flagVars PROVE FlagsInv'
  OBVIOUS
<1> DEFINE B == BOOLEAN
           Entries == [has : B, fresh : B, flag : FlagValues]
<1>0. /\ cached \in [Actors -> Entries] /\ inflight \in [Actors -> B] /\ fetches \in [Actors -> 0 .. 1]
      /\ remote \in [Actors -> FlagValues] /\ evaluated \in [Actors -> FlagValues \cup {"none", "stored"}]
      /\ DOMAIN given = Actors
  BY DEF FlagsInv, FlagsTypeOK
<1>b. TRUE \in B /\ FALSE \in B
  BY DEF B
<1>f. FlagsTypeOK' <=> /\ cached' \in [Actors -> Entries] /\ inflight' \in [Actors -> B]
                       /\ fetches' \in [Actors -> 0 .. 1] /\ remote' \in [Actors -> FlagValues]
  BY DEF FlagsTypeOK
<1> HIDE DEF B
<1>1. ASSUME NEW i \in Actors, Enabled(i) PROVE FlagsInv'
  <2>1. UNCHANGED <<remote, cached, evaluated>> /\ DOMAIN given' = Actors
    BY <1>1, <1>0 DEF Enabled
  <2>2. \A j \in Actors : given'[j].by = "posthog" => cached'[j].has
    <3>1. ASSUME NEW j \in Actors, j # i PROVE given'[j] = given[j]
      BY <1>1, <1>0, <3>1 DEF Enabled
    <3>2. given'[i].by = "posthog" => cached[i].has
      <4>1. CASE cached[i].has /\ cached[i].flag # "absent"
        BY <4>1
      <4>2. CASE ~(cached[i].has /\ cached[i].flag # "absent")
        <5>1. given'[i] = [by |-> "default", on |-> default]
          BY <4>2, <1>1, <1>0 DEF Enabled
        <5> QED BY <5>1
      <4> QED BY <4>1, <4>2
    <3> QED BY <3>1, <3>2, <2>1 DEF FlagsInv
  <2>3. CASE Starts(i)
    <3>1. /\ inflight' = [inflight EXCEPT ![i] = TRUE] /\ fetches' = [fetches EXCEPT ![i] = @ + 1]
          /\ ~inflight[i]
      BY <1>1, <2>3 DEF Enabled, Starts
    <3>2. fetches[i] = 0
      BY <3>1, <1>0 DEF FlagsInv, MarkedWhileRunning
    <3>3. /\ \A j \in Actors : j # i => inflight'[j] = inflight[j] /\ fetches'[j] = fetches[j]
          /\ inflight'[i] /\ fetches'[i] = 1
      BY <3>1, <3>2, <1>0
    <3>4. fetches' \in [Actors -> 0 .. 1] /\ inflight' \in [Actors -> B]
      <4>1. fetches' \in [Actors -> 0 .. 1]
        BY <3>1, <3>2, <1>0
      <4>2. inflight' \in [Actors -> B]
        BY <3>1, <1>0, <1>b, Zenon
      <4> QED BY <4>1, <4>2
    <3>5. FlagsTypeOK'
      BY <2>1, <3>4, <1>0, <1>f
    <3>6. MarkedWhileRunning'
      BY <3>3, <1>0 DEF FlagsInv, MarkedWhileRunning
    <3>7. \A j \in Actors : evaluated'[j] # "none" => fetches'[j] = 1
      BY <2>1, <3>3 DEF FlagsInv
    <3> QED BY <2>1, <2>2, <3>5, <3>6, <3>7, <1>0 DEF FlagsInv
  <2>4. CASE ~Starts(i)
    <3>1. UNCHANGED <<inflight, fetches>>
      BY <1>1, <2>4 DEF Enabled
    <3>2. FlagsTypeOK'
      BY <2>1, <3>1, <1>0, <1>f
    <3> QED BY <2>1, <2>2, <3>1, <3>2, <1>0 DEF FlagsInv, MarkedWhileRunning
  <2> QED BY <2>3, <2>4
<1>2. ASSUME NEW i \in Actors, fetch(i) PROVE FlagsInv'
  <2>1. /\ UNCHANGED <<remote, cached, inflight, fetches, given>> /\ fetches[i] > 0
        /\ evaluated' = [evaluated EXCEPT ![i] = remote[i]]
    BY <1>2 DEF fetch
  <2>2. evaluated' \in [Actors -> FlagValues \cup {"none", "stored"}]
    BY <2>1, <1>0
  <2>3. fetches[i] = 1
    BY <2>1, <1>0
  <2>4. \A j \in Actors : evaluated'[j] # "none" => fetches'[j] = 1
    BY <2>1, <2>3, <1>0 DEF FlagsInv
  <2>5. FlagsTypeOK'
    BY <2>1, <1>0, <1>f
  <2> QED BY <2>1, <2>2, <2>4, <2>5, <1>0 DEF FlagsInv, MarkedWhileRunning
<1>3. ASSUME NEW i \in Actors, refresh(i) PROVE FlagsInv'
  <2>1. PICK b \in B : b = TRUE
    BY <1>b
  <2> DEFINE e == [has |-> b, fresh |-> b, flag |-> evaluated[i]]
  <2>2. /\ UNCHANGED <<remote, inflight, fetches, given>> /\ evaluated[i] \in FlagValues
        /\ cached' = [cached EXCEPT ![i] = e]
        /\ evaluated' = [evaluated EXCEPT ![i] = "stored"]
    BY <1>3, <2>1 DEF refresh
  <2>3. e \in Entries /\ e.has
    BY <2>1, <2>2
  <2> HIDE DEF e
  <2>4. cached' \in [Actors -> Entries] /\ \A j \in Actors : cached[j].has => cached'[j].has
    BY <2>2, <2>3, <1>0
  <2>5. evaluated' \in [Actors -> FlagValues \cup {"none", "stored"}]
    BY <2>2, <1>0
  <2>6. evaluated[i] # "none"
    BY <2>2 DEF FlagValues
  <2>7. \A j \in Actors : evaluated'[j] # "none" => fetches'[j] = 1
    BY <2>2, <2>6, <1>0 DEF FlagsInv
  <2>8. FlagsTypeOK'
    BY <2>2, <2>4, <1>0, <1>f
  <2> QED BY <2>2, <2>4, <2>5, <2>7, <2>8, <1>0 DEF FlagsInv, MarkedWhileRunning
<1>4. ASSUME NEW i \in Actors, RefreshReturns(i) PROVE FlagsInv'
  <2>1. /\ UNCHANGED <<remote, given>> /\ fetches[i] > 0
        /\ evaluated' = [evaluated EXCEPT ![i] = "none"]
        /\ fetches' = [fetches EXCEPT ![i] = @ - 1]
        /\ inflight' = [inflight EXCEPT ![i] = FALSE]
    BY <1>4 DEF RefreshReturns, MarkAfter
  <2>2. cached' = cached
    BY <1>4, <1>0 DEF RefreshReturns, Kept
  <2>3. fetches[i] = 1
    BY <2>1, <1>0
  <2>4. /\ \A j \in Actors : j # i => /\ inflight'[j] = inflight[j] /\ fetches'[j] = fetches[j]
                                      /\ evaluated'[j] = evaluated[j]
        /\ ~inflight'[i] /\ fetches'[i] = 0 /\ evaluated'[i] = "none"
    BY <2>1, <2>3, <1>0
  <2>5. /\ fetches' \in [Actors -> 0 .. 1] /\ inflight' \in [Actors -> B]
        /\ evaluated' \in [Actors -> FlagValues \cup {"none", "stored"}]
    <3>1. fetches' \in [Actors -> 0 .. 1] /\ evaluated' \in [Actors -> FlagValues \cup {"none", "stored"}]
      BY <2>1, <2>3, <1>0
    <3>2. inflight' \in [Actors -> B]
      BY <2>1, <1>0, <1>b, Zenon
    <3> QED BY <3>1, <3>2
  <2>6. FlagsTypeOK'
    BY <2>1, <2>2, <2>5, <1>0, <1>f
  <2>7. MarkedWhileRunning'
    BY <2>4, <1>0 DEF FlagsInv, MarkedWhileRunning
  <2>8. \A j \in Actors : evaluated'[j] # "none" => fetches'[j] = 1
    BY <2>4 DEF FlagsInv
  <2> QED BY <2>1, <2>2, <2>5, <2>6, <2>7, <2>8, <1>0 DEF FlagsInv
<1>5. ASSUME NEW i \in Actors, EntryAges(i) PROVE FlagsInv'
  <2>1. PICK b \in B : b = FALSE
    BY <1>b
  <2> DEFINE e == [cached[i] EXCEPT !.fresh = b]
  <2>2. UNCHANGED <<remote, inflight, fetches, evaluated, given>> /\ cached' = [cached EXCEPT ![i] = e]
    BY <1>5, <2>1 DEF EntryAges
  <2>3. e \in Entries /\ e.has = cached[i].has
    BY <2>1, <1>0
  <2> HIDE DEF e
  <2>4. cached' \in [Actors -> Entries] /\ \A j \in Actors : cached[j].has => cached'[j].has
    BY <2>2, <2>3, <1>0
  <2>5. FlagsTypeOK'
    BY <2>2, <2>4, <1>0, <1>f
  <2> QED BY <2>2, <2>4, <2>5, <1>0 DEF FlagsInv, MarkedWhileRunning
<1>6. ASSUME NEW i \in Actors, Rollout(i) PROVE FlagsInv'
  <2>1. UNCHANGED <<cached, inflight, fetches, evaluated, given>> /\ remote' \in [Actors -> FlagValues]
    BY <1>6, <1>0 DEF Rollout
  <2>2. FlagsTypeOK'
    BY <2>1, <1>0, <1>f
  <2> QED BY <2>1, <2>2, <1>0 DEF FlagsInv, MarkedWhileRunning
<1>7. CASE UNCHANGED flagVars
  BY <1>7 DEF flagVars, FlagsInv, FlagsTypeOK, MarkedWhileRunning
<1> QED BY <1>1, <1>2, <1>3, <1>4, <1>5, <1>6, <1>7 DEF FlagsNext

\* Nothing is cached at first.
LEMMA FlagsStart == FlagsInit => FlagsInv
<1> SUFFICES ASSUME FlagsInit PROVE FlagsInv
  OBVIOUS
<1>1. /\ remote \in [Actors -> FlagValues] /\ DOMAIN given = Actors
      /\ evaluated \in [Actors -> FlagValues \cup {"none", "stored"}]
      /\ fetches \in [Actors -> 0 .. 1]
      /\ \A i \in Actors : fetches[i] = 0 /\ evaluated[i] = "none" /\ given[i].by = "none" /\ ~inflight[i]
  BY DEF FlagsInit
<1>2. inflight \in [Actors -> BOOLEAN]
  BY Zenon DEF FlagsInit
<1>3. cached \in [Actors -> [has : BOOLEAN, fresh : BOOLEAN, flag : FlagValues]]
  <2>1. [has |-> FALSE, fresh |-> FALSE, flag |-> "absent"]
           \in [has : BOOLEAN, fresh : BOOLEAN, flag : FlagValues]
    BY DEF FlagValues
  <2> QED BY <2>1, Zenon DEF FlagsInit
<1> QED BY <1>1, <1>2, <1>3 DEF FlagsInv, FlagsTypeOK, MarkedWhileRunning

\* flags.go: one refresh per id at a time, and a mark that never outlives it, for any number
\* of ids and refreshes.
THEOREM FlagsAreRefreshed == FlagsSpec => []FlagsSafe
<1>1. FlagsInv => FlagsSafe
  BY DEF FlagsInv, FlagsSafe
<1> QED BY <1>1, FlagsStart, FlagsStep, PTL DEF FlagsSpec

\* flags.go, refresh: an id that was told what PostHog says falls back to the default only
\* when PostHog has dropped the flag.
THEOREM AnswersAreKept == FlagsSpec => AnswersKept
<1> DEFINE A == \A i \in Actors : (given[i].by = "posthog" /\ given'[i].by = "default")
                                     => (cached[i].has /\ cached[i].flag = "absent")
<1>1. FlagsInv /\ [FlagsNext]_flagVars => [A]_flagVars
  <2> SUFFICES ASSUME FlagsInv, FlagsNext, NEW i \in Actors,
                      given[i].by = "posthog", given'[i].by = "default"
               PROVE  cached[i].has /\ cached[i].flag = "absent"
    OBVIOUS
  <2>1. cached[i].has
    BY DEF FlagsInv
  <2>2. given' # given
    OBVIOUS
  <2>3. PICK j \in Actors : Enabled(j)
    BY <2>2 DEF FlagsNext, fetch, refresh, RefreshReturns, EntryAges, Rollout
  <2>4. i = j
    BY <2>3 DEF Enabled, FlagsInv
  <2>5. CASE cached[i].flag # "absent"
    <3>1. given'[i] = [by |-> "posthog", on |-> IsOn(cached[i].flag)]
      BY <2>1, <2>3, <2>4, <2>5 DEF Enabled, FlagsInv
    <3>2. given'[i].by = "posthog"
      BY <3>1
    <3> QED BY <3>2
  <2> QED BY <2>1, <2>5
<1> QED BY <1>1, FlagsStart, FlagsStep, PTL DEF FlagsSpec, AnswersKept

-----------------------------------------------------------------------------
(* The phones.  A late delete takes a row only from its own user, and the      *)
(* sender has tried exactly the listed phones that are not left to do.        *)

PushRecords ==
    [phase : {"none", "token", "send"}, to : Holders \cup {"none"}, todo : SUBSET Phones,
     listed : SUBSET Phones, tried : SUBSET Phones, token : Int, began : Int]

\* What a notification holds.
PushKnown(q) ==
    /\ q \in PushRecords /\ q.todo = q.listed \ q.tried /\ q.tried \subseteq q.listed
    /\ q.phase = "send" => q.token > q.began + Margin

DevicesInv ==
    /\ DevicesTypeOK /\ LastRegistrationStands /\ PushKnown(push)
    /\ moment \in 0 .. MaxMoment /\ latest \in [Phones -> Holders \cup {"none"}]

\* No push is on its way at first.
LEMMA NoPushKnown == NoPush \in PushRecords /\ PushKnown(NoPush)
  BY DEF NoPush, PushRecords, PushKnown

\* One case for each action on the phones' rows.
LEMMA DevicesStep == DevicesInv /\ [DevicesNext]_deviceVars => DevicesInv'
<1> SUFFICES ASSUME DevicesInv, [DevicesNext]_deviceVars PROVE DevicesInv'
  OBVIOUS
<1>0. /\ bound \in [Phones -> Holders \cup {"none"}] /\ deleting \subseteq Holders \X Phones
      /\ access \in 0 .. MaxMoment + Lifetime /\ moment \in 0 .. MaxMoment
      /\ latest \in [Phones -> Holders \cup {"none"}] /\ push \in PushRecords
      /\ Lifetime \in Nat /\ Margin \in Nat /\ MaxMoment \in Nat /\ Margin < Lifetime
      /\ PushKnown(push)
  BY DevicesAssumption DEF DevicesInv, DevicesTypeOK, PushKnown
<1>p. ASSUME NEW q, PushKnown(q) PROVE q.phase \in {"none", "token", "send"} /\ q.todo \subseteq q.listed
  BY <1>p DEF PushKnown, PushRecords
<1>1. ASSUME NEW d \in Phones, NEW u \in Holders,
             mobileRegisterDevice(d, u) \/ SignOutOfPhone(d, u) \/ mobileDeleteDevice(d, u)
      PROVE  DevicesInv'
  <2>1. /\ UNCHANGED <<moment, access, push>> /\ bound' \in [Phones -> Holders \cup {"none"}]
        /\ latest' \in [Phones -> Holders \cup {"none"}] /\ deleting' \subseteq Holders \X Phones
    BY <1>1, <1>0 DEF mobileRegisterDevice, SignOutOfPhone, mobileDeleteDevice
  <2>2. LastRegistrationStands'
    BY <1>1, <1>0
       DEF mobileRegisterDevice, SignOutOfPhone, mobileDeleteDevice, Deletes, DevicesInv, LastRegistrationStands
  <2> QED BY <2>1, <2>2, <1>0 DEF DevicesInv, DevicesTypeOK
<1>2. ASSUME UNCHANGED <<moment, bound, latest, deleting>>, PushKnown(push'),
             access' \in 0 .. MaxMoment + Lifetime
      PROVE  DevicesInv'
  BY <1>2, <1>0, <1>p DEF DevicesInv, DevicesTypeOK, LastRegistrationStands
<1>3. ASSUME NEW u \in Holders, Notify(u) PROVE DevicesInv'
  <2> DEFINE ds == {d \in Phones : bound[d] = u}
             q == [NoPush EXCEPT !.phase = "token", !.to = u, !.todo = ds, !.listed = ds]
  <2>1. push' = q /\ UNCHANGED <<moment, bound, latest, deleting, access>>
    BY <1>3 DEF Notify
  <2>2. ds \subseteq Phones
    OBVIOUS
  <2> HIDE DEF ds
  <2>3. q \in PushRecords /\ q.phase = "token" /\ q.todo = ds /\ q.listed = ds /\ q.tried = {}
    BY <2>2, NoPushKnown DEF NoPush, PushRecords
  <2> HIDE DEF q
  <2>4. PushKnown(push')
    BY <2>1, <2>3 DEF PushKnown
  <2> QED BY <2>1, <2>4, <1>0, <1>2
<1>4. CASE accessToken
  <2>1. UNCHANGED <<moment, bound, latest, deleting>>
    BY <1>4 DEF accessToken
  <2>2. ASSUME NEW t \in Int, t > moment + Margin,
               push' = [push EXCEPT !.phase = "send", !.token = t, !.began = moment]
        PROVE  PushKnown(push')
    <3>1. moment \in Int
      BY <1>0
    <3>2. /\ push' \in PushRecords /\ push'.phase = "send" /\ push'.token = t /\ push'.began = moment
          /\ push'.todo = push.todo /\ push'.listed = push.listed /\ push'.tried = push.tried
      BY <2>2, <1>0, <3>1 DEF PushRecords
    <3> QED BY <3>2, <2>2, <1>0 DEF PushKnown
  <2>3. CASE Usable /\ push' = [push EXCEPT !.phase = "send", !.token = access, !.began = moment]
             /\ UNCHANGED access
    <3>1. access \in Int /\ access > moment + Margin
      BY <2>3, <1>0 DEF Usable
    <3> QED BY <3>1, <2>1, <2>2, <2>3, <1>0, <1>2
  <2>4. CASE access' = Expiry /\ push' = [push EXCEPT !.phase = "send", !.token = Expiry, !.began = moment]
    <3>1. Expiry \in Int /\ Expiry > moment + Margin /\ Expiry \in 0 .. MaxMoment + Lifetime
      BY <1>0 DEF Expiry
    <3> QED BY <3>1, <2>1, <2>2, <2>4, <1>0, <1>2
  <2>5. CASE push' = NoPush /\ UNCHANGED access
    BY <2>1, <2>5, <1>0, <1>2, NoPushKnown
  <2> QED BY <1>4, <2>3, <2>4, <2>5 DEF accessToken
<1>5. ASSUME NEW d \in Phones, sendOne(d) PROVE DevicesInv'
  <2> DEFINE q == [push EXCEPT !.todo = push.todo \ {d}, !.tried = push.tried \cup {d}]
  <2>1. /\ push' = q /\ UNCHANGED <<moment, bound, latest, deleting, access>>
        /\ push.phase = "send" /\ d \in push.todo
    BY <1>5, <1>0 DEF sendOne, Rest
  <2>2. push.todo \in SUBSET Phones /\ push.tried \in SUBSET Phones
    BY <1>0 DEF PushRecords
  <2>3. /\ q \in PushRecords /\ q.phase = "send" /\ q.todo = push.todo \ {d} /\ q.tried = push.tried \cup {d}
        /\ q.listed = push.listed /\ q.token = push.token /\ q.began = push.began
    BY <2>1, <2>2, <1>0 DEF PushRecords
  <2> HIDE DEF q
  <2>4. PushKnown(push')
    BY <2>1, <2>3, <1>0 DEF PushKnown
  <2> QED BY <2>1, <2>4, <1>0, <1>2
<1>6. CASE SendReturns
  BY <1>6, <1>0, <1>2, NoPushKnown DEF SendReturns
<1>7. CASE MomentPasses
  <2>1. moment' \in 0 .. MaxMoment /\ UNCHANGED <<bound, latest, deleting, access, push>>
    BY <1>7, <1>0 DEF MomentPasses
  <2>2. PushKnown(push')
    BY <2>1, <1>0 DEF PushKnown
  <2> QED BY <2>1, <2>2, <1>0 DEF DevicesInv, DevicesTypeOK, LastRegistrationStands
<1>8. CASE UNCHANGED deviceVars
  BY <1>8 DEF deviceVars, DevicesInv, DevicesTypeOK, LastRegistrationStands
<1> QED BY <1>1, <1>3, <1>4, <1>5, <1>6, <1>7, <1>8 DEF DevicesNext

\* internal/push: a phone rings for who registered it last, every listed phone is tried, and
\* no message goes out with an expired token, for any number of phones and users.
THEOREM PhonesRing == DevicesSpec => []DevicesSafe
<1>1. DevicesInit => DevicesInv
  BY DevicesAssumption, NoPushKnown
     DEF DevicesInit, DevicesInv, DevicesTypeOK, LastRegistrationStands, PushKnown, NoPush
<1>2. DevicesInv => DevicesSafe
  <2> SUFFICES ASSUME DevicesInv PROVE DevicesSafe
    OBVIOUS
  <2>1. EveryDeviceTried
    BY DEF DevicesInv, PushKnown, EveryDeviceTried
  <2>2. moment \in Int /\ push.token \in Int /\ push.began \in Int /\ Margin \in Int
    BY DevicesAssumption DEF DevicesInv, PushKnown, PushRecords
  <2>3. TokenOutlivesMargin
    BY <2>2 DEF DevicesInv, PushKnown, TokenOutlivesMargin
  <2> QED BY <2>1, <2>3 DEF DevicesInv, DevicesSafe
<1> QED BY <1>1, <1>2, DevicesStep, PTL DEF DevicesSpec

-----------------------------------------------------------------------------
(* The process.  How far main has come, or how many deferred calls are left,  *)
(* says what is up.                                                         *)

\* What is up after so many parts of Startup.
StartingKnown ==
    /\ upTo \in 0 .. 6 /\ requests = 0
    /\ upTo >= 1 => Load(conf)
    /\ upTo >= 2 => schema \/ conf.skipMigrate
    /\ (poolOpen <=> upTo >= 3) /\ (upTo >= 4 => staged) /\ (fetching <=> upTo >= 6)
    /\ ~fetching => jobs = 0
    /\ shut = IF upTo >= 6 THEN <<"river", "open">> ELSE IF upTo >= 3 THEN <<"open">> ELSE <<>>

\* Everything was up.
ServedKnown == Load(conf) /\ (schema \/ conf.skipMigrate) /\ staged

\* The calls main deferred are run in the reverse order.
StoppingKnown ==
    /\ ~fetching /\ (requests > 0 => late)
    /\ \/ shut = <<"river", "open">> /\ poolOpen
       \/ shut = <<"open">> /\ poolOpen /\ (jobs > 0 => late)
       \/ shut = <<>> /\ (jobs > 0 => late)

BootTypes == BootTypeOK /\ fetching \in BOOLEAN

BootInv ==
    /\ life = "down" => requests = 0 /\ jobs = 0 /\ ~fetching
    /\ life = "starting" => StartingKnown
    /\ life \in {"up", "draining", "stopping"} => ServedKnown
    /\ life \in {"up", "draining"} => poolOpen /\ shut = <<"river", "open">>
    /\ life = "draining" => ~fetching
    /\ life = "stopping" => StoppingKnown

\* One case for each statement of main and of its shutdown.
LEMMA BootTypesStep == BootTypes /\ [BootNext]_bootVars => BootTypes'
<1> SUFFICES ASSUME BootTypes, [BootNext]_bootVars PROVE BootTypes'
  OBVIOUS
<1>0. Len(Startup) = 7 /\ MaxRequests \in Nat /\ MaxWorkers \in Nat
  BY BootAssumption DEF Startup
<1>1. upTo' \in 0 .. Len(Startup)
  BY <1>0 DEF BootTypes, BootTypeOK, BootNext, Launch, BringUp, StartFails, Exit, Request, RequestEnds,
              Job, JobEnds, Signal, ShutdownReturns, RunDeferred, Returns, Killed, bootVars
<1>2. requests' \in 0 .. MaxRequests /\ jobs' \in 0 .. MaxWorkers
  BY <1>0 DEF BootTypes, BootTypeOK, BootNext, Launch, BringUp, StartFails, Exit, Request, RequestEnds,
              Job, JobEnds, SlotFree, Signal, ShutdownReturns, RunDeferred, Returns, Killed, bootVars
<1>3. conf' \in Confs /\ life' \in {"down", "starting", "up", "draining", "stopping"}
  BY DEF BootTypes, BootTypeOK, BootNext, Launch, BringUp, StartFails, Exit, Request, RequestEnds,
         Job, JobEnds, Signal, ShutdownReturns, RunDeferred, Returns, Killed, bootVars
<1>4. /\ schema' \in BOOLEAN /\ staged' \in BOOLEAN /\ poolOpen' \in BOOLEAN
      /\ fetching' \in BOOLEAN /\ late' \in BOOLEAN
  BY Zenon DEF BootTypes, BootTypeOK, BootNext, Launch, BringUp, StartFails, Exit, Request, RequestEnds,
         Job, JobEnds, Signal, ShutdownReturns, RunDeferred, Returns, Killed, bootVars
<1> QED BY <1>1, <1>2, <1>3, <1>4 DEF BootTypes, BootTypeOK

\* What defer makes of the two calls.
LEMMA DeferredTwo ==
    <<"open">> \o <<>> = <<"open">> /\ <<"river">> \o <<"open">> = <<"river", "open">>
<1> DEFINE r == <<"river">>  o == <<"open">>  t == <<"river", "open">>
<1>1. r \in Seq({"river", "open"}) /\ o \in Seq({"river", "open"}) /\ t \in Seq({"river", "open"})
  OBVIOUS
<1>2. Len(r) = 1 /\ Len(o) = 1 /\ Len(t) = 2 /\ r[1] = "river" /\ o[1] = "open"
      /\ t[1] = "river" /\ t[2] = "open"
  OBVIOUS
<1> HIDE DEF r, o, t
<1>3. Len(r) + Len(o) = 2
  BY <1>2
<1>4. /\ r \o o \in Seq({"river", "open"}) /\ Len(r \o o) = 2
      /\ \A i \in 1 .. Len(r) + Len(o) : (r \o o)[i] = IF i <= Len(r) THEN r[i] ELSE o[i - Len(r)]
  BY <1>1, <1>3, ConcatProperties, SMTT(20)
<1>5. (r \o o)[1] = t[1] /\ (r \o o)[2] = t[2]
  BY <1>2, <1>4
<1>6. \A i \in 1 .. Len(r \o o) : (r \o o)[i] = t[i]
  BY <1>4, <1>5
<1>7. r \o o = t
  BY <1>1, <1>2, <1>4, <1>6, SeqEqual
<1>8. o \o <<>> = o
  BY <1>1, ConcatEmptySeq
<1> QED BY <1>7, <1>8 DEF r, o, t

\* The next part of Startup comes up.
LEMMA BringUpKeeps == ASSUME BootTypes, BootInv, BringUp PROVE BootInv'
<1>0. Len(Startup) = 7 /\ jobs \in Nat
  BY BootAssumption DEF Startup, BootTypes, BootTypeOK
<1>1. /\ life = "starting" /\ upTo \in 0 .. 6 /\ upTo' = upTo + 1
      /\ conf' = conf /\ requests' = requests /\ jobs' = jobs /\ StartingKnown
  BY <1>0 DEF BringUp, BootInv, StartingKnown
<1> DEFINE next == Startup[upTo + 1]
<1>2. /\ next = "load" => Load(conf)
      /\ schema' <=> (schema \/ (next = "migrate" /\ ~conf.skipMigrate))
      /\ poolOpen' <=> (poolOpen \/ next = "open")
      /\ staged' <=> (staged \/ next = "sample")
      /\ fetching' <=> (fetching \/ next = "river")
  BY Zenon DEF BringUp
<1>3. /\ shut' = IF next \in {"open", "river"} THEN <<next>> \o shut ELSE shut
      /\ life' = IF next = "listen" THEN "up" ELSE life
  BY DEF BringUp, Deferred
<1>4. Load(conf)' <=> Load(conf)
  BY <1>1 DEF Load
<1>5. next = IF upTo = 0 THEN "load" ELSE IF upTo = 1 THEN "migrate" ELSE IF upTo = 2 THEN "open"
             ELSE IF upTo = 3 THEN "sample" ELSE IF upTo = 4 THEN "keys" ELSE IF upTo = 5 THEN "river"
             ELSE "listen"
  BY <1>1 DEF Startup
<1>6. <<"open">> \o <<>> = <<"open">> /\ <<"river">> \o <<"open">> = <<"river", "open">>
  BY DeferredTwo
<1> HIDE DEF next
<1>7. CASE upTo = 6
  <2>1. life' = "up" /\ shut' = <<"river", "open">>
    BY <1>1, <1>3, <1>5, <1>7 DEF StartingKnown
  <2>2. ServedKnown' /\ poolOpen'
    BY <1>1, <1>2, <1>4, <1>5, <1>7 DEF StartingKnown, ServedKnown
  <2> QED BY <2>1, <2>2 DEF BootInv
<1>8. CASE upTo # 6
  <2>1. life' = "starting" /\ upTo' \in 0 .. 6 /\ requests' = 0
    BY <1>1, <1>3, <1>5, <1>8 DEF StartingKnown
  <2>2. /\ upTo' >= 1 => Load(conf)'
        /\ upTo' >= 2 => schema' \/ conf'.skipMigrate
        /\ (poolOpen' <=> upTo' >= 3) /\ (upTo' >= 4 => staged') /\ (fetching' <=> upTo' >= 6)
        /\ ~fetching' => jobs' = 0
    BY <1>1, <1>2, <1>4, <1>5, <1>8 DEF StartingKnown
  <2>3. shut' = IF upTo' >= 6 THEN <<"river", "open">> ELSE IF upTo' >= 3 THEN <<"open">> ELSE <<>>
    <3>1. CASE upTo = 2
      <4>1. next = "open" /\ shut = <<>> /\ upTo' = 3
        BY <3>1, <1>1, <1>5 DEF StartingKnown
      <4> QED BY <4>1, <1>3, <1>6
    <3>2. CASE upTo = 5
      <4>1. next = "river" /\ shut = <<"open">> /\ upTo' = 6
        BY <3>2, <1>1, <1>5 DEF StartingKnown
      <4> QED BY <4>1, <1>3, <1>6
    <3>3. CASE upTo \in {0, 1, 3, 4}
      <4>1. next \notin {"open", "river"} /\ shut' = shut
        BY <3>3, <1>3, <1>5
      <4> QED BY <4>1, <3>3, <1>1 DEF StartingKnown
    <3> QED BY <3>1, <3>2, <3>3, <1>1, <1>8
  <2> QED BY <2>1, <2>2, <2>3 DEF BootInv, StartingKnown
<1> QED BY <1>7, <1>8

\* The same for what is up.
LEMMA BootStep == BootTypes /\ BootInv /\ [BootNext]_bootVars => BootInv'
<1> SUFFICES ASSUME BootTypes, BootInv, [BootNext]_bootVars PROVE BootInv'
  OBVIOUS
<1>0. jobs \in Nat /\ requests \in Nat
  BY BootAssumption DEF BootTypes, BootTypeOK
<1>1. CASE Launch
  BY <1>1 DEF Launch, BootInv, StartingKnown
<1>2. CASE BringUp
  BY <1>2, BringUpKeeps
<1>3. ASSUME Exit PROVE BootInv'
  BY <1>3 DEF Exit, BootInv
<1>4. CASE Request \/ RequestEnds
  BY <1>4, <1>0 DEF Request, RequestEnds, BootInv, StartingKnown, ServedKnown, StoppingKnown
<1>5. CASE Job \/ JobEnds
  BY <1>5, <1>0 DEF Job, JobEnds, BootInv, StartingKnown, ServedKnown, StoppingKnown
<1>6. CASE Signal
  BY <1>6, <1>0 DEF Signal, BootInv, ServedKnown
<1>7. CASE ShutdownReturns
  <2>1. /\ life = "draining" /\ life' = "stopping" /\ (requests > 0 => late')
        /\ UNCHANGED <<conf, shut, schema, staged, poolOpen, fetching, requests, jobs>>
    BY <1>7, <1>0 DEF ShutdownReturns
  <2> QED BY <2>1 DEF BootInv, ServedKnown, StoppingKnown, Load
<1>8. CASE RunDeferred
  <2>1. /\ life = "stopping" /\ life' = life /\ StoppingKnown /\ shut # <<>> /\ ServedKnown
        /\ shut' = Tail(shut) /\ UNCHANGED <<conf, schema, staged, fetching, requests, jobs>>
    BY <1>8 DEF RunDeferred, BootInv
  <2>2. /\ Head(<<"river", "open">>) = "river" /\ Tail(<<"river", "open">>) = <<"open">>
        /\ Head(<<"open">>) = "open" /\ Tail(<<"open">>) = <<>>
    OBVIOUS
  <2>3. ServedKnown'
    BY <2>1 DEF ServedKnown, Load
  <2>4. CASE shut = <<"river", "open">>
    <3>1. shut' = <<"open">> /\ Head(shut) = "river"
      BY <2>1, <2>2, <2>4
    <3>2. poolOpen' = poolOpen /\ (jobs > 0 => late') /\ (late => late')
      BY <3>1, <1>8, <1>0 DEF RunDeferred
    <3>3. poolOpen
      BY <2>1, <2>4 DEF StoppingKnown
    <3> QED BY <3>1, <3>2, <3>3, <2>1, <2>3 DEF BootInv, StoppingKnown
  <2>5. CASE shut = <<"open">>
    <3>1. shut' = <<>> /\ Head(shut) = "open"
      BY <2>1, <2>2, <2>5
    <3>2. late' = late
      BY <3>1, <1>8 DEF RunDeferred
    <3>3. jobs > 0 => late
      BY <2>1, <2>5 DEF StoppingKnown
    <3> QED BY <3>1, <3>2, <3>3, <2>1, <2>3 DEF BootInv, StoppingKnown
  <2> QED BY <2>1, <2>4, <2>5 DEF StoppingKnown
<1>9. CASE UNCHANGED bootVars
  BY <1>9 DEF bootVars, BootInv, StartingKnown, ServedKnown, StoppingKnown, Load
<1> QED BY <1>1, <1>2, <1>3, <1>4, <1>5, <1>6, <1>7, <1>8, <1>9
        DEF BootNext, StartFails, Returns, Killed

\* cmd/server/main.go: nothing is served before what it needs is up or after the pool is
\* closed, for any number of workers, requests and restarts, with a kill at any moment.
THEOREM ServesOnlyWhenUp == BootSpec => []BootSafe
<1>1. BootInit => BootTypes /\ BootInv
  <2> SUFFICES ASSUME BootInit PROVE BootTypes /\ BootInv
    OBVIOUS
  <2>1. /\ schema \in BOOLEAN /\ staged \in BOOLEAN /\ poolOpen \in BOOLEAN /\ fetching \in BOOLEAN
        /\ late \in BOOLEAN /\ ~fetching
    BY Zenon DEF BootInit
  <2>2. conf \in Confs
    BY Zenon DEF BootInit, Confs
  <2>3. upTo \in 0 .. Len(Startup) /\ requests \in 0 .. MaxRequests /\ jobs \in 0 .. MaxWorkers
    BY BootAssumption DEF BootInit, Startup
  <2>4. life = "down" /\ requests = 0 /\ jobs = 0
    BY DEF BootInit
  <2> QED BY <2>1, <2>2, <2>3, <2>4 DEF BootTypes, BootTypeOK, BootInv
<1>2. BootTypes /\ BootInv => BootSafe
  <2> SUFFICES ASSUME BootTypes, BootInv PROVE BootSafe
    OBVIOUS
  <2>1. /\ jobs \in Nat /\ requests \in Nat
        /\ life \in {"down", "starting", "up", "draining", "stopping"}
    BY BootAssumption DEF BootTypes, BootTypeOK
  <2>2. ServedConfigured
    BY <2>1 DEF BootInv, ServedConfigured, ServedKnown, StartingKnown, Load
  <2>3. ReadyBeforeWork
    BY <2>1 DEF BootInv, ReadyBeforeWork, ServedKnown, StartingKnown
  <2>4. PoolOutlivesWork
    BY <2>1 DEF BootInv, PoolOutlivesWork, StoppingKnown
  <2> QED BY <2>2, <2>3, <2>4 DEF BootTypes, BootSafe
<1> QED BY <1>1, <1>2, BootTypesStep, BootStep, PTL DEF BootSpec

-----------------------------------------------------------------------------
(* The queue.  A drill that waits for its first worker has the priority of    *)
(* its plan, and one that passed the size check still does unless the dump     *)
(* grew.                                                                    *)

Origins == {"web", "tick", "staff"}
OrderRecords ==
    [stage : {"none", "made", "waiting", "working", "retrying", "done"}, plan : Tiers,
     unlimited : BOOLEAN, origin : Origins, step : 1 .. LastStep, priority : 1 .. 4,
     turn : Nat, grew : BOOLEAN]

\* What order o says, with a dump of this size.
OrderKnown(o, size) ==
    /\ o.stage \notin {"none", "made"} /\ o.step = 1 => o.priority = QueuePriority(o)
    /\ o.stage # "none" /\ o.origin = "web" /\ ~o.grew /\ ~o.unlimited => size <= MaxDump(o.plan)

QueueInv ==
    /\ QueueTypeOK /\ order \in [Orders -> OrderRecords] /\ overtook = {}
    /\ \A d \in Orders : OrderKnown(order[d], dumpSize)
    /\ \A d \in burnt : order[d].stage # "none" /\ (order[d].grew \/ order[d].origin # "web")

\* The two tables of priorities rank the plans alike.
LEMMA RankIsPriority ==
    ASSUME NEW o \in OrderRecords, NEW p \in OrderRecords, o.origin # "staff", p.origin # "staff",
           <<Standing(o), Standing(p)>> \in Over
    PROVE  QueuePriority(o) < QueuePriority(p)
<1>1. ASSUME NEW q \in OrderRecords, q.origin # "staff"
      PROVE  \/ Standing(q) = "top" /\ QueuePriority(q) = 1
             \/ Standing(q) = "priority" /\ QueuePriority(q) = 2
             \/ Standing(q) = "standard" /\ QueuePriority(q) = 3
             \/ Standing(q) = "deferrable" /\ QueuePriority(q) = 4
  <2>1. q.origin \in {"web", "tick"} /\ q.plan \in Tiers
    BY <1>1 DEF OrderRecords, Origins
  <2>2. QueuePriority(q) = priorityForPlan(q)
    BY <2>1 DEF QueuePriority, drillInsertOpts, priorityForPlan
  <2>3. CASE q.unlimited
    BY <2>1, <2>2, <2>3 DEF Standing, priorityForPlan
  <2>4. CASE ~q.unlimited
    <3>1. priorityForPlan(q) = [scale |-> 1, pro |-> 2, starter |-> 3, trial |-> 4][q.plan]
      BY <2>4 DEF priorityForPlan
    <3>2. CASE q.plan = "scale"
      BY <3>1, <3>2, <2>2 DEF Standing
    <3>3. CASE q.plan = "pro"
      BY <3>1, <3>3, <2>2, <2>4 DEF Standing
    <3>4. CASE q.plan = "starter"
      BY <3>1, <3>4, <2>2, <2>4 DEF Standing
    <3>5. CASE q.plan = "trial"
      BY <3>1, <3>5, <2>2, <2>4 DEF Standing
    <3> QED BY <2>1, <3>2, <3>3, <3>4, <3>5 DEF Tiers
  <2> QED BY <2>3, <2>4
<1>2. \/ Standing(o) = "top" /\ QueuePriority(o) = 1
      \/ Standing(o) = "priority" /\ QueuePriority(o) = 2
      \/ Standing(o) = "standard" /\ QueuePriority(o) = 3
      \/ Standing(o) = "deferrable" /\ QueuePriority(o) = 4
  BY <1>1
<1>3. \/ Standing(p) = "top" /\ QueuePriority(p) = 1
      \/ Standing(p) = "priority" /\ QueuePriority(p) = 2
      \/ Standing(p) = "standard" /\ QueuePriority(p) = 3
      \/ Standing(p) = "deferrable" /\ QueuePriority(p) = 4
  BY <1>1
<1> QED BY <1>2, <1>3 DEF Over

\* priorityForPlan's numbers are River's.
LEMMA PriorityRange == ASSUME NEW o \in OrderRecords PROVE QueuePriority(o) \in 1 .. 4
<1>1. o.origin \in Origins /\ o.plan \in Tiers
  BY DEF OrderRecords
<1>2. priorityForPlan(o) \in 1 .. 4 /\ drillInsertOpts(o) = priorityForPlan(o)
  BY <1>1 DEF priorityForPlan, drillInsertOpts, Tiers
<1> QED BY <1>1, <1>2 DEF QueuePriority, Origins, DefaultPriority

\* One case for each action of the queue.
LEMMA QueueStep == QueueInv /\ [QueueNext]_queueVars => QueueInv'
<1> SUFFICES ASSUME QueueInv, [QueueNext]_queueVars PROVE QueueInv'
  OBVIOUS
<1> DEFINE B == BOOLEAN
<1>t. OrderRecords =
        [stage : {"none", "made", "waiting", "working", "retrying", "done"}, plan : Tiers,
         unlimited : B, origin : Origins, step : 1 .. LastStep, priority : 1 .. 4,
         turn : Nat, grew : B]
  BY DEF OrderRecords
<1> HIDE DEF B
<1>0. /\ order \in [Orders -> OrderRecords] /\ dumpSize \in 1 .. MaxSize /\ turn \in Nat
      /\ burnt \subseteq Orders /\ retries \in 0 .. MaxRetries /\ overtook = {}
      /\ 1 \in 1 .. LastStep /\ MaxSize \in Nat /\ MaxRetries \in Nat
  BY QueueAssumption DEF QueueInv, QueueTypeOK
<1>g. ASSUME NEW d \in Orders, NEW o \in OrderRecords, order' = [order EXCEPT ![d] = o],
             dumpSize' = dumpSize, turn' \in Nat, retries' \in 0 .. MaxRetries,
             OrderKnown(o, dumpSize), overtook' = {},
             order[d].stage # "none" =>
                o.stage # "none" /\ o.grew = order[d].grew /\ o.origin = order[d].origin,
             \/ burnt' = burnt
             \/ burnt' = burnt \cup {d} /\ o.stage # "none" /\ (o.grew \/ o.origin # "web")
      PROVE  QueueInv'
  <2>1. order' \in [Orders -> OrderRecords] /\ \A e \in Orders : order'[e] = IF e = d THEN o ELSE order[e]
    BY <1>g, <1>0
  <2>2. QueueTypeOK'
    <3>1. \A e \in Orders : order'[e] \in OrderRecords
      BY <2>1
    <3>2. \A e \in Orders : /\ order'[e].stage \in {"none", "made", "waiting", "working", "retrying", "done"}
                            /\ order'[e].step \in 1 .. LastStep /\ order'[e].priority \in 1 .. 4
      BY <3>1, <1>t
    <3>3. burnt' \subseteq Orders
      BY <1>g, <1>0
    <3> QED BY <3>2, <3>3, <1>g, <1>0 DEF QueueTypeOK
  <2>3. \A e \in Orders : OrderKnown(order'[e], dumpSize')
    BY <2>1, <1>g DEF QueueInv
  <2>4. ASSUME NEW e \in burnt'
        PROVE  order'[e].stage # "none" /\ (order'[e].grew \/ order'[e].origin # "web")
    <3>1. CASE e = d /\ e \notin burnt
      BY <3>1, <2>1, <2>4, <1>g
    <3>2. CASE e \in burnt
      <4>1. e \in Orders /\ order[e].stage # "none" /\ (order[e].grew \/ order[e].origin # "web")
        BY <3>2, <1>0 DEF QueueInv
      <4>2. CASE e = d
        BY <4>1, <4>2, <2>1, <1>g
      <4>3. CASE e # d
        BY <4>1, <4>3, <2>1
      <4> QED BY <4>2, <4>3
    <3> QED BY <3>1, <3>2, <2>4, <1>g
  <2> QED BY <2>1, <2>2, <2>3, <2>4, <1>g DEF QueueInv
<1>1. ASSUME NEW d \in Orders, NEW plan \in Tiers, NEW unlimited \in BOOLEAN, NEW from \in Origins,
             CreateOrder(d, plan, unlimited, from)
      PROVE  QueueInv'
  <2> DEFINE o == [NoOrder EXCEPT !.stage = "made", !.plan = plan, !.unlimited = unlimited, !.origin = from]
  <2>1. /\ o.stage = "made" /\ o.plan = plan /\ o.unlimited = unlimited /\ o.origin = from
        /\ order' = [order EXCEPT ![d] = o] /\ UNCHANGED <<dumpSize, turn, overtook, burnt, retries>>
        /\ order[d].stage = "none" /\ ~(ChecksSize(from) /\ TooLarge(o))
    BY <1>1 DEF CreateOrder, NoOrder
  <2>2. o \in OrderRecords
    <3>1. PICK f \in B : f = FALSE
      BY DEF B
    <3>2. unlimited \in B
      BY DEF B
    <3>3. NoOrder = [stage |-> "none", plan |-> "trial", unlimited |-> f, origin |-> "web", step |-> 1,
                     priority |-> 1, turn |-> 0, grew |-> f]
      BY <3>1 DEF NoOrder, DefaultPriority
    <3>4. NoOrder \in OrderRecords
      BY <3>3, <1>0, <1>t DEF Tiers, Origins
    <3> QED BY <3>2, <3>4, <1>t
  <2> HIDE DEF o
  <2>3. OrderKnown(o, dumpSize)
    <3>1. plan \in Tiers => MaxDump(plan) \in Nat
      BY DEF MaxDump, Tiers
    <3> QED BY <2>1, <3>1, <1>0 DEF OrderKnown, ChecksSize, TooLarge
  <2> QED BY <2>1, <2>2, <2>3, <1>0, <1>g
<1>2. ASSUME NEW d \in Orders, EnqueueFirst(d) PROVE QueueInv'
  <2> DEFINE q == QueuePriority(order[d])
             o == [order[d] EXCEPT !.stage = "waiting", !.turn = turn, !.priority = q]
  <2>1. q \in 1 .. 4 /\ order[d] \in OrderRecords
    BY <1>0, PriorityRange
  <2>2. /\ order[d].stage = "made" /\ turn' \in Nat /\ UNCHANGED <<dumpSize, overtook, burnt, retries>>
        /\ order' = [order EXCEPT ![d] = o]
    BY <1>2, <1>0 DEF EnqueueFirst, Waits
  <2> HIDE DEF q
  <2>3. /\ o \in OrderRecords /\ o.stage = "waiting" /\ o.priority = q /\ o.origin = order[d].origin
        /\ o.grew = order[d].grew /\ o.unlimited = order[d].unlimited /\ o.plan = order[d].plan
    BY <2>1, <1>0, <1>t
  <2> HIDE DEF o
  <2>4. QueuePriority(o) = q
    BY <2>3 DEF QueuePriority, drillInsertOpts, priorityForPlan, q
  <2>5. OrderKnown(o, dumpSize)
    BY <2>2, <2>3, <2>4 DEF OrderKnown, QueueInv
  <2> QED BY <2>2, <2>3, <2>5, <1>0, <1>g
<1>3. ASSUME NEW d \in Orders, ClaimJob(d) PROVE QueueInv'
  <2> DEFINE o == [order[d] EXCEPT !.stage = "working"]
  <2>1. /\ order' = [order EXCEPT ![d] = o] /\ UNCHANGED <<dumpSize, turn, retries>>
        /\ order[d].stage = "waiting" /\ order[d] \in OrderRecords
    BY <1>3, <1>0 DEF ClaimJob, WaitingOrders
  <2>2. /\ o \in OrderRecords /\ o.stage = "working" /\ o.priority = order[d].priority
        /\ o.origin = order[d].origin /\ o.step = order[d].step
        /\ o.grew = order[d].grew /\ o.unlimited = order[d].unlimited /\ o.plan = order[d].plan
    BY <2>1, <1>t
  <2> HIDE DEF o
  <2>3. QueuePriority(o) = QueuePriority(order[d])
    BY <2>2 DEF QueuePriority, drillInsertOpts, priorityForPlan
  <2>4. OrderKnown(o, dumpSize)
    BY <2>1, <2>2, <2>3 DEF OrderKnown, QueueInv
  <2>5. overtook' = {}
    <3>1. ASSUME NEW e \in WaitingOrders, order[e].step = 1, Better(e, d), order[d].step = 1 PROVE FALSE
      <4>1. e \in Orders /\ order[e] \in OrderRecords /\ order[e].stage = "waiting"
        BY <1>0, <3>1 DEF WaitingOrders
      <4>2. order[e].priority = QueuePriority(order[e]) /\ order[d].priority = QueuePriority(order[d])
        BY <2>1, <3>1, <4>1 DEF QueueInv, OrderKnown
      <4>3. QueuePriority(order[e]) < QueuePriority(order[d])
        BY <2>1, <3>1, <4>1, RankIsPriority DEF Better
      <4>4. order[e].priority \in Nat /\ order[d].priority \in Nat
        BY <4>1, <2>1, <1>t
      <4>5. e # d
        BY <4>2, <4>3, <4>4
      <4>6. Before(order[d], order[e])
        BY <1>3, <3>1, <4>5 DEF ClaimJob
      <4> QED BY <4>2, <4>3, <4>4, <4>6 DEF Before
    <3>2. order[d].step = 1 => {e \in WaitingOrders : order[e].step = 1 /\ Better(e, d)} = {}
      BY <3>1
    <3>3. order[d].step = 1 =>
            {d} \X {e \in WaitingOrders : order[e].step = 1 /\ Better(e, d)} = {}
      BY <3>2
    <3> QED BY <1>3, <1>0, <3>3 DEF ClaimJob
  <2>6. \/ burnt' = burnt
        \/ burnt' = burnt \cup {d} /\ o.stage # "none" /\ (o.grew \/ o.origin # "web")
    <3>1. CASE order[d].step = RestoreStep /\ TooLarge(order[d])
      <4>1. order[d].plan \in Tiers
        BY <2>1, <1>t
      <4>2. MaxDump(order[d].plan) \in Nat
        BY <4>1 DEF MaxDump, Tiers
      <4>3. order[d].grew \/ order[d].origin # "web"
        BY <3>1, <2>1, <4>2, <1>0 DEF TooLarge, QueueInv, OrderKnown
      <4> QED BY <3>1, <1>3, <2>2, <4>3 DEF ClaimJob
    <3>2. CASE ~(order[d].step = RestoreStep /\ TooLarge(order[d]))
      BY <3>2, <1>3 DEF ClaimJob
    <3> QED BY <3>1, <3>2
  <2> QED BY <2>1, <2>2, <2>4, <2>5, <2>6, <1>0, <1>g
<1>4. ASSUME NEW d \in Orders, ChainJob(d) PROVE QueueInv'
  <2>0. order[d].stage = "working" /\ order[d] \in OrderRecords /\ order[d].step \in 1 .. LastStep
    BY <1>4, <1>0, <1>t DEF ChainJob
  <2>1. CASE order[d].step = LastStep
    <3> DEFINE o == [order[d] EXCEPT !.stage = "done"]
    <3>1. order' = [order EXCEPT ![d] = o] /\ UNCHANGED <<dumpSize, turn, overtook, burnt, retries>>
      BY <1>4, <2>1 DEF ChainJob
    <3>2. /\ o \in OrderRecords /\ o.stage = "done" /\ o.priority = order[d].priority
          /\ o.origin = order[d].origin /\ o.step = order[d].step
          /\ o.grew = order[d].grew /\ o.unlimited = order[d].unlimited /\ o.plan = order[d].plan
      BY <2>0, <1>t
    <3> HIDE DEF o
    <3>3. OrderKnown(o, dumpSize)
      BY <2>0, <2>1, <3>2, QueueAssumption DEF OrderKnown, QueueInv
    <3> QED BY <2>0, <3>1, <3>2, <3>3, <1>0, <1>g
  <2>2. CASE order[d].step # LastStep
    <3> DEFINE s == order[d].step + 1
               w == [order[d] EXCEPT !.stage = "waiting", !.turn = turn]
               o == [w EXCEPT !.step = s, !.priority = 1]
    <3>1. s \in 1 .. LastStep /\ s # 1
      BY <2>0, <2>2, QueueAssumption
    <3>w. /\ w \in OrderRecords /\ w.stage = "waiting" /\ w.step = order[d].step
          /\ w.origin = order[d].origin
          /\ w.grew = order[d].grew /\ w.unlimited = order[d].unlimited /\ w.plan = order[d].plan
      BY <2>0, <1>0, <1>t
    <3>2. /\ order' = [order EXCEPT ![d] = o]
          /\ turn' \in Nat /\ UNCHANGED <<dumpSize, overtook, burnt, retries>>
      BY <1>4, <1>0, <2>2 DEF ChainJob, Waits, ChainPriority, DefaultPriority
    <3> HIDE DEF w
    <3> HIDE DEF s
    <3>o. o \in OrderRecords
      <4>1. w \in OrderRecords /\ s \in 1 .. LastStep /\ 1 \in 1 .. 4
        BY <3>w, <3>1
      <4> QED BY <4>1, <1>t
    <3>3. /\ o.stage = "waiting" /\ o.step = s /\ o.origin = w.origin
          /\ o.grew = w.grew /\ o.unlimited = w.unlimited /\ o.plan = w.plan
      BY <3>w, <1>t
    <3> HIDE DEF o
    <3>4. OrderKnown(o, dumpSize)
      BY <2>0, <3>1, <3>w, <3>3 DEF OrderKnown, QueueInv
    <3> QED BY <2>0, <3>2, <3>o, <3>w, <3>3, <3>4, <1>0, <1>g
  <2> QED BY <2>1, <2>2
<1>5. ASSUME NEW d \in Orders, JobErrs(d) PROVE QueueInv'
  <2> DEFINE o == [order[d] EXCEPT !.stage = "retrying"]
  <2>1. /\ order' = [order EXCEPT ![d] = o] /\ UNCHANGED <<dumpSize, turn, overtook, burnt>>
        /\ order[d].stage = "working" /\ order[d] \in OrderRecords /\ retries' \in 0 .. MaxRetries
    BY <1>5, <1>0 DEF JobErrs
  <2>2. /\ o \in OrderRecords /\ o.stage = "retrying" /\ o.priority = order[d].priority
        /\ o.origin = order[d].origin /\ o.step = order[d].step
        /\ o.grew = order[d].grew /\ o.unlimited = order[d].unlimited /\ o.plan = order[d].plan
    BY <2>1, <1>t
  <2> HIDE DEF o
  <2>3. QueuePriority(o) = QueuePriority(order[d])
    BY <2>2 DEF QueuePriority, drillInsertOpts, priorityForPlan
  <2>4. OrderKnown(o, dumpSize)
    BY <2>1, <2>2, <2>3 DEF OrderKnown, QueueInv
  <2> QED BY <2>1, <2>2, <2>4, <1>0, <1>g
<1>6. ASSUME NEW d \in Orders, JobReturns(d) PROVE QueueInv'
  <2> DEFINE o == [order[d] EXCEPT !.stage = "waiting", !.turn = turn]
  <2>1. /\ order' = [order EXCEPT ![d] = o] /\ UNCHANGED <<dumpSize, overtook, burnt, retries>>
        /\ order[d].stage = "retrying" /\ order[d] \in OrderRecords /\ turn' \in Nat
    BY <1>6, <1>0 DEF JobReturns, Waits
  <2>2. /\ o \in OrderRecords /\ o.stage = "waiting" /\ o.priority = order[d].priority
        /\ o.origin = order[d].origin /\ o.step = order[d].step
        /\ o.grew = order[d].grew /\ o.unlimited = order[d].unlimited /\ o.plan = order[d].plan
    BY <2>1, <1>0, <1>t
  <2> HIDE DEF o
  <2>3. QueuePriority(o) = QueuePriority(order[d])
    BY <2>2 DEF QueuePriority, drillInsertOpts, priorityForPlan
  <2>4. OrderKnown(o, dumpSize)
    BY <2>1, <2>2, <2>3 DEF OrderKnown, QueueInv
  <2> QED BY <2>1, <2>2, <2>4, <1>0, <1>g
<1>7. CASE DumpGrows
  <2>1. /\ dumpSize' \in 1 .. MaxSize /\ UNCHANGED <<turn, overtook, burnt, retries>>
        /\ order' = [d \in Orders |-> [order[d] EXCEPT !.grew = order[d].stage # "none"]]
    BY <1>7, <1>0 DEF DumpGrows
  <2>2. ASSUME NEW d \in Orders
        PROVE  /\ order'[d] \in OrderRecords /\ OrderKnown(order'[d], dumpSize')
               /\ order'[d].stage = order[d].stage
               /\ order[d].stage # "none" => order'[d].grew
    <3>1. PICK g \in B : g = (order[d].stage # "none")
      BY DEF B
    <3> DEFINE o == [order[d] EXCEPT !.grew = g]
    <3>2. order'[d] = o /\ order[d] \in OrderRecords
      BY <2>1, <3>1, <1>0
    <3>3. /\ o \in OrderRecords /\ o.grew = g /\ o.stage = order[d].stage
          /\ o.priority = order[d].priority /\ o.origin = order[d].origin /\ o.step = order[d].step
          /\ o.unlimited = order[d].unlimited /\ o.plan = order[d].plan
      BY <3>2, <1>t
    <3> HIDE DEF o
    <3>4. QueuePriority(o) = QueuePriority(order[d])
      BY <3>3 DEF QueuePriority, drillInsertOpts, priorityForPlan
    <3>5. OrderKnown(o, dumpSize')
      BY <3>1, <3>3, <3>4 DEF OrderKnown, QueueInv
    <3> QED BY <3>1, <3>2, <3>3, <3>5
  <2>3. order' \in [Orders -> OrderRecords]
    BY <2>1, <2>2
  <2>4. \A d \in Orders : /\ order'[d].stage \in {"none", "made", "waiting", "working", "retrying", "done"}
                          /\ order'[d].step \in 1 .. LastStep /\ order'[d].priority \in 1 .. 4
    BY <2>2, <1>t
  <2>5. QueueTypeOK'
    BY <2>1, <2>4, <1>0 DEF QueueTypeOK
  <2>6. \A d \in burnt : order'[d].stage # "none" /\ order'[d].grew
    BY <2>2, <1>0 DEF QueueInv
  <2> QED BY <2>1, <2>2, <2>3, <2>5, <2>6, <1>0 DEF QueueInv
<1>8. CASE UNCHANGED queueVars
  BY <1>8 DEF queueVars, QueueInv, QueueTypeOK
<1> QED BY <1>1, <1>2, <1>3, <1>4, <1>5, <1>6, <1>7, <1>8 DEF QueueNext, Tiers, Origins

\* drill_quota.go, scheduler.go: whichever path queued them, no drill is started while one of
\* a better plan waits to be, and a dump past the plan's size is restored only if it grew
\* after the check or the path has none, for any number of drills, workers and retries.
THEOREM QueueIsFair == QueueSpec => []QueueSafe
<1>1. QueueInit => QueueInv
  <2> SUFFICES ASSUME QueueInit PROVE QueueInv
    OBVIOUS
  <2>1. NoOrder \in OrderRecords /\ OrderKnown(NoOrder, 1) /\ NoOrder.stage = "none"
    BY QueueAssumption DEF NoOrder, OrderRecords, Tiers, Origins, DefaultPriority, OrderKnown
  <2>2. order \in [Orders -> OrderRecords] /\ dumpSize = 1 /\ \A d \in Orders : order[d] = NoOrder
    BY <2>1 DEF QueueInit
  <2>3. QueueTypeOK
    BY <2>2, QueueAssumption DEF QueueInit, QueueTypeOK, NoOrder, DefaultPriority
  <2> QED BY <2>1, <2>2, <2>3 DEF QueueInit, QueueInv
<1>2. QueueInv => QueueSafe
  BY DEF QueueInv, QueueSafe, StartsInRank, OversizeExplained
<1> QED BY <1>1, <1>2, QueueStep, PTL DEF QueueSpec

-----------------------------------------------------------------------------
(* The retention sweep.  What a statement deletes nobody acts on any more,    *)
(* and the tables behind the sweep are pruned.                               *)

\* Tables whose statement the running sweep has behind it, or all of them.
Behind == IF sweepAt = 0 THEN SweptTables ELSE {Swept[i] : i \in 1 .. sweepAt - 1}

RetentionInv ==
    /\ RetentionTypeOK /\ PruningUnseen /\ began <= day
    /\ \A t \in SweptTables : \A b \in ever[t] : b <= day
    /\ \A t \in Behind \ errs : \A b \in kept[t] : b >= began - RetentionOf(t)

\* A retention is a number of days.
LEMMA RetentionIsNat == \A t \in SweptTables : RetentionOf(t) \in Nat
<1>1. SweptTables = {"audit_events", "login_attempts", "api_idempotency",
                     "email_verification_tokens", "magic_link_tokens", "heartbeat_pings"}
  BY DEF SweptTables, Swept
<1> QED BY <1>1, RetentionAssumption DEF RetentionOf

\* The tables the sweep visits, in its order.
LEMMA SweptInOrder ==
    /\ Len(Swept) = 6 /\ \A i \in 1 .. 6 : Swept[i] \in SweptTables
    /\ SweptTables = {Swept[i] : i \in 1 .. 6}
  BY DEF SweptTables, Swept

\* Time only takes rows out of what is acted on, and a DELETE takes none of them.
LEMMA Unread ==
    ASSUME NEW t \in SweptTables, RetentionTypeOK, NEW b \in kept[t], b \in Outdated(t)
    PROVE  b \notin StillRead(t)
<1>1. b \in Int /\ day \in Int /\ RetentionOf(t) \in Nat /\ b < day - RetentionOf(t)
  BY RetentionIsNat, RetentionAssumption DEF RetentionTypeOK, Outdated
<1>2. CASE t = "login_attempts"
  <2>1. RetentionOf(t) = LoginAttemptsRetention
    BY <1>2 DEF RetentionOf
  <2> QED BY <1>1, <1>2, <2>1, RetentionAssumption DEF StillRead
<1>3. CASE t # "login_attempts"
  BY <1>1, <1>3 DEF StillRead
<1> QED BY <1>2, <1>3

\* One case for each action of the sweep.
LEMMA RetentionStep == RetentionInv /\ [RetentionNext]_retentionVars => RetentionInv'
<1> SUFFICES ASSUME RetentionInv, [RetentionNext]_retentionVars PROVE RetentionInv'
  OBVIOUS
<1>0. /\ RetentionTypeOK /\ day \in Nat /\ began \in Int /\ began <= day /\ MaxDay \in Nat
      /\ ThrottleWindow \in Nat
      /\ \A t \in SweptTables : RetentionOf(t) \in Nat /\ kept[t] \subseteq Nat /\ ever[t] \subseteq Nat
  BY RetentionAssumption, RetentionIsNat DEF RetentionInv, RetentionTypeOK
<1>a. \A t \in SweptTables : RetentionOf(t)' = RetentionOf(t)
  BY DEF RetentionOf
<1>1. ASSUME NEW t \in SweptTables, AddRow(t) PROVE RetentionInv'
  <2>1. /\ UNCHANGED <<day, sweepAt, began, errs>>
        /\ \A s \in SweptTables : /\ kept'[s] = IF s = t THEN kept[s] \cup {day} ELSE kept[s]
                                  /\ ever'[s] = IF s = t THEN ever[s] \cup {day} ELSE ever[s]
    BY <1>1, <1>0 DEF AddRow, RetentionTypeOK
  <2>2. RetentionTypeOK'
    BY <1>1, <1>0 DEF AddRow, RetentionTypeOK
  <2>3. PruningUnseen'
    BY <2>1, <1>0, <1>a DEF RetentionInv, PruningUnseen, StillRead
  <2>4. ASSUME NEW s \in SweptTables, NEW b \in ever'[s] PROVE b <= day'
    <3>1. b \in ever[s] \/ b = day
      BY <2>1, <2>4
    <3> QED BY <3>1, <2>1, <1>0 DEF RetentionInv
  <2>5. Behind' = Behind
    BY <2>1 DEF Behind
  <2>6. \A s \in Behind : s \in SweptTables
    BY <1>0, SweptInOrder DEF Behind, RetentionTypeOK
  <2>7. ASSUME NEW s \in Behind' \ errs', NEW b \in kept'[s] PROVE b >= began' - RetentionOf(s)'
    <3>1. s \in SweptTables /\ s \in Behind \ errs
      BY <2>1, <2>5, <2>6
    <3>2. b \in kept[s] \/ b = day
      BY <2>1, <2>7, <3>1
    <3>3. CASE b = day
      BY <2>1, <3>1, <3>3, <1>0, <1>a
    <3>4. CASE b \in kept[s]
      BY <2>1, <3>1, <3>4, <1>a DEF RetentionInv
    <3> QED BY <3>2, <3>3, <3>4
  <2> QED BY <2>1, <2>2, <2>3, <2>4, <2>7, <1>0 DEF RetentionInv
<1>2. CASE DayPasses
  <2>1. day' = day + 1 /\ UNCHANGED <<kept, ever, sweepAt, began, errs>>
    BY <1>2 DEF DayPasses
  <2>2. RetentionTypeOK'
    BY <1>2, <1>0 DEF DayPasses, RetentionTypeOK
  <2>3. ASSUME NEW t \in SweptTables PROVE StillRead(t)' \subseteq StillRead(t)
    BY <2>1, <1>0, <1>a DEF StillRead
  <2>4. PruningUnseen'
    BY <2>1, <2>3 DEF RetentionInv, PruningUnseen
  <2>5. Behind' = Behind
    BY <2>1 DEF Behind
  <2>6. \A s \in Behind : s \in SweptTables
    BY <1>0, SweptInOrder DEF Behind, RetentionTypeOK
  <2>7. \A s \in Behind' \ errs' : \A b \in kept'[s] : b >= began' - RetentionOf(s)'
    BY <2>1, <2>5, <2>6, <1>0, <1>a DEF RetentionInv
  <2>8. \A s \in SweptTables : \A b \in ever'[s] : b <= day'
    BY <2>1, <1>0 DEF RetentionInv
  <2> QED BY <2>1, <2>2, <2>4, <2>7, <2>8, <1>0 DEF RetentionInv
<1>3. CASE StartSweep
  <2>1. sweepAt' = 1 /\ began' = day /\ errs' = {} /\ UNCHANGED <<day, kept, ever>>
    BY <1>3 DEF StartSweep
  <2>2. Behind' = {}
    BY <2>1 DEF Behind
  <2>3. RetentionTypeOK'
    BY <2>1, <1>0, SweptInOrder DEF RetentionTypeOK
  <2> QED BY <2>1, <2>2, <2>3, <1>0, <1>a DEF RetentionInv, PruningUnseen, StillRead
<1>4. CASE Prune
  <2> DEFINE t == Swept[sweepAt]
  <2>1. sweepAt \in 1 .. 6 /\ t \in SweptTables /\ sweepAt' \in 0 .. 6 /\ UNCHANGED <<day, ever, began>>
    BY <1>4, <1>0, SweptInOrder DEF Prune, RetentionTypeOK, NextTable
  <2>2. Behind' \subseteq Behind \cup {t} /\ Behind \subseteq SweptTables
    <3>1. CASE sweepAt = 6
      BY <3>1, <1>4, SweptInOrder DEF Prune, NextTable, Behind
    <3>2. CASE sweepAt # 6
      <4>1. sweepAt' = sweepAt + 1
        BY <3>2, <1>4, SweptInOrder DEF Prune, NextTable
      <4> QED BY <4>1, <2>1, SweptInOrder DEF Behind
    <3> QED BY <3>1, <3>2
  <2>3. CASE kept' = [kept EXCEPT ![t] = @ \ Outdated(t)] /\ UNCHANGED errs
    <3>1. \A s \in SweptTables : kept'[s] = IF s = t THEN kept[s] \ Outdated(s) ELSE kept[s]
      BY <2>3, <1>0 DEF RetentionTypeOK
    <3>2. RetentionTypeOK'
      <4>1. kept' \in [SweptTables -> SUBSET (0 .. MaxDay)]
        BY <2>3, <1>0 DEF RetentionTypeOK
      <4> QED BY <4>1, <2>1, <2>3, <1>0, SweptInOrder DEF RetentionTypeOK
    <3>3. \A s \in SweptTables : StillRead(s)' = StillRead(s)
      BY <2>1, <1>a DEF StillRead
    <3>4. ASSUME NEW s \in SweptTables, NEW b \in StillRead(s)' PROVE b \in kept'[s]
      <4>1. b \in StillRead(s) /\ b \in kept[s]
        BY <3>3, <3>4 DEF RetentionInv, PruningUnseen
      <4>2. b \notin Outdated(s)
        BY <4>1, <1>0, Unread
      <4> QED BY <3>1, <4>1, <4>2
    <3>5. ASSUME NEW b \in kept'[t] PROVE b >= began - RetentionOf(t)
      <4>1. b \in kept[t] /\ b \notin Outdated(t)
        BY <3>1, <3>5, <2>1
      <4>2. b \in Nat /\ RetentionOf(t) \in Nat
        BY <4>1, <2>1, <1>0
      <4>3. ~(b < day - RetentionOf(t))
        BY <4>1 DEF Outdated
      <4> HIDE DEF t
      <4> QED BY <4>2, <4>3, <1>0
    <3>6. \A s \in Behind' \ errs' : \A b \in kept'[s] : b >= began' - RetentionOf(s)'
      BY <3>1, <3>5, <2>1, <2>2, <2>3, <1>0, <1>a DEF RetentionInv
    <3> QED BY <3>2, <3>4, <3>6, <2>1, <1>0 DEF RetentionInv, PruningUnseen
  <2>4. CASE errs' = errs \cup {t} /\ UNCHANGED kept
    <3>1. RetentionTypeOK'
      BY <2>1, <2>4, <1>0, SweptInOrder DEF RetentionTypeOK
    <3>2. \A s \in Behind' \ errs' : \A b \in kept'[s] : b >= began' - RetentionOf(s)'
      BY <2>1, <2>2, <2>4, <1>0, <1>a DEF RetentionInv
    <3> QED BY <3>1, <3>2, <2>1, <2>4, <1>0, <1>a DEF RetentionInv, PruningUnseen, StillRead
  <2> QED BY <1>4, <2>3, <2>4 DEF Prune
<1>5. CASE SweepTimeout
  <2>1. /\ sweepAt \in 1 .. 6 /\ sweepAt' = 0 /\ errs' = errs \cup {Swept[i] : i \in sweepAt .. 6}
        /\ UNCHANGED <<day, kept, ever, began>>
    BY <1>5, <1>0, SweptInOrder DEF SweepTimeout, RetentionTypeOK
  <2>2. Behind' \ errs' \subseteq Behind \ errs /\ Behind \subseteq SweptTables
    BY <2>1, SweptInOrder DEF Behind
  <2>3. RetentionTypeOK'
    BY <2>1, <1>0, SweptInOrder DEF RetentionTypeOK
  <2>4. \A s \in Behind' \ errs' : \A b \in kept'[s] : b >= began' - RetentionOf(s)'
    BY <2>1, <2>2, <1>0, <1>a DEF RetentionInv
  <2> QED BY <2>1, <2>3, <2>4, <1>0, <1>a DEF RetentionInv, PruningUnseen, StillRead
<1>6. CASE UNCHANGED retentionVars
  BY <1>6, <1>a DEF retentionVars, RetentionInv, RetentionTypeOK, PruningUnseen, StillRead, Behind
<1> QED BY <1>1, <1>2, <1>3, <1>4, <1>5, <1>6 DEF RetentionNext

\* No sweep runs at first.
LEMMA RetentionStart == RetentionInit => RetentionInv
<1> SUFFICES ASSUME RetentionInit PROVE RetentionInv
  OBVIOUS
<1>1. /\ day = 0 /\ sweepAt = 0 /\ began = -1 /\ errs = {}
      /\ \A t \in SweptTables : kept[t] = {} /\ ever[t] = {}
  BY DEF RetentionInit
<1>2. RetentionTypeOK
  BY <1>1, RetentionAssumption, SweptInOrder DEF RetentionInit, RetentionTypeOK
<1> QED BY <1>1, <1>2 DEF RetentionInv, PruningUnseen, StillRead, Behind

\* compliance/retention.go, Sweeper.Sweep: at no moment of a sweep is a row gone that the
\* throttle, an idempotent retry or a link still needs, and after it every table is pruned
\* whose own DELETE did not fail, for any retention times, as long as the throttle's window
\* is within that of its attempts.
THEOREM SweepIsUnseen == RetentionSpec => []RetentionSafe
<1>1. RetentionInv => RetentionSafe
  BY DEF RetentionInv, RetentionSafe, SweptOut, Behind
<1> QED BY <1>1, RetentionStart, RetentionStep, PTL DEF RetentionSpec

-----------------------------------------------------------------------------
(* The data export.  A row is read after its parent's section, and a row     *)
(* that others hang on goes only with the account.                           *)

Records == (1 .. Sections) \X Roots

\* The rows hang together; the document has the sections read so far, and of them
\* everything that was there at the beginning and was not deleted.
ExportInv ==
    /\ ExportTypeOK
    /\ \A S \in {holdings, atStart} : \A r \in S : Hangs(r, S)
    /\ section = 0 => doc = {} /\ atStart = {} /\ gone = {} /\ handed = "none"
    /\ handed = "whole" => section = Sections + 1
    /\ erased => holdings = {}
    /\ \A r \in gone : erased \/ r[1] \in Cleared
    /\ atStart \ gone \subseteq holdings
    /\ \A r \in atStart \ gone : r[1] < section => r \in doc
    /\ \A r \in doc : r[1] < section /\ (Hangs(r, doc) \/ Parent(r) \notin atStart)

\* A row hangs on one of an earlier section that is not cleared.
LEMMA ParentBefore ==
    ASSUME NEW r \in Records, Under[r[1]] # 0
    PROVE  Parent(r) \in Records /\ Parent(r)[1] = Under[r[1]] /\ Parent(r)[1] < r[1] /\ Parent(r)[1] \notin Cleared
<1>1. r[1] \in 1 .. Sections /\ r[2] \in Roots
  BY DEF Records
<1>2. Under[r[1]] \in Nat /\ Under[r[1]] \notin Cleared /\ Under[r[1]] < r[1]
  BY <1>1, ExportAssumption
<1>3. Under[r[1]] \in 1 .. Sections
  BY <1>1, <1>2, ExportAssumption
<1> QED BY <1>1, <1>2, <1>3 DEF Parent, Records

\* One case for each section and for the writers.
LEMMA ExportStep == ExportInv /\ [ExportNext]_exportVars => ExportInv'
<1> SUFFICES ASSUME ExportInv, [ExportNext]_exportVars PROVE ExportInv'
  OBVIOUS
<1>0. /\ holdings \subseteq Records /\ atStart \subseteq Records /\ gone \subseteq Records
      /\ doc \subseteq Records
      /\ section \in 0 .. Sections + 1 /\ erased \in BOOLEAN /\ handed \in {"none", "failed", "whole"}
      /\ Sections \in Nat \ {0} /\ \A r \in Records : r[1] \in 1 .. Sections
  BY ExportAssumption DEF ExportInv, ExportTypeOK, Records
<1>1. ASSUME NEW r \in Records, MakeRow(r) PROVE ExportInv'
  <2>1. /\ holdings' = holdings \cup {r} /\ ~erased /\ Hangs(r, holdings)
        /\ UNCHANGED <<atStart, gone, section, doc, handed, erased>>
    BY <1>1 DEF MakeRow
  <2>2. ExportTypeOK'
    BY <2>1, <1>0 DEF ExportTypeOK, Records
  <2>3. \A q \in holdings' : Hangs(q, holdings')
    BY <2>1 DEF ExportInv, Hangs
  <2> QED BY <2>1, <2>2, <2>3 DEF ExportInv, Hangs, Parent
<1>2. ASSUME NEW r \in Records, DeleteRow(r) PROVE ExportInv'
  <2>1. /\ r[1] \in Cleared /\ section # 0 /\ holdings' = holdings \ {r} /\ gone' = gone \cup {r}
        /\ UNCHANGED <<atStart, section, doc, handed, erased>>
    BY <1>2 DEF DeleteRow, Delete
  <2>2. ExportTypeOK'
    BY <2>1, <1>0 DEF ExportTypeOK, Records
  <2>3. ASSUME NEW q \in holdings' PROVE Hangs(q, holdings')
    <3>1. q \in holdings /\ q \in Records /\ Hangs(q, holdings)
      BY <2>1, <2>3, <1>0 DEF ExportInv
    <3>2. CASE Under[q[1]] = 0
      BY <3>2 DEF Hangs
    <3>3. CASE Under[q[1]] # 0
      <4>1. Parent(q) \in holdings /\ Parent(q) # r
        BY <2>1, <3>1, <3>3, ParentBefore DEF Hangs
      <4> QED BY <2>1, <4>1 DEF Hangs
    <3> QED BY <3>2, <3>3
  <2> QED BY <2>1, <2>2, <2>3 DEF ExportInv, Hangs, Parent
<1>3. CASE EraseAccount
  <2>1. /\ erased' /\ section # 0 /\ holdings' = {} /\ gone' = gone \cup holdings
        /\ UNCHANGED <<atStart, section, doc, handed>>
    BY <1>3 DEF EraseAccount, Delete
  <2>2. ExportTypeOK'
    BY <1>3, <2>1, <1>0 DEF ExportTypeOK, Records, EraseAccount
  <2> QED BY <2>1, <2>2 DEF ExportInv, Hangs, Parent
<1>4. CASE StartExport
  <2>1. /\ section = 0 /\ section' = 1 /\ atStart' = holdings
        /\ UNCHANGED <<holdings, gone, doc, handed, erased>>
    BY <1>4 DEF StartExport
  <2>2. doc = {} /\ gone = {} /\ handed = "none"
    BY <2>1 DEF ExportInv
  <2>3. ExportTypeOK'
    BY <2>1, <1>0 DEF ExportTypeOK, Records
  <2>4. \A r \in holdings : ~(r[1] < 1)
    BY <1>0
  <2>5. \A r \in holdings' : Hangs(r, holdings')
    BY <2>1 DEF ExportInv, Hangs
  <2> QED BY <2>1, <2>2, <2>3, <2>4, <2>5 DEF ExportInv, Hangs, Parent
<1>5. CASE ReadSection
  <2>1. /\ section # 0 /\ section <= Sections /\ handed = "none"
        /\ UNCHANGED <<holdings, atStart, gone, erased>>
    BY <1>5 DEF ReadSection
  <2>2. CASE OnQueryError /\ UNCHANGED doc
    <3>1. section' = section /\ handed' = "failed" /\ doc' = doc
      BY <2>2 DEF OnQueryError
    <3>2. ExportTypeOK'
      BY <2>1, <3>1, <1>0 DEF ExportTypeOK, Records
    <3> QED BY <2>1, <3>1, <3>2 DEF ExportInv, Hangs, Parent
  <2>3. CASE /\ doc' = doc \cup {r \in holdings : r[1] = section} /\ section' = section + 1
             /\ handed' = (IF section = Sections THEN "whole" ELSE "none")
    <3>1. section \in 1 .. Sections /\ section' \in 0 .. Sections + 1 /\ section' # 0
          /\ (handed' = "whole" => section' = Sections + 1) /\ handed' \in {"none", "failed", "whole"}
      BY <1>0, <2>1, <2>3
    <3>2. doc' \subseteq Records
      BY <1>0, <2>3
    <3>3. ExportTypeOK'
      BY <2>1, <3>1, <3>2, <1>0 DEF ExportTypeOK, Records
    <3>4. \A r \in doc' : r[1] < section'
      BY <1>0, <2>3, <3>1 DEF ExportInv
    <3>5. \A r \in atStart \ gone : r[1] < section' => r \in doc'
      BY <1>0, <2>1, <2>3, <3>1 DEF ExportInv
    <3>6. ASSUME NEW r \in doc' PROVE Hangs(r, doc') \/ Parent(r) \notin atStart
      <4>1. CASE r \in doc
        BY <2>3, <4>1 DEF ExportInv, Hangs
      <4>2. CASE r \in holdings /\ r[1] = section /\ Under[r[1]] # 0 /\ Parent(r) \in atStart
        <5>1. Parent(r)[1] < section /\ Parent(r)[1] \notin Cleared /\ ~erased
          BY <1>0, <4>2, ParentBefore DEF ExportInv
        <5>2. Parent(r) \in atStart \ gone
          BY <4>2, <5>1 DEF ExportInv
        <5>3. Parent(r) \in doc
          BY <5>1, <5>2 DEF ExportInv
        <5> QED BY <2>3, <5>3 DEF Hangs
      <4> QED BY <2>3, <4>1, <4>2 DEF Hangs
    <3> QED BY <2>1, <3>1, <3>3, <3>4, <3>5, <3>6 DEF ExportInv, Hangs, Parent
  <2> QED BY <1>5, <2>2, <2>3 DEF ReadSection
<1>6. CASE UNCHANGED exportVars
  BY <1>6 DEF exportVars, ExportInv, ExportTypeOK, Hangs, Parent
<1> QED BY <1>1, <1>2, <1>3, <1>4, <1>5, <1>6 DEF ExportNext, Records

\* compliance/export.go, Exporter.Export: ten queries without a transaction, and still the
\* document has every row that was there when the export began and was not deleted since, and
\* no row of that time without its parent, erasure or not.
THEOREM ExportsCover == ExportSpec => []ExportSafe
<1>1. ExportInit => ExportInv
  <2> SUFFICES ASSUME ExportInit PROVE ExportInv
    OBVIOUS
  <2>1. /\ holdings = {} /\ atStart = {} /\ gone = {} /\ doc = {} /\ section = 0 /\ handed = "none"
        /\ ~erased /\ erased \in BOOLEAN
    BY DEF ExportInit
  <2>2. section \in 0 .. Sections + 1
    BY <2>1, ExportAssumption
  <2> QED BY <2>1, <2>2 DEF ExportInv, ExportTypeOK
<1>2. ExportInv => ExportSafe
  <2> SUFFICES ASSUME ExportInv, handed = "whole"
               PROVE  /\ atStart \ gone \subseteq doc
                      /\ \A r \in doc : Hangs(r, doc) \/ (Parent(r) \notin atStart /\ r \notin atStart)
    BY DEF ExportInv, ExportSafe, ExportCovers
  <2>1. section = Sections + 1 /\ Sections \in Nat
    BY ExportAssumption DEF ExportInv
  <2>2. \A r \in atStart : r[1] \in 1 .. Sections
    BY DEF ExportInv, ExportTypeOK
  <2>3. atStart \ gone \subseteq doc
    BY <2>1, <2>2 DEF ExportInv
  <2>4. ASSUME NEW r \in doc PROVE Hangs(r, doc) \/ (Parent(r) \notin atStart /\ r \notin atStart)
    BY DEF ExportInv, Hangs
  <2> QED BY <2>3, <2>4
<1> QED BY <1>1, <1>2, ExportStep, PTL DEF ExportSpec

-----------------------------------------------------------------------------
(* The limiter.  Balance is the account of a bucket: what was let through    *)
(* and what is left came from the burst and from the rate.  A bucket the     *)
(* sweep forgot has been idle long enough for the rate alone to pay for all  *)
(* it let through, so a full bucket can be handed out again.                 *)

USE LimiterAssumption

\* Time brings tokens in parts as it does in one.
LEMMA RateAdds ==
    ASSUME NEW x \in Int, NEW y \in Int, NEW z \in Int
    PROVE  /\ PerMinute * (x - y) \in Int
           /\ PerMinute * (x - y) + PerMinute * (y - z) = PerMinute * (x - z)
           /\ x >= y => PerMinute * (x - y) >= 0
  OBVIOUS

\* A full bucket, in the limiter's units.
LEMMA BurstCost == Burst * Cost \in Nat /\ Burst * Cost >= Cost
  OBVIOUS

\* The seconds told to a refused client are the least number that suffices.
LEMMA DivBound ==
    ASSUME NEW d \in Nat
    PROVE  d \div PerMinute \in Nat /\ d < PerMinute * ((d \div PerMinute) + 1)
  OBVIOUS

-----------------------------------------------------------------------------
\* What a bucket holds now is between nothing and the burst, and no more than what it
\* held and what the rate brought since.
LEMMA FilledBounds ==
    ASSUME RateTypeOK, NEW a \in Addresses
    PROVE  /\ Filled(bucket[a]) \in 0..(Burst * Cost)
           /\ bucket[a].has => Filled(bucket[a]) <= bucket[a].tokens
                                                     + PerMinute * (second - bucket[a].lastSeen)
<1> DEFINE b == bucket[a]
           r == PerMinute * (second - b.lastSeen)
<1>1. /\ b.tokens \in 0..(Burst * Cost) /\ b.lastSeen \in 0..second /\ second \in Nat
  BY DEF RateTypeOK
<1>2. r \in Nat
  <2>1. second \in Int /\ b.lastSeen \in Int /\ second >= b.lastSeen
    BY <1>1
  <2> QED BY <2>1, RateAdds
<1>3. Filled(b) = IF b.has /\ b.tokens + r < Burst * Cost THEN b.tokens + r ELSE Burst * Cost
  BY DEF Filled
<1> HIDE DEF b, r
<1>4. Filled(b) \in 0..(Burst * Cost) /\ (b.has => Filled(b) <= b.tokens + r)
  BY <1>1, <1>2, <1>3, BurstCost
<1> QED BY <1>4 DEF b, r

\* A step of one address: its bucket is written with no more than it held.
LEMMA BucketType ==
    ASSUME RateTypeOK, NEW a \in Addresses, NEW t \in 0..(Burst * Cost), UNCHANGED second,
           bucket' = [bucket EXCEPT ![a] = [has |-> TRUE, tokens |-> t, lastSeen |-> second]]
    PROVE  /\ bucket' \in [Addresses -> [has : BOOLEAN, tokens : Int, lastSeen : Int]]
           /\ \A c \in Addresses :
                bucket'[c].tokens \in 0..(Burst * Cost) /\ bucket'[c].lastSeen \in 0..second'
<1> DEFINE r == [has |-> TRUE, tokens |-> t, lastSeen |-> second]
<1>1. r \in [has : BOOLEAN, tokens : Int, lastSeen : Int]
  BY BurstCost DEF RateTypeOK
<1>2. r.tokens = t /\ r.lastSeen = second /\ second \in 0..second
  BY DEF RateTypeOK
<1>3. bucket' = [bucket EXCEPT ![a] = r]
  OBVIOUS
<1> HIDE DEF r
<1>4. bucket'[a] = r /\ \A c \in Addresses : c # a => bucket'[c] = bucket[c]
  BY <1>3 DEF RateTypeOK
<1>5. ASSUME NEW c \in Addresses
      PROVE  bucket'[c].tokens \in 0..(Burst * Cost) /\ bucket'[c].lastSeen \in 0..second'
  BY <1>2, <1>4 DEF RateTypeOK
<1>6. bucket' \in [Addresses -> [has : BOOLEAN, tokens : Int, lastSeen : Int]]
  BY <1>1, <1>3 DEF RateTypeOK
<1> QED BY <1>5, <1>6

\* No client has a bucket at first.
LEMMA TypeInit == RateInit => RateTypeOK
<1>1. NoBucket \in [has : BOOLEAN, tokens : Int, lastSeen : Int]
  BY DEF NoBucket
<1> QED BY <1>1, BurstCost DEF RateInit, RateTypeOK, NoBucket

\* One case for each action of the limiter.
LEMMA TypeStep == RateTypeOK /\ [RateNext]_limiterVars => RateTypeOK'
<1> SUFFICES ASSUME RateTypeOK, [RateNext]_limiterVars PROVE RateTypeOK'
  OBVIOUS
<1>1. ASSUME NEW a \in Addresses, Admit(a) PROVE RateTypeOK'
  <2>1. Filled(bucket[a]) - Cost \in 0..(Burst * Cost)
    BY <1>1, FilledBounds, BurstCost DEF Admit
  <2>2. since' \in [Addresses -> [0..MaxSecond -> Nat]]
    <3>1. [s \in 0..MaxSecond |-> IF s <= second THEN since[a][s] + 1 ELSE since[a][s]]
             \in [0..MaxSecond -> Nat]
      BY DEF RateTypeOK
    <3> QED BY <1>1, <3>1 DEF Admit, RateTypeOK
  <2>3. told' \in [Addresses -> Int] /\ second' = second
    BY <1>1 DEF Admit, RateTypeOK
  <2>4. bucket' = [bucket EXCEPT ![a] =
            [has |-> TRUE, tokens |-> Filled(bucket[a]) - Cost, lastSeen |-> second]]
    BY <1>1 DEF Admit
  <2>5. /\ bucket' \in [Addresses -> [has : BOOLEAN, tokens : Int, lastSeen : Int]]
        /\ \A c \in Addresses :
             bucket'[c].tokens \in 0..(Burst * Cost) /\ bucket'[c].lastSeen \in 0..second'
    BY <2>1, <2>3, <2>4, BucketType
  <2> QED BY <2>2, <2>3, <2>5 DEF RateTypeOK
<1>2. ASSUME NEW a \in Addresses, Refuse(a) PROVE RateTypeOK'
  <2>1. Filled(bucket[a]) \in 0..(Burst * Cost) /\ Filled(bucket[a]) < Cost
    BY <1>2, FilledBounds DEF Refuse
  <2>2. Wait(Filled(bucket[a])) \in Nat
    BY <2>1, DivBound DEF Wait
  <2>3. told' \in [Addresses -> Int] /\ second' = second /\ since' = since
    BY <1>2, <2>2 DEF Refuse, RateTypeOK
  <2>4. bucket' = [bucket EXCEPT ![a] =
            [has |-> TRUE, tokens |-> Filled(bucket[a]), lastSeen |-> second]]
    BY <1>2 DEF Refuse
  <2>5. /\ bucket' \in [Addresses -> [has : BOOLEAN, tokens : Int, lastSeen : Int]]
        /\ \A c \in Addresses :
             bucket'[c].tokens \in 0..(Burst * Cost) /\ bucket'[c].lastSeen \in 0..second'
    BY <2>1, <2>3, <2>4, BucketType
  <2> QED BY <2>3, <2>5 DEF RateTypeOK
<1>3. CASE sweep
  <2>1. NoBucket \in [has : BOOLEAN, tokens : Int, lastSeen : Int]
        /\ NoBucket.tokens = 0 /\ NoBucket.lastSeen = 0
    BY DEF NoBucket
  <2>2. /\ bucket' = [a \in Addresses |-> IF LongIdle(bucket[a]) THEN NoBucket ELSE bucket[a]]
        /\ UNCHANGED <<second, since, told>>
    BY <1>3 DEF sweep
  <2>3. \A a \in Addresses : bucket'[a] = NoBucket \/ bucket'[a] = bucket[a]
    BY <2>2
  <2>4. bucket' \in [Addresses -> [has : BOOLEAN, tokens : Int, lastSeen : Int]]
    BY <2>1, <2>2 DEF RateTypeOK
  <2> QED BY SMTT(20), <2>1, <2>2, <2>3, <2>4, BurstCost DEF RateTypeOK
<1>4. CASE Second
  BY <1>4 DEF Second, RateTypeOK
<1>5. CASE UNCHANGED limiterVars
  BY <1>5 DEF limiterVars, RateTypeOK
<1> QED BY <1>1, <1>2, <1>3, <1>4, <1>5 DEF RateNext, Allow

\* Every variable of the limiter keeps its type, and no bucket holds more than the burst,
\* at whatever rate and after whatever pause it is filled.
THEOREM TypeCorrect == RateSpec => []RateTypeOK
  BY TypeInit, TypeStep, PTL DEF RateSpec

-----------------------------------------------------------------------------
\* What address a was let through since second s, in fractions of a token.
Spent(a, s) == since[a][s] * Cost

\* Without a bucket, the rate alone has paid for it; with one, burst and rate have up to
\* its last use, and nothing was let through after that.
Balance ==
    \A a \in Addresses : \A s \in 0..MaxSecond :
       /\ s > second => since[a][s] = 0
       /\ (s <= second /\ ~bucket[a].has) => Spent(a, s) <= PerMinute * (second - s)
       /\ bucket[a].has /\ s <= bucket[a].lastSeen =>
             Spent(a, s) + bucket[a].tokens <= Burst * Cost + PerMinute * (bucket[a].lastSeen - s)
       /\ bucket[a].has /\ s > bucket[a].lastSeen => since[a][s] = 0

\* What was let through and what could be let through at once are within burst and rate.
LEMMA FilledBalance ==
    ASSUME RateTypeOK, Balance, NEW a \in Addresses, NEW s \in 0..second
    PROVE  /\ Spent(a, s) \in Int
           /\ Spent(a, s) + Filled(bucket[a]) <= Burst * Cost + PerMinute * (second - s)
<1> DEFINE b == bucket[a]
           f == Filled(bucket[a])
           m == Spent(a, s)
<1>1. /\ second \in 0..MaxSecond /\ s \in 0..MaxSecond /\ since[a][s] \in Nat
      /\ b.tokens \in Int /\ b.lastSeen \in 0..second /\ b.has \in BOOLEAN
  BY DEF RateTypeOK
<1>2. f \in 0..(Burst * Cost) /\ (b.has => f <= b.tokens + PerMinute * (second - b.lastSeen))
  BY FilledBounds
<1>3. m \in Int /\ (since[a][s] = 0 => m = 0)
  BY <1>1 DEF Spent
<1>4. /\ PerMinute * (second - s) \in Int /\ PerMinute * (second - s) >= 0
      /\ PerMinute * (second - b.lastSeen) \in Int /\ PerMinute * (b.lastSeen - s) \in Int
      /\ PerMinute * (second - b.lastSeen) + PerMinute * (b.lastSeen - s) = PerMinute * (second - s)
  BY <1>1, RateAdds
<1>5. /\ ~b.has => m <= PerMinute * (second - s)
      /\ b.has /\ s <= b.lastSeen => m + b.tokens <= Burst * Cost + PerMinute * (b.lastSeen - s)
      /\ b.has /\ s > b.lastSeen => m = 0
  BY <1>1, <1>3 DEF Balance
<1> HIDE DEF b, f, m
<1>6. m + f <= Burst * Cost + PerMinute * (second - s)
  <2>1. CASE ~b.has
    BY <2>1, <1>2, <1>3, <1>4, <1>5, BurstCost
  <2>2. CASE b.has /\ s <= b.lastSeen
    BY <2>2, <1>1, <1>2, <1>3, <1>4, <1>5, BurstCost
  <2>3. CASE b.has /\ s > b.lastSeen
    BY <2>3, <1>1, <1>2, <1>3, <1>4, <1>5, BurstCost
  <2> QED BY <2>1, <2>2, <2>3, <1>1
<1> QED BY <1>3, <1>6 DEF b, f, m

\* The account of a bucket, action by action.
LEMMA BalanceStep == RateTypeOK /\ Balance /\ [RateNext]_limiterVars => Balance'
<1> SUFFICES ASSUME RateTypeOK, Balance, [RateNext]_limiterVars,
                    NEW a \in Addresses, NEW s \in 0..MaxSecond
             PROVE  /\ s > second' => since'[a][s] = 0
                    /\ (s <= second' /\ ~bucket'[a].has) => Spent(a, s)' <= PerMinute * (second' - s)
                    /\ bucket'[a].has /\ s <= bucket'[a].lastSeen =>
                          Spent(a, s)' + bucket'[a].tokens
                             <= Burst * Cost + PerMinute * (bucket'[a].lastSeen - s)
                    /\ bucket'[a].has /\ s > bucket'[a].lastSeen => since'[a][s] = 0
  BY DEF Balance
<1>0. /\ second \in 0..MaxSecond /\ since[a][s] \in Nat /\ Spent(a, s) \in Int
      /\ bucket[a].tokens \in 0..(Burst * Cost) /\ bucket[a].lastSeen \in 0..second
  BY DEF RateTypeOK, Spent
<1>1. ASSUME NEW c \in Addresses, Allow(c), c # a
      PROVE  bucket'[a] = bucket[a] /\ since'[a] = since[a] /\ second' = second
  BY <1>1 DEF Allow, Admit, Refuse, RateTypeOK
<1>2. CASE bucket'[a] = bucket[a] /\ since'[a] = since[a] /\ second' = second
  BY <1>2 DEF Balance, Spent
<1>3. CASE Admit(a)
  <2>1. /\ bucket'[a].has /\ bucket'[a].tokens = Filled(bucket[a]) - Cost
        /\ bucket'[a].lastSeen = second /\ second' = second
    BY <1>3 DEF Admit, RateTypeOK
  <2>2. since'[a][s] = IF s <= second THEN since[a][s] + 1 ELSE since[a][s]
    BY <1>3 DEF Admit, RateTypeOK
  <2>3. ASSUME s > second PROVE since'[a][s] = 0
    BY <2>2, <2>3, <1>0 DEF Balance
  <2>4. ASSUME s <= second
        PROVE  Spent(a, s)' + bucket'[a].tokens <= Burst * Cost + PerMinute * (second - s)
    <3>1. Spent(a, s)' = Spent(a, s) + Cost
      BY <2>2, <2>4, <1>0 DEF Spent
    <3>2. Spent(a, s) + Filled(bucket[a]) <= Burst * Cost + PerMinute * (second - s)
      BY <2>4, <1>0, FilledBalance
    <3>3. Filled(bucket[a]) \in Int
      BY FilledBounds, BurstCost
    <3>4. Spent(a, s)' + bucket'[a].tokens = Spent(a, s) + Filled(bucket[a])
      BY <3>1, <3>3, <2>1, <1>0
    <3> QED BY <3>2, <3>4
  <2> QED BY <2>1, <2>3, <2>4, <1>0
<1>4. CASE Refuse(a)
  <2>1. /\ bucket'[a].has /\ bucket'[a].tokens = Filled(bucket[a])
        /\ bucket'[a].lastSeen = second /\ second' = second /\ since' = since
    BY <1>4 DEF Refuse, RateTypeOK
  <2>2. Spent(a, s)' = Spent(a, s)
    BY <2>1 DEF Spent
  <2>3. ASSUME s > second PROVE since'[a][s] = 0
    BY <2>1, <2>3, <1>0 DEF Balance
  <2>4. ASSUME s <= second
        PROVE  Spent(a, s)' + bucket'[a].tokens <= Burst * Cost + PerMinute * (second - s)
    BY <2>1, <2>2, <2>4, <1>0, FilledBalance
  <2> QED BY <2>1, <2>3, <2>4, <1>0
<1>5. CASE sweep /\ LongIdle(bucket[a])
  <2>1. /\ ~bucket'[a].has /\ second' = second /\ since' = since
        /\ bucket[a].has /\ bucket[a].lastSeen < second - Ttl
    BY <1>5 DEF sweep, NoBucket, LongIdle
  <2>2. Spent(a, s)' = Spent(a, s)
    BY <2>1 DEF Spent
  <2>3. ASSUME s <= second PROVE Spent(a, s) <= PerMinute * (second - s)
    <3>1. CASE s > bucket[a].lastSeen
      <4>1. Spent(a, s) = 0
        BY <3>1, <2>1, <1>0 DEF Balance, Spent
      <4> QED BY <4>1, <2>3, <1>0, RateAdds
    <3>2. CASE s <= bucket[a].lastSeen
      <4>1. Spent(a, s) + bucket[a].tokens <= Burst * Cost + PerMinute * (bucket[a].lastSeen - s)
        BY <3>2, <2>1 DEF Balance
      <4>2. Spent(a, s) <= PerMinute * Ttl + PerMinute * (bucket[a].lastSeen - s)
        <5>1. PerMinute * Ttl \in Int /\ PerMinute * (bucket[a].lastSeen - s) \in Int
          BY <1>0, RateAdds
        <5> QED BY <4>1, <5>1, <1>0, BurstCost
      <4>3. PerMinute * Ttl + PerMinute * (bucket[a].lastSeen - s)
              = PerMinute * ((bucket[a].lastSeen + Ttl) - s)
        BY <1>0
      <4>4. PerMinute * ((bucket[a].lastSeen + Ttl) - s) <= PerMinute * (second - s)
        <5>1. bucket[a].lastSeen + Ttl \in Int /\ second \in Int /\ s \in Int
              /\ second >= bucket[a].lastSeen + Ttl
          BY <2>1, <1>0
        <5>2. /\ PerMinute * (second - (bucket[a].lastSeen + Ttl)) >= 0
              /\ PerMinute * (second - (bucket[a].lastSeen + Ttl))
                    + PerMinute * ((bucket[a].lastSeen + Ttl) - s) = PerMinute * (second - s)
          BY <5>1, RateAdds
        <5>3. /\ PerMinute * (second - (bucket[a].lastSeen + Ttl)) \in Int
              /\ PerMinute * ((bucket[a].lastSeen + Ttl) - s) \in Int
              /\ PerMinute * (second - s) \in Int
          BY <5>1, RateAdds
        <5> QED BY <5>2, <5>3
      <4>5. /\ PerMinute * ((bucket[a].lastSeen + Ttl) - s) \in Int
            /\ PerMinute * (second - s) \in Int
        BY <1>0, RateAdds
      <4> QED BY <4>2, <4>3, <4>4, <4>5, <1>0
    <3> QED BY <3>1, <3>2, <1>0
  <2> QED BY <2>1, <2>2, <2>3, <1>0 DEF Balance
<1>6. CASE Second
  <2>1. bucket' = bucket /\ since' = since /\ second' = second + 1
    BY <1>6 DEF Second
  <2>2. Spent(a, s)' = Spent(a, s)
    BY <2>1 DEF Spent
  <2>3. ASSUME s <= second + 1, ~bucket[a].has PROVE Spent(a, s) <= PerMinute * ((second + 1) - s)
    <3>1. PerMinute * ((second + 1) - s) = PerMinute * (second - s) + PerMinute
      BY <1>0
    <3>2. CASE s = second + 1
      <4>1. Spent(a, s) = 0
        BY <3>2, <1>0 DEF Balance, Spent
      <4> QED BY <4>1, <2>3, <1>0, RateAdds
    <3>3. CASE s <= second
      <4>1. Spent(a, s) <= PerMinute * (second - s)
        BY <3>3, <2>3 DEF Balance
      <4>2. PerMinute * (second - s) \in Int
        BY <1>0, RateAdds
      <4> QED BY <4>1, <4>2, <3>1, <1>0
    <3> QED BY <2>3, <3>2, <3>3, <1>0
  <2> QED BY <2>1, <2>2, <2>3, <1>0 DEF Balance
<1>7. CASE sweep /\ ~LongIdle(bucket[a])
  BY <1>7, <1>2 DEF sweep
<1>8. CASE UNCHANGED limiterVars
  BY <1>8, <1>2 DEF limiterVars
<1> QED BY <1>1, <1>2, <1>3, <1>4, <1>5, <1>6, <1>7, <1>8 DEF RateNext, Allow

\* ratelimit.go: in every window an address is let through no more than its burst and what
\* the rate brings in that time, although the sweep forgets buckets and the next request
\* gets a full one.
THEOREM WindowIsBounded == RateSpec => []WindowBound
<1>1. RateInit => Balance
  <2> SUFFICES ASSUME RateInit, NEW a \in Addresses, NEW s \in 0..MaxSecond
               PROVE  since[a][s] = 0 /\ Spent(a, s) = 0 /\ ~bucket[a].has
                      /\ (s <= second => PerMinute * (second - s) >= 0)
    BY DEF Balance
  <2> QED BY DEF RateInit, Spent, NoBucket
<1>2. RateTypeOK /\ Balance => WindowBound
  <2> SUFFICES ASSUME RateTypeOK, Balance, NEW a \in Addresses, NEW s \in 0..second
               PROVE  since[a][s] * Cost <= Burst * Cost + PerMinute * (second - s)
    BY DEF WindowBound
  <2>1. /\ Spent(a, s) \in Int
        /\ Spent(a, s) + Filled(bucket[a]) <= Burst * Cost + PerMinute * (second - s)
    BY FilledBalance
  <2>2. Filled(bucket[a]) \in Int /\ Filled(bucket[a]) >= 0
    BY FilledBounds, BurstCost
  <2>3. second \in Int /\ s \in Int
    BY DEF RateTypeOK
  <2>4. PerMinute * (second - s) \in Int
    BY <2>3, RateAdds
  <2>5. Spent(a, s) <= Burst * Cost + PerMinute * (second - s)
    BY <2>1, <2>2, <2>4, BurstCost
  <2> QED BY <2>5 DEF Spent
<1> QED BY <1>1, <1>2, TypeInit, TypeStep, BalanceStep, PTL DEF RateSpec

-----------------------------------------------------------------------------
\* A second after the time it was told, the bucket of a refused address holds a token.
Promise ==
    \A a \in Addresses : told[a] >= 0 /\ bucket[a].has =>
       /\ bucket[a].lastSeen <= told[a]
       /\ bucket[a].tokens + PerMinute * ((told[a] + 1) - bucket[a].lastSeen) >= Cost

\* What a refused client was told, action by action.
LEMMA PromiseStep == RateTypeOK /\ Promise /\ [RateNext]_limiterVars => Promise'
<1> SUFFICES ASSUME RateTypeOK, Promise, [RateNext]_limiterVars, NEW a \in Addresses,
                    told'[a] >= 0, bucket'[a].has
             PROVE  /\ bucket'[a].lastSeen <= told'[a]
                    /\ bucket'[a].tokens + PerMinute * ((told'[a] + 1) - bucket'[a].lastSeen) >= Cost
  BY DEF Promise
<1>1. CASE bucket'[a] = bucket[a] /\ told'[a] = told[a]
  BY <1>1 DEF Promise
<1>2. CASE Admit(a)
  BY <1>2 DEF Admit, RateTypeOK
<1>3. CASE Refuse(a)
  <2> DEFINE f == Filled(bucket[a])
             d == Cost - f
  <2>1. f \in 0..(Burst * Cost) /\ f < Cost /\ second \in Nat
    BY SMTT(20), <1>3, FilledBounds DEF Refuse, RateTypeOK
  <2>2. bucket'[a].tokens = f /\ bucket'[a].lastSeen = second /\ told'[a] = second + Wait(f)
    BY <1>3 DEF Refuse, RateTypeOK
  <2>3. Wait(f) = IF d \div PerMinute < 1 THEN 1 ELSE d \div PerMinute
    BY DEF Wait
  <2> HIDE DEF f
  <2>4. d \in Nat
    BY <2>1, BurstCost
  <2> HIDE DEF d
  <2>5. d \div PerMinute \in Nat /\ d < PerMinute * ((d \div PerMinute) + 1)
    BY <2>4, DivBound
  <2>6. Wait(f) \in Nat /\ Wait(f) >= d \div PerMinute
    BY <2>3, <2>5
  <2>7. PerMinute * (Wait(f) + 1) >= PerMinute * ((d \div PerMinute) + 1)
        /\ PerMinute * (Wait(f) + 1) \in Int /\ PerMinute * ((d \div PerMinute) + 1) \in Int
    <3> DEFINE w == Wait(f)
               q == d \div PerMinute
    <3>1. w \in Nat /\ q \in Nat /\ w >= q
      BY <2>5, <2>6
    <3> HIDE DEF w, q
    <3>2. PerMinute * (w + 1) >= PerMinute * (q + 1)
          /\ PerMinute * (w + 1) \in Int /\ PerMinute * (q + 1) \in Int
      BY <3>1
    <3> QED BY <3>2 DEF w, q
  <2>8. PerMinute * (Wait(f) + 1) >= Cost - f
    BY <2>4, <2>5, <2>7 DEF d
  <2>9. (told'[a] + 1) - bucket'[a].lastSeen = Wait(f) + 1
    BY <2>1, <2>2, <2>6
  <2>10. f \in Int
    BY <2>1, BurstCost
  <2> QED BY <2>1, <2>2, <2>6, <2>7, <2>8, <2>9, <2>10
<1>4. ASSUME NEW c \in Addresses, Allow(c), c # a
      PROVE  bucket'[a] = bucket[a] /\ told'[a] = told[a]
  BY <1>4 DEF Allow, Admit, Refuse, RateTypeOK
<1>5. CASE sweep
  BY <1>5, <1>1 DEF sweep, NoBucket
<1>6. CASE Second \/ UNCHANGED limiterVars
  BY <1>6, <1>1 DEF Second, limiterVars
<1> QED BY <1>1, <1>2, <1>3, <1>4, <1>5, <1>6 DEF RateNext, Allow

\* middleware.go, Retry-After: who was refused and comes back one second after the moment
\* it was told is let in, for every rate; the second is what rounding down can cost.
THEOREM RetriesGetIn == RateSpec => []RetryGetsIn
<1>1. RateInit => Promise
  BY DEF RateInit, Promise, NoBucket
<1>2. RateTypeOK /\ Promise => RetryGetsIn
  <2> SUFFICES ASSUME RateTypeOK, Promise, NEW a \in Addresses, told[a] >= 0, second > told[a]
               PROVE  Filled(bucket[a]) >= Cost
    BY DEF RetryGetsIn
  <2>1. CASE ~bucket[a].has
    BY <2>1, BurstCost DEF Filled
  <2>2. CASE bucket[a].has
    <3> DEFINE t == told[a]
               l == bucket[a].lastSeen
    <3>1. /\ second \in Int /\ t \in Int /\ l \in Int /\ bucket[a].tokens \in Int
          /\ second >= t + 1 /\ bucket[a].tokens + PerMinute * ((t + 1) - l) >= Cost
      BY <2>2 DEF RateTypeOK, Promise
    <3> HIDE DEF t, l
    <3>2. /\ PerMinute * (second - (t + 1)) >= 0
          /\ PerMinute * (second - (t + 1)) + PerMinute * ((t + 1) - l) = PerMinute * (second - l)
          /\ PerMinute * (second - (t + 1)) \in Int /\ PerMinute * ((t + 1) - l) \in Int
          /\ PerMinute * (second - l) \in Int
      <4>1. t + 1 \in Int
        BY <3>1
      <4> QED BY <3>1, <4>1, RateAdds
    <3>3. bucket[a].tokens + PerMinute * (second - l) >= Cost
      BY <3>1, <3>2
    <3> QED BY <3>3, BurstCost DEF Filled, l
  <2> QED BY <2>1, <2>2
<1> QED BY <1>1, <1>2, TypeInit, TypeStep, PromiseStep, PTL DEF RateSpec

\* The limiter as a whole (ratelimit.go): types, the bound on every window and what
\* Retry-After promises.
THEOREM LimiterIsSafe == RateSpec => []LimiterSafe
<1>1. RateTypeOK /\ WindowBound /\ RetryGetsIn => LimiterSafe
  BY DEF LimiterSafe
<1> QED BY <1>1, TypeCorrect, WindowIsBounded, RetriesGetIn, PTL

HIDE LimiterAssumption

-----------------------------------------------------------------------------
(* The server.  Its parts take turns and none writes what is another's, so a  *)
(* behaviour of the server is one of every part.                            *)

\* A step of the server is a step of one part and leaves the others alone.
LEMMA PartsTakeTurns ==
    [Next]_vars =>
       /\ [RateNext]_limiterVars /\ [ListingNext]_listVars /\ [CatalogNext]_dbVars
       /\ [HandoverNext]_handVars /\ [ReadinessNext]_readyVars /\ [CheckNext]_checkVars
       /\ [FlagsNext]_flagVars /\ [DevicesNext]_deviceVars /\ [BootNext]_bootVars
       /\ [QueueNext]_queueVars /\ [RetentionNext]_retentionVars /\ [ExportNext]_exportVars
<1> USE DEF requestVars, reportVars, processVars, jobTableVars
<1>1. CASE RequestNext /\ UNCHANGED <<part, reportVars, processVars, jobTableVars>>
  BY <1>1 DEF RequestNext
<1>2. CASE ReportNext /\ UNCHANGED <<part, requestVars, processVars, jobTableVars>>
  BY <1>2 DEF ReportNext
<1>3. CASE ProcessNext /\ UNCHANGED <<part, requestVars, reportVars, jobTableVars>>
  BY <1>3 DEF ProcessNext
<1>4. CASE JobTableNext /\ UNCHANGED <<part, requestVars, reportVars, processVars>>
  BY <1>4 DEF JobTableNext
<1>5. CASE UNCHANGED vars
  BY <1>5 DEF vars
<1> QED BY <1>1, <1>2, <1>3, <1>4, <1>5 DEF Next

\* main.go wires the parts into one process: what it does is, for every part, something the
\* part does alone.
THEOREM ServerRunsItsParts ==
    Spec => /\ RateSpec /\ ListingSpec /\ CatalogSpec /\ HandoverSpec /\ ReadinessSpec
            /\ CheckSpec /\ FlagsSpec /\ DevicesSpec /\ BootSpec /\ QueueSpec /\ RetentionSpec /\ ExportSpec
<1>1. Init => /\ RateInit /\ ListingInit /\ CatalogInit /\ HandoverInit /\ ReadinessInit
              /\ CheckInit /\ FlagsInit /\ DevicesInit /\ BootInit /\ QueueInit /\ RetentionInit /\ ExportInit
  BY DEF Init
<1> QED BY <1>1, PartsTakeTurns, PTL DEF Spec, RateSpec, ListingSpec, CatalogSpec, HandoverSpec,
        ReadinessSpec, CheckSpec, FlagsSpec, DevicesSpec, BootSpec, QueueSpec, RetentionSpec, ExportSpec

\* What a drill concludes and what its badge says (assertions.go, readiness.go).
THEOREM VerdictsAreSafe == Spec => []VerdictsSafe
<1> QED BY ServerRunsItsParts, VerdictsAreTrue, BadgesAreEarned, PTL DEF VerdictsSafe

\* main.go, flags.go and push.go: what the process starts, remembers and takes down.
THEOREM ProcessIsSafe == Spec => []ProcessSafe
<1> QED BY ServerRunsItsParts, ServesOnlyWhenUp, FlagsAreRefreshed, PhonesRing, PTL DEF ProcessSafe

\* drill_quota.go, retention.go and export.go: jobs start in their plan's rank, a sweep takes
\* nothing that is still read, and an export has all that was there at its beginning and was
\* not deleted before its section was read.
THEOREM JobTablesAreSafe == Spec => []JobTablesSafe
<1> QED BY ServerRunsItsParts, QueueIsFair, SweepIsUnseen, ExportsCover, PTL DEF JobTablesSafe

\* A score rises only by a drill that proves something, and what PostHog answered is kept
\* (readiness.go, flags.go), if no drill can run for as long as the window.
THEOREM ServerOnlyForward == RunsAreShort => (Spec => OnlyForward)
<1> SUFFICES ASSUME RunsAreShort PROVE Spec => OnlyForward
  OBVIOUS
<1>1. ReadinessSpec => RisesByProof
  BY ScoreRisesByProof
<1> QED BY <1>1, ServerRunsItsParts, AnswersAreKept, PTL DEF OnlyForward

=============================================================================
