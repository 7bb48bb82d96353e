-------------------------------- MODULE Checks --------------------------------
(***************************************************************************)
(* One assertion from the request that configures it to the drill that runs *)
(* it: the form or the API accepts a configuration, it is stored as JSON,   *)
(* and months later Run executes it against a restored database that nobody *)
(* has seen.  An error of Run fails the drill (runAssertions), a failed     *)
(* assertion only its verdict.  Names and queries are abstract: what tells  *)
(* them apart is whether they are well formed and what the database knows   *)
(* of them.                                                                 *)
(***************************************************************************)
EXTENDS Integers, Sequences

CONSTANTS
    RowCap,        \* maxSQLQueryRows: rows of a query that are captured
    MaxRows,       \* bound: rows of a table, or of the answer to a query
    MaxTokens,     \* bound: tokens of a query
    MaxMinRows     \* the largest min_rows of the form

ASSUME CheckAssumption == {RowCap, MaxRows, MaxTokens, MaxMinRows} \subseteq Nat

VARIABLES
    spec,          \* the row of target_assertions
    restored,      \* the database in the sandbox
    checking,      \* "asked", "stored", "refused", "ran", "error"
    outcome        \* the row of assertion_results

checkVars == <<spec, restored, checking, outcome>>

-----------------------------------------------------------------------------
(* Configurations as they arrive. *)

Idents == {"known", "unknown", "malformed"}  \* known: there may be such a table or column
\* Tokens of a query: SELECT stands for the words it may start with, DELETE for the
\* forbidden ones, any for every other word.
Tokens == {"SELECT", "DELETE", "any", ";", " "}
Queries == UNION {[1..n -> Tokens] : n \in 0..MaxTokens}
Absent == [is |-> "absent", n |-> 0]
Text == [is |-> "text", n |-> 0]
Numbers == {Absent, Text} \cup [is : {"number"}, n : -1..MaxRows + 1]

\* A JSON object: a key that is missing, or is no string, reads as "".
Configs == [table : Idents, column : Idents, minRows : Numbers, query : Queries, expected : Numbers]
Blank == [table |-> "malformed", column |-> "malformed", minRows |-> Absent, query |-> <<>>,
          expected |-> Absent]

AssertKinds == {"row_count", "table_exists", "column_exists", "no_nulls", "sql_query"}

\* Configurations that differ in what their kind looks at.
Asked(kind) ==
    [table : IF kind = "sql_query" THEN {Blank.table} ELSE Idents,
     column : IF kind \in {"column_exists", "no_nulls"} THEN Idents ELSE {Blank.column},
     minRows : IF kind = "row_count" THEN Numbers ELSE {Absent},
     query : IF kind = "sql_query" THEN Queries ELSE {<<>>},
     expected : IF kind = "sql_query" THEN Numbers ELSE {Absent}]

\* What a restored database can look like: rows of the table (-1 without it), nulls of
\* the column (-1 without it), rows the query returns (-1 when it fails).
RestoredDbs == {d \in [rows : -1..MaxRows, nulls : -1..MaxRows, answer : -1..MaxRows] :
    d.nulls <= d.rows}

CheckInit ==
    /\ spec = [kind |-> "", config |-> Blank]
    /\ restored \in RestoredDbs
    /\ checking = "asked"
    /\ outcome = [passed |-> FALSE, seen |-> 0, truncated |-> FALSE]

-----------------------------------------------------------------------------
(* ValidateConfig, at the two boundaries. *)

ValidIdent(name) == name # "malformed"

\* intVal and intFrom: what is no number is 0.
intVal(v) == IF v.is = "number" THEN v.n ELSE 0

\* The query without its trailing blanks and, before them, one semicolon.
Body(q) ==
    LET text == {i \in DOMAIN q : q[i] # " "}
        end == IF text = {} THEN 0 ELSE CHOOSE i \in text : \A k \in text : k <= i
    IN SubSeq(q, 1, IF end > 0 /\ q[end] = ";" THEN end - 1 ELSE end)

hasMultipleStatements(q) == \E i \in DOMAIN Body(q) : Body(q)[i] = ";"

\* startsWithAny, after upperTrim has skipped the leading blanks.
Starting(q) ==
    \E i \in DOMAIN q : q[i] = "SELECT" /\ \A k \in 1..i - 1 : q[k] = " "

validateReadOnlySQL(q) ==
    /\ ~hasMultipleStatements(q)
    /\ Starting(q)
    /\ \A i \in DOMAIN q : q[i] # "DELETE"

ValidateConfig(kind, c) ==
    /\ kind \in AssertKinds
    /\ IF kind = "sql_query" THEN c.query # <<>> /\ validateReadOnlySQL(c.query)
       ELSE /\ ValidIdent(c.table)
            /\ kind \in {"column_exists", "no_nulls"} => ValidIdent(c.column)
            /\ kind = "row_count" => intVal(c.minRows) >= 0

\* buildAssertionConfig: the form has a table, a column and a field for the rows,
\* which counts as 1 when it is left blank.
buildAssertionConfig(kind, table, column, input) ==
    [Blank EXCEPT !.table = table,
        !.column = IF kind \in {"column_exists", "no_nulls"} THEN column ELSE "malformed",
        !.minRows = IF kind # "row_count" THEN Absent
                    ELSE IF input = Absent THEN [is |-> "number", n |-> 1] ELSE input]

\* atoiInRange.
InputOK(kind, input) ==
    kind = "row_count" => input = Absent \/ (input.is = "number" /\ input.n \in 0..MaxMinRows)

StoreSpec(kind, c, ok) ==
    /\ checking = "asked"
    /\ checking' = IF ok THEN "stored" ELSE "refused"
    /\ spec' = IF ok THEN [kind |-> kind, config |-> c] ELSE spec
    /\ UNCHANGED <<restored, outcome>>

\* POST /databases/{id}/assertions.
assertionForm ==
    \E kind \in AssertKinds \cup {"other"}, table \in Idents, column \in Idents, input \in Numbers :
        LET c == buildAssertionConfig(kind, table, column, input)
        IN StoreSpec(kind, c, kind \in AssertKinds /\ InputOK(kind, input) /\ ValidateConfig(kind, c))

\* POST /v1/databases: the configuration of the body as it is.
assertionBody ==
    \E kind \in AssertKinds \cup {"other"} : \E c \in Asked(kind) :
        StoreSpec(kind, c, ValidateConfig(kind, c))

-----------------------------------------------------------------------------
(* Run. *)

\* What the database answers: the rows of a table that is there.
TableRows(c) == IF c.table = "known" THEN restored.rows ELSE -1
ColumnNulls(c) == IF TableRows(c) >= 0 /\ c.column = "known" THEN restored.nulls ELSE -1

Concludes(passed, seen, truncated) ==
    /\ checking' = "ran"
    /\ outcome' = [passed |-> passed, seen |-> seen, truncated |-> truncated]
    /\ UNCHANGED <<spec, restored>>

\* A configuration Run does not understand, or a statement that fails.
Fails(why) ==
    /\ checking' = why
    /\ UNCHANGED <<spec, restored, outcome>>

runRowCount(c) ==
    /\ spec.kind = "row_count"
    /\ IF ~ValidIdent(c.table) THEN Fails("misconfigured")
       ELSE IF TableRows(c) < 0 THEN Fails("error")
       ELSE Concludes(TableRows(c) >= intVal(c.minRows), TableRows(c), FALSE)

runTableExists(c) ==
    /\ spec.kind = "table_exists"
    /\ IF ~ValidIdent(c.table) THEN Fails("misconfigured")
       ELSE Concludes(TableRows(c) >= 0, 0, FALSE)

runColumnExists(c) ==
    /\ spec.kind = "column_exists"
    /\ IF ~ValidIdent(c.table) \/ ~ValidIdent(c.column) THEN Fails("misconfigured")
       ELSE Concludes(ColumnNulls(c) >= 0, 0, FALSE)

runNoNulls(c) ==
    /\ spec.kind = "no_nulls"
    /\ IF ~ValidIdent(c.table) \/ ~ValidIdent(c.column) THEN Fails("misconfigured")
       ELSE IF ColumnNulls(c) < 0 THEN Fails("error")
       ELSE Concludes(ColumnNulls(c) = 0, ColumnNulls(c), FALSE)

\* Every row is counted, also those beyond the cap.
Total(n) == n

\* Mutant: a query that ran has passed.
Meets_Always(c, total) == TRUE

\* Without an expected number of rows it is enough that the query ran.
Meets(c, total) == c.expected = Absent \/ total = intVal(c.expected)

runSQLQuery(c) ==
    /\ spec.kind = "sql_query"
    /\ IF ~validateReadOnlySQL(c.query) THEN Fails("misconfigured")
       ELSE IF restored.answer < 0 THEN Fails("error")
       ELSE Concludes(Meets(c, Total(restored.answer)), Total(restored.answer),
                 restored.answer > RowCap)

Run ==
    /\ checking = "stored"
    /\ LET c == spec.config IN
        runRowCount(c) \/ runTableExists(c) \/ runColumnExists(c) \/ runNoNulls(c) \/ runSQLQuery(c)

CheckNext == assertionForm \/ assertionBody \/ Run

CheckSpec == CheckInit /\ [][CheckNext]_checkVars

-----------------------------------------------------------------------------
(* Properties. *)

\* Every variable has its type; what was truncated is flagged.
CheckTypeOK ==
    /\ spec.kind \in AssertKinds \cup {""} /\ spec.config \in Configs
    /\ restored \in RestoredDbs
    /\ checking \in {"asked", "stored", "refused", "ran", "error", "misconfigured"}
    /\ outcome \in [passed : BOOLEAN, seen : 0..MaxRows, truncated : BOOLEAN]
    /\ outcome.truncated => outcome.seen > RowCap

\* A configuration either boundary has accepted is one Run understands: no drill fails,
\* months later, because of what a request should have refused.
AcceptedRuns == checking # "misconfigured"

\* A stored query is at most one statement, however its semicolons and blanks are
\* placed, and no word of it is forbidden.
OneReadOnlyStatement ==
    LET q == spec.config.query IN
        /\ \A i \in DOMAIN q : q[i] # "DELETE"
        /\ ~ \E i, k \in DOMAIN q, j \in DOMAIN q :
                i < j /\ j < k /\ q[j] = ";" /\ {q[i], q[k]} \cap {";", " "} = {}

Tables == spec.config.table = "known" /\ restored.rows >= 0
Columns == Tables /\ spec.config.column = "known" /\ restored.nulls >= 0

\* The statement the assertion makes about a database.
Holds ==
    IF spec.kind = "row_count" THEN Tables /\ restored.rows >= spec.config.minRows.n
    ELSE IF spec.kind = "table_exists" THEN Tables
    ELSE IF spec.kind = "column_exists" THEN Columns
    ELSE IF spec.kind = "no_nulls" THEN Columns /\ restored.nulls = 0
    ELSE restored.answer >= 0
         /\ (spec.config.expected # Absent => restored.answer = spec.config.expected.n)

\* The verdict in the evidence is the truth about the restored database, for every
\* configuration whose numbers are numbers; what cannot be asked is never a pass.
VerdictIsTrue ==
    checking = "ran" /\ Text \notin {spec.config.minRows, spec.config.expected}
    => (outcome.passed <=> Holds)

\* What a form or the API accepts runs as one read-only statement, and its verdict is true of the
\* restored database (assertions.go).
ChecksSafe == CheckTypeOK /\ AcceptedRuns /\ VerdictIsTrue /\ OneReadOnlyStatement

=============================================================================
