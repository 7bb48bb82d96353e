----------------------------- MODULE DataExport -----------------------------
(***************************************************************************)
(* The data export of an account (compliance/export.go): one query per         *)
(* section, without a transaction, while drills are made, go on and are         *)
(* repeated, the retention sweep runs, and the account may be erased.         *)
(*                                                                         *)
(* A row hangs on one of a section read before its own, as a result does on       *)
(* its drill and the drill on its database, or on the account itself; a row is     *)
(* the pair of its section and of the database, or member, it stands for.        *)
(***************************************************************************)
EXTENDS Naturals, FiniteSets

CONSTANTS
    Roots,         \* bound: databases, with what hangs on them
    Sections,      \* the number of sections, in the exporter's order
    Under,         \* the section the rows of a section hang on, 0 for the account
    Cleared        \* sections whose rows are deleted one by one: members, assertions,
                   \* results, signatures, audit events

\* Nothing hangs on a row of the cleared sections.
ASSUME ExportAssumption ==
    /\ IsFiniteSet(Roots) /\ Sections \in Nat \ {0} /\ Cleared \subseteq 1 .. Sections
    /\ Under \in [1 .. Sections -> Nat \ Cleared] /\ \A s \in 1 .. Sections : Under[s] < s

VARIABLES
    holdings,      \* the rows of the account, <<section, root>>
    atStart,       \* history: the rows when the export began
    gone,          \* history: rows deleted after it began
    section,       \* the section that is read next; 0 before the export
    doc,           \* the document in memory
    handed,        \* the download, "none", "failed" or "whole"
    erased         \* the account was erased

exportVars == <<holdings, atStart, gone, section, doc, handed, erased>>

Parent(r) == <<Under[r[1]], r[2]>>
\* The foreign key of a row holds among the rows S.
Hangs(r, S) == Under[r[1]] = 0 \/ Parent(r) \in S

ExportInit ==
    /\ holdings = {} /\ atStart = {} /\ gone = {} /\ section = 0 /\ doc = {} /\ handed = "none"
    /\ erased = FALSE

-----------------------------------------------------------------------------
\* The account goes on: a row is made under one that is there.
MakeRow(r) ==
    /\ ~erased /\ r \notin holdings /\ Hangs(r, holdings)
    /\ holdings' = holdings \cup {r}
    /\ UNCHANGED <<atStart, gone, section, doc, handed, erased>>

\* A deletion before the export is of no interest.
Delete(S) == section # 0 /\ holdings' = holdings \ S /\ gone' = gone \cup S

\* RemoveMember, DeleteAssertion, the results a repeated assert step clears, PurgeExpired,
\* the sweep over audit_events.
DeleteRow(r) ==
    /\ r \in holdings /\ r[1] \in Cleared /\ Delete({r})
    /\ UNCHANGED <<atStart, section, doc, handed, erased>>

\* HardDelete, whose foreign keys take everything.
EraseAccount ==
    /\ ~erased /\ erased' = TRUE /\ Delete(holdings)
    /\ UNCHANGED <<atStart, section, doc, handed>>

StartExport ==
    /\ section = 0 /\ section' = 1 /\ atStart' = holdings
    /\ UNCHANGED <<holdings, gone, doc, handed, erased>>

\* The error is returned: nothing is sent but a 500.
OnQueryError == section' = section /\ handed' = "failed"

\* queryRows for one section.
ReadSection ==
    /\ section # 0 /\ section <= Sections /\ handed = "none"
    /\ \/ /\ doc' = doc \cup {r \in holdings : r[1] = section} /\ section' = section + 1
          /\ handed' = (IF section = Sections THEN "whole" ELSE "none")
       \/ OnQueryError /\ UNCHANGED doc
    /\ UNCHANGED <<holdings, atStart, gone, erased>>

ExportNext ==
    \/ \E r \in (1 .. Sections) \X Roots : MakeRow(r) \/ DeleteRow(r)
    \/ EraseAccount \/ StartExport \/ ReadSection

ExportSpec == ExportInit /\ [][ExportNext]_exportVars

-----------------------------------------------------------------------------
ExportTypeOK ==
    /\ {holdings, atStart, gone, doc} \subseteq SUBSET ((1 .. Sections) \X Roots)
    /\ section \in 0 .. Sections + 1 /\ handed \in {"none", "failed", "whole"} /\ erased \in BOOLEAN

\* What is handed out is whole: it has every row that was there when the export began, but
\* those deleted before their section was read; and a row in it without its parent is one
\* that was made in the meantime, after its parent's section was read.
ExportCovers ==
    handed = "whole" =>
        /\ atStart \ gone \subseteq doc
        /\ \A r \in doc : Hangs(r, doc) \/ (Parent(r) \notin atStart /\ r \notin atStart)

\* An export that is sent covers what the account held when it began and holds still
\* (Exporter.Export).
ExportSafe == ExportTypeOK /\ ExportCovers

=============================================================================
