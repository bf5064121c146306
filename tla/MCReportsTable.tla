--------------------------- MODULE MCReportsTable ---------------------------
(***************************************************************************)
(* An instance of ReportsTable for TLC, and a claim that its code refutes. *)
(***************************************************************************)
EXTENDS ReportsTable

CONSTANTS r1, r2, r3

\* The whole list on one page, and a page of it.
PagesOfList == {Report, {r1}}

\* The empty search, and one for the text of one report.
Searches == {Report, {r2}}

\* "Fetch duplicates on first expand only" (ReportsTable.tsx:619).  A group that is
\* closed and opened again before its answer is there is fetched twice.
FirstExpandOnly == \A c, d \in fetches : c.r = d.r => c = d

=============================================================================
