---------------------------- MODULE ReportsTable ----------------------------
(***************************************************************************)
(* What the table of the queue keeps to itself                             *)
(* (frontend/app/admin/components/ReportsTable.tsx): its view, the chips   *)
(* and the search that narrow one page of the list, and the duplicates     *)
(* under a row, fetched when the row is opened for the first time and kept *)
(* as long as the table is mounted.  The page hands it the rows: while     *)
(* they are fetched again the table stays mounted behind a skeleton, and   *)
(* when that fails the error card takes its place and its state is lost.   *)
(***************************************************************************)
EXTENDS Naturals, FiniteSets

CONSTANTS Report,
          NoReport,    \* SQL NULL
          High,        \* the reports of high severity
          Pages,       \* the sets of reports that a page of the list may hold
          Queries,     \* the searches, each the set of reports it matches
          MaxClicks,   \* bound: clicks on the table
          MaxOthers    \* bound: changes by the job and by other admins

ASSUME TableAssumption ==
    /\ IsFiniteSet(Report) /\ NoReport \notin Report /\ High \subseteq Report
    /\ Pages \subseteq SUBSET Report /\ Queries \subseteq SUBSET Report
    /\ MaxClicks \in Nat /\ MaxOthers \in Nat

VARIABLES
    status,      \* reports.status, "deleted" when the row is gone
    origin,      \* reports.duplicate_of_id
    dupCount,    \* reports.duplicate_count, which no deletion takes back
    others,      \* changes made by others
    rows,        \* the prop reports: what was read of each row of the page
    loading,     \* the prop isLoading
    mounted,     \* the table, and not the page's error card, is on the page
    wide,        \* the window matches (min-width: 1024px)
    view,        \* viewMode
    filters,     \* activeFilters
    query,       \* searchQuery, as the reports it matches
    expanded,    \* the reports for which expandedRows is true
    duplicates,  \* duplicateRows: a function from the reports it has
    fetches,     \* getDuplicatesForReport under way
    linked,      \* history: every <<duplicate, original>> since the table mounted
    clicks

server == <<status, origin, dupCount, others>>
props  == <<rows, loading, mounted>>
filter == <<filters, query>>
groups == <<expanded, duplicates, fetches>>
vars == <<server, props, wide, view, filter, groups, linked, clicks>>

Status == {"open", "acknowledged", "resolved"}
Chip == {"all", "open", "acknowledged", "sev_high"}
ViewMode == {"card-stream", "compact-rows", "table"}
Row == [status : Status, count : Nat]
Fetch == [n : Nat, r : Report, step : {"sent", "done"}, dupes : SUBSET Report]

live == {r \in Report : status[r] # "deleted"}
links == {p \in Report \X Report : origin[p[1]] = p[2]}
Duplicates(o) == {d \in Report : origin[d] = o}

Rows(S) == [r \in S \cap live |-> [status |-> status[r], count |-> dupCount[r]]]

NoRows == [r \in {} |-> [status |-> "open", count |-> 0]]
NoGroups == [r \in {} |-> {}]

InitialView == IF wide THEN "table" ELSE "card-stream"

Init ==
    /\ status = [r \in Report |-> "open"]
    /\ origin \in [Report -> Report \cup {NoReport}]
    /\ \A r \in Report : origin[r] # NoReport => origin[r] # r /\ origin[origin[r]] = NoReport
    /\ dupCount = [r \in Report |-> Cardinality(Duplicates(r))]
    /\ others = 0
    /\ rows = NoRows /\ loading = TRUE /\ mounted = TRUE
    /\ wide \in BOOLEAN
    /\ view = InitialView
    /\ filters = {"all"}
    /\ query = Report
    /\ expanded = {}
    /\ duplicates = NoGroups
    /\ fetches = {}
    /\ linked = links
    /\ clicks = 0

-----------------------------------------------------------------------------
(* What is on the screen.                                                  *)

\* The chips for a status are alternatives, the chip for the severity comes
\* on top of them, the search on top of all.
PassesStatus(r) == \/ filters \cap {"open", "acknowledged"} = {}
                   \/ rows[r].status \in filters
PassesSeverity(r) == "sev_high" \in filters => r \in High
Filtered == {r \in DOMAIN rows \cap query :
                "all" \in filters \/ (PassesStatus(r) /\ PassesSeverity(r))}

\* The skeleton, or the words that there is nothing, stand in place of
\* everything, the chips included.
ShowsRows == mounted /\ ~loading /\ rows # NoRows

ExpandButton(r) == rows[r].count > 0

\* What stands under a row.
Group(r) == CASE r \notin expanded -> "closed"
              [] r \in expanded \ DOMAIN duplicates -> "loading"
              [] r \in expanded \cap DOMAIN duplicates ->
                    IF duplicates[r] = {} THEN "none loaded" ELSE "rows"

\* The three ways to draw a row: all have a link to the report and the same
\* buttons, and among the compact rows a click anywhere else opens it too.
CardStreamRow(r) == [expand |-> ExpandButton(r), opens |-> {"link"}, group |-> Group(r)]
CompactRow(r) == [expand |-> ExpandButton(r), opens |-> {"link", "row"}, group |-> Group(r)]
TableRow(r) == [expand |-> ExpandButton(r), opens |-> {"link"}, group |-> Group(r)]

RowShown(r) == CASE view = "card-stream" -> CardStreamRow(r)
                 [] view = "compact-rows" -> CompactRow(r)
                 [] view = "table" -> TableRow(r)

-----------------------------------------------------------------------------
(* The page and its rows.                                                  *)

\* The table's state goes, and what its fetches bring goes nowhere.
UnmountKeepingCalls ==
    /\ view' = InitialView
    /\ filters' = {"all"} /\ query' = Report
    /\ expanded' = {} /\ duplicates' = NoGroups
    /\ UNCHANGED fetches

Unmount ==
    /\ view' = InitialView
    /\ filters' = {"all"} /\ query' = Report
    /\ expanded' = {} /\ duplicates' = NoGroups
    /\ fetches' = {}

\* The page fetches its list, whatever for: another page, a status, a deletion.
Refetch ==
    /\ mounted /\ ~loading
    /\ loading' = TRUE
    /\ UNCHANGED <<server, rows, mounted, wide, view, filter, groups, linked, clicks>>

\* Requests of the page overlap (see AdminQueue): an answer may also come when an
\* earlier one has already ended the skeleton.
RowsLoaded(S) ==
    /\ mounted
    /\ rows' = Rows(S)
    /\ loading' = FALSE
    /\ UNCHANGED <<server, mounted, wide, view, filter, groups, linked, clicks>>

\* The error card takes the place of the table.
NotLoaded ==
    /\ mounted
    /\ rows' = NoRows /\ loading' = FALSE /\ mounted' = FALSE
    /\ Unmount
    /\ UNCHANGED <<server, wide, linked, clicks>>

\* Try again, or the way back from a report: a table anew, behind a skeleton.
Mount ==
    /\ ~mounted
    /\ mounted' = TRUE /\ loading' = TRUE
    /\ linked' = links
    /\ UNCHANGED <<server, rows, wide, view, filter, groups, clicks>>

\* The window crosses 1024 pixels.
Resize ==
    /\ wide' = ~wide
    /\ view' = IF wide' THEN "table" ELSE "card-stream"
    /\ UNCHANGED <<server, props, filter, groups, linked, clicks>>

-----------------------------------------------------------------------------
(* The admin.                                                              *)

Click == ShowsRows /\ clicks < MaxClicks /\ clicks' = clicks + 1

\* The last chip put out lights ALL again.
ToggleFilter(key) ==
    /\ Click
    /\ filters' = IF key = "all" THEN {"all"}
                  ELSE IF key \notin filters THEN (filters \ {"all"}) \cup {key}
                  ELSE IF filters = {key} THEN {"all"}
                  ELSE filters \ {key}
    /\ UNCHANGED <<server, props, wide, view, query, groups, linked>>

Search(q) ==
    /\ Click
    /\ query' = q
    /\ UNCHANGED <<server, props, wide, view, filters, groups, linked>>

\* CARDS and ROWS, offered beside neither the table nor the skeleton.
SetViewMode(mode) ==
    /\ Click
    /\ view # "table"
    /\ view' = mode
    /\ UNCHANGED <<server, props, wide, filter, groups, linked>>

\* toggleExpand: opening fetches when nothing is kept yet, also when the
\* answer to an earlier opening is still to come.
ToggleExpand(r) ==
    /\ Click
    /\ r \in Filtered /\ RowShown(r).expand
    /\ expanded' = IF r \in expanded THEN expanded \ {r} ELSE expanded \cup {r}
    /\ fetches' = IF r \in expanded \cup DOMAIN duplicates THEN fetches
                ELSE fetches \cup {[n |-> clicks', r |-> r, step |-> "sent", dupes |-> {}]}
    /\ UNCHANGED <<server, props, wide, view, filter, duplicates, linked>>

\* A full page load, from a link or from a compact row.
OpenReport(r) ==
    /\ Click
    /\ r \in Filtered /\ RowShown(r).opens # {}
    /\ rows' = NoRows /\ loading' = FALSE /\ mounted' = FALSE
    /\ Unmount
    /\ UNCHANGED <<server, wide, linked>>

-----------------------------------------------------------------------------
(* GET /api/admin/reports?duplicate_of_id=                                 *)

\* get_duplicate_reports_for_original.
Serve(c) ==
    /\ c.step = "sent"
    /\ fetches' = (fetches \ {c}) \cup {[c EXCEPT !.step = "done",
                                              !.dupes = Duplicates(c.r)]}
    /\ UNCHANGED <<server, props, wide, view, filter, expanded, duplicates, linked, clicks>>

Keep(r, dupes) ==
    duplicates' = [q \in DOMAIN duplicates \cup {r} |->
                      IF q = r THEN dupes ELSE duplicates[q]]

Answered(c) ==
    /\ c.step = "done"
    /\ fetches' = fetches \ {c}
    /\ Keep(c.r, c.dupes)
    /\ UNCHANGED <<server, props, wide, view, filter, expanded, linked, clicks>>

NotAnsweredUnkept(c) ==
    /\ fetches' = fetches \ {c}
    /\ UNCHANGED <<server, props, wide, view, filter, expanded, duplicates, linked, clicks>>

\* An error is kept as an answer without duplicates, over one that was there.
NotAnswered(c) ==
    /\ fetches' = fetches \ {c}
    /\ Keep(c.r, {})
    /\ UNCHANGED <<server, props, wide, view, filter, expanded, linked, clicks>>

-----------------------------------------------------------------------------
(* Others.                                                                 *)

Change == others < MaxOthers /\ others' = others + 1
Aside == <<props, wide, view, filter, groups, clicks>>

\* The job links a report to an original and counts it, also when the report was
\* deleted before its link was written.
Link(d, o) ==
    /\ Change
    /\ d # o /\ o \in live /\ origin[o] = NoReport
    /\ origin[d] = NoReport /\ Duplicates(d) = {}
    /\ dupCount' = [dupCount EXCEPT ![o] = @ + 1]
    /\ IF d \in live
       THEN origin' = [origin EXCEPT ![d] = o] /\ linked' = linked \cup {<<d, o>>}
       ELSE UNCHANGED <<origin, linked>>
    /\ UNCHANGED <<status, Aside>>

\* ON DELETE SET NULL for its duplicates; an original keeps its count.
DeleteReport(r) ==
    /\ Change
    /\ r \in live
    /\ status' = [status EXCEPT ![r] = "deleted"]
    /\ origin' = [q \in Report |-> IF q = r \/ origin[q] = r THEN NoReport ELSE origin[q]]
    /\ UNCHANGED <<dupCount, linked, Aside>>

SetStatus(r, s) ==
    /\ Change
    /\ r \in live
    /\ status' = [status EXCEPT ![r] = s]
    /\ UNCHANGED <<origin, dupCount, linked, Aside>>

Settle(c) == Answered(c) \/ NotAnswered(c)

Next ==
    \/ Refetch \/ (\E S \in Pages : RowsLoaded(S)) \/ NotLoaded \/ Mount \/ Resize
    \/ \E key \in Chip : ToggleFilter(key)
    \/ \E q \in Queries : Search(q)
    \/ \E mode \in {"card-stream", "compact-rows"} : SetViewMode(mode)
    \/ \E r \in Report : \/ ToggleExpand(r) \/ OpenReport(r) \/ DeleteReport(r)
                         \/ \E o \in Report : Link(r, o)
                         \/ \E s \in Status : SetStatus(r, s)
    \/ \E c \in fetches : Serve(c) \/ Settle(c)

Spec == Init /\ [][Next]_vars

\* The browser settles every fetch: with an answer, or with a rejection.
FairSpec == Spec /\ WF_vars(\E c \in fetches : Settle(c))

(***************************************************************************)
(* Properties.                                                             *)
(***************************************************************************)
TypeOK ==
    /\ status \in [Report -> Status \cup {"deleted"}]
    /\ origin \in [Report -> Report \cup {NoReport}]
    /\ dupCount \in [Report -> Nat]
    /\ others \in Nat
    /\ \E S \in SUBSET Report : rows \in [S -> Row]
    /\ loading \in BOOLEAN /\ mounted \in BOOLEAN /\ wide \in BOOLEAN
    /\ view \in ViewMode
    /\ filters \subseteq Chip /\ query \subseteq Report
    /\ expanded \subseteq Report
    /\ \E S \in SUBSET Report : duplicates \in [S -> SUBSET Report]
    /\ fetches \subseteq Fetch
    /\ linked \subseteq Report \X Report
    /\ clicks \in Nat

\* "Loading..." under a row stands for a call of this table that is under
\* way, through collapsing, opening again, turning pages and remounting.
LoadingHasCall ==
    \A r \in expanded \ DOMAIN duplicates : \E c \in fetches : c.r = r

\* The reports under a row have been duplicates of it since the table was
\* mounted: no answer ends up under another row, and the answers to a table
\* that an error has replaced do not reach the one that follows it.
GroupsWereLinked ==
    \A r \in DOMAIN duplicates : \A d \in duplicates[r] : <<d, r>> \in linked

\* Some chip is always lit, and ALL only by itself, so that the chips never
\* say less than what hides rows.
ChipsTell == filters # {} /\ ("all" \in filters => filters = {"all"})

\* A narrow window is never left with the table, nor a wide one without it,
\* although the choice of cards or rows is kept beside the width.
ViewFits == view = "table" <=> wide

\* What holds the groups together: a call carries no more than was linked,
\* the history misses no link, and an unmounted table has nothing.
CallsWereLinked ==
    /\ links \subseteq linked
    /\ \A c \in fetches : \A d \in c.dupes : <<d, c.r>> \in linked
Unmounted == ~mounted => expanded = {} /\ DOMAIN duplicates = {} /\ fetches = {}

\* The inductive invariant.
IInv == /\ TypeOK /\ LoadingHasCall /\ GroupsWereLinked /\ CallsWereLinked
        /\ Unmounted /\ ChipsTell /\ ViewFits

\* However a row is opened and closed while answers come and fail, the line
\* "Loading..." under it ends.
LoadingEnds == \A r \in Report :
    r \in expanded \ DOMAIN duplicates ~> r \notin expanded \ DOMAIN duplicates

=============================================================================
