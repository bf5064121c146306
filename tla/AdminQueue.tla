----------------------------- MODULE AdminQueue -----------------------------
(***************************************************************************)
(* The queue of the admin portal (frontend/app/admin/reports/page.tsx, its *)
(* ReportsTable and the calls of adminApi.ts) in front of the handlers it  *)
(* calls.  Every call is asynchronous: while one is under way the admin    *)
(* goes on clicking, other admins and citizens change the table, and       *)
(* answers arrive in any order, or not at all.                             *)
(*                                                                         *)
(* A report is its position in time (a larger one is newer).  rev counts   *)
(* the changes of the table: it dates what an answer was read from.        *)
(***************************************************************************)
EXTENDS Naturals, FiniteSets

CONSTANTS Report,      \* the reports there may be, naturals: later is larger
          Status,      \* the statuses of a report
          PageSize,    \* limit: 20 in the code
          None,        \* no report, or a part of an answer not yet there
          MaxClicks,   \* bound: what this admin does
          MaxOthers    \* bound: changes by others

ASSUME QueueAssumption ==
    /\ Report \subseteq Nat /\ IsFiniteSet(Report)
    /\ PageSize \in Nat \ {0} /\ MaxClicks \in Nat /\ MaxOthers \in Nat
    /\ None \notin Report
    /\ "open" \in Status
    /\ {"none", "deleted"} \cap Status = {}

VARIABLES
    status,    \* reports.status; "none" before the report, "deleted" after it
    rev,       \* how often the table has changed
    others,    \* changes made by others
    user,      \* the role of the admin's account
    role,      \* the role the page believes in
    filter,    \* the statuses that ?status= of the page's address lets through
    rows,      \* reports: a function from the listed reports to their status
    total,     \* totalCount
    pages,     \* totalPages
    page,
    loading,   \* isLoading
    failed,    \* fetchError
    fetches,   \* GET /api/admin/reports under way
    deletes,   \* DELETEs under way
    update,    \* the PATCH of the dialog, or the list request that follows it
    modal,     \* changingStatusId
    error,     \* the report statusUpdateError is about
    issued,    \* number of the last list request
    applied,   \* number of the list request whose answer is shown
    seen,      \* rev of the list that is shown
    confirmed, \* rev of the last change of its own the page knows was made
    outcome,   \* how the last list request ended
    clicks

server  == <<status, rev, others, user>>
list    == <<rows, total, pages, page, loading, failed>>
history == <<issued, applied, seen, outcome>>
dialog  == <<update, modal, error>>
fixed   == <<user, filter>>
vars == <<server, role, filter, list, fetches, deletes, dialog, history,
          confirmed, clicks>>

NoRows == [r \in {} |-> "open"]
Idle == [at |-> "idle", r |-> None, n |-> 0, rev |-> 0]

RowSets == UNION {[S -> Status] : S \in SUBSET Report}
Fetch == [n : Nat, page : Nat \ {0}, rows : RowSets \cup {None}, rev : Nat,
          total : Nat \cup {None}]
Delete == [n : Nat, r : Report, at : {"sent", "done", "refused"}, rev : Nat]
Update == [at : {"idle", "sent", "done", "refused", "refetch"},
           r : Report \cup {None}, n : Nat, rev : Nat]

live == {r \in Report : status[r] \in Status}
listed == {r \in live : status[r] \in filter}

Larger(m, n) == IF m < n THEN n ELSE m

\* list_admin_reports: the newest first, LIMIT and OFFSET.
PageRows(pg) ==
    LET Rank(r) == Cardinality({s \in listed : r <= s})
    IN  [r \in {q \in listed : /\ (pg - 1) * PageSize < Rank(q)
                               /\ Rank(q) <= pg * PageSize} |-> status[r]]

PagesOfPlain(count) == (count + PageSize - 1) \div PageSize

\* total_pages of admin_list_reports.
PagesOf(count) == Larger(1, (count + PageSize - 1) \div PageSize)

\* What the page shows: the error card before all else, then the skeleton,
\* then the table or the words that there is nothing.
View == CASE failed -> "error"
          [] ~failed /\ loading -> "loading"
          [] ~failed /\ ~loading /\ rows = NoRows -> "empty"
          [] OTHER -> "table"

Init ==
    /\ status \in [Report -> {"none", "open"}]
    /\ rev = 0
    /\ others = 0
    /\ user \in {"admin", "reviewer"}
    /\ role = "admin"
    /\ filter \in {Status, {"open"}}
    /\ rows = NoRows
    /\ total = 0
    /\ pages = 1
    /\ page = 1
    /\ loading = TRUE
    /\ failed = FALSE
    /\ fetches = {[n |-> 1, page |-> 1, rows |-> None, rev |-> 0, total |-> None]}
    /\ deletes = {}
    /\ update = Idle
    /\ modal = None
    /\ error = None
    /\ issued = 1
    /\ applied = 0
    /\ seen = 0
    /\ confirmed = 0
    /\ outcome = "none"
    /\ clicks = 0

(***************************************************************************)
(* fetchReports.                                                           *)
(***************************************************************************)
\* Up to its await.
FetchReports(pg) ==
    /\ issued' = issued + 1
    /\ fetches' = fetches \cup {[n |-> issued + 1, page |-> pg, rows |-> None,
                                 rev |-> 0, total |-> None]}
    /\ loading' = TRUE
    /\ failed' = FALSE
    /\ UNCHANGED <<rows, total, pages, page, applied, seen, outcome>>

\* The two queries of admin_list_reports run side by side.
List(f) ==
    /\ f.rows = None
    /\ fetches' = (fetches \ {f}) \cup {[f EXCEPT !.rows = PageRows(f.page),
                                                  !.rev = rev]}
    /\ UNCHANGED <<server, role, filter, list, deletes, dialog, history,
                   confirmed, clicks>>

Count(f) ==
    /\ f.total = None
    /\ fetches' = (fetches \ {f}) \cup {[f EXCEPT !.total = Cardinality(listed)]}
    /\ UNCHANGED <<server, role, filter, list, deletes, dialog, history,
                   confirmed, clicks>>

EndOfNothing(f) == update

\* A status change is busy until the list request it started has ended.
EndOf(f) == IF update.at = "refetch" /\ update.n = f.n THEN Idle ELSE update

\* The answer is shown, whatever else is under way.
Loaded(f) ==
    /\ f.rows # None /\ f.total # None
    /\ fetches' = fetches \ {f}
    /\ rows' = f.rows
    /\ total' = f.total
    /\ pages' = PagesOf(f.total)
    /\ page' = f.page
    /\ loading' = FALSE
    /\ applied' = f.n
    /\ seen' = f.rev
    /\ outcome' = IF f.rows = NoRows THEN "empty" ELSE "rows"
    /\ update' = EndOf(f)
    /\ UNCHANGED <<server, role, filter, failed, deletes, modal, error, issued,
                   confirmed, clicks>>

NotLoadedUnmarked(f) ==
    /\ fetches' = fetches \ {f}
    /\ rows' = NoRows
    /\ loading' = FALSE
    /\ outcome' = "failed"
    /\ update' = EndOf(f)
    /\ UNCHANGED <<server, role, filter, total, pages, page, failed, deletes,
                   modal, error, issued, applied, seen, confirmed, clicks>>

NotLoadedLoading(f) ==
    /\ fetches' = fetches \ {f}
    /\ rows' = NoRows
    /\ failed' = TRUE
    /\ outcome' = "failed"
    /\ update' = EndOf(f)
    /\ UNCHANGED <<server, role, filter, total, pages, page, loading, deletes,
                   modal, error, issued, applied, seen, confirmed, clicks>>

\* The request, the server or the way back fails: the catch, then finally.
NotLoaded(f) ==
    /\ fetches' = fetches \ {f}
    /\ rows' = NoRows
    /\ failed' = TRUE
    /\ loading' = FALSE
    /\ outcome' = "failed"
    /\ update' = EndOf(f)
    /\ UNCHANGED <<server, role, filter, total, pages, page, deletes, modal,
                   error, issued, applied, seen, confirmed, clicks>>

(***************************************************************************)
(* The admin.  The dialog covers the page.                                 *)
(***************************************************************************)
Click == clicks < MaxClicks /\ modal = None /\ clicks' = clicks + 1

\* Prev and Next, which the table shows only beside rows and when there is
\* more than one page.
TurnPage ==
    /\ Click
    /\ View = "table" /\ pages > 1
    /\ \/ page > 1 /\ FetchReports(page - 1)
       \/ page < pages /\ FetchReports(page + 1)
    /\ UNCHANGED <<server, role, filter, deletes, dialog, confirmed>>

TryAgain ==
    /\ Click
    /\ View = "error"
    /\ FetchReports(page)
    /\ UNCHANGED <<server, role, filter, deletes, dialog, confirmed>>

\* A row offers Delete to an admin; nothing keeps it from being clicked while
\* another call is under way.
HandleDelete(r) ==
    /\ Click
    /\ View = "table" /\ r \in DOMAIN rows /\ role = "admin"
    /\ deletes' = deletes \cup {[n |-> clicks', r |-> r, at |-> "sent", rev |-> 0]}
    /\ UNCHANGED <<server, role, filter, list, fetches, dialog, history, confirmed>>

\* Change Status opens the dialog, with the status the row shows selected.
HandleUpdateStatus(r) ==
    /\ Click
    /\ View = "table" /\ r \in DOMAIN rows
    /\ modal' = r
    /\ error' = None
    /\ UNCHANGED <<server, role, filter, list, fetches, deletes, update,
                   history, confirmed>>

\* Confirm with any status of the select; the PATCH carries it.
ConfirmStatusUpdate ==
    /\ modal # None /\ update.at = "idle"
    /\ clicks < MaxClicks /\ clicks' = clicks + 1
    /\ update' = [at |-> "sent", r |-> modal, n |-> 0, rev |-> 0]
    /\ error' = None
    /\ UNCHANGED <<server, role, filter, list, fetches, deletes, modal,
                   history, confirmed>>

CancelAnytime ==
    /\ modal # None
    /\ modal' = None
    /\ UNCHANGED <<server, role, filter, list, fetches, deletes, update, error,
                   history, confirmed, clicks>>

Cancel ==
    /\ modal # None /\ update.at = "idle"
    /\ modal' = None
    /\ UNCHANGED <<server, role, filter, list, fetches, deletes, update, error,
                   history, confirmed, clicks>>

\* getMe answers; until then, and if it never does, the page believes in an
\* admin.
LearnRole ==
    /\ role # user
    /\ role' = user
    /\ UNCHANGED <<server, filter, list, fetches, deletes, dialog, history,
                   confirmed, clicks>>

(***************************************************************************)
(* The calls that change a report.                                         *)
(***************************************************************************)
Change(r, s) ==
    /\ status' = [status EXCEPT ![r] = s]
    /\ rev' = rev + 1

ServeDeleteToAll(d) ==
    /\ d.at = "sent"
    /\ IF d.r \in live
       THEN /\ Change(d.r, "deleted")
            /\ deletes' = (deletes \ {d}) \cup {[d EXCEPT !.at = "done", !.rev = rev']}
       ELSE /\ UNCHANGED <<status, rev>>
            /\ deletes' = (deletes \ {d}) \cup {[d EXCEPT !.at = "refused"]}
    /\ UNCHANGED <<others, user, role, filter, list, fetches, dialog, history,
                   confirmed, clicks>>

\* admin_delete_report: 403 for a reviewer, 404 for a report that is gone.
ServeDelete(d) ==
    /\ d.at = "sent"
    /\ IF user = "admin" /\ d.r \in live
       THEN /\ Change(d.r, "deleted")
            /\ deletes' = (deletes \ {d}) \cup {[d EXCEPT !.at = "done", !.rev = rev']}
       ELSE /\ UNCHANGED <<status, rev>>
            /\ deletes' = (deletes \ {d}) \cup {[d EXCEPT !.at = "refused"]}
    /\ UNCHANGED <<others, user, role, filter, list, fetches, dialog, history,
                   confirmed, clicks>>

DeletedWithoutRefetch(d) ==
    /\ d.at = "done"
    /\ deletes' = deletes \ {d}
    /\ confirmed' = Larger(confirmed, d.rev)
    /\ UNCHANGED <<server, role, filter, list, fetches, dialog, history, clicks>>

\* handleDelete goes on: the list is fetched again, the page it is on now.
Deleted(d) ==
    /\ d.at = "done"
    /\ deletes' = deletes \ {d}
    /\ FetchReports(page)
    /\ confirmed' = Larger(confirmed, d.rev)
    /\ UNCHANGED <<server, role, filter, dialog, clicks>>

\* An error answer, or none: the catch of handleDelete says nothing.
NotDeleted(d) ==
    /\ deletes' = deletes \ {d}
    /\ UNCHANGED <<server, role, filter, list, fetches, dialog, history,
                   confirmed, clicks>>

\* admin_update_report_status: any status, from any status.
ServeUpdate ==
    /\ update.at = "sent"
    /\ IF update.r \in live
       THEN \E s \in Status :
               /\ Change(update.r, s)
               /\ update' = [update EXCEPT !.at = "done", !.rev = rev']
       ELSE /\ UNCHANGED <<status, rev>>
            /\ update' = [update EXCEPT !.at = "refused"]
    /\ UNCHANGED <<others, user, role, filter, list, fetches, deletes, modal,
                   error, history, confirmed, clicks>>

\* confirmStatusUpdate goes on: the dialog closes, the list is fetched.
Updated ==
    /\ update.at = "done"
    /\ modal' = None
    /\ FetchReports(page)
    /\ update' = [update EXCEPT !.at = "refetch", !.n = issued']
    /\ confirmed' = Larger(confirmed, update.rev)
    /\ UNCHANGED <<server, role, filter, deletes, error, clicks>>

\* An error answer, or none: the dialog stays, with the error.
NotUpdated ==
    /\ update.at \in {"sent", "done", "refused"}
    /\ update' = Idle
    /\ error' = update.r
    /\ UNCHANGED <<server, role, filter, list, fetches, deletes, modal, history,
                   confirmed, clicks>>

\* A citizen submits a report; another admin changes or deletes one.
Others(r) ==
    /\ others < MaxOthers /\ others' = others + 1
    /\ \/ status[r] = "none" /\ Change(r, "open")
       \/ r \in live /\ \E s \in Status \cup {"deleted"} : Change(r, s)
    /\ UNCHANGED <<user, role, filter, list, fetches, deletes, dialog, history,
                   confirmed, clicks>>

Settle(f) == Loaded(f) \/ NotLoaded(f)

Next ==
    \/ \E f \in fetches : List(f) \/ Count(f) \/ Settle(f)
    \/ \E d \in deletes : ServeDelete(d) \/ Deleted(d) \/ NotDeleted(d)
    \/ ServeUpdate \/ Updated \/ NotUpdated
    \/ TurnPage \/ TryAgain \/ ConfirmStatusUpdate \/ Cancel \/ LearnRole
    \/ \E r \in Report : HandleDelete(r) \/ HandleUpdateStatus(r) \/ Others(r)

Spec == Init /\ [][Next]_vars

\* The browser settles every fetch: with an answer, or with a rejection.
Fairness ==
    /\ WF_vars(\E f \in fetches : Settle(f))
    /\ WF_vars(Updated \/ NotUpdated)
    /\ WF_vars(\E d \in deletes : Deleted(d) \/ NotDeleted(d))

FairSpec == Spec /\ Fairness

(***************************************************************************)
(* Properties.                                                             *)
(***************************************************************************)
TypeOK ==
    /\ status \in [Report -> Status \cup {"none", "deleted"}]
    /\ rev \in Nat /\ others \in Nat
    /\ user \in {"admin", "reviewer"} /\ role \in {"admin", "reviewer"}
    /\ filter \in SUBSET Status
    /\ rows \in RowSets /\ total \in Nat /\ pages \in Nat \ {0} /\ page \in Nat \ {0}
    /\ loading \in BOOLEAN /\ failed \in BOOLEAN
    /\ fetches \subseteq Fetch /\ deletes \subseteq Delete /\ update \in Update
    /\ modal \in Report \cup {None} /\ error \in Report \cup {None}
    /\ issued \in Nat /\ applied \in Nat /\ seen \in Nat /\ confirmed \in Nat
    /\ outcome \in {"none", "empty", "rows", "failed"}
    /\ clicks \in Nat

\* The skeleton stands for a request that is under way: however requests
\* overlap, the page is never left loading with nothing to wait for.
SpinnerHasFetch == loading => fetches # {}

\* "No reports found" is what the server last answered; a failed request,
\* which empties the list as well, is shown as an error, also when an older
\* request ends after it or a newer one has begun.
EmptyIsAnswered == View = "empty" => outcome = "empty"

\* When the list is the answer to the newest request, it was read after
\* every change of its own that the page was told of: a deleted report, or a
\* status as it was, can come back only with an older answer that was
\* overtaken.  Refetching after the change, and not beside it, makes this so.
ConfirmedIsShown == applied = issued => seen >= confirmed

\* While its PATCH is unanswered the dialog stays open on its report; the
\* error it shows is of the report it is open for.
DialogOfUpdate ==
    /\ update.at \in {"sent", "done", "refused"} => modal # None /\ modal = update.r
    /\ modal # None /\ error # None => modal = error

\* A reviewer, to whom the page offers Delete until it has learnt the role,
\* deletes nothing.
DeleteNeedsAdmin == \A d \in deletes : d.at = "done" => user = "admin"

\* How the last list request ended agrees with what is shown, or is being
\* replaced.
OutcomeShown ==
    /\ outcome = "failed" => failed \/ loading
    /\ outcome = "rows" => rows # NoRows
    /\ outcome = "none" => loading

\* The newest request is read, at the earliest, after what is confirmed.
Dated ==
    /\ applied <= issued
    /\ confirmed <= rev /\ update.rev <= rev
    /\ \A d \in deletes : d.rev <= rev
    /\ \A f \in fetches : /\ f.n <= issued
                          /\ f.n = issued /\ f.rows # None => f.rev >= confirmed
    /\ ConfirmedIsShown

\* The inductive invariant.
IInv == /\ TypeOK /\ SpinnerHasFetch /\ OutcomeShown
        /\ Dated /\ DialogOfUpdate /\ DeleteNeedsAdmin

\* However the calls overlap, the table comes back: every request is
\* settled, and the list is shown or the error with its button is.
ListReturns == loading ~> ~loading

\* Confirm and Cancel come back: the dialog is not left disabled.
DialogReturns == update.at # "idle" ~> update.at = "idle"

=============================================================================
