------------------------- MODULE MCReportLifecycle -------------------------
(***************************************************************************)
(* Model-checking definitions for ReportLifecycle, and what the documents  *)
(* of the repository say of a report beyond what the module promises.      *)
(***************************************************************************)
EXTENDS ReportLifecycle, TLC

Both == Permutations(Request) \cup Permutations(Photo)

\* A submission with the photo of a report is answered with a success and
\* leaves no file (02-02-PLAN.md:27).
DuplicateLeavesNothing ==
    \A q, r \in Request :
        (/\ op[q] = "create" /\ pc[q] = "done" /\ phase[q] = "none"
         /\ r \in live /\ photo[r] = photo[q])
            => answer[q] # "error" /\ q \notin files

\* The entry the report page marks as current is the last by changed_at, and it
\* says what the badge says (03-04-PLAN.md:240).
CurrentIsStatus ==
    \A r \in live : \A e \in Timeline(r) : e.current => e.label = StatusBadge(r)

\* The two filters of the history leave "exactly ONE "Open" entry per report"
\* (queries.rs:382).
OneOpenEntry == \A r \in live : Cardinality({e \in Timeline(r) : e.label = "Open"}) <= 1

=============================================================================
