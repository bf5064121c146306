---------------------------- MODULE MCAdminQueue ----------------------------
(***************************************************************************)
(* Instances of AdminQueue for TLC, and a claim of the documents.          *)
(***************************************************************************)
EXTENDS AdminQueue

\* .planning/phases/01-ward-foundation/01-04-PLAN.md:18: "'No reports found'
\* never appears when reports exist in the DB".  With nobody else at work,
\* the words appear on a page that the last deletion or status change
\* emptied, while the count beside the heading says that there are reports;
\* the pager, which would lead back, is not shown.
NothingFoundMeansNothing == View = "empty" => total = 0

=============================================================================
