----------------------------- MODULE MCDedupJob -----------------------------
(***************************************************************************)
(* An instance of DedupJob for TLC, and a claim of the documents.          *)
(***************************************************************************)
EXTENDS DedupJob, TLC

CONSTANTS r1, r2, r3

\* Three places in a row 40 m apart: neighbours are within 50 m of each
\* other, the two ends are not.
Row == {1, 2, 3}
RowNear == {pq \in Row \X Row : pq[1] <= pq[2] + 1 /\ pq[2] <= pq[1] + 1}

\* Ids and addresses are interchangeable, so that for reports at one place
\* these two ways to give them addresses stand for all eight.
SameSender == r1 :> "a" @@ r2 :> "a" @@ r3 :> "a"
TwoSenders == r1 :> "a" @@ r2 :> "a" @@ r3 :> "b"
OnePlace == [r \in Report |-> 2]
InARow == r1 :> 1 @@ r2 :> 2 @@ r3 :> 3

\* Three reports at one place, or each at a place of its own.
SceneInit ==
    /\ Init
    /\ \/ place = OnePlace /\ ip \in {SameSender, TwoSenders}
       \/ place = InARow /\ ip = TwoSenders

SceneSpec == SceneInit /\ [][Next]_vars /\ WF_vars(JobNext)

(***************************************************************************)
(* What the documentation says of the job and the code does not do.        *)
(***************************************************************************)
\* .planning/phases/02-anti-abuse-and-data-quality/02-02-PLAN.md:28: the job
\* "sets duplicate_of_id on the newer report pointing at the older original".
\* Nothing asks that the match be the older of the two.
NewerPointsToOlder ==
    \A r \in live : dupOf[r] # None => created[dupOf[r]] < created[r]

=============================================================================
