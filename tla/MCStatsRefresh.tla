--------------------------- MODULE MCStatsRefresh ---------------------------
(***************************************************************************)
(* Instances of StatsRefresh for TLC, and a claim of the documents.        *)
(***************************************************************************)
EXTENDS StatsRefresh, TLC

\* Ids and transactions are interchangeable.
Names == Permutations(Report) \cup Permutations(Txn)

(***************************************************************************)
(* What a migration says of the view and the trigger does not do.          *)
(***************************************************************************)
\* backend/migrations/013_fix_delete_trigger.sql:8: the trigger is there "so
\* that all three DML operations keep the materialized view consistent".
\* Of two transactions at a time the second refreshes without the first.
StatsConsistent == active = {} => counted = Seen(rows)

=============================================================================
