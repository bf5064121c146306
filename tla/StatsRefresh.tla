---------------------------- MODULE StatsRefresh ----------------------------
(***************************************************************************)
(* The trigger that refreshes public_stats_mv after every statement on     *)
(* `reports` (backend/migrations/011 to 013), under the transactions that  *)
(* fire it: INSERT, the status updates, DELETE with its cascade to         *)
(* duplicate_of_id, and the two UPDATEs of link_duplicate.                 *)
(*                                                                         *)
(* A transaction is a process.  What PostgreSQL does for it is external to *)
(* the repository and modelled as it behaves at READ COMMITTED: rows are   *)
(* locked until the end of the transaction, REFRESH takes an exclusive     *)
(* lock on the view, the snapshot of a statement is taken when it starts   *)
(* (before it waits for that lock), and a deadlock is ended by a rollback. *)
(*                                                                         *)
(* Data abstraction: of a report the view sees its existence and the part  *)
(* of its status the view tells apart, the view's contents are the reports *)
(* it counted.  The unique photo_hash, for which an insert may wait before *)
(* it holds anything, and the audit rows, whose foreign key is covered by  *)
(* the lock on the report, are left out.                                   *)
(***************************************************************************)
CONSTANTS
    Report,     \* ids the database may give to a report
    Txn,        \* transactions of the handlers
    Job,        \* the transaction of the deduplication job
    Status,     \* what the view tells apart of a report's status
    Null        \* SQL NULL, and nobody

ASSUME ProcAssumption == Job \notin Txn
ASSUME StatusAssumption == "open" \in Status
                           /\ {"unborn", "gone", "linked"} \cap Status = {}
ASSUME NullAssumption == Null \notin Report \cup Txn \cup {Job}

Proc == Txn \cup {Job}

VARIABLES
    rows,       \* committed: what became of each id
    dupOf,      \* committed: column duplicate_of_id
    counted,    \* committed: the reports public_stats_mv counts
    stage,      \* what each process does next, or waits for
    row,        \* the report its statement is about
    parent,     \* the second report of link_duplicate
    value,      \* what its statement makes of the row
    hit,        \* whether the statement found the row
    locks,      \* row locks: process, report, mode
    viewLock,   \* who holds the lock of public_stats_mv
    snapshot,   \* what the query of its REFRESH sees
    met         \* processes that were not alone since they began

table   == <<rows, dupOf, counted>>
request == <<row, parent, value>>
statsVars == <<table, stage, request, hit, locks, viewLock, snapshot, met>>

Live == {r \in Report : rows[r] \in Status}

active == {p \in Proc : stage[p] # "idle"}

\* The reports counted by the view's query where the rows are as in f.
Seen(f) == {<<r, f[r]>> : r \in {q \in Report : f[q] \in Status}}

\* The rows with what the statement of p did to one of them, if it found it.
Written(p, found) ==
    IF found /\ p # Job THEN [rows EXCEPT ![row[p]] = value[p]] ELSE rows

\* FOR KEY SHARE only keeps a row from being deleted.
Conflict(m, n) == "delete" \in {m, n} \/ (m # "share" /\ n # "share")

\* Who keeps p from locking r.
Holders(p, r, mode) ==
    {l[1] : l \in {k \in locks : k[1] # p /\ k[2] = r /\ Conflict(k[3], mode)}}

\* The rows the ON DELETE SET NULL of p still has to update.
Orphans(p) == {c \in Report : dupOf[c] = row[p] /\ <<p, c, "update">> \notin locks}

Mode(p) == IF value[p] = "gone" THEN "delete" ELSE "update"

\* The processes p is waiting for.
Waits(p) ==
    CASE stage[p] = "row"     -> Holders(p, row[p], Mode(p))
      [] stage[p] = "parent"  -> Holders(p, parent[p], "share")
      [] stage[p] = "cascade" -> UNION {Holders(p, c, "update") : c \in Orphans(p)}
      [] stage[p] = "view"    -> {viewLock} \ {Null}
      [] stage[p] = "count"   -> Holders(p, parent[p], "update")
      [] OTHER             -> {}

StatsInit ==
    /\ rows = [r \in Report |-> "unborn"]
    /\ dupOf = [r \in Report |-> Null]
    /\ counted = {}
    /\ stage = [p \in Proc |-> "idle"]
    /\ row = [p \in Proc |-> Null]
    /\ parent = [p \in Proc |-> Null]
    /\ value = [p \in Proc |-> Null]
    /\ hit = [p \in Proc |-> FALSE]
    /\ locks = {}
    /\ viewLock = Null
    /\ snapshot = [p \in Proc |-> {}]
    /\ met = {}

(***************************************************************************)
(* Statements.                                                             *)
(***************************************************************************)
Begin(p, r, s, v) ==
    /\ stage[p] = "idle"
    /\ stage' = [stage EXCEPT ![p] = "row"]
    /\ row' = [row EXCEPT ![p] = r]
    /\ parent' = [parent EXCEPT ![p] = s]
    /\ value' = [value EXCEPT ![p] = v]
    /\ met' = IF active = {} THEN {} ELSE active \cup {p}
    /\ UNCHANGED <<table, hit, locks, viewLock, snapshot>>

\* insert_report.
Insert(t) ==
    \E r \in Report :
        /\ rows[r] = "unborn"
        /\ \A p \in active : row[p] # r
        /\ Begin(t, r, Null, "open")

\* update_report_status, resolve_report and assign_report_org.
Update(t) ==
    \E r \in Report, v \in Status :
        rows[r] # "unborn" /\ Begin(t, r, Null, v)

\* delete_report.
Delete(t) ==
    \E r \in Report : rows[r] # "unborn" /\ Begin(t, r, Null, "gone")

PairsAnyParent == {cp \in Live \X Live : cp[1] # cp[2] /\ dupOf[cp[1]] = Null}

\* A candidate and its match: neither is a duplicate yet, and no one but
\* the job makes it one.
Pairs == {cp \in Live \X Live : /\ cp[1] # cp[2]
                                /\ dupOf[cp[1]] = Null
                                /\ dupOf[cp[2]] = Null}

\* link_duplicate, for a pair that was live when the job looked.
LinkPair == \E cp \in Pairs : Begin(Job, cp[1], cp[2], "linked")

TriggerNotOnDelete(p, found) ==
    IF Mode(p) = "delete"
    THEN /\ stage' = [stage EXCEPT ![p] = "commit"]
         /\ snapshot' = [snapshot EXCEPT ![p] = counted]
    ELSE /\ stage' = [stage EXCEPT ![p] = "view"]
         /\ snapshot' = [snapshot EXCEPT ![p] = Seen(Written(p, found))]

\* The trigger fires for each statement, also for one that found no row, and
\* the snapshot of its REFRESH is taken before it waits for the view.
Trigger(p, found) ==
    /\ stage' = [stage EXCEPT ![p] = "view"]
    /\ snapshot' = [snapshot EXCEPT ![p] = Seen(Written(p, found))]

\* The statement gets its row, or finds that it is gone.  A deleted row has
\* duplicates to clear, a linked one a foreign key to check.
Write(p) ==
    /\ stage[p] = "row" /\ Waits(p) = {}
    /\ LET found == \/ row[p] \in Live
                    \/ rows[row[p]] = "unborn"
       IN /\ hit' = [hit EXCEPT ![p] = found]
          /\ locks' = IF found THEN locks \cup {<<p, row[p], Mode(p)>>}
                                ELSE locks
          /\ IF found /\ (p = Job \/ Mode(p) = "delete")
             THEN /\ stage' = [stage EXCEPT ![p] = IF p = Job THEN "parent" ELSE "cascade"]
                  /\ UNCHANGED snapshot
             ELSE Trigger(p, found)
    /\ UNCHANGED <<table, request, viewLock, met>>

\* ON DELETE SET NULL, one duplicate after the other.
Cascade(t) ==
    /\ stage[t] = "cascade"
    /\ \/ \E c \in Orphans(t) :
            /\ Holders(t, c, "update") = {}
            /\ locks' = locks \cup {<<t, c, "update">>}
            /\ UNCHANGED <<stage, snapshot>>
       \/ Orphans(t) = {} /\ Trigger(t, TRUE) /\ UNCHANGED locks
    /\ UNCHANGED <<table, request, hit, viewLock, met>>

\* The foreign key of LINK_DUPLICATE_SQL: the parent exists and is kept.
KeepParent ==
    /\ stage[Job] = "parent" /\ Waits(Job) = {}
    /\ parent[Job] \in Live
    /\ locks' = locks \cup {<<Job, parent[Job], "share">>}
    /\ Trigger(Job, TRUE)
    /\ UNCHANGED <<table, request, hit, viewLock, met>>

\* REFRESH MATERIALIZED VIEW gets the view, until the transaction ends.
Refresh(p) ==
    /\ stage[p] = "view" /\ viewLock = Null
    /\ viewLock' = p
    /\ stage' = [stage EXCEPT ![p] = IF p = Job THEN "count" ELSE "commit"]
    /\ UNCHANGED <<table, request, hit, locks, snapshot, met>>

\* INCREMENT_DUPLICATE_COUNT_SQL and its own refresh of the view.
Count ==
    /\ stage[Job] = "count" /\ Waits(Job) = {}
    /\ locks' = IF parent[Job] \in Live
                THEN locks \cup {<<Job, parent[Job], "update">>} ELSE locks
    /\ stage' = [stage EXCEPT ![Job] = "commit"]
    /\ snapshot' = [snapshot EXCEPT ![Job] = Seen(rows)]
    /\ UNCHANGED <<table, request, hit, viewLock, met>>

\* The end of a transaction releases what it holds.
Ended(p) ==
    /\ stage' = [stage EXCEPT ![p] = "idle"]
    /\ row' = [row EXCEPT ![p] = Null]
    /\ parent' = [parent EXCEPT ![p] = Null]
    /\ value' = [value EXCEPT ![p] = Null]
    /\ hit' = [hit EXCEPT ![p] = FALSE]
    /\ locks' = {l \in locks : l[1] # p}
    /\ viewLock' = IF viewLock = p THEN Null ELSE viewLock
    /\ snapshot' = [snapshot EXCEPT ![p] = {}]
    /\ met' = met \ {p}

DupOfUncleared(p) ==
    IF hit[p] /\ p = Job THEN [dupOf EXCEPT ![row[p]] = parent[p]] ELSE dupOf

\* Column duplicate_of_id after the statements of p.
DupOfWritten(p) ==
    CASE ~hit[p]              -> dupOf
      [] hit[p] /\ p = Job    -> [dupOf EXCEPT ![row[p]] = parent[p]]
      [] hit[p] /\ p # Job    ->
            IF value[p] # "gone" THEN dupOf
            ELSE [c \in Report |-> IF c = row[p] \/ dupOf[c] = row[p]
                                   THEN Null ELSE dupOf[c]]

\* The handlers that found no row to update roll back, refresh included;
\* the others commit.
Commit(p) ==
    /\ stage[p] = "commit"
    /\ rows' = Written(p, hit[p])
    /\ dupOf' = DupOfWritten(p)
    /\ counted' = IF ~hit[p] /\ value[p] \in Status
                  THEN counted ELSE snapshot[p]
    /\ Ended(p)

\* A deadlock, a violated foreign key, a lost connection.
Rollback(p) ==
    /\ stage[p] # "idle"
    /\ Ended(p)
    /\ UNCHANGED table

StatsNext ==
    \/ \E t \in Txn : Insert(t) \/ Update(t) \/ Delete(t) \/ Cascade(t)
    \/ \E p \in Proc : Write(p) \/ Refresh(p) \/ Commit(p) \/ Rollback(p)
    \/ LinkPair \/ KeepParent \/ Count

StatsSpec == StatsInit /\ [][StatsNext]_statsVars

(***************************************************************************)
(* Properties.                                                             *)
(***************************************************************************)
\* Types, and the foreign key: duplicate_of_id joins rows that exist.
StatsTypeOK ==
    /\ rows \in [Report -> Status \cup {"unborn", "gone"}]
    /\ dupOf \in [Report -> Report \cup {Null}]
    /\ \A r \in Report : dupOf[r] # Null => {r, dupOf[r]} \subseteq Live
    /\ counted \subseteq Report \X Status
    /\ stage \in [Proc -> {"idle", "row", "cascade", "parent", "view", "count", "commit"}]
    /\ row \in [Proc -> Report \cup {Null}]
    /\ parent \in [Proc -> Report \cup {Null}]
    /\ value \in [Proc -> Status \cup {Null, "gone", "linked"}]
    /\ hit \in [Proc -> BOOLEAN]
    /\ locks \subseteq Proc \X Report \X {"update", "delete", "share"}
    /\ viewLock \in Proc \cup {Null}
    /\ snapshot \in [Proc -> SUBSET (Report \X Status)]
    /\ met \subseteq active

Deadlocked(S) == S # {} /\ \A p \in S : Waits(p) \cap S # {}

\* The handlers never deadlock among themselves, whatever rows they share:
\* they take their rows before the view, and a deletion takes its
\* duplicates in the order of the links, which are acyclic.  Only the job,
\* at its second UPDATE, can be in a circle, and is in every one.
DeadlockNeedsCount ==
    \A S \in SUBSET Proc : Deadlocked(S) => Job \in S /\ stage[Job] = "count"

\* A transaction that ran alone leaves the view counting what the table
\* holds, whatever earlier ones left in it.
AloneRefreshes == [][rows' # rows /\ met = {} => counted' = Seen(rows')]_statsVars

=============================================================================
