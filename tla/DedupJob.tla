------------------------------ MODULE DedupJob ------------------------------
(***************************************************************************)
(* The proximity deduplication job (backend/src/db/dedup_job.rs) running   *)
(* against the `reports` table while citizens insert reports and admins    *)
(* change their status or delete them.                                     *)
(*                                                                         *)
(* The table is kept column by column.  A pass of the job is three kinds   *)
(* of database call, each a step of its own: the query for the candidates, *)
(* the query for the report a candidate duplicates, and the transaction    *)
(* that links the two.  Whatever the admins do happens between them.       *)
(*                                                                         *)
(* Data abstraction: a Place is a category together with a location, and   *)
(* Near says which places share the category and lie within 50 m.  Of the  *)
(* status the queries tell apart only "resolved" and the rest, so that an  *)
(* instance may do with some of its values.                                *)
(***************************************************************************)
EXTENDS Naturals, FiniteSets

CONSTANTS
    Report,     \* ids the database may give to a report
    Place,      \* a category and a location
    Near,       \* pairs of places the proximity query accepts
    Ip,         \* values of submitter_ip
    Status,     \* values of the status in use
    None,       \* SQL NULL
    PassLimit,  \* LIMIT of the candidate query (500 in the code)
    MaxFaults   \* bound: database errors and restarts that hit the job

ASSUME NoneAssumption == None \notin Report
ASSUME NearAssumption == /\ Near \subseteq Place \X Place
                         /\ \A p, q \in Place : <<p, q>> \in Near
                                                    => <<q, p>> \in Near
ASSUME StatusAssumption == {"open", "resolved"} \subseteq Status
ASSUME PassLimitAssumption == PassLimit \in Nat \ {0}
ASSUME MaxFaultsAssumption == MaxFaults \in Nat

VARIABLES
    phase,       \* of each id: unused, its INSERT under way, a row, deleted
    status,      \* column status
    place,       \* columns category, latitude, longitude, location
    ip,          \* column submitter_ip
    created,     \* column created_at, as a rank; 0 before the INSERT starts
    dupOf,       \* column duplicate_of_id
    dupCount,    \* column duplicate_count
    confidence,  \* column duplicate_confidence
    clock,       \* the latest rank given out
    horizon,     \* ranks up to this one are older than 15 minutes
    pc,          \* where the job is: between ticks, in the loop, linking
    todo,        \* candidates of this pass that are still to be examined
    child,       \* the candidate about to be linked
    parent,      \* the report it is about to be linked to
    faults       \* how many faults have hit the job

fixed    == <<place, ip, created>>
links    == <<dupOf, dupCount, confidence>>
rows     == <<phase, status, fixed, links>>
time     == <<clock, horizon>>
job      == <<pc, todo, child, parent>>
vars     == <<rows, time, job, faults>>

Confidence == {"low", "high"}

live == {r \in Report : phase[r] = "row"}

(***************************************************************************)
(* The queries of the job.                                                 *)
(***************************************************************************)
\* r was created no later than every member of S (ORDER BY created_at ASC).
IsOldest(r, S) == r \in S /\ \A s \in S : created[r] <= created[s]

Fresh(r) == created[r] > horizon

FreshRows == {r \in live : Fresh(r)}

Unlinked == {r \in live : dupOf[r] = None /\ Fresh(r)}

\* The oldest PassLimit unlinked reports of the last 15 minutes.
Candidates ==
    {r \in Unlinked :
        Cardinality({s \in Unlinked : created[s] < created[r]}) < PassLimit}

MatchesAnyOpen(r) ==
    {s \in live : /\ s # r
                  /\ <<place[r], place[s]>> \in Near
                  /\ status[s] # "resolved"}

\* The rows FIND_NEARBY_OPEN_REPORT_SQL accepts for candidate r.
Matches(r) ==
    {s \in live : /\ s # r
                  /\ <<place[r], place[s]>> \in Near
                  /\ status[s] # "resolved"
                  /\ dupOf[s] = None}

\* The rows that point to p once duplicate_of_id holds d.
Children(p, d) == {r \in live : d[r] = p}

DistinctIpsOfAll(p, d) ==
    Cardinality({ip[r] : r \in Children(p, d) \cup {p}})

DistinctIps(p, d) == Cardinality({ip[r] : r \in Children(p, d)})

(***************************************************************************)
(* Initial state: an empty table, the job waiting for its first tick.      *)
(***************************************************************************)
Init ==
    /\ phase = [r \in Report |-> "unused"]
    /\ status = [r \in Report |-> "open"]
    /\ place \in [Report -> Place]
    /\ ip \in [Report -> Ip]
    /\ created = [r \in Report |-> 0]
    /\ dupOf = [r \in Report |-> None]
    /\ dupCount = [r \in Report |-> 0]
    /\ confidence = [r \in Report |-> "low"]
    /\ clock = 0
    /\ horizon = 0
    /\ pc = "idle"
    /\ todo = {}
    /\ child = None
    /\ parent = None
    /\ faults = 0

(***************************************************************************)
(* The rest of the system.  The INSERT of create_report takes its          *)
(* created_at when it starts and is visible when it commits, so that two   *)
(* of them may appear in either order.                                     *)
(***************************************************************************)
InsertBegin(r) ==
    /\ phase[r] = "unused"
    /\ phase' = [phase EXCEPT ![r] = "inserting"]
    /\ clock' = clock + 1
    /\ created' = [created EXCEPT ![r] = clock']
    /\ UNCHANGED <<status, place, ip, links, horizon, job, faults>>

InsertCommit(r) ==
    /\ phase[r] = "inserting"
    /\ phase' = [phase EXCEPT ![r] = "row"]
    /\ UNCHANGED <<status, fixed, links, time, job, faults>>

\* update_report_status, resolve_report and assign_report_org: any status
\* may follow any other.
SetStatus(r) ==
    /\ r \in live
    /\ \E s \in Status \ {status[r]} : status' = [status EXCEPT ![r] = s]
    /\ UNCHANGED <<phase, fixed, links, time, job, faults>>

\* DELETE FROM reports, with ON DELETE SET NULL on duplicate_of_id; the
\* columns of an id without a row hold their defaults.
DeleteReport(r) ==
    /\ r \in live
    /\ phase' = [phase EXCEPT ![r] = "deleted"]
    /\ dupOf' = [s \in Report |-> IF s = r \/ dupOf[s] = r THEN None
                                                          ELSE dupOf[s]]
    /\ status' = [status EXCEPT ![r] = "open"]
    /\ dupCount' = [dupCount EXCEPT ![r] = 0]
    /\ confidence' = [confidence EXCEPT ![r] = "low"]
    /\ UNCHANGED <<fixed, time, job, faults>>

\* The oldest fresh report leaves the 15-minute window.
AgeOut ==
    /\ horizon < clock
    /\ horizon' = horizon + 1
    /\ UNCHANGED <<rows, clock, job, faults>>

(***************************************************************************)
(* One pass of the job.                                                    *)
(***************************************************************************)
\* The tick: the candidates are fetched into memory once per pass.
PassStart ==
    /\ pc = "idle"
    /\ pc' = "find"
    /\ todo' = Candidates
    /\ UNCHANGED <<rows, time, child, parent, faults>>

FindOrReturn(r) ==
    /\ pc = "find"
    /\ IsOldest(r, todo)
    /\ \/ /\ Matches(r) = {}
          /\ todo' = {}
          /\ UNCHANGED <<pc, child, parent>>
       \/ \E s \in Matches(r) :
            /\ IsOldest(s, Matches(r))
            /\ todo' = todo \ {r}
            /\ pc' = "link"
            /\ child' = r
            /\ parent' = s
    /\ UNCHANGED <<rows, time, faults>>

\* The loop body up to the branch on `nearby`, for the next candidate.
Find(r) ==
    /\ pc = "find"
    /\ IsOldest(r, todo)
    /\ todo' = todo \ {r}
    /\ \/ /\ Matches(r) = {}
          /\ UNCHANGED <<pc, child, parent>>
       \/ \E s \in Matches(r) :
            /\ IsOldest(s, Matches(r))
            /\ pc' = "link"
            /\ child' = r
            /\ parent' = s
    /\ UNCHANGED <<rows, time, faults>>

LinkRowsSwapped(r, p) ==
    /\ dupOf' = [dupOf EXCEPT ![r] = IF r \in live THEN p ELSE @]
    /\ dupCount' = [dupCount EXCEPT ![r] = IF r \in live THEN @ + 1 ELSE @]
    /\ confidence' = confidence

\* The row updates of link_duplicate.  Neither statement checks how many
\* rows it changed: LINK_DUPLICATE_SQL does nothing when the candidate is
\* gone, INCREMENT_DUPLICATE_COUNT_SQL still counts it.
LinkRows(r, p) ==
    /\ dupOf' = [dupOf EXCEPT ![r] = IF r \in live THEN p ELSE @]
    /\ dupCount' = [dupCount EXCEPT ![p] = IF p \in live THEN @ + 1 ELSE @]
    /\ confidence' = [confidence EXCEPT ![p] =
                        IF p \in live /\ DistinctIps(p, dupOf') >= 2
                        THEN "high" ELSE @]

Linked ==
    /\ pc' = "find"
    /\ child' = None
    /\ parent' = None

LinkUnchecked ==
    /\ pc = "link"
    /\ LinkRows(child, parent)
    /\ Linked
    /\ UNCHANGED <<phase, status, fixed, time, todo, faults>>

\* link_duplicate commits.  The foreign key is checked only when the
\* candidate's row is really updated.
Link ==
    /\ pc = "link"
    /\ child \in live => parent \in live
    /\ LinkRows(child, parent)
    /\ Linked
    /\ UNCHANGED <<phase, status, fixed, time, todo, faults>>

\* The pass returns, by its end or by `?`; what is left of it is forgotten.
PassOver ==
    /\ pc' = "idle"
    /\ todo' = {}
    /\ child' = None
    /\ parent' = None
    /\ UNCHANGED <<rows, time>>

PassEnd == pc = "find" /\ todo = {} /\ PassOver /\ UNCHANGED faults

\* The report to link to was deleted since Find: foreign key violation.
LinkRefused ==
    /\ pc = "link"
    /\ child \in live /\ parent \notin live
    /\ PassOver
    /\ UNCHANGED faults

\* Any database call of the pass fails, or the process restarts.
PassAborts ==
    /\ pc # "idle"
    /\ faults < MaxFaults
    /\ faults' = faults + 1
    /\ PassOver

JobNext == PassStart \/ (\E r \in Report : Find(r)) \/ Link \/ LinkRefused
              \/ PassEnd

Next ==
    \/ \E r \in Report : \/ InsertBegin(r) \/ InsertCommit(r)
                         \/ SetStatus(r) \/ DeleteReport(r)
    \/ AgeOut
    \/ JobNext
    \/ PassAborts

Spec == Init /\ [][Next]_vars

\* The runtime polls the spawned loop and the interval keeps ticking.
FairSpec == Spec /\ WF_vars(JobNext)

(***************************************************************************)
(* Properties.                                                             *)
(***************************************************************************)
\* Types, and the foreign key: duplicate_of_id names a row or is NULL.
TypeOK ==
    /\ phase \in [Report -> {"unused", "inserting", "row", "deleted"}]
    /\ status \in [Report -> Status]
    /\ place \in [Report -> Place]
    /\ ip \in [Report -> Ip]
    /\ created \in [Report -> Nat]
    /\ dupOf \in [Report -> live \cup {None}]
    /\ dupCount \in [Report -> Nat]
    /\ confidence \in [Report -> Confidence]
    /\ clock \in Nat
    /\ horizon \in Nat
    /\ pc \in {"idle", "find", "link"}
    /\ todo \subseteq Report
    /\ child \in Report \cup {None}
    /\ parent \in Report \cup {None}
    /\ faults \in Nat

\* Following duplicate_of_id from any report ends: no set of reports is
\* closed under it.  find and link are separate calls, so this rests on the
\* chosen parent still being unlinked when the link is written.
NoDuplicateCycle ==
    \A S \in (SUBSET Report) \ {{}} : \E r \in S : dupOf[r] \notin S

\* A link is undone only by deleting the report it points to; no pass of
\* the job moves a duplicate from one parent to another, although the
\* candidates were read before the links of the pass were written.
NotReparented ==
    \A r \in live : dupOf[r] # None /\ dupOf'[r] # dupOf[r]
        => dupOf'[r] = None /\ (r \notin live' \/ dupOf[r] \notin live')
DuplicateNotReparented == [][NotReparented]_vars

\* duplicate_count never falls short of the duplicates that are linked:
\* the link and its count stand or fall together, whatever aborts a pass.
CountCoversLinks ==
    \A p \in live : Cardinality(Children(p, dupOf)) <= dupCount[p]

\* Confidence is 'high' only for a report that was counted at least twice.
HighCountedTwice ==
    \A p \in live : confidence[p] = "high" => dupCount[p] >= 2

\* A recent unlinked report near an open original is linked, or ceases to
\* be recent or near an open one, provided the pass reads every candidate.
Linkable(r) == r \in Unlinked /\ Matches(r) # {}
EventuallyHandled == \A r \in Report : Linkable(r) ~> ~Linkable(r)

(***************************************************************************)
(* The inductive invariant of the proofs.  Between its queries and the     *)
(* link the job holds on to reports it once saw unlinked: they still are,  *)
(* because nothing but the job links, one report at a time.                *)
(***************************************************************************)
\* What is not a row has no link to lose and no confidence to inherit.
AbsentRowsClear ==
    \A r \in Report \ live : dupOf[r] = None /\ confidence[r] = "low"

TodoUnlinked == \A r \in todo : dupOf[r] = None

PairUnlinked ==
    pc = "link" => /\ {child, parent} \subseteq Report
                   /\ child # parent
                   /\ dupOf[child] = None
                   /\ dupOf[parent] = None
                   /\ child \notin todo

\* What the passes remember is still as they saw it.
JobInv == AbsentRowsClear /\ TodoUnlinked /\ PairUnlinked

IInv ==
    /\ TypeOK
    /\ IsFiniteSet(live)
    /\ JobInv
    /\ NoDuplicateCycle
    /\ CountCoversLinks
    /\ HighCountedTwice

=============================================================================
