--------------------------- MODULE ReportLifecycle ---------------------------
(***************************************************************************)
(* The life of a report over HTTP: create_report (handlers/reports.rs) and *)
(* the admin handlers that change its status, resolve it with a photo,     *)
(* assign it to an organisation or delete it (handlers/admin.rs), with the *)
(* queries they call, the `status_history` table and the upload directory. *)
(*                                                                         *)
(* Every request is a process.  One await of its handler, a file operation *)
(* or a database transaction, is one step.  A client that goes away or a   *)
(* restart of the server drops the handler at any await; a database call   *)
(* may fail without effect, or fail after its COMMIT took effect.          *)
(*                                                                         *)
(* Identifiers: the report request q creates is called q, and so is the    *)
(* one file q writes, be it the image of a new report or the photo of a    *)
(* resolution.                                                             *)
(***************************************************************************)
EXTENDS Naturals, FiniteSets

CONSTANTS
    Request,   \* HTTP requests, each used once
    Photo,     \* photos, told apart by their SHA-256
    Status,    \* values of the enum report_status in use
    None,      \* SQL NULL
    MaxFaults  \* bound: failures, disconnections and restarts

ASSUME NoneAssumption == None \notin Request
ASSUME StatusAssumption == {"open", "assigned", "resolved"} \subseteq Status
ASSUME MaxFaultsAssumption == MaxFaults \in Nat

VARIABLES
    pc,       \* how far the handler of each request has come
    op,       \* what the request asks for
    target,   \* the report it is about
    photo,    \* photo_hash of a new report
    stamp,    \* NOW() of its transaction
    answer,   \* what it answers; "none" until then
    phase,    \* of each report: no row yet, a row, deleted
    status,   \* column status
    evidence, \* column resolution_photo_path
    history,  \* the rows of status_history that belong to the report
    files,    \* contents of the upload directory
    clock,    \* latest value of NOW()
    faults

request == <<op, target, photo>>
columns == <<status, evidence, history>>
table   == <<phase, columns>>
vars    == <<pc, request, stamp, answer, table, files, clock, faults>>

Op == {"create", "status", "resolve", "assign", "delete"}

\* The values for which validate_resolve_request wants a photo, and the only ones that
\* resolve_report accepts.
Final == {"resolved", "closed"} \cap Status

live == {r \in Request : phase[r] = "row"}

active == {q \in Request : pc[q] \notin {"idle", "done", "dropped"}}

\* The handler returns answer a.
Answer(q, a) ==
    /\ pc' = [pc EXCEPT ![q] = "done"]
    /\ answer' = [answer EXCEPT ![q] = a]

\* The handler goes on to its next await.
Continue(q, at) ==
    /\ pc' = [pc EXCEPT ![q] = at]
    /\ UNCHANGED answer

Init ==
    /\ pc = [q \in Request |-> "idle"]
    /\ op = [q \in Request |-> "create"]
    /\ target = [q \in Request |-> q]
    /\ photo \in [Request -> Photo]
    /\ stamp = [q \in Request |-> 0]
    /\ answer = [q \in Request |-> "none"]
    /\ phase = [r \in Request |-> "none"]
    /\ status = [r \in Request |-> "open"]
    /\ evidence = [r \in Request |-> None]
    /\ history = [r \in Request |-> {}]
    /\ files = {}
    /\ clock = 0
    /\ faults = 0

\* A request arrives; an admin names a report that has been in the table.
Receive(q) ==
    /\ pc[q] = "idle"
    /\ \/ UNCHANGED <<op, target>>
       \/ \E o \in Op \ {"create"}, r \in Request :
            /\ phase[r] # "none"
            /\ op' = [op EXCEPT ![q] = o]
            /\ target' = [target EXCEPT ![q] = r]
    /\ Continue(q, "received")
    /\ UNCHANGED <<photo, stamp, table, files, clock, faults>>

(***************************************************************************)
(* create_report.                                                          *)
(***************************************************************************)
\* Validation of the form, of a role or of a status, the honeypot, and for
\* a new report the bounding box, the rate limit and the decoding of the
\* image: an early return before anything is written.
Refuse(q) ==
    /\ \/ pc[q] = "received"
       \/ pc[q] = "checked" /\ op[q] = "create"
    /\ \/ Answer(q, "refused")
       \/ pc[q] = "received" /\ op[q] = "create" /\ Answer(q, "fake")
    /\ UNCHANGED <<request, stamp, table, files, clock, faults>>

PhotoKnown(q) == \E r \in live : photo[r] = photo[q]

CheckHash(q) ==
    /\ pc[q] = "received" /\ op[q] = "create"
    /\ IF PhotoKnown(q) THEN Answer(q, "fake") ELSE Continue(q, "checked")
    /\ UNCHANGED <<request, stamp, table, files, clock, faults>>

WriteImage(q) ==
    /\ pc[q] = "checked" /\ op[q] = "create"
    /\ files' = files \cup {q}
    /\ Continue(q, "written")
    /\ UNCHANGED <<request, stamp, table, clock, faults>>

InsertUnchecked(q) ==
    /\ pc[q] = "written" /\ op[q] = "create"
    /\ phase' = [phase EXCEPT ![q] = "row"]
    /\ Continue(q, "inserted") \/ Answer(q, "ok")
    /\ UNCHANGED <<request, stamp, columns, files, clock, faults>>

\* insert_report under the unique index on photo_hash.  Only a report whose
\* ward has an organisation goes on to the history row.
Insert(q) ==
    /\ pc[q] = "written" /\ op[q] = "create"
    /\ IF PhotoKnown(q)
       THEN Answer(q, "error") /\ UNCHANGED phase
       ELSE /\ phase' = [phase EXCEPT ![q] = "row"]
            /\ Continue(q, "inserted") \/ Answer(q, "ok")
    /\ UNCHANGED <<request, stamp, columns, files, clock, faults>>

\* The "Auto-assigned" history row, which may come late: the report can have
\* been changed, or deleted, when the foreign key refuses the row.
AuditOpen(q) ==
    /\ pc[q] = "inserted"
    /\ clock' = clock + 1
    /\ history' = IF q \in live
                  THEN [history EXCEPT ![q] = @ \cup
                           {[by |-> q, status |-> "open", at |-> clock']}]
                  ELSE history
    /\ Answer(q, "ok")
    /\ UNCHANGED <<request, stamp, phase, status, evidence, files, faults>>

(***************************************************************************)
(* The admin handlers.                                                     *)
(***************************************************************************)
WritePhotoDetached(q) ==
    /\ pc[q] = "received" /\ op[q] = "resolve"
    /\ files' \in {files, files \cup {q}}
    /\ Continue(q, "written")
    /\ UNCHANGED <<request, stamp, table, clock, faults>>

\* admin_resolve_report writes the photo before it looks at the report.
WritePhoto(q) ==
    /\ pc[q] = "received" /\ op[q] = "resolve"
    /\ files' = files \cup {q}
    /\ Continue(q, "written")
    /\ UNCHANGED <<request, stamp, table, clock, faults>>

RefuseResolveUncleaned(q) ==
    /\ pc[q] = "written" /\ op[q] = "resolve"
    /\ Answer(q, "refused")
    /\ UNCHANGED <<request, stamp, table, files, clock, faults>>

\* Only resolve_report asks that the status be final: another valid one has passed the
\* handler's checks and is refused before BEGIN, with the photo on disk.
RefuseResolve(q) ==
    /\ pc[q] = "written" /\ op[q] = "resolve"
    /\ pc' = [pc EXCEPT ![q] = "cleanup"]
    /\ answer' = [answer EXCEPT ![q] = "refused"]
    /\ UNCHANGED <<request, stamp, table, files, clock, faults>>

\* BEGIN, which fixes the NOW() of the transaction.
Begin(q) ==
    /\ \/ pc[q] = "received" /\ op[q] \in {"status", "assign"}
       \/ pc[q] = "written" /\ op[q] = "resolve"
    /\ clock' = clock + 1
    /\ stamp' = [stamp EXCEPT ![q] = clock']
    /\ Continue(q, "begun")
    /\ UNCHANGED <<request, table, files, faults>>

NewStatusUnvalidated(q) == CASE op[q] = "status"  -> Status \cup {"submitted"}
                             [] op[q] = "resolve" -> Final
                             [] op[q] = "assign"  -> {"assigned"}

\* The statuses the request may set: any, for the status handler.
NewStatus(q) == CASE op[q] = "status"  -> Status
                  [] op[q] = "resolve" -> Final
                  [] op[q] = "assign"  -> {"assigned"}

EntryOf(q, s) == [by |-> q, status |-> s, at |-> stamp[q]]

\* The UPDATE of update_report_status, resolve_report or assign_report_org;
\* its row lock makes the transactions on one report commit in this order.
UpdateRow(q, s) ==
    /\ status' = [status EXCEPT ![target[q]] = s]
    /\ evidence' = IF op[q] = "resolve"
                   THEN [evidence EXCEPT ![target[q]] = q]
                   ELSE evidence

SaveUnrecorded(q) ==
    \E s \in NewStatus(q) : UpdateRow(q, s) /\ UNCHANGED <<phase, history>>

\* The UPDATE and the INSERT into status_history, committed together.
Save(q) ==
    \E s \in NewStatus(q) :
        /\ UpdateRow(q, s)
        /\ history' = [history EXCEPT ![target[q]] = @ \cup {EntryOf(q, s)}]
        /\ UNCHANGED phase

ChangeKeepingPhoto(q) ==
    /\ pc[q] = "begun"
    /\ IF target[q] \in live
       THEN Save(q) /\ Continue(q, "saved")
       ELSE Answer(q, "notfound") /\ UNCHANGED table
    /\ UNCHANGED <<request, stamp, files, clock, faults>>

\* rows_affected() = 0 rolls back; the resolve handler then removes the
\* photo it has written before it answers.
Change(q) ==
    /\ pc[q] = "begun"
    /\ IF target[q] \in live
       THEN Save(q) /\ Continue(q, "saved")
       ELSE /\ UNCHANGED table
            /\ IF op[q] = "resolve"
               THEN /\ pc' = [pc EXCEPT ![q] = "cleanup"]
                    /\ answer' = [answer EXCEPT ![q] = "notfound"]
               ELSE Answer(q, "notfound")
    /\ UNCHANGED <<request, stamp, files, clock, faults>>

\* The foreign key refuses an unknown organisation.
RefuseOrg(q) ==
    /\ pc[q] = "begun" /\ op[q] = "assign"
    /\ Answer(q, "refused")
    /\ UNCHANGED <<request, stamp, table, files, clock, faults>>

RemovePhoto(q) ==
    /\ pc[q] = "cleanup"
    /\ files' = files \ {q}
    /\ pc' = [pc EXCEPT ![q] = "done"]
    /\ UNCHANGED <<request, stamp, answer, table, clock, faults>>

\* The report is read again after the commit; by then it may be gone, and
\* the answer is a 404 for a change that was made.
Reread(q) ==
    /\ pc[q] = "saved"
    /\ Answer(q, IF target[q] \in live THEN "ok" ELSE "gone")
    /\ UNCHANGED <<request, stamp, table, files, clock, faults>>

\* DELETE FROM reports; the history goes with the row (ON DELETE CASCADE).
DropRow(r) ==
    /\ phase' = [phase EXCEPT ![r] = "deleted"]
    /\ status' = [status EXCEPT ![r] = "open"]
    /\ evidence' = [evidence EXCEPT ![r] = None]
    /\ history' = [history EXCEPT ![r] = {}]

DeleteRow(q) ==
    /\ pc[q] = "received" /\ op[q] = "delete"
    /\ IF target[q] \in live
       THEN DropRow(target[q]) /\ Continue(q, "removing")
       ELSE Answer(q, "notfound") /\ UNCHANGED table
    /\ UNCHANGED <<request, stamp, files, clock, faults>>

RemoveImage(q) ==
    /\ pc[q] = "removing"
    /\ files' = files \ {target[q]}
    /\ Answer(q, "ok")
    /\ UNCHANGED <<request, stamp, table, clock, faults>>

(***************************************************************************)
(* Faults.                                                                 *)
(***************************************************************************)
Fault == faults < MaxFaults /\ faults' = faults + 1

\* A query of the handler that changes nothing fails: error 500.
ReadFails(q) ==
    /\ Fault
    /\ \/ pc[q] = "received" /\ op[q] # "resolve"
       \/ pc[q] = "saved"
    /\ Answer(q, "error")
    /\ UNCHANGED <<request, stamp, table, files, clock>>

\* fs::write fails, and may leave a part of the file.
WriteFails(q) ==
    /\ Fault
    /\ \/ pc[q] = "checked" /\ op[q] = "create"
       \/ pc[q] = "received" /\ op[q] = "resolve"
    /\ files' \in {files, files \cup {q}}
    /\ Answer(q, "error")
    /\ UNCHANGED <<request, stamp, table, clock>>

InsertFailsCleaning(q) ==
    /\ Fault
    /\ pc[q] = "written" /\ op[q] = "create"
    /\ \/ UNCHANGED phase
       \/ ~PhotoKnown(q) /\ phase' = [phase EXCEPT ![q] = "row"]
    /\ files' = files \ {q}
    /\ Answer(q, "error")
    /\ UNCHANGED <<request, stamp, columns, clock>>

\* The INSERT fails, or only the word of its success is lost.
InsertFails(q) ==
    /\ Fault
    /\ pc[q] = "written" /\ op[q] = "create"
    /\ \/ UNCHANGED phase
       \/ ~PhotoKnown(q) /\ phase' = [phase EXCEPT ![q] = "row"]
    /\ Answer(q, "error")
    /\ UNCHANGED <<request, stamp, columns, files, clock>>

\* The best-effort history row fails; the answer is a success all the same.
AuditFails(q) ==
    /\ Fault
    /\ pc[q] = "inserted"
    /\ Answer(q, "ok")
    /\ UNCHANGED <<request, stamp, table, files, clock>>

ChangeRetried(q) ==
    /\ Fault
    /\ pc[q] = "begun"
    /\ \/ UNCHANGED table
       \/ target[q] \in live /\ Save(q)
    /\ UNCHANGED <<pc, request, stamp, answer, files, clock>>

\* A transaction fails, or only the word of its COMMIT is lost; the resolve
\* handler removes its photo in both cases.
ChangeFails(q) ==
    /\ Fault
    /\ pc[q] = "begun"
    /\ \/ UNCHANGED table
       \/ target[q] \in live /\ Save(q)
    /\ pc' = [pc EXCEPT ![q] = IF op[q] = "resolve" THEN "cleanup" ELSE "done"]
    /\ answer' = [answer EXCEPT ![q] = "error"]
    /\ UNCHANGED <<request, stamp, files, clock>>

DeleteFails(q) ==
    /\ Fault
    /\ pc[q] = "received" /\ op[q] = "delete" /\ target[q] \in live
    /\ DropRow(target[q])
    /\ Answer(q, "error")
    /\ UNCHANGED <<request, stamp, files, clock>>

\* A file cannot be removed, which both handlers accept.
RemoveFails(q) ==
    /\ Fault
    /\ \/ pc[q] = "removing" /\ Answer(q, "ok")
       \/ /\ pc[q] = "cleanup"
          /\ pc' = [pc EXCEPT ![q] = "done"] /\ UNCHANGED answer
    /\ UNCHANGED <<request, stamp, table, files, clock>>

\* The client disconnects, and the server drops the handler.
Disconnect(q) ==
    /\ Fault
    /\ q \in active
    /\ pc' = [pc EXCEPT ![q] = "dropped"]
    /\ UNCHANGED <<request, stamp, answer, table, files, clock>>

Restart ==
    /\ Fault
    /\ active # {}
    /\ pc' = [q \in Request |-> IF q \in active THEN "dropped" ELSE pc[q]]
    /\ UNCHANGED <<request, stamp, answer, table, files, clock>>

CreateStep(q) == Refuse(q) \/ CheckHash(q) \/ WriteImage(q) \/ Insert(q)
                   \/ AuditOpen(q)

AdminStep(q) == \/ WritePhoto(q) \/ RefuseResolve(q) \/ Begin(q) \/ Change(q)
                \/ RefuseOrg(q) \/ RemovePhoto(q) \/ Reread(q) \/ DeleteRow(q)
                \/ RemoveImage(q)

FaultStep(q) == \/ ReadFails(q) \/ WriteFails(q) \/ InsertFails(q)
                \/ AuditFails(q) \/ ChangeFails(q) \/ DeleteFails(q)
                \/ RemoveFails(q) \/ Disconnect(q)

Next == \/ \E q \in Request : Receive(q) \/ CreateStep(q) \/ AdminStep(q)
                                \/ FaultStep(q)
        \/ Restart

Spec == Init /\ [][Next]_vars

-----------------------------------------------------------------------------
(***************************************************************************)
(* What a citizen reads of a report (get_report_with_detail and the page   *)
(* frontend/app/reports/[id]/page.tsx).                                    *)
(***************************************************************************)
\* Six states are three for citizens.
publicStatusLabel(s) == CASE s = "in_progress"          -> "In progress"
                          [] s \in {"resolved", "closed"} -> "Resolved"
                          [] OTHER                      -> "Open"

StatusBadge(r) == publicStatusLabel(status[r])

\* Without the "Auto-assigned" row and the acknowledgements.
PublicHistory(r) == {e \in history[r] : e.status # "acknowledged" /\ e.by # r}

TimelineEntry(e, isCurrent) ==
    [label |-> publicStatusLabel(e.status), at |-> e.at, current |-> isCurrent]

\* In the order of changed_at, the last one current; of a report without a
\* history the status itself, as of its creation.
Timeline(r) ==
    IF PublicHistory(r) = {}
    THEN {TimelineEntry([status |-> status[r], at |-> 0], TRUE)}
    ELSE {TimelineEntry(e, \A d \in PublicHistory(r) : d.at <= e.at) : e \in PublicHistory(r)}

-----------------------------------------------------------------------------
(***************************************************************************)
(* Properties.                                                             *)
(***************************************************************************)
Progress == {"idle", "received", "checked", "written", "inserted", "begun",
             "saved", "cleanup", "removing", "done", "dropped"}

Answers == {"none", "ok", "fake", "refused", "notfound", "gone", "error"}

Entry == [by : Request, status : Status, at : Nat]

\* Types, and the part each column plays: rows stem from create requests,
\* evidence from resolve requests for that report.
TypeOK ==
    /\ pc \in [Request -> Progress]
    /\ op \in [Request -> Op]
    /\ target \in [Request -> Request]
    /\ photo \in [Request -> Photo]
    /\ stamp \in [Request -> Nat]
    /\ answer \in [Request -> Answers]
    /\ phase \in [Request -> {"none", "row", "deleted"}]
    /\ status \in [Request -> Status]
    /\ evidence \in [Request -> Request \cup {None}]
    /\ history \in [Request -> SUBSET Entry]
    /\ files \in SUBSET Request
    /\ clock \in Nat
    /\ faults \in 0 .. MaxFaults

\* No two reports show the same photo, although create_report looks for the
\* hash long before it inserts the row (reports.rs, check_photo_hash_exists).
UniquePhoto == \A r, s \in live : photo[r] = photo[s] => r = s

\* The image of every report in the table is on disk, whatever fails and in
\* whatever order creations and deletions run (reports.rs, admin_delete_report).
ImagePresent == live \subseteq files

\* The photo a resolution refers to is on disk, unless the resolve request
\* was answered with an error for a change that was in fact committed
\* (admin_resolve_report removes the photo on every error).
EvidencePresent ==
    \A r \in live : \/ evidence[r] = None
                    \/ evidence[r] \in files
                    \/ answer[evidence[r]] = "error"

\* The audit trail is complete and honest: the status of a report is one an
\* entry explains, also among the entries a citizen sees (of an acknowledged
\* report there need be none), a change reported as made is in the history of the report
\* while that lasts, and every entry stems from a request about this report.
AuditTrail ==
    /\ \A r \in live : \/ status[r] = "open"
                       \/ \E e \in history[r] : e.by # r /\ e.status = status[r]
    /\ \A r \in live : \/ status[r] = "acknowledged"
                       \/ \E e \in Timeline(r) : e.label = StatusBadge(r)
    /\ \A q \in Request :
          (/\ op[q] \in {"status", "resolve", "assign"}
           /\ answer[q] = "ok"
           /\ target[q] \in live)
              => \E e \in history[target[q]] : e.by = q
    /\ \A r \in Request : \A e \in history[r] : target[e.by] = r

\* The answers that say, or in the case of a fake success mean, that nothing was done.
Negative == {"fake", "refused", "notfound"}

\* A request that was answered so has left no report, no entry in a history and no
\* evidence, whatever else ran; and no file either, but for the photo of a resolution
\* that was refused after it was written: until its clean-up, or for good when that
\* failed or was dropped (create_report and admin_resolve_report, early returns).
NothingSaved ==
    \A q \in Request : answer[q] \in Negative =>
        /\ phase[q] = "none"
        /\ \A r \in Request : evidence[r] # q /\ \A e \in history[r] : e.by # q
        /\ q \in files => op[q] = "resolve" /\ (pc[q] = "cleanup" \/ faults > 0)

\* Without faults every file on disk is accounted for: a request still
\* works with it, it is the image of a report, the photo of a resolution
\* that was made, or the image of a submission the unique index refused
\* (the clean-up of admin_resolve_report and admin_delete_report).
NoStrayFile ==
    faults = 0 =>
        \A f \in files :
            \/ f \in active
            \/ phase[f] = "row"
            \/ \E q \in Request : pc[q] = "removing" /\ target[q] = f
            \/ op[f] = "resolve" /\ answer[f] \in {"ok", "gone"}
            \/ op[f] = "create" /\ answer[f] = "error"

(***************************************************************************)
(* The inductive invariant.  UniquePhoto, ImagePresent and EvidencePresent *)
(* need the requests that can be at each place, and whose files they hold. *)
(***************************************************************************)
Roles ==
    \A q \in Request :
        /\ pc[q] \in {"idle", "checked", "inserted"} => op[q] = "create"
        /\ pc[q] = "written" => op[q] \in {"create", "resolve"}
        /\ pc[q] = "begun" => op[q] \in {"status", "resolve", "assign"}
        /\ pc[q] = "cleanup" => op[q] = "resolve"
        /\ pc[q] = "removing" => /\ op[q] = "delete"
                                /\ phase[target[q]] = "deleted"
        /\ op[q] # "create" => op[target[q]] = "create"
        /\ op[q] # "create" => pc[q] # "idle"
        /\ op[q] # "create" => pc[target[q]] # "idle"
        /\ phase[q] # "none" => /\ op[q] = "create"
                               /\ pc[q] \in {"inserted", "done", "dropped"}
        /\ op[q] = "resolve" /\ pc[q] \in {"written", "begun", "saved"}
              => q \in files
        /\ op[q] = "create" /\ pc[q] = "written" => q \in files

\* Only a handler that cleans up has its answer before its end.
Unanswered ==
    \A q \in Request :
        pc[q] \notin {"cleanup", "done", "dropped"} => answer[q] = "none"

EvidenceRoles ==
    \A r \in Request : evidence[r] # None =>
        /\ op[evidence[r]] = "resolve"
        /\ pc[evidence[r]] \in {"saved", "cleanup", "done", "dropped"}
        /\ pc[evidence[r]] = "cleanup" => answer[evidence[r]] = "error"
        /\ evidence[r] \in files \/ answer[evidence[r]] = "error"

\* What makes NothingSaved inductive: who has written no file, and whose photo is
\* still to be removed.
Denied ==
    \A q \in Request :
        /\ op[q] \notin {"create", "resolve"} => q \notin files
        /\ pc[q] \in {"idle", "received", "checked"} => q \notin files
        /\ answer[q] \in Negative =>
              /\ pc[q] \in {"cleanup", "done", "dropped"}
              /\ phase[q] = "none"
              /\ q \in files => op[q] = "resolve" /\ (pc[q] = "cleanup" \/ faults > 0)

\* And who is in no history and no evidence: whoever is before its effect, or will
\* have none.
Untouched ==
    \A q \in Request :
        (\/ pc[q] \in {"idle", "received", "checked", "written", "begun"}
         \/ answer[q] \in Negative)
            => \A r \in Request : evidence[r] # q /\ \A e \in history[r] : e.by # q

\* What makes AuditTrail inductive: some change explains the status as soon as
\* there was any, and a change has its entry before it has its answer.
Explained ==
    \A r \in Request :
        \/ status[r] = "open" /\ \A e \in history[r] : e.by = r
        \/ \E e \in history[r] : e.by # r /\ e.status = status[r]

Recorded ==
    \A q \in Request :
        /\ pc[q] = "saved" => op[q] # "create"
        /\ op[q] # "create" => phase[target[q]] # "none"
        /\ (/\ \/ pc[q] = "saved"
               \/ answer[q] = "ok" /\ op[q] \in {"status", "resolve", "assign"}
            /\ target[q] \in live)
               => \E e \in history[target[q]] : e.by = q

Attributed ==
    /\ \A r \in Request : \A e \in history[r] : target[e.by] = r /\ pc[e.by] # "idle"
    /\ \A q \in Request : op[q] = "create" => target[q] = q

\* What makes NoStrayFile inductive: the image of a deleted report is about to go.
Filed ==
    /\ \A q \in Request : pc[q] = "inserted" => phase[q] # "none"
    /\ faults = 0 => \A f \in files : phase[f] = "deleted" =>
          \E q \in Request : pc[q] = "removing" /\ target[q] = f
    /\ NoStrayFile

IInv == TypeOK /\ Roles /\ ImagePresent /\ UniquePhoto /\ EvidenceRoles
            /\ Unanswered /\ Denied /\ Untouched /\ Explained /\ Recorded /\ Attributed /\ Filed

(***************************************************************************)
(* The handlers implement an atomic register.  A request takes effect with *)
(* the INSERT of its report, the COMMIT of its change or its DELETE; files *)
(* and the dates of the history are no part of the register.               *)
(***************************************************************************)
\* What has become of a request whose handler is at p and answered a.
OutcomeOf(p, a) ==
    CASE a = "ok" -> "confirmed"
      [] a \in Negative -> "denied"
      [] a \in {"gone", "error"} -> "lost"
      [] a = "none" /\ p = "dropped" -> "lost"
      [] a = "none" /\ p \in {"inserted", "saved", "removing"} -> "effective"
      [] OTHER -> "pending"

Outcome == [q \in Request |-> OutcomeOf(pc[q], answer[q])]

Trail == [r \in Request |-> {[by |-> e.by, status |-> e.status] : e \in history[r]}]

Abstract == INSTANCE ReportRegister WITH trail <- Trail, outcome <- Outcome

\* Whatever is interleaved, dropped or failing, requests on reports take
\* effect at most once, in one step, with the audit trail, and no answer
\* contradicts that (create_report and the admin handlers as a whole).
Implements == Abstract!Spec

=============================================================================
