------------------------- MODULE AdminReportDetail -------------------------
(***************************************************************************)
(* The page of one report in the admin portal                              *)
(* (frontend/app/admin/reports/[id]/page.tsx with its StatusActionPanel,   *)
(* OrgAssignPanel and ResolveModal) and the handlers it calls.  Each of    *)
(* the five calls of the page is one at a time, but different ones overlap *)
(* and their answers come in any order, or not at all; every handler       *)
(* commits first and reads the report back in two further statements; and  *)
(* the queue page of another admin changes the same report.                *)
(***************************************************************************)
EXTENDS Naturals, FiniteSets

CONSTANTS None,        \* no report, no file
          Proxied,     \* whether the calls go through app/api/admin/[...path]/route.ts
          Start,       \* the statuses in which the page may find the report
          MaxClicks,   \* bound: calls begun by this admin
          MaxPicks,    \* bound: files picked
          MaxOthers    \* bound: changes by others

Status == {"open", "acknowledged", "assigned", "in_progress", "resolved", "closed"}
Final == {"resolved", "closed"}
Kind == {"load", "move", "assign", "resolve", "delete"}
Snapshot == [status : Status, photo : BOOLEAN, n : Nat, hist : Nat]

ASSUME DetailAssumption ==
    /\ Proxied \in BOOLEAN
    /\ Start \subseteq Status
    /\ {MaxClicks, MaxPicks, MaxOthers} \subseteq Nat
    /\ None \notin Nat /\ None \notin Snapshot

VARIABLES
    row,       \* the report: its status, whether resolution_photo_path is
               \* set, and n, the rows it has in status_history
    user,      \* the role of the admin's account
    role,      \* the role the page believes in
    shown,     \* the report as the page has it
    view,      \* what the page renders
    calls,     \* for each kind of call where it is
    problem,   \* deleteError
    orgs,      \* the organisations that OrgAssignPanel offers
    modal,     \* ResolveModal: open, its mode, the file and its preview URL
    urls,      \* object URLs not revoked
    confirm,   \* showDeleteModal
    clicks, picks, others,
    faulty,    \* whether a call ever failed for a reason outside the program
    overlap    \* whether a call was ever begun while another was under way

server == <<row, user, others>>
dialogs == <<modal, urls, confirm, problem>>
page == <<role, shown, view, orgs, dialogs>>
history == <<faulty, overlap>>
vars == <<server, page, calls, clicks, picks, history>>

NoCall == [at |-> "idle", to |-> None, file |-> None, snap |-> None]
NoFile == [type |-> None, url |-> None]
ShutModal(mode) == [open |-> FALSE, mode |-> mode, file |-> NoFile]

Call == [at : {"idle", "sent", "saved", "read", "answered", "refused"},
         to : Status \cup {None}, file : {"jpeg", "other", None},
         snap : Snapshot \cup {None}]
Preview == {NoFile} \cup [type : {"jpeg", "other"}, url : Nat]

stored == row.status # "deleted"
Under(k) == calls[k].at # "idle"
free == ~modal.open /\ ~confirm    \* no dialog covers the page

Init ==
    /\ row \in {[status |-> s, photo |-> s \in Final, n |-> IF s = "open" THEN 0 ELSE 1] :
                  s \in Start}
    /\ user \in {"admin", "reviewer"}
    /\ role = "admin"
    /\ shown = None
    /\ view = "loading"
    /\ calls = [k \in Kind |-> IF k = "load" THEN [NoCall EXCEPT !.at = "saved"]
                                             ELSE NoCall]
    /\ problem = FALSE
    /\ orgs = "unread"
    /\ modal = ShutModal("resolve")
    /\ urls = {}
    /\ confirm = FALSE
    /\ clicks = 0 /\ picks = 0 /\ others = 0
    /\ faulty = FALSE /\ overlap = FALSE

(***************************************************************************)
(* The handlers.                                                           *)
(***************************************************************************)
Set(k, c) == calls' = [calls EXCEPT ![k] = c]

\* UPDATE reports and INSERT INTO status_history.
Change(s, p) == [status |-> s, photo |-> p, n |-> row.n + 1]

\* DELETE FROM reports.
Gone == [status |-> "deleted", photo |-> row.photo, n |-> row.n]

WrittenWithoutPhoto(k) ==
    CASE k = "assign" -> Change("assigned", row.photo)
      [] k = "delete" -> Gone
      [] OTHER -> Change(calls[k].to, row.photo)

\* What the transaction of a call writes.
Written(k) ==
    CASE k = "assign" -> Change("assigned", row.photo)
      [] k = "resolve" -> Change(calls[k].to, TRUE)
      [] k = "delete" -> Gone
      [] OTHER -> Change(calls[k].to, row.photo)

\* 403 for the delete of a reviewer, 400 for a photo that is no JPEG, 404 for
\* a report that is gone.
Accepted(k) == /\ stored
               /\ k = "delete" => user = "admin"
               /\ k = "resolve" => calls[k].file = "jpeg"

Save(k) ==
    /\ calls[k].at = "sent"
    /\ IF Accepted(k)
       THEN /\ row' = Written(k)
            /\ Set(k, [calls[k] EXCEPT !.at = IF k = "delete" THEN "answered" ELSE "saved"])
       ELSE /\ row' = row
            /\ Set(k, [calls[k] EXCEPT !.at = "refused"])
    /\ UNCHANGED <<user, others, page, clicks, picks, history>>

\* get_admin_report_by_id reads the row, and then the history.
ReadRow(k) ==
    /\ calls[k].at = "saved"
    /\ Set(k, IF stored
              THEN [calls[k] EXCEPT !.at = "read",
                       !.snap = [status |-> row.status, photo |-> row.photo,
                                 n |-> row.n, hist |-> 0]]
              ELSE [calls[k] EXCEPT !.at = "refused"])
    /\ UNCHANGED <<server, page, clicks, picks, history>>

ReadHistoryFirst(k) ==
    /\ calls[k].at = "read" /\ stored
    /\ Set(k, [calls[k] EXCEPT !.at = "answered", !.snap.hist = calls[k].snap.n,
                               !.snap.n = row.n, !.snap.status = row.status])
    /\ UNCHANGED <<server, page, clicks, picks, history>>

\* The rows of status_history go with the report.
Timed(snap) == [snap EXCEPT !.hist = IF stored THEN row.n ELSE 0]

ReadHistory(k) ==
    /\ calls[k].at = "read"
    /\ Set(k, [calls[k] EXCEPT !.at = "answered", !.snap = Timed(calls[k].snap)])
    /\ UNCHANGED <<server, page, clicks, picks, history>>

\* Another admin's queue page: its dialog PATCHes any status, without a
\* photo; its Delete deletes.
Others ==
    /\ others < MaxOthers /\ others' = others + 1
    /\ stored
    /\ \/ \E s \in Status : row' = Change(s, row.photo)
       \/ row' = Gone
    /\ UNCHANGED <<user, page, calls, clicks, picks, history>>

(***************************************************************************)
(* The page.                                                               *)
(***************************************************************************)
\* What StatusActionPanel offers beside Resolve and Close: the PATCHes.
Moves(s) == CASE s = "open" -> {"acknowledged"}
              [] s \in {"acknowledged", "assigned"} -> {"in_progress"}
              [] OTHER -> {}

\* The modes in which it opens the ResolveModal.
Finals(s) == CASE s \in {"assigned", "in_progress"} -> {"resolve"}
               [] s = "resolved" -> {"close"}
               [] OTHER -> {}

\* A call of which none is under way: the buttons of one that is are disabled.
Begin(k, to, file) ==
    /\ clicks < MaxClicks /\ clicks' = clicks + 1
    /\ ~Under(k)
    /\ Set(k, [at |-> "sent", to |-> to, file |-> file, snap |-> None])
    /\ overlap' = (overlap \/ \E j \in Kind : Under(j))
    /\ faulty' = faulty

\* The answer of a call is there; it becomes the report that is shown.
Answer(k) ==
    /\ calls[k].at = "answered"
    /\ shown' = calls[k].snap
    /\ Set(k, NoCall)
    /\ UNCHANGED <<server, role, clicks, picks, history>>

LoadedAnyway ==
    /\ view = "loading" /\ view' = "shown"
    /\ shown' = calls["load"].snap
    /\ Set("load", NoCall)
    /\ orgs' = "loading"
    /\ UNCHANGED <<server, role, dialogs, clicks, picks, history>>

\* getAdminReport resolves.  The panels are mounted.
Loaded ==
    /\ view = "loading" /\ view' = "shown"
    /\ Answer("load")
    /\ orgs' = "loading"
    /\ UNCHANGED dialogs

\* "no longer exists" for a 404, "Failed to load report" for all else.  There
\* is only the way back.
NotLoaded ==
    /\ view = "loading" /\ Under("load")
    /\ IF calls["load"].at = "refused"
       THEN view' = "missing" /\ faulty' = faulty
       ELSE view' = "error" /\ faulty' = TRUE
    /\ Set("load", NoCall)
    /\ UNCHANGED <<server, role, shown, orgs, dialogs, clicks, picks, overlap>>

LearnRole ==
    /\ role # user /\ view # "left"
    /\ role' = user
    /\ UNCHANGED <<server, shown, view, orgs, dialogs, calls, clicks, picks, history>>

HandleStatusMove(s) ==
    /\ view = "shown" /\ free /\ s \in Moves(shown.status)
    /\ Begin("move", s, None)
    /\ UNCHANGED <<server, page, picks>>

OpenModalAnytime(mode) ==
    /\ view = "shown" /\ free /\ mode \in Finals(shown.status)
    /\ modal' = [open |-> TRUE, mode |-> mode, file |-> NoFile]
    /\ UNCHANGED <<server, role, shown, view, orgs, urls, confirm, problem, calls,
                   clicks, picks, history>>

\* Resolve and Close are disabled as well while the PATCH is under way.
OpenModal(mode) ==
    /\ view = "shown" /\ free /\ mode \in Finals(shown.status)
    /\ ~Under("move")
    /\ modal' = [open |-> TRUE, mode |-> mode, file |-> NoFile]
    /\ UNCHANGED <<server, role, shown, view, orgs, urls, confirm, problem, calls,
                   clicks, picks, history>>

Moved ==
    /\ view = "shown"
    /\ Answer("move")
    /\ UNCHANGED <<view, orgs, dialogs>>

(***************************************************************************)
(* OrgAssignPanel.  Which organisation is chosen, and whether the panel is *)
(* in edit mode, is left out.                                              *)
(***************************************************************************)
\* listOrganizations ends; after a failure nothing asks again.
Organisations ==
    /\ view = "shown" /\ orgs = "loading"
    /\ \/ orgs' = "known" /\ faulty' = faulty
       \/ orgs' = "failed" /\ faulty' = TRUE
    /\ UNCHANGED <<server, role, shown, view, dialogs, calls, clicks, picks, overlap>>

\* Nothing disables Save while a PATCH of the status is under way.
HandleSave ==
    /\ view = "shown" /\ free /\ orgs = "known"
    /\ Begin("assign", None, None)
    /\ UNCHANGED <<server, page, picks>>

AssignedUnshown ==
    /\ view = "shown" /\ calls["assign"].at = "answered"
    /\ Set("assign", NoCall)
    /\ UNCHANGED <<server, page, clicks, picks, history>>

\* onAssigned.
Assigned ==
    /\ view = "shown"
    /\ Answer("assign")
    /\ UNCHANGED <<view, orgs, dialogs>>

(***************************************************************************)
(* ResolveModal.                                                           *)
(***************************************************************************)
ShutWithoutRevoke == modal' = ShutModal(modal.mode) /\ urls' = urls

\* The modal is closed, and the effect that runs then resets it.
Shut == modal' = ShutModal(modal.mode) /\ urls' = urls \ {modal.file.url}

\* An image is previewed in place of the one before it; the picker stays
\* usable while a submission is under way.
HandleFileChange(type) ==
    /\ view = "shown" /\ modal.open
    /\ picks < MaxPicks /\ picks' = picks + 1
    /\ modal' = [modal EXCEPT !.file = [type |-> type, url |-> picks']]
    /\ urls' = (urls \ {modal.file.url}) \cup {picks'}
    /\ UNCHANGED <<server, role, shown, view, orgs, confirm, problem, calls, clicks,
                   history>>

HandleRemovePhoto ==
    /\ view = "shown" /\ modal.open /\ modal.file # NoFile
    /\ modal' = [modal EXCEPT !.file = NoFile]
    /\ urls' = urls \ {modal.file.url}
    /\ UNCHANGED <<server, role, shown, view, orgs, confirm, problem, calls, clicks,
                   picks, history>>

HandleSubmit ==
    /\ view = "shown" /\ modal.open /\ modal.file # NoFile
    /\ Begin("resolve", IF modal.mode = "resolve" THEN "resolved" ELSE "closed",
             modal.file.type)
    /\ UNCHANGED <<server, page, picks>>

\* Discard and the backdrop.
CloseModal ==
    /\ view = "shown" /\ modal.open /\ ~Under("resolve")
    /\ Shut
    /\ UNCHANGED <<server, role, shown, view, orgs, confirm, problem, calls, clicks,
                   picks, history>>

\* onResolved.
Resolved ==
    /\ view = "shown"
    /\ Answer("resolve")
    /\ Shut
    /\ UNCHANGED <<view, orgs, confirm, problem>>

(***************************************************************************)
(* The delete dialog, failures and the way out.                            *)
(***************************************************************************)
AskDelete ==
    /\ view = "shown"
    /\ \/ free /\ role = "admin" /\ confirm' = TRUE
       \/ confirm /\ ~Under("delete") /\ confirm' = FALSE
    /\ UNCHANGED <<server, role, shown, view, orgs, modal, urls, problem, calls,
                   clicks, picks, history>>

HandleDelete ==
    /\ view = "shown" /\ confirm
    /\ Begin("delete", None, None)
    /\ problem' = FALSE
    /\ UNCHANGED <<server, role, shown, view, orgs, modal, urls, confirm, picks>>

\* The page is unmounted: its state is gone and an answer finds nobody; what
\* was under way is left out from here on.
Unmount ==
    /\ view' = "left"
    /\ shown' = None /\ orgs' = "unread"
    /\ modal' = ShutModal("resolve") /\ urls' = urls \ {modal.file.url}
    /\ confirm' = FALSE /\ problem' = FALSE
    /\ calls' = [k \in Kind |-> NoCall]
    /\ UNCHANGED <<server, role, clicks, picks, history>>

\* handleDelete goes on: to the queue.
Deleted == calls["delete"].at = "answered" /\ ~Proxied /\ Unmount

\* BACK.
Leave == view # "left" /\ free /\ Unmount

\* An error status; or the 204 of a deletion, which the proxy cannot pass on,
\* since a Response of that status takes no body and it is given one.
Rejected(k) == \/ calls[k].at = "refused"
               \/ k = "delete" /\ calls[k].at = "answered" /\ Proxied

FailedStillBusy(k) ==
    /\ view = "shown" /\ k # "load" /\ Under(k)
    /\ IF k = "delete" THEN calls' = calls ELSE Set(k, NoCall)
    /\ problem' = (problem \/ k = "delete")
    /\ faulty' = (faulty \/ ~Rejected(k))
    /\ UNCHANGED <<server, role, shown, view, orgs, modal, urls, confirm, clicks,
                   picks, overlap>>

\* The catch of each of the four, for an error status or a call that was lost
\* anywhere on its way: the message, and the buttons come back.
Failed(k) ==
    /\ view = "shown" /\ k # "load" /\ Under(k)
    /\ Set(k, NoCall)
    /\ problem' = (problem \/ k = "delete")
    /\ faulty' = (faulty \/ ~Rejected(k))
    /\ UNCHANGED <<server, role, shown, view, orgs, modal, urls, confirm, clicks,
                   picks, overlap>>

Settle == \/ Loaded \/ NotLoaded \/ Moved \/ Assigned \/ Resolved \/ Deleted
          \/ \E k \in Kind : Failed(k)

Next ==
    \/ \E k \in Kind : Save(k) \/ ReadRow(k) \/ ReadHistory(k)
    \/ Others \/ LearnRole \/ Organisations \/ Settle \/ Leave
    \/ \E s \in Status : HandleStatusMove(s)
    \/ \E mode \in {"resolve", "close"} : OpenModal(mode)
    \/ \E type \in {"jpeg", "other"} : HandleFileChange(type)
    \/ HandleSave \/ HandleRemovePhoto \/ HandleSubmit \/ CloseModal
    \/ AskDelete \/ HandleDelete

Spec == Init /\ [][Next]_vars

\* The browser settles every call, and each kind of call on its own.
Fairness ==
    /\ WF_vars(Loaded \/ NotLoaded)
    /\ WF_vars(Moved \/ Failed("move"))
    /\ WF_vars(Assigned \/ Failed("assign"))
    /\ WF_vars(Resolved \/ Failed("resolve"))
    /\ WF_vars(Deleted \/ Failed("delete"))

FairSpec == Spec /\ Fairness

(***************************************************************************)
(* Properties.                                                             *)
(***************************************************************************)
ServerOK ==
    /\ row \in [status : Status \cup {"deleted"}, photo : BOOLEAN, n : Nat]
    /\ user \in {"admin", "reviewer"}
    /\ clicks \in Nat /\ picks \in Nat /\ others \in Nat

CallsOK ==
    /\ calls \in [Kind -> Call]
    /\ \A k \in Kind \ {"delete"} :
          calls[k].at \in {"read", "answered"} => calls[k].snap # None

PageOK ==
    /\ role \in {"admin", "reviewer"}
    /\ shown \in Snapshot \cup {None}
    /\ view \in {"loading", "missing", "error", "shown", "left"}
    /\ view = "shown" => shown # None
    /\ orgs \in {"unread", "loading", "known", "failed"}
    /\ modal \in [open : BOOLEAN, mode : {"resolve", "close"}, file : Preview]
    /\ urls \subseteq Nat

FlagsOK ==
    /\ problem \in BOOLEAN /\ confirm \in BOOLEAN
    /\ overlap \in BOOLEAN /\ faulty \in BOOLEAN

TypeOK == ServerOK /\ CallsOK /\ PageOK /\ FlagsOK

\* A preview that is shown has its object URL, and no other is left behind,
\* however files are picked, changed and removed, submissions fail and the
\* modal is closed and opened again.
PreviewIsLive ==
    /\ urls = IF modal.file = NoFile THEN {} ELSE {modal.file.url}
    /\ ~modal.open => modal.file = NoFile

\* The page shows a timeline that holds every change up to the status it
\* shows, although the two are read by separate statements with changes by
\* others between them; only the timeline of a deleted report is cut off.
TimelineReachesStatus ==
    shown # None /\ shown.hist < shown.n => row.status = "deleted"

\* What was read is what is stored.
SameReport(snap) == /\ snap.status = row.status
                    /\ snap.photo = row.photo
                    /\ snap.n = row.n

\* No calls of the page overlapped, none was lost, nobody else changed the
\* report, and it is there.
Quiet == ~overlap /\ ~faulty /\ others = 0 /\ stored

\* As long as that is so, the page shows the report as it is stored whenever
\* no call is under way.
QuietIsCurrent ==
    view = "shown" /\ Quiet /\ (\A k \in Kind : ~Under(k)) => SameReport(shown)

\* A PATCH of the status and a resolution of the same page are never under
\* way together, so the one cannot undo the other.
OneStatusWriter == ~(Under("move") /\ Under("resolve"))

\* Where calls of a kind may be, and what they carry.
Carried ==
    /\ view = "shown" => ~Under("load")
    /\ view # "shown" => \A k \in Kind \ {"load"} : ~Under(k)
    /\ view \in {"missing", "error", "left"} => ~Under("load")
    /\ calls["load"].at # "sent" /\ calls["delete"].at \notin {"saved", "read"}
    /\ calls["move"].at = "sent" => calls["move"].to \in Status \ Final
    /\ calls["resolve"].at = "sent" => calls["resolve"].to \in Final
    /\ Under("move") => ~modal.open
    /\ Under("resolve") => modal.open

\* What was read is not ahead of the table, nor its status of its timeline.
ReadAt(k) ==
    /\ calls[k].at = "read" => calls[k].snap.n <= row.n
    /\ calls[k].at = "answered" /\ calls[k].snap.hist < calls[k].snap.n => ~stored

Read == \A k \in Kind \ {"delete"} : ReadAt(k)

\* Calls that do not overlap come one by one.
Sole == ~overlap => \A j, k \in Kind : Under(j) /\ Under(k) => j = k

\* The page has the report as it is stored while no call wrote, and a call
\* that read it has it too.
Fresh ==
    Quiet =>
       /\ view = "shown" /\ (\A k \in Kind : calls[k].at \in {"idle", "sent", "refused"})
             => SameReport(shown)
       /\ \A k \in Kind : calls[k].at \in {"read", "answered"}
             => k # "delete" /\ SameReport(calls[k].snap)

\* The inductive invariant.
IInv == /\ TypeOK /\ PreviewIsLive /\ Carried
        /\ Read /\ TimelineReachesStatus /\ Sole /\ Fresh

\* What this page does never makes a report resolved or closed without the
\* after-photo in its row.
OwnFinalsHavePhoto ==
    [][row'.status \in Final /\ row' # row /\ others' = others => row'.photo]_vars

\* Each button that a call disables comes back, or the page is left.
CallsReturn == \A k \in Kind : Under(k) ~> ~Under(k)

\* "Cannot resolve without photo evidence" (D-13).
FinalNeedsPhoto == row.status \in Final => row.photo

\* The error of the delete dialog is about a report that is not deleted, as
\* long as no call was lost and nobody else deletes.
DeletedIsReported ==
    problem /\ ~faulty /\ others = 0 => stored

=============================================================================
