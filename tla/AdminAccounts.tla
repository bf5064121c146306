----------------------------- MODULE AdminAccounts -----------------------------
(***************************************************************************)
(* The accounts of the admin portal: the row that a starting backend seeds, *)
(* the handlers that create and deactivate accounts, and the users page    *)
(* with its table and its "new user" dialog, for an admin who has signed   *)
(* in.  Roles other than the super-admin's, names, organisations and       *)
(* passwords travel along and are left out.                                *)
(*                                                                         *)
(* Nothing on the page waits for anything else: the table can be clicked   *)
(* while a deactivation is under way, the dialog closed and opened again   *)
(* while its submission is, and every list that comes back is shown.       *)
(***************************************************************************)
EXTENDS Integers, FiniteSets

CONSTANTS Email,       \* addresses that accounts may have
          Seed,        \* ADMIN_SEED_EMAIL
          Instance,    \* backend processes that may start at the same time
          None,
          Proxied,     \* do 204 answers pass the Next.js proxy, which fails on them
          MaxCalls,    \* bound: calls of the page in flight at once
          MaxClicks,   \* bound: clicks that start a call or move the dialog
          MaxFaults    \* bound: lost answers, failing queries and restarts

ASSUME AccountsAssumption ==
    /\ Seed \in Email /\ None \notin Email
    /\ Proxied \in BOOLEAN
    /\ MaxCalls \in Nat /\ MaxClicks \in Nat /\ MaxFaults \in Nat

VARIABLES
    \* the table admin_users
    rows,      \* accounts, keyed by the unique email
    off,       \* those with is_active = FALSE
    supers,    \* those with is_super_admin = TRUE
    \* the backends
    boot,      \* how far seed_admin_user has come in each
    \* the users page
    me,        \* the account of the session, None before signing in
    calls,     \* calls in flight
    isLoading, fetchError,
    shown,     \* the users state: a copy of the table
    isModalOpen, email, isSubmitting, apiError,
    \* histories and bounds
    crossed,   \* did the last fetches of the list overlap
    knownOff, knownNew,   \* effects whose success answer the page has handled
    clicks, faults

table == <<rows, off, supers>>
listVars == <<isLoading, fetchError, shown, crossed>>
dialogVars == <<isModalOpen, email, isSubmitting, apiError>>
knownVars == <<knownOff, knownNew>>
vars == <<table, boot, me, calls, listVars, dialogVars, knownVars, clicks, faults>>

Table == [rows |-> rows, off |-> off, supers |-> supers]
Tables == [rows : SUBSET Email, off : SUBSET Email, supers : SUBSET Email]
NoTable == [rows |-> {}, off |-> {}, supers |-> {}]

\* A call: getUsers, deactivateUser or createUser, and how far it has come.  A
\* deactivation that is "read" has looked at its target and not yet written.
Call == [n : 1 .. MaxCalls, kind : {"list", "off", "new"}, email : Email \cup {None},
         step : {"asked", "read", "done", "refused", "failed"}, snap : Tables]

Asking(n, kind, e) ==
    [n |-> n, kind |-> kind, email |-> e, step |-> "asked", snap |-> NoTable]

At(c, step, snap) ==
    [n |-> c.n, kind |-> c.kind, email |-> c.email, step |-> step, snap |-> snap]

Lists == {c \in calls : c.kind = "list"}

Init ==
    /\ rows = {} /\ off = {} /\ supers = {}
    /\ boot = [i \in Instance |-> "down"]
    /\ me = None
    /\ calls = {}
    /\ isLoading = TRUE /\ fetchError = FALSE /\ shown = NoTable /\ crossed = FALSE
    /\ isModalOpen = FALSE /\ email = None /\ isSubmitting = FALSE /\ apiError = "none"
    /\ knownOff = {} /\ knownNew = {}
    /\ clicks = 0 /\ faults = 0

Fault == faults < MaxFaults /\ faults' = faults + 1
Click == clicks < MaxClicks /\ clicks' = clicks + 1

-----------------------------------------------------------------------------
(* Seeding, in each backend that starts.                                   *)

\* Without both variables in the environment nothing is seeded.
SkipSeed(i) ==
    /\ boot[i] = "down"
    /\ boot' = [boot EXCEPT ![i] = "up"]
    /\ UNCHANGED <<table, me, calls, listVars, dialogVars, knownVars, clicks, faults>>

\* SELECT COUNT(*): only an empty table is seeded.
CountAdmins(i) ==
    /\ boot[i] = "down"
    /\ boot' = [boot EXCEPT ![i] = IF rows = {} THEN "empty" ELSE "up"]
    /\ UNCHANGED <<table, me, calls, listVars, dialogVars, knownVars, clicks, faults>>

\* The insert, which the unique email refuses when another backend was faster.
InsertSeed(i) ==
    /\ boot[i] = "empty"
    /\ boot' = [boot EXCEPT ![i] = "up"]
    /\ IF Seed \in rows THEN UNCHANGED table
       ELSE rows' = rows \cup {Seed} /\ supers' = supers \cup {Seed} /\ UNCHANGED off
    /\ UNCHANGED <<me, calls, listVars, dialogVars, knownVars, clicks, faults>>

\* A query of the seeding fails: it is logged, and the backend serves without.
SeedFails(i) ==
    /\ boot[i] \in {"down", "empty"}
    /\ Fault
    /\ boot' = [boot EXCEPT ![i] = "up"]
    /\ UNCHANGED <<table, me, calls, listVars, dialogVars, knownVars, clicks>>

\* A backend ends at any time, and starts over.
RestartInstance(i) ==
    /\ boot[i] # "down"
    /\ Fault
    /\ boot' = [boot EXCEPT ![i] = "down"]
    /\ UNCHANGED <<table, me, calls, listVars, dialogVars, knownVars, clicks>>

-----------------------------------------------------------------------------
(* The page.                                                               *)

\* fetchUsers up to its await, in place of a call that ended (or of none).
FetchUsers(ended) ==
    /\ \E n \in (1 .. MaxCalls) \ {c.n : c \in calls \ ended} :
           calls' = (calls \ ended) \cup {Asking(n, "list", None)}
    /\ isLoading' = TRUE
    /\ fetchError' = FALSE
    /\ crossed' = (Lists # {})

\* Another call, numbered apart.
Ask(kind, e) ==
    \E n \in (1 .. MaxCalls) \ {c.n : c \in calls} : calls' = calls \cup {Asking(n, kind, e)}

\* admin_login for an active account; the portal then opens the users page.
SignIn(e) ==
    /\ me = None
    /\ e \in rows \ off
    /\ \E i \in Instance : boot[i] = "up"
    /\ me' = e
    /\ FetchUsers({})
    /\ UNCHANGED <<table, boot, shown, dialogVars, knownVars, clicks, faults>>

TryToReconnect ==
    /\ ~isLoading /\ fetchError
    /\ FetchUsers({})
    /\ UNCHANGED <<table, boot, me, shown, dialogVars, knownVars, clicks, faults>>

TableVisible == me # None /\ ~isLoading /\ ~fetchError /\ ~isModalOpen

\* The button of a row that is shown active and not as the super-admin's.  The page
\* never learns its own account, so its own row has the button too.
HandleDeactivate(e) ==
    /\ TableVisible
    /\ e \in shown.rows \ (shown.off \cup shown.supers)
    /\ Click
    /\ Ask("off", e)
    /\ UNCHANGED <<table, boot, me, listVars, dialogVars, knownVars, faults>>

\* The dialog keeps its fields when it closes: it only renders nothing.
OpenModal ==
    /\ me # None /\ ~isModalOpen
    /\ Click
    /\ isModalOpen' = TRUE
    /\ UNCHANGED <<table, boot, me, calls, listVars, email, isSubmitting, apiError, knownVars, faults>>

HandleModalClose ==
    /\ isModalOpen
    /\ Click
    /\ isModalOpen' = FALSE
    /\ UNCHANGED <<table, boot, me, calls, listVars, email, isSubmitting, apiError, knownVars, faults>>

SetEmail(e) ==
    /\ isModalOpen
    /\ e # email
    /\ email' = e
    /\ UNCHANGED <<table, boot, me, calls, listVars, isModalOpen, isSubmitting, apiError, knownVars, clicks, faults>>

\* A valid form is sent, once at a time.
HandleSubmit ==
    /\ isModalOpen /\ ~isSubmitting /\ email # None
    /\ Click
    /\ isSubmitting' = TRUE
    /\ apiError' = "none"
    /\ Ask("new", email)
    /\ UNCHANGED <<table, boot, me, listVars, isModalOpen, email, knownVars, faults>>

-----------------------------------------------------------------------------
(* The handlers.                                                           *)

Move(c, step, snap) == calls' = (calls \ {c}) \cup {At(c, step, snap)}

ServeList(c) ==
    /\ c.kind = "list" /\ c.step = "asked"
    /\ Move(c, "done", Table)
    /\ UNCHANGED <<table, boot, me, listVars, dialogVars, knownVars, clicks, faults>>

\* admin_deactivate_user up to its UPDATE: never oneself, only an account that
\* exists, and not the super-admin's.
ReadTarget(c) ==
    /\ c.kind = "off" /\ c.step = "asked"
    /\ Move(c, IF c.email # me /\ c.email \in rows \ supers THEN "read" ELSE "refused", NoTable)
    /\ UNCHANGED <<table, boot, me, listVars, dialogVars, knownVars, clicks, faults>>

\* The UPDATE, which looks at both flags again, and its answer 204.
Deactivate(c) ==
    /\ c.kind = "off" /\ c.step = "read"
    /\ IF c.email \in rows \ (off \cup supers)
       THEN /\ off' = off \cup {c.email}
            /\ Move(c, IF Proxied THEN "failed" ELSE "done", NoTable)
       ELSE Move(c, "refused", NoTable) /\ UNCHANGED off
    /\ UNCHANGED <<rows, supers, boot, me, listVars, dialogVars, knownVars, clicks, faults>>

CreateOverwriting(c) ==
    /\ c.kind = "new" /\ c.step = "asked"
    /\ rows' = rows \cup {c.email}
    /\ supers' = supers \ {c.email}
    /\ Move(c, "done", NoTable)
    /\ UNCHANGED <<off, boot, me, listVars, dialogVars, knownVars, clicks, faults>>

\* admin_create_user: a second row of an email is a conflict.
Create(c) ==
    /\ c.kind = "new" /\ c.step = "asked"
    /\ IF c.email \in rows
       THEN Move(c, "refused", NoTable) /\ UNCHANGED rows
       ELSE Move(c, "done", NoTable) /\ rows' = rows \cup {c.email}
    /\ UNCHANGED <<off, supers, boot, me, listVars, dialogVars, knownVars, clicks, faults>>

\* The call or its answer is lost, before or after its effect.
Lose(c) ==
    /\ c.step # "failed"
    /\ Fault
    /\ Move(c, "failed", NoTable)
    /\ UNCHANGED <<table, boot, me, listVars, dialogVars, knownVars, clicks>>

\* Another admin creates an account, or deactivates one other than their own.
OtherCreates(e) ==
    /\ rows # {} /\ e \notin rows
    /\ Fault
    /\ rows' = rows \cup {e}
    /\ UNCHANGED <<off, supers, boot, me, calls, listVars, dialogVars, knownVars, clicks>>

OtherDeactivates(e) ==
    /\ e \in rows \ (off \cup supers)
    /\ rows # {e}
    /\ Fault
    /\ off' = off \cup {e}
    /\ UNCHANGED <<rows, supers, boot, me, calls, listVars, dialogVars, knownVars, clicks>>

-----------------------------------------------------------------------------
(* What the page does with the answers.                                    *)

Listed(c) ==
    /\ c.kind = "list" /\ c.step = "done"
    /\ calls' = calls \ {c}
    /\ shown' = c.snap
    /\ isLoading' = FALSE
    /\ UNCHANGED <<table, boot, me, fetchError, crossed, dialogVars, knownVars, clicks, faults>>

NotListed(c) ==
    /\ c.kind = "list" /\ c.step = "failed"
    /\ calls' = calls \ {c}
    /\ shown' = NoTable
    /\ fetchError' = TRUE
    /\ isLoading' = FALSE
    /\ UNCHANGED <<table, boot, me, crossed, dialogVars, knownVars, clicks, faults>>

DeactivatedUnshown(c) ==
    /\ c.kind = "off" /\ c.step = "done"
    /\ calls' = calls \ {c}
    /\ knownOff' = knownOff \cup {c.email}
    /\ UNCHANGED <<table, boot, me, listVars, dialogVars, knownNew, clicks, faults>>

Deactivated(c) ==
    /\ c.kind = "off" /\ c.step = "done"
    /\ FetchUsers({c})
    /\ knownOff' = knownOff \cup {c.email}
    /\ UNCHANGED <<table, boot, me, shown, dialogVars, knownNew, clicks, faults>>

\* A deactivation that failed is silent.
NotDeactivated(c) ==
    /\ c.kind = "off" /\ c.step \in {"refused", "failed"}
    /\ calls' = calls \ {c}
    /\ UNCHANGED <<table, boot, me, listVars, dialogVars, knownVars, clicks, faults>>

\* handleModalSuccess closes whatever dialog is open by then.
Created(c) ==
    /\ c.kind = "new" /\ c.step = "done"
    /\ FetchUsers({c})
    /\ isModalOpen' = FALSE
    /\ isSubmitting' = FALSE
    /\ knownNew' = knownNew \cup {c.email}
    /\ UNCHANGED <<table, boot, me, shown, email, apiError, knownOff, clicks, faults>>

NotCreated(c) ==
    /\ c.kind = "new" /\ c.step \in {"refused", "failed"}
    /\ calls' = calls \ {c}
    /\ apiError' = IF c.step = "refused" THEN "exists" ELSE "other"
    /\ isSubmitting' = FALSE
    /\ UNCHANGED <<table, boot, me, listVars, isModalOpen, email, knownVars, clicks, faults>>

Seeding(i) == SkipSeed(i) \/ CountAdmins(i) \/ InsertSeed(i) \/ SeedFails(i) \/ RestartInstance(i)
Serving(c) == ServeList(c) \/ ReadTarget(c) \/ Deactivate(c) \/ Create(c)
Handling(c) == \/ Listed(c) \/ NotListed(c) \/ Deactivated(c) \/ NotDeactivated(c)
               \/ Created(c) \/ NotCreated(c)

Next ==
    \/ \E i \in Instance : Seeding(i)
    \/ \E e \in Email : \/ SignIn(e) \/ HandleDeactivate(e) \/ SetEmail(e)
                        \/ OtherCreates(e) \/ OtherDeactivates(e)
    \/ TryToReconnect \/ OpenModal \/ HandleModalClose \/ HandleSubmit
    \/ \E c \in calls : Serving(c) \/ Lose(c) \/ Handling(c)

Spec == Init /\ [][Next]_vars

-----------------------------------------------------------------------------
(* What the accounts promise.                                              *)

TypeOK ==
    /\ rows \subseteq Email /\ off \subseteq Email /\ supers \subseteq Email
    /\ boot \in [Instance -> {"down", "empty", "up"}]
    /\ me \in Email \cup {None}
    /\ calls \subseteq Call
    /\ isLoading \in BOOLEAN /\ fetchError \in BOOLEAN /\ crossed \in BOOLEAN
    /\ shown \in Tables
    /\ isModalOpen \in BOOLEAN /\ isSubmitting \in BOOLEAN
    /\ email \in Email \cup {None} /\ apiError \in {"none", "exists", "other"}
    /\ knownOff \subseteq Email /\ knownNew \subseteq Email
    /\ clicks \in 0 .. MaxClicks /\ faults \in 0 .. MaxFaults

\* As soon as there is any account, the seed's is the one super-admin and active,
\* however backends start, admins create accounts and deactivate each other
\* (admin_seed.rs:63, admin.rs:1278): somebody can always sign in.
SuperAdminStands == rows # {} => supers = {Seed} /\ Seed \in rows \ off

\* What the page was told has succeeded is on its list once the list has come, if
\* no two fetches of it overlapped (users/page.tsx:62, 80).
ConfirmedIsListed ==
    Lists = {} /\ ~fetchError /\ ~crossed => knownOff \subseteq shown.off /\ knownNew \subseteq shown.rows
=============================================================================
