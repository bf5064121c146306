--------------------------- MODULE ReportRegister ---------------------------
(***************************************************************************)
(* What the report service promises, whatever its handlers do in between:  *)
(* a register of reports in which every request takes effect at most once, *)
(* in a single step before it is answered, or not at all.  A report        *)
(* appears, changes together with its audit trail, and disappears as a     *)
(* whole.  A request that was denied has no effect and never will; one     *)
(* that was confirmed had one; of one that was lost (an error, a broken    *)
(* connection) nothing is known, except that it is over.                   *)
(***************************************************************************)
CONSTANTS
    Request,    \* requests, and the reports they may create
    Photo,
    Status

VARIABLES
    photo,      \* what a report shows
    phase,      \* of each report: none yet, a row, deleted
    status,     \* its status
    trail,      \* who set which status of it
    outcome     \* what has become of each request

vars == <<photo, phase, status, trail, outcome>>

live == {r \in Request : phase[r] = "row"}

Init ==
    /\ photo \in [Request -> Photo]
    /\ phase = [r \in Request |-> "none"]
    /\ status = [r \in Request |-> "open"]
    /\ trail = [r \in Request |-> {}]
    /\ outcome = [q \in Request |-> "pending"]

Register(q) ==
    /\ phase[q] = "none"
    /\ \A r \in live : photo[r] # photo[q]
    /\ phase' = [phase EXCEPT ![q] = "row"]
    /\ UNCHANGED <<status, trail>>

Change(q) ==
    \E r \in live, s \in Status :
        /\ status' = [status EXCEPT ![r] = s]
        /\ trail' = [trail EXCEPT ![r] = @ \cup {[by |-> q, status |-> s]}]
        /\ UNCHANGED phase

Withdraw(q) ==
    \E r \in live :
        /\ phase' = [phase EXCEPT ![r] = "deleted"]
        /\ status' = [status EXCEPT ![r] = "open"]
        /\ trail' = [trail EXCEPT ![r] = {}]

\* The one step in which q takes effect; the answer may be part of it.
Take(q) ==
    /\ outcome[q] = "pending"
    /\ Register(q) \/ Change(q) \/ Withdraw(q)
    /\ \E o \in {"effective", "confirmed", "lost"} :
          outcome' = [outcome EXCEPT ![q] = o]
    /\ UNCHANGED photo

Deny(q) ==
    /\ outcome[q] = "pending"
    /\ outcome' = [outcome EXCEPT ![q] = "denied"]
    /\ UNCHANGED <<photo, phase, status, trail>>

\* A new report may get an opening entry, as long as it is there.
Confirm(q) ==
    /\ outcome[q] = "effective"
    /\ outcome' = [outcome EXCEPT ![q] = "confirmed"]
    /\ \/ UNCHANGED trail
       \/ /\ phase[q] = "row"
          /\ trail' = [trail EXCEPT ![q] = @ \cup {[by |-> q, status |-> "open"]}]
    /\ UNCHANGED <<photo, phase, status>>

\* Any number of requests is lost at once.
Lose ==
    \E S \in SUBSET {q \in Request : outcome[q] \in {"pending", "effective"}} :
        /\ outcome' = [q \in Request |-> IF q \in S THEN "lost" ELSE outcome[q]]
        /\ UNCHANGED <<photo, phase, status, trail>>

Next == Lose \/ \E q \in Request : Take(q) \/ Deny(q) \/ Confirm(q)

Spec == Init /\ [][Next]_vars

=============================================================================
