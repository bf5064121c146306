------------------------------- MODULE PublicMap -------------------------------
(***************************************************************************)
(* The public map: MapPage with its category chips, ReportsMap with its    *)
(* fetches, and GET /api/reports.geojson behind the limiter of the         *)
(* visitor's address.  ReportsMap fetches when it mounts, whenever the tab *)
(* becomes visible again and on Retry, and no fetch is ever cancelled or   *)
(* numbered: answers arrive in any order, also after the page was left.    *)
(***************************************************************************)
EXTENDS KeyedLimiter, FiniteSets

CONSTANTS Report,     \* reports of the database
          Category,   \* their categories
          CatOf,      \* the category of each report
          Visitor,    \* the key of the visitor's address
          MaxCalls,   \* bound: fetches in flight at once
          MaxMoves,   \* bound: times the visitor leaves, returns or comes back
          MaxFaults   \* bound: answers that are lost, and restarts

ASSUME MapAssumption ==
    /\ Visitor \in Key
    /\ MaxCalls \in Nat \ {0} /\ MaxMoves \in Nat /\ MaxFaults \in Nat

VARIABLES db,        \* reports stored so far
          calls,     \* fetches in flight
          mounted,   \* is ReportsMap on the screen
          visible,   \* document.visibilityState
          loading, error,
          shown,     \* reports of ReportsMap
          answered,  \* has a fetch of this mount been answered (a history)
          chips,     \* allReports of MapPage, from which the chips count
          filter,    \* activeFilter
          moves, faults

pageVars == <<mounted, visible, loading, error, shown, answered, chips, filter>>
vars == <<limiterVars, db, calls, pageVars, moves, faults>>

\* A fetch: which one, whether its page is still there, how it ended, its rows.
Call == [n : 1 .. MaxCalls, live : BOOLEAN,
         end : {"asked", "ok", "limited", "failed"}, rows : SUBSET Report]

NewCall(n) == [n |-> n, live |-> TRUE, end |-> "asked", rows |-> {}]

Ended(c, end, rows) == [n |-> c.n, live |-> c.live, end |-> end, rows |-> rows]

\* The reports whose pins the map shows.
Pins == IF loading \/ error THEN {}
        ELSE {r \in shown : filter = "all" \/ CatOf[r] = filter}

\* What the strip of chips says of a category.
CountOf(cat) == Cardinality({r \in chips : CatOf[r] = cat})

Init ==
    /\ LimiterInit
    /\ db \in SUBSET Report
    /\ calls = {NewCall(1)}
    /\ mounted = TRUE /\ visible = TRUE
    /\ loading = TRUE /\ error = FALSE
    /\ shown = {} /\ answered = FALSE /\ chips = {} /\ filter = "all"
    /\ moves = 0 /\ faults = 0

\* fetchReports up to its await.
FetchReports ==
    /\ \E n \in (1 .. MaxCalls) \ {c.n : c \in calls} : calls' = calls \cup {NewCall(n)}
    /\ loading' = TRUE
    /\ error' = FALSE

Move == moves < MaxMoves /\ moves' = moves + 1

\* The visitor turns to another tab, and back.
Hide ==
    /\ mounted /\ visible
    /\ visible' = FALSE
    /\ Move
    /\ UNCHANGED <<limiterVars, db, calls, mounted, loading, error, shown, answered, chips, filter, faults>>

HandleVisibilityChange ==
    /\ mounted /\ ~visible
    /\ visible' = TRUE
    /\ FetchReports
    /\ UNCHANGED <<limiterVars, db, mounted, shown, answered, chips, filter, moves, faults>>

\* The page is left: its fetches go on, and nobody waits for them.
Unmount ==
    /\ mounted /\ visible
    /\ Move
    /\ mounted' = FALSE
    /\ calls' = {[n |-> c.n, live |-> FALSE, end |-> c.end, rows |-> c.rows] : c \in calls}
    /\ loading' = FALSE /\ error' = FALSE
    /\ shown' = {} /\ answered' = FALSE /\ chips' = {} /\ filter' = "all"
    /\ UNCHANGED <<limiterVars, db, visible, faults>>

Mount ==
    /\ ~mounted
    /\ mounted' = TRUE
    /\ FetchReports
    /\ UNCHANGED <<limiterVars, db, visible, shown, answered, chips, filter, moves, faults>>

\* The button of the error overlay.
Retry ==
    /\ mounted /\ visible /\ error
    /\ FetchReports
    /\ UNCHANGED <<limiterVars, db, mounted, visible, shown, answered, chips, filter, moves, faults>>

SetActiveFilter(f) ==
    /\ mounted /\ visible
    /\ f # filter
    /\ filter' = f
    /\ Move
    /\ UNCHANGED <<limiterVars, db, calls, mounted, visible, loading, error, shown, answered, chips, faults>>

\* public_get_geojson: the limiter first, then every report of the database.
Serve(c) ==
    /\ c.end = "asked"
    /\ \/ /\ Admit(Visitor)
          /\ calls' = (calls \ {c}) \cup {Ended(c, "ok", db)}
       \/ /\ Refuse(Visitor)
          /\ calls' = (calls \ {c}) \cup {Ended(c, "limited", {})}
    /\ UNCHANGED <<db, pageVars, moves, faults>>

\* The body is cut or the connection lost, after the permit was taken or before.
Lose(c) ==
    /\ c.end \in {"asked", "ok"}
    /\ faults < MaxFaults
    /\ faults' = faults + 1
    /\ calls' = (calls \ {c}) \cup {Ended(c, "failed", {})}
    /\ UNCHANGED <<limiterVars, db, pageVars, moves>>

\* setReports and onReportsLoaded; an error of another fetch stays.
Answered(c) ==
    /\ c.live
    /\ c.end = "ok"
    /\ calls' = calls \ {c}
    /\ shown' = c.rows
    /\ answered' = TRUE
    /\ chips' = c.rows
    /\ loading' = FALSE
    /\ UNCHANGED <<limiterVars, db, mounted, visible, error, filter, moves, faults>>

NotAnsweredSilently(c) ==
    /\ c.live
    /\ c.end \in {"limited", "failed"}
    /\ calls' = calls \ {c}
    /\ loading' = FALSE
    /\ UNCHANGED <<limiterVars, db, mounted, visible, error, shown, answered, chips, filter, moves, faults>>

NotAnswered(c) ==
    /\ c.live
    /\ c.end \in {"limited", "failed"}
    /\ calls' = calls \ {c}
    /\ error' = TRUE
    /\ loading' = FALSE
    /\ UNCHANGED <<limiterVars, db, mounted, visible, shown, answered, chips, filter, moves, faults>>

\* The answer of a page that was left changes nothing.
Dropped(c) ==
    /\ ~c.live
    /\ c.end # "asked"
    /\ calls' = calls \ {c}
    /\ UNCHANGED <<limiterVars, db, pageVars, moves, faults>>

\* A report is stored by someone.
Submitted(r) ==
    /\ r \notin db
    /\ db' = db \cup {r}
    /\ UNCHANGED <<limiterVars, calls, pageVars, moves, faults>>

TickOnce == Tick /\ UNCHANGED <<db, calls, pageVars, moves, faults>>

\* The backend is started again; what it had not answered fails.
RestartBackend ==
    /\ faults < MaxFaults
    /\ faults' = faults + 1
    /\ Restart
    /\ calls' = {IF c.end = "asked" THEN Ended(c, "failed", {}) ELSE c : c \in calls}
    /\ UNCHANGED <<db, pageVars, moves>>

Next ==
    \/ Hide \/ HandleVisibilityChange \/ Unmount \/ Mount \/ Retry
    \/ \E f \in Category \cup {"all"} : SetActiveFilter(f)
    \/ \E c \in calls : Serve(c) \/ Lose(c) \/ Answered(c) \/ NotAnswered(c) \/ Dropped(c)
    \/ \E r \in Report : Submitted(r)
    \/ TickOnce
    \/ RestartBackend

Spec == Init /\ [][Next]_vars

\* Time passes, requests are served, answers are handled, and a visitor who sees
\* the error presses Retry and does not leave the page or the tab for good.
FairSpec ==
    /\ Spec
    /\ WF_vars(TickOnce)
    /\ WF_vars(Retry) /\ WF_vars(HandleVisibilityChange) /\ WF_vars(Mount)
    /\ WF_vars(\E c \in calls : Serve(c))
    /\ WF_vars(\E c \in calls : Answered(c) \/ NotAnswered(c) \/ Dropped(c))

-----------------------------------------------------------------------------
(* What the map promises.                                                  *)

TypeOK ==
    /\ LimiterTypeOK
    /\ db \subseteq Report
    /\ calls \subseteq Call
    /\ mounted \in BOOLEAN /\ visible \in BOOLEAN /\ loading \in BOOLEAN /\ error \in BOOLEAN
    /\ answered \in BOOLEAN
    /\ shown \subseteq Report /\ chips = shown
    /\ filter \in Category \cup {"all"}
    /\ moves \in 0 .. MaxMoves /\ faults \in 0 .. MaxFaults

\* "No reports yet" and an empty map are only shown when an answer said so
\* (ReportsMap.tsx:268): a refused, lost or overtaken fetch leaves the loading
\* overlay or the error on the screen.
EmptyMapIsAnswered == mounted /\ ~loading /\ ~error => answered

\* A visitor who keeps pressing Retry gets the map, however often the limiter
\* refuses: a refusal takes no permit (ReportsMap.tsx:255, stats.rs:77).
RetryRecovers == error ~> (~error /\ ~loading)
=============================================================================
