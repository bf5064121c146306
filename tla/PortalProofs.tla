----------------------------- MODULE PortalProofs -----------------------------
(***************************************************************************)
(* The table of reports and the tab of the portal, for every value of the  *)
(* constants.                                                              *)
(*                                                                         *)
(* The table: for every set of reports, pages and searches, what stands    *)
(* under a row of the table is its own, and awaited while it is said to    *)
(* load; the chips and the view agree with what is on the screen.          *)
(*                                                                         *)
(* The tab: for any number of clicks, lost answers and other sessions, a   *)
(* name that is said to be saved is the one in the row, signing out ends   *)
(* the session, what the analytics page shows stems from one fetch, and    *)
(* no page waits for a call that is not under way.                         *)
(***************************************************************************)
EXTENDS ReportsTable, PortalTab, FiniteSetTheorems, TLAPS

-----------------------------------------------------------------------------
(* The table: its rows and where it starts.                                *)


\* The rows that are read from the server have a status and a count.
LEMMA RowsType ==
    ASSUME TypeOK, NEW S \in SUBSET Report
    PROVE  Rows(S) \in [S \cap live -> Row]
PROOF
  BY DEF Rows, Row, TypeOK, live

\* Every report has finitely many duplicates.
LEMMA CountsType == Init => dupCount \in [Report -> Nat]
PROOF
  <1> SUFFICES ASSUME Init, NEW r \in Report PROVE Cardinality(Duplicates(r)) \in Nat
    BY DEF Init
  <1>1. IsFiniteSet(Duplicates(r))
    BY TableAssumption, FS_Subset DEF Duplicates
  <1> QED BY <1>1, FS_CardinalityType

\* The table starts with nothing opened, and ALL lit.
LEMMA Start == Init => IInv
PROOF
  <1> SUFFICES ASSUME Init PROVE IInv
    OBVIOUS
  <1> USE DEF Init
  <1>1. TypeOK
    <2>1. rows \in [{} -> Row] /\ duplicates \in [{} -> SUBSET Report]
      BY DEF NoRows, NoGroups
    <2>2. \E S \in SUBSET Report : rows \in [S -> Row]
      BY <2>1
    <2>3. \E S \in SUBSET Report : duplicates \in [S -> SUBSET Report]
      BY <2>1
    <2>4. links \subseteq Report \X Report
      BY DEF links
    <2>5. status \in [Report -> Status \cup {"deleted"}] /\ view \in ViewMode
      BY DEF Status, InitialView, ViewMode
    <2>6. dupCount \in [Report -> Nat]
      BY CountsType
    <2> QED BY <2>2, <2>3, <2>4, <2>5, <2>6 DEF TypeOK, Chip
  <1>2. LoadingHasCall /\ GroupsWereLinked /\ Unmounted
    BY DEF LoadingHasCall, GroupsWereLinked, Unmounted, NoGroups
  <1>3. CallsWereLinked
    BY DEF CallsWereLinked
  <1>4. ChipsTell /\ ViewFits
    BY DEF ChipsTell, ViewFits, InitialView
  <1> QED BY <1>1, <1>2, <1>3, <1>4 DEF IInv

\* Unmounting the table leaves a state as of a new one.
LEMMA UnmountKeeps ==
    ASSUME IInv, Unmount, rows' = NoRows, loading' = FALSE, mounted' = FALSE,
           UNCHANGED <<server, wide, linked>>, clicks' \in Nat
    PROVE  IInv'
PROOF
  <1> USE DEF Unmount, IInv, server
  <1>1. TypeOK'
    <2>1. rows' \in [{} -> Row] /\ duplicates' \in [{} -> SUBSET Report]
      BY DEF NoRows, NoGroups
    <2>2. \E S \in SUBSET Report : rows' \in [S -> Row]
      BY <2>1
    <2>3. \E S \in SUBSET Report : duplicates' \in [S -> SUBSET Report]
      BY <2>1
    <2>4. view' \in ViewMode
      BY DEF InitialView, ViewMode
    <2> QED BY <2>2, <2>3, <2>4 DEF TypeOK, Chip
  <1>2. LoadingHasCall' /\ GroupsWereLinked' /\ Unmounted'
    BY DEF LoadingHasCall, GroupsWereLinked, Unmounted, NoGroups
  <1>3. CallsWereLinked'
    BY DEF CallsWereLinked, links
  <1>4. ChipsTell' /\ ViewFits'
    BY DEF ChipsTell, ViewFits, InitialView
  <1> QED BY <1>1, <1>2, <1>3, <1>4

-----------------------------------------------------------------------------
(* The page.                                                               *)

\* Fetching the list again touches nothing of the table's own.
LEMMA RefetchKeeps == IInv /\ Refetch => IInv'
PROOF
  <1> SUFFICES ASSUME IInv, Refetch PROVE IInv'
    OBVIOUS
  <1> USE DEF IInv, Refetch, server, filter, groups
  <1>1. TypeOK'
    BY DEF TypeOK
  <1>2. LoadingHasCall' /\ GroupsWereLinked' /\ Unmounted' /\ ChipsTell' /\ ViewFits'
    BY DEF LoadingHasCall, GroupsWereLinked, Unmounted, ChipsTell, ViewFits
  <1>3. CallsWereLinked'
    BY DEF CallsWereLinked, links
  <1> QED BY <1>1, <1>2, <1>3

\* Nor does the answer, but for the rows.
LEMMA LoadedKeeps ==
    ASSUME IInv, NEW S \in Pages, RowsLoaded(S) PROVE IInv'
PROOF
  <1> USE DEF IInv, RowsLoaded, server, filter, groups
  <1>1. TypeOK'
    <2>1. S \in SUBSET Report
      BY TableAssumption
    <2>2. rows' \in [S \cap live -> Row] /\ S \cap live \in SUBSET Report
      BY <2>1, RowsType
    <2>3. \E T \in SUBSET Report : rows' \in [T -> Row]
      BY <2>2
    <2> QED BY <2>3 DEF TypeOK
  <1>2. LoadingHasCall' /\ GroupsWereLinked' /\ Unmounted' /\ ChipsTell' /\ ViewFits'
    BY DEF LoadingHasCall, GroupsWereLinked, Unmounted, ChipsTell, ViewFits
  <1>3. CallsWereLinked'
    BY DEF CallsWereLinked, links
  <1> QED BY <1>1, <1>2, <1>3

\* A new table has a history of its own, and no call that could miss in it.
LEMMA MountKeeps == IInv /\ Mount => IInv'
PROOF
  <1> SUFFICES ASSUME IInv, Mount PROVE IInv'
    OBVIOUS
  <1> USE DEF IInv, Mount, server, filter, groups
  <1>1. expanded = {} /\ DOMAIN duplicates = {} /\ fetches = {}
    BY DEF Unmounted
  <1>2. links \subseteq Report \X Report
    BY DEF links
  <1>3. TypeOK'
    BY <1>2 DEF TypeOK
  <1>4. LoadingHasCall' /\ GroupsWereLinked' /\ Unmounted' /\ ChipsTell' /\ ViewFits'
    BY <1>1 DEF LoadingHasCall, GroupsWereLinked, Unmounted, ChipsTell, ViewFits
  <1>5. CallsWereLinked'
    BY <1>1 DEF CallsWereLinked, links
  <1> QED BY <1>3, <1>4, <1>5

\* Crossing 1024 pixels sets the view that goes with the width.
LEMMA ResizeKeeps == IInv /\ Resize => IInv'
PROOF
  <1> SUFFICES ASSUME IInv, Resize PROVE IInv'
    OBVIOUS
  <1> USE DEF IInv, Resize, server, props, filter, groups
  <1>1. TypeOK' /\ ViewFits'
    BY DEF TypeOK, ViewMode, ViewFits
  <1>2. LoadingHasCall' /\ GroupsWereLinked' /\ Unmounted' /\ ChipsTell'
    BY DEF LoadingHasCall, GroupsWereLinked, Unmounted, ChipsTell
  <1>3. CallsWereLinked'
    BY DEF CallsWereLinked, links
  <1> QED BY <1>1, <1>2, <1>3

-----------------------------------------------------------------------------
(* The admin.                                                              *)

\* A chip that is lit or put out leaves one lit, and ALL alone or not at all.
LEMMA ToggleFilterKeeps ==
    ASSUME IInv, NEW key \in Chip, ToggleFilter(key) PROVE IInv'
PROOF
  <1> USE DEF IInv, ToggleFilter, Click, server, props, groups
  <1>1. filters' \subseteq Chip
    BY DEF TypeOK, Chip
  <1>2. TypeOK'
    BY <1>1 DEF TypeOK
  <1>3. ChipsTell'
    BY DEF ChipsTell
  <1>4. LoadingHasCall' /\ GroupsWereLinked' /\ Unmounted' /\ ViewFits'
    BY DEF LoadingHasCall, GroupsWereLinked, Unmounted, ViewFits
  <1>5. CallsWereLinked'
    BY DEF CallsWereLinked, links
  <1> QED BY <1>2, <1>3, <1>4, <1>5

\* A search touches nothing else.
LEMMA SearchKeeps ==
    ASSUME IInv, NEW q \in Queries, Search(q) PROVE IInv'
PROOF
  <1> USE DEF IInv, Search, Click, server, props, groups
  <1>1. TypeOK'
    BY TableAssumption DEF TypeOK
  <1>2. LoadingHasCall' /\ GroupsWereLinked' /\ Unmounted' /\ ChipsTell' /\ ViewFits'
    BY DEF LoadingHasCall, GroupsWereLinked, Unmounted, ChipsTell, ViewFits
  <1>3. CallsWereLinked'
    BY DEF CallsWereLinked, links
  <1> QED BY <1>1, <1>2, <1>3

\* CARDS and ROWS stay within a narrow window.
LEMMA SetViewModeKeeps ==
    ASSUME IInv, NEW mode \in {"card-stream", "compact-rows"}, SetViewMode(mode)
    PROVE  IInv'
PROOF
  <1> USE DEF IInv, SetViewMode, Click, server, props, filter, groups
  <1>1. TypeOK' /\ ViewFits'
    BY DEF TypeOK, ViewMode, ViewFits
  <1>2. LoadingHasCall' /\ GroupsWereLinked' /\ Unmounted' /\ ChipsTell'
    BY DEF LoadingHasCall, GroupsWereLinked, Unmounted, ChipsTell
  <1>3. CallsWereLinked'
    BY DEF CallsWereLinked, links
  <1> QED BY <1>1, <1>2, <1>3

\* Opening a row asks for its duplicates unless they are there; whoever
\* loaded before still does.
LEMMA ToggleExpandKeeps ==
    ASSUME IInv, NEW r \in Report, ToggleExpand(r) PROVE IInv'
PROOF
  <1> DEFINE new == [n |-> clicks', r |-> r, step |-> "sent", dupes |-> {}]
  <1> USE DEF IInv, ToggleExpand, Click, server, props, filter
  <1>1. new \in Fetch
    BY DEF TypeOK, Fetch
  <1>2. fetches \subseteq fetches' /\ fetches' \subseteq fetches \cup {new}
    OBVIOUS
  <1>3. r \notin expanded \cup DOMAIN duplicates => new \in fetches'
    OBVIOUS
  <1> HIDE DEF new
  <1>4. expanded' \subseteq Report
    BY DEF TypeOK
  <1>5. TypeOK'
    BY <1>1, <1>2, <1>4 DEF TypeOK
  <1>6. LoadingHasCall'
    <2> SUFFICES ASSUME NEW s \in expanded' \ DOMAIN duplicates
                 PROVE  \E c \in fetches' : c.r = s
      BY DEF LoadingHasCall
    <2>1. CASE s \in expanded
      BY <2>1, <1>2 DEF LoadingHasCall
    <2>2. CASE s \notin expanded
      <3>1. s = r
        BY <2>2
      <3>2. new \in fetches' /\ new.r = s
        BY <2>2, <3>1, <1>3 DEF new
      <3> QED BY <3>2
    <2> QED BY <2>1, <2>2
  <1>7. CallsWereLinked'
    <2>1. new.dupes = {}
      BY DEF new
    <2> QED BY <2>1, <1>2 DEF CallsWereLinked, links
  <1>8. GroupsWereLinked' /\ ChipsTell' /\ ViewFits'
    BY DEF GroupsWereLinked, ChipsTell, ViewFits
  <1>9. Unmounted'
    BY DEF Unmounted, ShowsRows
  <1> QED BY <1>5, <1>6, <1>7, <1>8, <1>9

-----------------------------------------------------------------------------
(* The duplicates of a row.                                                *)

\* What is linked now has been linked.
LEMMA ServeKeeps ==
    ASSUME IInv, NEW c \in fetches, Serve(c) PROVE IInv'
PROOF
  <1> DEFINE new == [c EXCEPT !.step = "done", !.dupes = Duplicates(c.r)]
  <1> USE DEF IInv, Serve, server, props, filter
  <1>1. c \in Fetch
    BY DEF TypeOK
  <1>2. Duplicates(c.r) \subseteq Report
    BY DEF Duplicates
  <1>3. new \in Fetch /\ new.r = c.r /\ new.dupes = Duplicates(c.r)
    BY <1>1, <1>2 DEF Fetch
  <1>4. fetches' = (fetches \ {c}) \cup {new}
    OBVIOUS
  <1> HIDE DEF new
  <1>5. TypeOK'
    BY <1>3, <1>4 DEF TypeOK
  <1>6. LoadingHasCall'
    BY <1>3, <1>4 DEF LoadingHasCall
  <1>7. CallsWereLinked'
    <2>1. c.r \in Report
      BY <1>1 DEF Fetch
    <2>2. \A d \in new.dupes : <<d, new.r>> \in linked
      BY <1>3, <2>1 DEF CallsWereLinked, links, Duplicates
    <2> QED BY <2>2, <1>4 DEF CallsWereLinked, links
  <1>8. GroupsWereLinked' /\ ChipsTell' /\ ViewFits'
    BY DEF GroupsWereLinked, ChipsTell, ViewFits
  <1>9. Unmounted'
    BY DEF Unmounted
  <1> QED BY <1>5, <1>6, <1>7, <1>8, <1>9

\* An answer, or an error kept as one, ends the loading of its own row.
LEMMA KeepKeeps ==
    ASSUME IInv, NEW c \in fetches, NEW D \in SUBSET c.dupes,
           fetches' = fetches \ {c}, Keep(c.r, D),
           UNCHANGED <<server, props, wide, view, filter, expanded, linked, clicks>>
    PROVE  IInv'
PROOF
  <1> USE DEF IInv, server, props, filter
  <1>1. c \in Fetch /\ c.r \in Report /\ c.dupes \subseteq Report
    BY DEF TypeOK, Fetch
  <1>2. DOMAIN duplicates' = DOMAIN duplicates \cup {c.r}
    BY DEF Keep
  <1>3. PICK S \in SUBSET Report : duplicates \in [S -> SUBSET Report]
    BY DEF TypeOK
  <1>4. duplicates' \in [S \cup {c.r} -> SUBSET Report]
    BY <1>1, <1>3 DEF Keep
  <1>5. TypeOK'
    <2>1. \E T \in SUBSET Report : duplicates' \in [T -> SUBSET Report]
      BY <1>1, <1>3, <1>4
    <2> QED BY <2>1 DEF TypeOK
  <1>6. LoadingHasCall'
    <2> SUFFICES ASSUME NEW s \in expanded \ DOMAIN duplicates'
                 PROVE  \E b \in fetches' : b.r = s
      BY DEF LoadingHasCall
    <2>1. s # c.r /\ s \in expanded \ DOMAIN duplicates
      BY <1>2
    <2>2. PICK b \in fetches : b.r = s
      BY <2>1 DEF LoadingHasCall
    <2> QED BY <2>1, <2>2
  <1>7. GroupsWereLinked'
    <2> SUFFICES ASSUME NEW s \in DOMAIN duplicates', NEW d \in duplicates'[s]
                 PROVE  <<d, s>> \in linked
      BY DEF GroupsWereLinked
    <2>1. CASE s = c.r
      <3>1. duplicates'[s] = D
        BY <2>1, <1>2 DEF Keep
      <3> QED BY <2>1, <3>1 DEF CallsWereLinked
    <2>2. CASE s # c.r
      <3>1. s \in DOMAIN duplicates /\ duplicates'[s] = duplicates[s]
        BY <2>2, <1>2 DEF Keep
      <3> QED BY <3>1 DEF GroupsWereLinked
    <2> QED BY <2>1, <2>2
  <1>8. CallsWereLinked'
    BY DEF CallsWereLinked, links
  <1>9. ChipsTell' /\ ViewFits' /\ Unmounted'
    BY DEF ChipsTell, ViewFits, Unmounted
  <1> QED BY <1>5, <1>6, <1>7, <1>8, <1>9

-----------------------------------------------------------------------------
(* Others.                                                                 *)

\* A change of the server that adds only links which the history records.
LEMMA ChangeKeeps ==
    ASSUME IInv, UNCHANGED Aside, others' \in Nat,
           status' \in [Report -> Status \cup {"deleted"}],
           origin' \in [Report -> Report \cup {NoReport}], dupCount' \in [Report -> Nat],
           linked' \subseteq Report \X Report,
           linked \subseteq linked', links' \subseteq linked'
    PROVE  IInv'
PROOF
  <1> USE DEF IInv, Aside, props, filter, groups
  <1>1. TypeOK'
    BY DEF TypeOK
  <1>2. LoadingHasCall' /\ GroupsWereLinked' /\ Unmounted' /\ ChipsTell' /\ ViewFits'
    BY DEF LoadingHasCall, GroupsWereLinked, Unmounted, ChipsTell, ViewFits
  <1>3. CallsWereLinked'
    BY DEF CallsWereLinked
  <1> QED BY <1>1, <1>2, <1>3

\* The job's link is recorded.
LEMMA LinkKeeps ==
    ASSUME IInv, NEW d \in Report, NEW o \in Report, Link(d, o) PROVE IInv'
PROOF
  <1> USE DEF IInv, Link, Change
  <1>1. origin' \in [Report -> Report \cup {NoReport}] /\ others' \in Nat
    BY DEF TypeOK
  <1>2. links' \subseteq linked'
    <2>1. CASE d \in live
      BY <2>1 DEF TypeOK, CallsWereLinked, links
    <2>2. CASE d \notin live
      BY <2>2 DEF CallsWereLinked, links
    <2> QED BY <2>1, <2>2
  <1>3. linked' \subseteq Report \X Report /\ linked \subseteq linked'
    BY DEF TypeOK
  <1>4. status' \in [Report -> Status \cup {"deleted"}] /\ dupCount' \in [Report -> Nat]
    BY DEF TypeOK
  <1> QED BY <1>1, <1>2, <1>3, <1>4, ChangeKeeps

\* A deletion only takes links away.
LEMMA DeleteReportKeeps ==
    ASSUME IInv, NEW r \in Report, DeleteReport(r) PROVE IInv'
PROOF
  <1> USE DEF IInv, DeleteReport, Change
  <1>1. origin' \in [Report -> Report \cup {NoReport}] /\ others' \in Nat
    BY DEF TypeOK
  <1>2. links' \subseteq links
    BY TableAssumption DEF TypeOK, links
  <1>3. links' \subseteq linked' /\ linked' = linked
    BY <1>2 DEF CallsWereLinked
  <1>4. status' \in [Report -> Status \cup {"deleted"}] /\ dupCount' \in [Report -> Nat]
    BY DEF TypeOK
  <1>5. linked' \subseteq Report \X Report
    BY <1>3 DEF TypeOK
  <1> QED BY <1>1, <1>3, <1>4, <1>5, ChangeKeeps

\* A status has nothing to do with links.
LEMMA SetStatusKeeps ==
    ASSUME IInv, NEW r \in Report, NEW s \in Status, SetStatus(r, s) PROVE IInv'
PROOF
  <1> USE DEF IInv, SetStatus, Change
  <1>1. origin' \in [Report -> Report \cup {NoReport}] /\ others' \in Nat
    BY DEF TypeOK
  <1>2. links' \subseteq linked' /\ linked' = linked
    BY DEF CallsWereLinked, links
  <1>3. status' \in [Report -> Status \cup {"deleted"}] /\ dupCount' \in [Report -> Nat]
    BY DEF TypeOK
  <1>4. linked' \subseteq Report \X Report
    BY <1>2 DEF TypeOK
  <1> QED BY <1>1, <1>2, <1>3, <1>4, ChangeKeeps

-----------------------------------------------------------------------------
(* The theorems.                                                           *)

\* Every step keeps the invariant.
LEMMA StepKeeps == IInv /\ [Next]_vars => IInv'
PROOF
  <1> SUFFICES ASSUME IInv, [Next]_vars PROVE IInv'
    OBVIOUS
  <1>1. CASE UNCHANGED vars
    <2> USE <1>1 DEF vars, server, props, filter, groups, IInv
    <2>1. TypeOK'
      BY DEF TypeOK
    <2>2. LoadingHasCall' /\ GroupsWereLinked' /\ Unmounted' /\ ChipsTell' /\ ViewFits'
      BY DEF LoadingHasCall, GroupsWereLinked, Unmounted, ChipsTell, ViewFits
    <2>3. CallsWereLinked'
      BY DEF CallsWereLinked, links
    <2> QED BY <2>1, <2>2, <2>3
  <1>2. CASE NotLoaded
    <2>1. clicks' \in Nat
      BY <1>2 DEF NotLoaded, IInv, TypeOK
    <2>2. rows' = NoRows /\ loading' = FALSE /\ mounted' = FALSE /\ Unmount
      BY <1>2 DEF NotLoaded
    <2>3. UNCHANGED <<server, wide, linked>>
      BY <1>2 DEF NotLoaded
    <2> QED BY <2>1, <2>2, <2>3, UnmountKeeps
  <1>3. ASSUME NEW r \in Report, OpenReport(r) PROVE IInv'
    <2>1. clicks' \in Nat
      BY <1>3 DEF OpenReport, Click, IInv, TypeOK
    <2>2. rows' = NoRows /\ loading' = FALSE /\ mounted' = FALSE /\ Unmount
      BY <1>3 DEF OpenReport
    <2>3. UNCHANGED <<server, wide, linked>>
      BY <1>3 DEF OpenReport
    <2> QED BY <2>1, <2>2, <2>3, UnmountKeeps
  <1>4. ASSUME NEW c \in fetches, Settle(c) PROVE IInv'
    <2>1. CASE Answered(c)
      <3>1. Keep(c.r, c.dupes) /\ fetches' = fetches \ {c}
        BY <2>1 DEF Answered
      <3>2. UNCHANGED <<server, props, wide, view, filter, expanded, linked, clicks>>
        BY <2>1 DEF Answered
      <3> QED BY <3>1, <3>2, KeepKeeps
    <2>2. CASE NotAnswered(c)
      <3>1. Keep(c.r, {}) /\ fetches' = fetches \ {c}
        BY <2>2 DEF NotAnswered
      <3>2. UNCHANGED <<server, props, wide, view, filter, expanded, linked, clicks>>
        BY <2>2 DEF NotAnswered
      <3>3. {} \in SUBSET c.dupes
        OBVIOUS
      <3> QED BY <3>1, <3>2, <3>3, KeepKeeps
    <2> QED BY <1>4, <2>1, <2>2 DEF Settle
  <1>5. CASE Refetch \/ (\E S \in Pages : RowsLoaded(S)) \/ Mount \/ Resize
    BY <1>5, RefetchKeeps, LoadedKeeps, MountKeeps, ResizeKeeps
  <1>6. CASE \/ \E key \in Chip : ToggleFilter(key)
             \/ \E q \in Queries : Search(q)
             \/ \E mode \in {"card-stream", "compact-rows"} : SetViewMode(mode)
    BY <1>6, ToggleFilterKeeps, SearchKeeps, SetViewModeKeeps
  <1>7. CASE \E r \in Report : \/ ToggleExpand(r) \/ DeleteReport(r)
                               \/ \E o \in Report : Link(r, o)
                               \/ \E s \in Status : SetStatus(r, s)
    BY <1>7, ToggleExpandKeeps, DeleteReportKeeps, LinkKeeps, SetStatusKeeps
  <1>8. CASE \E c \in fetches : Serve(c)
    BY <1>8, ServeKeeps
  <1> QED BY <1>1, <1>2, <1>3, <1>4, <1>5, <1>6, <1>7, <1>8 DEF Next

\* The invariant holds throughout.
LEMMA TableInvariant == Spec => []IInv
PROOF
  BY Start, StepKeeps, PTL DEF Spec

\* Types, for any number of reports and clicks.
THEOREM TableTypeCorrect == Spec => []TypeOK
PROOF
  BY TableInvariant, PTL DEF IInv

\* What stands under a row is its own and no older than the table.
THEOREM GroupsLinked == Spec => []GroupsWereLinked
PROOF
  BY TableInvariant, PTL DEF IInv

\* "Loading..." always stands for a call of this table.
THEOREM LoadingAwaited == Spec => []LoadingHasCall
PROOF
  BY TableInvariant, PTL DEF IInv

\* The lit chips are what hides rows.
THEOREM ChipsLit == Spec => []ChipsTell
PROOF
  BY TableInvariant, PTL DEF IInv

\* The view goes with the width of the window.
THEOREM ViewOfWidth == Spec => []ViewFits
PROOF
  BY TableInvariant, PTL DEF IInv

-----------------------------------------------------------------------------
(* The tab: its invariant, and its calls.                                  *)


\* What each page, and the sidebar beside it, can have asked for.
OfPage(kind, s) ==
    \/ s = "login" /\ kind = "login"
    \/ kind = "logout"
    \/ s = "dashboard" /\ kind \in {"stats", "intake"}
    \/ s = "map" /\ kind = "reports"
    \/ s = "analytics" /\ kind \in Parts \cup {"boundaries"}
    \/ s = "profile" /\ kind \in {"me", "name", "password"}

\* What a call carries, and how far each kind can come.
Carries(c) ==
    /\ c.kind = "intake" => c.arg \in Period
    /\ c.kind = "password" => c.new \in Password
    /\ c.kind = "name" => c.arg \in Name
    /\ c.kind \in {"me", "name"} /\ c.step = "done" => c.ans \in Name
    /\ c.kind = "me" => c.live
    /\ c.kind = "logout" => c.step \in {"asked", "unauthorized", "unreadable", "failed"}
    /\ c.step = "verified" => c.kind = "password"
    /\ c.step = "unauthorized" => ~c.auth

\* A call that is waited for is of the page that is open; a sign-in that was left and a
\* call that was lost are on record.
Belongs(c) ==
    /\ c.live => OfPage(c.kind, screen)
    /\ c.kind = "login" /\ ~c.live => leftLogin
    /\ c.step = "failed" => faults > 0

\* A call without a token was asked when the browser had none, and it has not got one
\* since, unless from a sign-in that was left or lost.
TokenKnown(c) == c.live /\ ~c.auth /\ ~leftLogin /\ faults = 0 => ~cookie

\* The profile page knows what it waits for, and the answer to a save is what is stored,
\* unless the row was written since.
Awaited(c) ==
    /\ c.live /\ c.kind = "me" => page.state = "loading"
    /\ c.live /\ c.kind = "name" =>
          /\ page.saving
          /\ c.step = "done" /\ ours => c.ans = name

CallsFit == \A c \in calls : Carries(c) /\ Belongs(c) /\ TokenKnown(c) /\ Awaited(c)

\* The profile page waits for one read and for one save at a time.
OneAwaited == \A c, d \in calls :
    c.live /\ d.live /\ c.kind = d.kind /\ c.kind \in {"me", "name"} => c = d

\* The form of the profile page appears with a name and says nothing before.
FormFits ==
    screen = "profile" => /\ page.state # "data" => ~page.saving /\ page.said = "none"
                          /\ page.saving => page.said = "none"
                          /\ page.state = "data" => page.displayName \in Name
                                                    /\ page.initialName \in Name

\* All that the analytics page has set is of one fetch.
ShownTogether == screen = "analytics" => \A p, q \in Parts : page.shown[p] = page.shown[q]

PortalIInv ==
    /\ PortalTypeOK /\ IsFiniteSet(calls)
    /\ CallsFit /\ OneAwaited /\ FormFits /\ ShownTogether
    /\ SavedIsStored /\ LogoutEnds

-----------------------------------------------------------------------------
\* A finite set has a finite image.
LEMMA ImageFinite ==
    ASSUME NEW S, IsFiniteSet(S), NEW f
    PROVE  IsFiniteSet({f[x] : x \in S})
PROOF
  <1> DEFINE T == {f[x] : x \in S}
             g == [x \in S |-> f[x]]
  <1>1. g \in Surjection(S, T)
    BY DEF Surjection
  <1> QED BY <1>1, FS_Surjection

\* A call as it is asked.
IsAsked(c, kind, arg, new, auth) ==
    /\ c \in Call /\ c \notin calls
    /\ c.kind = kind /\ c.arg = arg /\ c.new = new /\ c.auth = auth
    /\ c.live = TRUE /\ c.step = "asked" /\ c.ans = None

\* A call that is asked has a number of its own, and no answer.
LEMMA AskingFacts ==
    ASSUME PortalTypeOK, IsFiniteSet(calls), NEW kind \in Kind,
           NEW arg \in {None} \cup Period \cup Name \cup Password,
           NEW new \in {None} \cup Password, NEW auth \in BOOLEAN
    PROVE  IsAsked(Asking(kind, arg, new, auth), kind, arg, new, auth)
PROOF
  <1> DEFINE D == {d \in calls : d.kind = kind /\ d.arg = arg}
             used == {c.n : c \in D}
             k == Cardinality(used)
             fresh == CHOOSE n \in 1 .. k + 1 : n \notin used
  <1>1. IsFiniteSet(D)
    BY FS_Subset
  <1>2. IsFiniteSet(used)
    <2> DEFINE f == [c \in D |-> c.n]
    <2>1. f \in Surjection(D, used)
      BY DEF Surjection
    <2> QED BY <1>1, <2>1, FS_Surjection
  <1>3. k \in Nat
    BY <1>2, FS_CardinalityType
  <1>4. \E n \in 1 .. k + 1 : n \notin used
    <2> SUFFICES ASSUME \A n \in 1 .. k + 1 : n \in used PROVE FALSE
      OBVIOUS
    <2>1. 1 .. k + 1 \in SUBSET used
      OBVIOUS
    <2>2. Cardinality(1 .. k + 1) <= k
      BY <1>2, <2>1, FS_Subset
    <2>3. Cardinality(1 .. k + 1) = k + 1
      BY <1>3, FS_Interval
    <2> QED BY <1>3, <2>2, <2>3
  <1>5. fresh \in 1 .. k + 1 /\ fresh \notin used
    BY <1>4
  <1>6. fresh \in Nat
    BY <1>3, <1>5
  <1>7. Asking(kind, arg, new, auth)
           = [n |-> fresh, kind |-> kind, arg |-> arg, new |-> new, auth |-> auth,
              live |-> TRUE, step |-> "asked", ans |-> None]
    BY DEF Asking
  <1> HIDE DEF fresh
  <1>8. Asking(kind, arg, new, auth) \in Call
    BY <1>6, <1>7 DEF Call
  <1>9. Asking(kind, arg, new, auth) \notin calls
    <2> SUFFICES ASSUME Asking(kind, arg, new, auth) \in calls PROVE FALSE
      OBVIOUS
    <2>1. Asking(kind, arg, new, auth) \in D /\ Asking(kind, arg, new, auth).n = fresh
      BY <1>7
    <2> QED BY <2>1, <1>5
  <1> QED BY <1>7, <1>8, <1>9 DEF IsAsked

\* A call of the page that is open, as the browser sends it.
Asked1(c) ==
    /\ c \in Call
    /\ c.live /\ c.step = "asked" /\ OfPage(c.kind, screen)
    /\ ~c.auth => ~cookie
    /\ c.kind = "intake" => c.arg \in Period
    /\ c.kind = "password" => c.new \in Password
    /\ c.kind = "name" => c.arg \in Name

\* While a page is open: it asks, it takes answers, its state changes.
OnPage ==
    /\ UNCHANGED <<account, cookie, screen, leftLogin, ours, faults>>
    /\ applied' \in BOOLEAN /\ actions' \in 0 .. MaxActions
    /\ screen = "login"     => page' \in LoginStates /\ page'.by = page.by
    /\ screen = "dashboard" => page' \in DashboardStates
    /\ screen = "map"       => page' \in MapStates
    /\ screen = "analytics" => page' \in AnalyticsStates
    /\ screen = "profile"   => page' \in ProfileStates
    /\ IsFiniteSet(calls')
    /\ \A c \in calls' : c \in calls \/ Asked1(c)
    /\ \A c \in calls' : c.live /\ c.kind = "me" => page'.state = "loading"
    /\ \A c \in calls' : c.live /\ c.kind = "name" => page'.saving
    /\ OneAwaited' /\ FormFits' /\ ShownTogether' /\ SavedIsStored'

\* What happens while a page is open keeps the invariant.
LEMMA OnPageKeeps == PortalIInv /\ OnPage => PortalIInv'
PROOF
  <1> SUFFICES ASSUME PortalIInv, OnPage PROVE PortalIInv'
    OBVIOUS
  <1>t. /\ PortalTypeOK /\ CallsFit /\ LogoutEnds
    BY DEF PortalIInv
  <1> USE DEF account
  <1>1. /\ UNCHANGED <<name, password, cookie, screen, leftLogin, ours, faults>>
        /\ applied' \in BOOLEAN /\ actions' \in 0 .. MaxActions
        /\ IsFiniteSet(calls')
        /\ OneAwaited' /\ FormFits' /\ ShownTogether' /\ SavedIsStored'
    BY DEF OnPage
  <1>2. calls' \subseteq Call
    BY <1>t DEF OnPage, Asked1, PortalTypeOK
  <1>3. PortalTypeOK'
    <2>1. histories' \in BOOLEAN \X BOOLEAN \X BOOLEAN
      BY <1>1, <1>t DEF PortalTypeOK, histories
    <2>2. /\ screen = "login"     => page' \in LoginStates
          /\ screen = "dashboard" => page' \in DashboardStates
          /\ screen = "map"       => page' \in MapStates
          /\ screen = "analytics" => page' \in AnalyticsStates
          /\ screen = "profile"   => page' \in ProfileStates
      BY DEF OnPage
    <2> QED BY <1>1, <1>2, <1>t, <2>1, <2>2 DEF PortalTypeOK
  <1>4. CallsFit'
    <2> SUFFICES ASSUME NEW c \in calls' PROVE Carries(c) /\ (Belongs(c) /\ TokenKnown(c) /\ Awaited(c))'
      BY DEF CallsFit, Carries
    <2>1. (c.live /\ c.kind = "me" => page'.state = "loading")
          /\ (c.live /\ c.kind = "name" => page'.saving)
      BY DEF OnPage
    <2>2. CASE c \in calls
      <3>1. Carries(c) /\ Belongs(c) /\ TokenKnown(c) /\ Awaited(c)
        BY <2>2, <1>t DEF CallsFit
      <3> QED BY <3>1, <2>1, <1>1 DEF Belongs, TokenKnown, Awaited
    <2>3. CASE Asked1(c)
      <3>1. Carries(c)
        BY <2>3 DEF Asked1, Carries
      <3>2. Belongs(c)' /\ TokenKnown(c)'
        BY <2>3, <1>1 DEF Asked1, Belongs, TokenKnown
      <3>3. Awaited(c)'
        BY <2>1, <2>3 DEF Asked1, Awaited
      <3> QED BY <3>1, <3>2, <3>3
    <2> QED BY <2>2, <2>3 DEF OnPage
  <1>5. LogoutEnds'
    BY <1>1, <1>t DEF OnPage, LogoutEnds
  <1> QED BY <1>1, <1>3, <1>4, <1>5 DEF PortalIInv

\* A handler, or the network, takes a call one step further; over may go on by itself.
Advances(c, step, ans, over) ==
    /\ c \in calls
    /\ calls' = (calls \ {c}) \cup {[c EXCEPT !.step = step, !.ans = ans]} \cup over
    /\ over \subseteq {[c EXCEPT !.live = FALSE]}
    /\ over # {} => c.kind \in {"name", "password"}
    /\ step \in {"asked", "verified", "done", "unauthorized", "refused", "limited",
                 "unreadable", "failed"}
    /\ ans \in {None} \cup Name
    /\ UNCHANGED <<screen, page, leftLogin, actions>>
    /\ name' \in Name /\ password' \in Password /\ ours' \in BOOLEAN /\ applied' \in BOOLEAN
    /\ cookie' \in BOOLEAN
    /\ faults' \in 0 .. MaxFaults
    /\ faults > 0 => faults' > 0
    /\ cookie' # cookie => faults' > 0
    /\ c.kind \in {"me", "name"} /\ step = "done" => ans \in Name
    /\ c.kind = "logout" => step \in {"unauthorized", "unreadable", "failed"}
    /\ step = "verified" => c.kind = "password"
    /\ step = "unauthorized" => ~c.auth
    /\ step = "failed" => faults' > 0
    /\ \/ name' = name /\ ours' = ours /\ ~(c.kind = "name" /\ step = "done")
       \/ c.kind = "name" /\ ans = name' /\ ours' = c.live

\* What the handlers do keeps the invariant.
LEMMA AdvanceKeeps ==
    ASSUME PortalIInv, NEW c, NEW step, NEW ans, NEW over, Advances(c, step, ans, over)
    PROVE  PortalIInv'
PROOF
  <1> DEFINE d == [c EXCEPT !.step = step, !.ans = ans]
             x == [c EXCEPT !.live = FALSE]
  <1>t. /\ PortalTypeOK /\ CallsFit /\ OneAwaited /\ FormFits /\ ShownTogether
        /\ SavedIsStored /\ LogoutEnds /\ IsFiniteSet(calls)
    BY DEF PortalIInv
  <1>1. /\ c \in calls /\ c \in Call /\ calls' = (calls \ {c}) \cup {d} \cup over
        /\ over \subseteq {x} /\ (over # {} => c.kind \in {"name", "password"})
        /\ UNCHANGED <<screen, page, leftLogin, actions>>
        /\ name' \in Name /\ password' \in Password /\ ours' \in BOOLEAN /\ applied' \in BOOLEAN
        /\ cookie' \in BOOLEAN /\ (cookie' # cookie => faults' > 0)
        /\ faults' \in 0 .. MaxFaults /\ (faults > 0 => faults' > 0)
    BY <1>t DEF Advances, PortalTypeOK
  <1>2. /\ d \in Call /\ d.kind = c.kind /\ d.arg = c.arg /\ d.new = c.new /\ d.auth = c.auth
        /\ d.live = c.live /\ d.step = step /\ d.ans = ans
    BY <1>1 DEF Call, Advances
  <1>x. /\ x \in Call /\ x.kind = c.kind /\ x.arg = c.arg /\ x.new = c.new /\ x.auth = c.auth
        /\ x.live = FALSE /\ x.step = c.step /\ x.ans = c.ans
    BY <1>1 DEF Call
  <1> HIDE DEF d, x
  <1>3. IsFiniteSet(calls')
    <2>1. IsFiniteSet(over)
      BY <1>1, FS_Singleton, FS_Subset
    <2>2. IsFiniteSet((calls \ {c}) \cup {d})
      BY <1>t, FS_RemoveElement, FS_AddElement
    <2> QED BY <1>1, <2>1, <2>2, FS_Union
  <1>4. PortalTypeOK'
    <2>1. histories' \in BOOLEAN \X BOOLEAN \X BOOLEAN
      BY <1>1, <1>t DEF PortalTypeOK, histories
    <2>2. calls' \subseteq Call
      BY <1>1, <1>2, <1>x, <1>t DEF PortalTypeOK
    <2> QED BY <1>1, <1>t, <2>1, <2>2 DEF PortalTypeOK
  <1>5. Carries(c) /\ Belongs(c) /\ TokenKnown(c) /\ Awaited(c)
    BY <1>1, <1>t DEF CallsFit
  <1>6. OneAwaited'
    BY <1>1, <1>2, <1>x, <1>t DEF OneAwaited
  <1>7. \/ name' = name /\ ours' = ours
        \/ c.kind = "name" /\ ours' = c.live /\ (c.live => page.saving)
    BY <1>5 DEF Advances, Awaited
  <1>8. faults' = 0 => faults = 0 /\ cookie' = cookie
    BY <1>1, <1>t DEF PortalTypeOK
  <1>9. ASSUME NEW e \in calls, e # c
        PROVE  Carries(e) /\ (Belongs(e) /\ TokenKnown(e) /\ Awaited(e))'
    <2>1. Carries(e) /\ Belongs(e) /\ TokenKnown(e) /\ Awaited(e)
      BY <1>t DEF CallsFit
    <2>2. Belongs(e)' /\ TokenKnown(e)'
      BY <2>1, <1>1, <1>8 DEF Belongs, TokenKnown
    <2>3. Awaited(e)'
      <3>1. CASE name' = name /\ ours' = ours
        BY <3>1, <2>1, <1>1 DEF Awaited
      <3>2. CASE c.kind = "name" /\ ours' = c.live
        <4>1. e.live /\ e.kind = "name" => ~c.live
          BY <3>2, <1>1, <1>9, <1>t DEF OneAwaited
        <4> QED BY <3>2, <4>1, <2>1, <1>1 DEF Awaited
      <3> QED BY <3>1, <3>2, <1>7
    <2> QED BY <2>1, <2>2, <2>3
  <1>10. Carries(d) /\ (Belongs(d) /\ TokenKnown(d) /\ Awaited(d))'
    <2>1. Carries(d)
      BY <1>2, <1>5 DEF Advances, Carries
    <2>2. Belongs(d)' /\ TokenKnown(d)'
      BY <1>1, <1>2, <1>5, <1>8 DEF Advances, Belongs, TokenKnown
    <2>3. Awaited(d)'
      BY <1>1, <1>2, <1>5 DEF Advances, Awaited
    <2> QED BY <2>1, <2>2, <2>3
  <1>11. ASSUME over # {} PROVE Carries(x) /\ (Belongs(x) /\ TokenKnown(x) /\ Awaited(x))'
    <2>1. c.kind \in {"name", "password"}
      BY <1>1, <1>11
    <2>2. Carries(x)
      BY <1>x, <1>5, <2>1 DEF Carries
    <2>3. Belongs(x)' /\ TokenKnown(x)' /\ Awaited(x)'
      BY <1>1, <1>x, <1>5, <2>1 DEF Belongs, TokenKnown, Awaited
    <2> QED BY <2>2, <2>3
  <1>12. CallsFit'
    <2> SUFFICES ASSUME NEW e \in calls'
                 PROVE  Carries(e) /\ (Belongs(e) /\ TokenKnown(e) /\ Awaited(e))'
      BY DEF CallsFit, Carries
    <2>1. CASE e = d
      BY <2>1, <1>10
    <2>2. CASE e \in calls /\ e # c
      BY <2>2, <1>9
    <2>3. CASE e = x /\ over # {}
      BY <2>3, <1>11
    <2> QED BY <2>1, <2>2, <2>3, <1>1
  <1>13. FormFits' /\ ShownTogether'
    BY <1>1, <1>t DEF FormFits, ShownTogether
  <1>14. LogoutEnds'
    BY <1>1, <1>8, <1>t DEF LogoutEnds
  <1>15. SavedIsStored'
    <2>1. CASE name' = name /\ ours' = ours
      BY <2>1, <1>1, <1>t DEF SavedIsStored
    <2>2. CASE c.kind = "name" /\ ours' = c.live /\ (c.live => page.saving)
      <3>1. c.live => page.said # "saved"
        <4>1. c.live => screen = "profile"
          BY <2>2, <1>5 DEF Belongs, OfPage, Parts
        <4> QED BY <2>2, <4>1, <1>t DEF FormFits
      <3> QED BY <3>1, <2>2, <1>1 DEF SavedIsStored
    <2> QED BY <2>1, <2>2, <1>7
  <1> QED BY <1>3, <1>4, <1>6, <1>12, <1>13, <1>14, <1>15 DEF PortalIInv

-----------------------------------------------------------------------------
(* Leaving a page.                                                         *)

\* The calls that are left behind do not matter to the next page, but for what they may
\* still do to the account and to the cookie; a sign-out may go on beside it.
Leftover(c) ==
    /\ c \in Call /\ Carries(c) /\ (c.live => c.kind = "logout")
    /\ Belongs(c)' /\ TokenKnown(c)' /\ Awaited(c)'

\* Whatever is left is a leftover: nobody waits for it, or it is a sign-out whose sidebar
\* stays and whose token is as good as before.
LEMMA LeftFacts ==
    ASSUME PortalIInv, NEW rest \in SUBSET calls, NEW routed \in BOOLEAN, Leaving(rest),
           routed => cookie' = cookie, faults' \in Nat, faults > 0 => faults' > 0
    PROVE  IsFiniteSet(Left(rest, routed)) /\ \A c \in Left(rest, routed) : Leftover(c)
PROOF
  <1>t. PortalTypeOK /\ CallsFit /\ IsFiniteSet(calls)
    BY DEF PortalIInv
  <1> DEFINE kept == {d \in rest : d.kind \notin Reads \cup {"me"}}
             f == [c \in kept |-> [c EXCEPT !.live = c.live /\ routed /\ c.kind = "logout"]]
  <1>1. IsFiniteSet(Left(rest, routed))
    <2>1. IsFiniteSet(kept)
      BY <1>t, FS_Subset
    <2>2. Left(rest, routed) = {f[c] : c \in kept}
      BY DEF Left
    <2> HIDE DEF kept, f
    <2> QED BY <2>1, <2>2, ImageFinite
  <1>2. ASSUME NEW d \in Left(rest, routed) PROVE Leftover(d)
    <2>1. PICK c \in kept : d = [c EXCEPT !.live = c.live /\ routed /\ c.kind = "logout"]
      BY DEF Left
    <2>2. c \in rest /\ c \in calls /\ c \in Call /\ c.kind # "me"
      BY <2>1, <1>t DEF PortalTypeOK
    <2>3. /\ d \in Call /\ d.kind = c.kind /\ d.arg = c.arg /\ d.new = c.new
          /\ d.auth = c.auth /\ d.step = c.step /\ d.ans = c.ans
      BY <2>1, <2>2 DEF Call
    <2>4. d.live <=> c.live /\ routed /\ c.kind = "logout"
      BY <2>1, <2>2 DEF Call
    <2>5. Carries(c) /\ Belongs(c) /\ TokenKnown(c)
      BY <2>2, <1>t DEF CallsFit
    <2>6. Carries(d)
      BY <2>2, <2>3, <2>5 DEF Carries
    <2>7. Belongs(d)'
      BY <2>2, <2>3, <2>4, <2>5 DEF Belongs, OfPage, Leaving
    <2>8. TokenKnown(d)'
      <3>1. faults' = 0 => faults = 0
        BY <1>t DEF PortalTypeOK
      <3> QED BY <2>3, <2>4, <2>5, <3>1 DEF TokenKnown, Leaving
    <2>9. Awaited(d)'
      BY <2>3, <2>4 DEF Awaited
    <2> QED BY <2>3, <2>4, <2>6, <2>7, <2>8, <2>9 DEF Leftover
  <1> QED BY <1>1, <1>2

\* What every departure leaves alone or in bounds.
Departs ==
    /\ UNCHANGED <<account, ours>>
    /\ cookie' \in BOOLEAN /\ applied' \in BOOLEAN
    /\ actions' \in 0 .. MaxActions /\ faults' \in 0 .. MaxFaults
    /\ faults > 0 => faults' > 0

\* What Leaving records stays a Boolean.
LEMMA LeavingType ==
    ASSUME PortalTypeOK, NEW rest, Leaving(rest), UNCHANGED ours, applied' \in BOOLEAN
    PROVE  histories' \in BOOLEAN \X BOOLEAN \X BOOLEAN
PROOF
  <1>1. ours \in BOOLEAN
    BY DEF PortalTypeOK, histories
  <1>2. leftLogin' \in BOOLEAN
    BY DEF Leaving
  <1> QED BY <1>1, <1>2 DEF histories

\* The login page comes in place of another.
LEMMA ShowLoginKeeps ==
    ASSUME PortalIInv, NEW by \in {"visit", "guard", "router", "logout"},
           NEW rest \in SUBSET calls, ShowLogin(by, rest), Departs,
           by = "router" => cookie' = cookie,
           by = "logout" /\ faults' = 0 /\ ~leftLogin' => ~cookie'
    PROVE  PortalIInv'
PROOF
  <1>t. PortalTypeOK
    BY DEF PortalIInv
  <1> DEFINE routed == by = "router"
  <1>1. /\ screen' = "login" /\ page' = LoginPage(by) /\ calls' = Left(rest, routed)
        /\ Leaving(rest) /\ routed \in BOOLEAN /\ (routed => cookie' = cookie)
    BY DEF ShowLogin
  <1> HIDE DEF routed
  <1>2. /\ UNCHANGED <<name, password, ours>> /\ cookie' \in BOOLEAN /\ applied' \in BOOLEAN
        /\ actions' \in 0 .. MaxActions /\ faults' \in 0 .. MaxFaults
        /\ (faults > 0 => faults' > 0)
    BY DEF Departs, account
  <1>3. IsFiniteSet(calls') /\ \A c \in calls' : Leftover(c)
    <2>1. faults' \in Nat
      BY <1>2, TabAssumption
    <2> QED BY <1>1, <1>2, <2>1, LeftFacts
  <1>4. page' \in LoginStates /\ page'.by = by
    BY <1>1, TabAssumption DEF LoginPage, LoginStates
  <1>5. PortalTypeOK'
    <2>1. histories' \in BOOLEAN \X BOOLEAN \X BOOLEAN
      BY <1>1, <1>2, <1>t, LeavingType
    <2>2. calls' \subseteq Call
      BY <1>3 DEF Leftover
    <2> QED BY <1>1, <1>2, <1>4, <1>t, <2>1, <2>2 DEF PortalTypeOK
  <1>6. CallsFit'
    BY <1>3 DEF CallsFit, Carries, Leftover
  <1>7. OneAwaited' /\ FormFits' /\ ShownTogether' /\ SavedIsStored'
    BY <1>1, <1>3 DEF OneAwaited, FormFits, ShownTogether, SavedIsStored, Leftover
  <1>8. LogoutEnds'
    BY <1>1, <1>4 DEF LogoutEnds
  <1> QED BY <1>3, <1>5, <1>6, <1>7, <1>8 DEF PortalIInv

\* What a page asks for when it is mounted, it may ask for, once, and with the token.
LEMMA MountedAsks ==
    ASSUME PortalTypeOK, IsFiniteSet(calls), NEW s \in Screens,
           NEW N, N = {Asking(k[1], k[2], None, TRUE) : k \in Asked(s)}
    PROVE  /\ IsFiniteSet(N)
           /\ \A c \in N : /\ c \in Call /\ c.live /\ c.auth /\ c.step = "asked"
                           /\ OfPage(c.kind, s)
                           /\ c.kind \notin {"login", "logout", "name", "password"}
                           /\ c.kind = "intake" => c.arg \in Period
           /\ \A c, d \in N : c.kind = d.kind => c = d
PROOF
  <1>1. IsFiniteSet(Asked(s))
    <2>1. \A x : IsFiniteSet({x})
      BY FS_Singleton
    <2>2. CASE s = "dashboard"
      <3>1. Asked(s) = {<<"stats", None>>} \cup {<<"intake", "14D">>}
        BY <2>2 DEF Asked
      <3> QED BY <2>1, <3>1, FS_Union
    <2>3. CASE s = "map"
      BY <2>1, <2>3 DEF Asked
    <2>4. CASE s = "analytics"
      <3> DEFINE A == {<<"wards", None>>, <<"corps", None>>}
                 B == {<<"trend", None>>, <<"boundaries", None>>}
      <3>1. Asked(s) = A \cup B
        BY <2>4 DEF Asked, Parts
      <3>2. IsFiniteSet(A) /\ IsFiniteSet(B)
        <4>1. IsFiniteSet({<<"wards", None>>} \cup {<<"corps", None>>})
          BY <2>1, FS_Union
        <4>2. IsFiniteSet({<<"trend", None>>} \cup {<<"boundaries", None>>})
          BY <2>1, FS_Union
        <4> QED BY <4>1, <4>2
      <3> HIDE DEF A, B
      <3> QED BY <3>1, <3>2, FS_Union
    <2>5. CASE s = "profile"
      BY <2>1, <2>5 DEF Asked
    <2> QED BY <2>2, <2>3, <2>4, <2>5 DEF Screens
  <1> DEFINE token == TRUE
             f == [k \in Asked(s) |-> Asking(k[1], k[2], None, token)]
  <1>2. N = {Asking(k[1], k[2], None, token) : k \in Asked(s)} /\ token = TRUE
    OBVIOUS
  <1> HIDE DEF token
  <1>3. IsFiniteSet(N)
    <2>1. f \in Surjection(Asked(s), N)
      BY <1>2 DEF Surjection
    <2> QED BY <1>1, <2>1, FS_Surjection
  <1>4. \A k \in Asked(s) :
           /\ k[1] \in Reads \cup {"me"} /\ OfPage(k[1], s)
           /\ k[2] \in {None, "14D"} /\ (k[1] = "intake" => k[2] = "14D")
           /\ \A l \in Asked(s) : k[1] = l[1] => k = l
    BY DEF Screens, Asked, Reads, Parts, OfPage
  <1>5. ASSUME NEW k \in Asked(s)
        PROVE  IsAsked(Asking(k[1], k[2], None, token), k[1], k[2], None, token)
    <2>1. k[1] \in Kind /\ k[2] \in {None} \cup Period \cup Name \cup Password
      BY <1>4 DEF Kind, Period
    <2>2. None \in {None} \cup Password /\ token \in BOOLEAN
      BY <1>2
    <2> QED BY <2>1, <2>2, AskingFacts
  <1>6. ASSUME NEW c \in N
        PROVE  /\ c \in Call /\ c.live /\ c.auth /\ c.step = "asked"
               /\ OfPage(c.kind, s)
               /\ c.kind \notin {"login", "logout", "name", "password"}
               /\ c.kind = "intake" => c.arg \in Period
    <2>1. PICK k \in Asked(s) : c = Asking(k[1], k[2], None, token)
      BY <1>2
    <2>2. /\ c \in Call /\ c.live /\ c.auth /\ c.step = "asked"
          /\ c.kind = k[1] /\ c.arg = k[2]
      BY <1>2, <2>1, <1>5 DEF IsAsked
    <2> QED BY <2>2, <1>4 DEF Reads, Parts, Period
  <1>7. ASSUME NEW c \in N, NEW d \in N, c.kind = d.kind PROVE c = d
    <2>1. PICK k \in Asked(s) : c = Asking(k[1], k[2], None, token)
      BY <1>2
    <2>2. PICK l \in Asked(s) : d = Asking(l[1], l[2], None, token)
      BY <1>2
    <2>3. k[1] = l[1]
      BY <1>5, <1>7, <2>1, <2>2 DEF IsAsked
    <2>4. k = l
      BY <2>3, <1>4
    <2> QED BY <2>1, <2>2, <2>4
  <1> QED BY <1>3, <1>6, <1>7

\* A page of the portal comes in place of another.
LEMMA ShowKeeps ==
    ASSUME PortalIInv, NEW s \in Screens, NEW rest \in SUBSET calls, NEW routed \in BOOLEAN,
           Show(s, rest, routed), Departs, routed => cookie' = cookie
    PROVE  PortalIInv'
PROOF
  <1>t. PortalTypeOK /\ IsFiniteSet(calls)
    BY DEF PortalIInv
  <1> DEFINE N == {Asking(k[1], k[2], None, TRUE) : k \in Asked(s)}
  <1>1. screen' = s /\ page' = PageOf(s) /\ calls' = Left(rest, routed) \cup N /\ Leaving(rest)
    BY DEF Show
  <1>2. /\ UNCHANGED <<name, password, ours>> /\ cookie' \in BOOLEAN /\ applied' \in BOOLEAN
        /\ actions' \in 0 .. MaxActions /\ faults' \in 0 .. MaxFaults
        /\ (faults > 0 => faults' > 0)
    BY DEF Departs, account
  <1>3. IsFiniteSet(Left(rest, routed)) /\ \A c \in Left(rest, routed) : Leftover(c)
    <2>1. faults' \in Nat
      BY <1>2, TabAssumption
    <2> QED BY <1>1, <1>2, <2>1, LeftFacts
  <1>4. /\ IsFiniteSet(N)
        /\ \A c \in N : /\ c \in Call /\ c.live /\ c.auth /\ c.step = "asked"
                        /\ OfPage(c.kind, s)
                        /\ c.kind \notin {"login", "logout", "name", "password"}
                        /\ c.kind = "intake" => c.arg \in Period
        /\ \A c, d \in N : c.kind = d.kind => c = d
    BY <1>t, MountedAsks
  <1> HIDE DEF N
  <1>5. /\ s # "login"
        /\ s = "dashboard" => page' \in DashboardStates
        /\ s = "map" => page' \in MapStates
        /\ s = "analytics" => page' \in AnalyticsStates
                              /\ \A p, q \in Parts : page'.shown[p] = page'.shown[q]
        /\ s = "profile" => page' \in ProfileStates /\ page'.state = "loading"
                            /\ page'.said = "none" /\ page'.saving = FALSE
    <2>1. CASE s = "dashboard"
      BY <2>1, <1>1 DEF PageOf, Dashboard, DashboardStates, Period
    <2>2. CASE s = "map"
      BY <2>2, <1>1 DEF PageOf, ReportsMap, MapStates
    <2>3. CASE s = "analytics"
      <3>1. page' = Analytics
        BY <2>3, <1>1 DEF PageOf
      <3>2. [p \in Parts |-> 0] \in [Parts -> Nat] /\ {} \in SUBSET Parts
        OBVIOUS
      <3>3. page' \in AnalyticsStates
        BY <3>1, <3>2, Zenon DEF Analytics, AnalyticsStates
      <3>4. page'.shown = [p \in Parts |-> 0]
        BY <3>1 DEF Analytics
      <3> QED BY <2>3, <3>3, <3>4
    <2>4. CASE s = "profile"
      BY <2>4, <1>1 DEF PageOf, Profile, ProfileStates
    <2> QED BY <2>1, <2>2, <2>3, <2>4 DEF Screens
  <1>6. PortalTypeOK'
    <2>1. histories' \in BOOLEAN \X BOOLEAN \X BOOLEAN
      BY <1>1, <1>2, <1>t, LeavingType
    <2>2. calls' \subseteq Call
      BY <1>1, <1>3, <1>4 DEF Leftover
    <2> QED BY <1>1, <1>2, <1>5, <1>t, <2>1, <2>2 DEF PortalTypeOK
  <1>7. IsFiniteSet(calls')
    BY <1>1, <1>3, <1>4, FS_Union
  <1>8. CallsFit'
    <2> SUFFICES ASSUME NEW c \in calls'
                 PROVE  Carries(c) /\ (Belongs(c) /\ TokenKnown(c) /\ Awaited(c))'
      BY DEF CallsFit, Carries
    <2>1. CASE c \in Left(rest, routed)
      BY <2>1, <1>3 DEF Leftover
    <2>2. CASE c \in N
      <3>1. Carries(c)
        BY <2>2, <1>4 DEF Carries
      <3>2. Belongs(c)' /\ TokenKnown(c)'
        BY <2>2, <1>1, <1>4 DEF Belongs, TokenKnown
      <3>3. Awaited(c)'
        BY <2>2, <1>4, <1>5 DEF Awaited, OfPage, Parts
      <3> QED BY <3>1, <3>2, <3>3
    <2> QED BY <2>1, <2>2, <1>1
  <1>9. OneAwaited'
    BY <1>1, <1>3, <1>4 DEF OneAwaited, Leftover
  <1>10. FormFits' /\ ShownTogether' /\ SavedIsStored' /\ LogoutEnds'
    BY <1>1, <1>5 DEF FormFits, ShownTogether, SavedIsStored, LogoutEnds
  <1> QED BY <1>6, <1>7, <1>8, <1>9, <1>10 DEF PortalIInv

-----------------------------------------------------------------------------
(* What happens while a page is open.                                      *)

\* What every such step leaves alone or in bounds.
Still ==
    /\ UNCHANGED <<account, cookie, screen, leftLogin, ours, faults>>
    /\ applied' \in BOOLEAN /\ actions' \in 0 .. MaxActions

\* How the page may change while it is open.
PageMoves ==
    /\ screen = "login"     => page' \in LoginStates /\ page'.by = page.by
    /\ screen = "dashboard" => page' \in DashboardStates
    /\ screen = "map"       => page' \in MapStates
    /\ screen = "analytics" => page' \in AnalyticsStates
                               /\ \A p, q \in Parts : page'.shown[p] = page'.shown[q]
    /\ screen = "profile"   => page' \in ProfileStates /\ FormFits' /\ SavedIsStored'

\* What is left of the calls that the profile page waits for, it still waits for.
StillAwaited(cs) ==
    \A c \in cs : /\ c.live /\ c.kind = "me" => page'.state = "loading"
                  /\ c.live /\ c.kind = "name" => page'.saving

\* Only the profile page waits for a name.
LEMMA OffProfile ==
    ASSUME PortalIInv, screen # "profile"
    PROVE  StillAwaited(calls)
PROOF
  <1>1. \A c \in calls : Belongs(c)
    BY DEF PortalIInv, CallsFit
  <1>2. \A c \in calls : c.live => c.kind \notin {"me", "name"}
    BY <1>1 DEF Belongs, OfPage, Parts
  <1> QED BY <1>2 DEF StillAwaited

\* Answers are taken, or nothing arrives.
LEMMA DropKeeps ==
    ASSUME PortalIInv, Still, PageMoves, NEW cs \in SUBSET calls, calls' = cs, StillAwaited(cs)
    PROVE  PortalIInv'
PROOF
  <1>1. IsFiniteSet(calls') /\ OneAwaited'
    BY FS_Subset DEF PortalIInv, OneAwaited
  <1>2. FormFits' /\ ShownTogether' /\ SavedIsStored'
    BY DEF Still, PageMoves, FormFits, ShownTogether, SavedIsStored
  <1>3. OnPage
    BY <1>1, <1>2 DEF OnPage, Still, PageMoves, StillAwaited
  <1> QED BY <1>3, OnPageKeeps

\* A page asks for something that it does not already wait for.
LEMMA AskKeeps ==
    ASSUME PortalIInv, Still, PageMoves, StillAwaited(calls),
           NEW kind \in Kind, NEW arg \in {None} \cup Period \cup Name \cup Password,
           NEW new \in {None} \cup Password, Ask(kind, arg, new), OfPage(kind, screen),
           kind = "intake" => arg \in Period,
           kind = "password" => new \in Password,
           kind = "name" => arg \in Name /\ page'.saving,
           kind = "me" => page'.state = "loading",
           kind \in {"me", "name"} => \A c \in calls : ~(c.live /\ c.kind = kind)
    PROVE  PortalIInv'
PROOF
  <1> DEFINE d == Asking(kind, arg, new, cookie)
  <1>t. PortalTypeOK /\ IsFiniteSet(calls) /\ OneAwaited
    BY DEF PortalIInv
  <1>1. IsAsked(d, kind, arg, new, cookie)
    <2>1. cookie \in BOOLEAN
      BY <1>t DEF PortalTypeOK
    <2> QED BY <1>t, <2>1, AskingFacts
  <1>2. calls' = calls \cup {d}
    BY DEF Ask
  <1> HIDE DEF d
  <1>3. Asked1(d) /\ d.kind = kind
    BY <1>1 DEF IsAsked, Asked1
  <1>4. IsFiniteSet(calls')
    BY <1>2, <1>t, FS_AddElement
  <1>5. OneAwaited'
    BY <1>2, <1>3, <1>t DEF OneAwaited
  <1>6. FormFits' /\ ShownTogether' /\ SavedIsStored'
    BY DEF Still, PageMoves, FormFits, ShownTogether, SavedIsStored
  <1>7. \A c \in calls' : /\ c \in calls \/ Asked1(c)
                          /\ c.live /\ c.kind = "me" => page'.state = "loading"
                          /\ c.live /\ c.kind = "name" => page'.saving
    BY <1>2, <1>3 DEF StillAwaited
  <1>8. OnPage
    BY <1>4, <1>5, <1>6, <1>7 DEF OnPage, Still, PageMoves
  <1> QED BY <1>8, OnPageKeeps

\* Clicks and their bounds.
LEMMA ActFacts == PortalTypeOK => /\ Act => actions' \in 0 .. MaxActions
                                  /\ Fault => faults' \in 0 .. MaxFaults /\ faults' > 0
PROOF
  BY TabAssumption DEF PortalTypeOK, Act, Fault

\* A step that leaves all but the page and the calls alone.
LEMMA StillFacts ==
    ASSUME PortalIInv, UNCHANGED <<account, cookie, screen, histories, faults>>,
           actions' = actions \/ Act
    PROVE  Still
PROOF
  BY ActFacts DEF PortalIInv, PortalTypeOK, histories, Still

\* The login page: typing, signing in, a refusal and the lock.
LEMMA LoginKeeps ==
    ASSUME PortalIInv,
           \/ \E p \in Password : TypePassword(p)
           \/ HandleSubmit \/ CountDown
           \/ \E c \in calls : NotLoggedIn(c)
    PROVE  PortalIInv'
PROOF
  <1>t. PortalTypeOK /\ (screen = "login" => page \in LoginStates)
    BY DEF PortalIInv, PortalTypeOK
  <1>1. ASSUME screen = "login", page' \in LoginStates, page'.by = page.by
        PROVE  PageMoves /\ StillAwaited(calls)
    BY <1>1, OffProfile DEF PageMoves
  <1>2. ASSUME NEW p \in Password, TypePassword(p) PROVE PortalIInv'
    <2>1. Still /\ calls' = calls /\ screen = "login"
      BY <1>2, StillFacts DEF TypePassword, LoginForm
    <2>2. page' \in LoginStates /\ page'.by = page.by
      BY <1>2, <1>t, <2>1 DEF TypePassword, LoginStates
    <2> QED BY <1>1, <2>1, <2>2, DropKeeps
  <1>3. ASSUME HandleSubmit PROVE PortalIInv'
    <2>1. Still /\ screen = "login" /\ Ask("login", page.typed, None)
      BY <1>3, StillFacts DEF HandleSubmit, SubmitOffered, LoginForm
    <2>2. page' \in LoginStates /\ page'.by = page.by /\ page.typed \in {None} \cup Password
      BY <1>3, <1>t, <2>1 DEF HandleSubmit, LoginStates
    <2>3. "login" \in Kind /\ OfPage("login", screen)
      BY <2>1 DEF Kind, OfPage
    <2> QED BY <1>1, <2>1, <2>2, <2>3, AskKeeps
  <1>4. ASSUME CountDown PROVE PortalIInv'
    <2>1. Still /\ calls' = calls /\ screen = "login"
      BY <1>4, StillFacts DEF CountDown
    <2>2. page' \in LoginStates /\ page'.by = page.by
      BY <1>4, <1>t, <2>1, TabAssumption DEF CountDown, IsRateLimited, LoginStates
    <2> QED BY <1>1, <2>1, <2>2, DropKeeps
  <1>5. ASSUME NEW c \in calls, NotLoggedIn(c) PROVE PortalIInv'
    <2>1. Still /\ calls' = calls \ {c} /\ c.step \in {"refused", "limited", "failed"}
      BY <1>5, StillFacts DEF NotLoggedIn
    <2>2. screen = "login"
      BY <1>5 DEF NotLoggedIn, PortalIInv, CallsFit, Belongs, OfPage, Parts
    <2>3. page' \in LoginStates /\ page'.by = page.by
      <3> DEFINE typed == IF c.step = "refused" THEN None ELSE page.typed
                 countdown == IF c.step = "limited" THEN LockSeconds ELSE page.countdown
                 error == c.step
      <3>1. page \in LoginStates
        BY <1>t, <2>2
      <3>2. /\ typed \in Password \cup {None} /\ countdown \in 0 .. LockSeconds
            /\ error \in {"none", "refused", "limited", "failed"}
        BY <2>1, <3>1, TabAssumption DEF LoginStates
      <3>3. page' = [page EXCEPT !.busy = FALSE, !.error = error, !.typed = typed,
                                 !.countdown = countdown]
        BY <1>5 DEF NotLoggedIn
      <3> HIDE DEF typed, countdown, error
      <3> QED BY <3>1, <3>2, <3>3 DEF LoginStates
    <2>4. StillAwaited(calls \ {c})
      BY <1>1, <2>2, <2>3 DEF StillAwaited
    <2> QED BY <1>1, <2>1, <2>2, <2>3, <2>4, DropKeeps
  <1> QED BY <1>2, <1>3, <1>4, <1>5

\* The dashboard: its cards, its bars and their period.
LEMMA DashboardKeeps ==
    ASSUME PortalIInv,
           \/ \E p \in Period : SetActivePeriod(p)
           \/ RetryStats
           \/ \E c \in calls : IntakeAnswered(c) \/ StatsAnswered(c)
    PROVE  PortalIInv'
PROOF
  <1>t. PortalTypeOK /\ (screen = "dashboard" => page \in DashboardStates) /\ CallsFit
    BY DEF PortalIInv, PortalTypeOK
  <1>1. ASSUME screen = "dashboard", page' \in DashboardStates
        PROVE  PageMoves /\ StillAwaited(calls)
    BY <1>1, OffProfile DEF PageMoves
  <1>2. ASSUME NEW p \in Period, SetActivePeriod(p) PROVE PortalIInv'
    <2>1. Still /\ screen = "dashboard" /\ Ask("intake", p, None)
      BY <1>2, StillFacts DEF SetActivePeriod
    <2>2. page' \in DashboardStates
      BY <1>2, <1>t, <2>1 DEF SetActivePeriod, DashboardStates
    <2>3. "intake" \in Kind /\ OfPage("intake", screen)
      BY <2>1 DEF Kind, Reads, OfPage
    <2> QED BY <1>1, <2>1, <2>2, <2>3, AskKeeps
  <1>3. ASSUME RetryStats PROVE PortalIInv'
    <2>1. Still /\ screen = "dashboard" /\ Ask("stats", None, None)
      BY <1>3, StillFacts DEF RetryStats
    <2>2. page' \in DashboardStates
      BY <1>3, <1>t, <2>1 DEF RetryStats, DashboardStates
    <2>3. "stats" \in Kind /\ OfPage("stats", screen)
      BY <2>1 DEF Kind, Reads, OfPage
    <2> QED BY <1>1, <2>1, <2>2, <2>3, AskKeeps
  <1>4. ASSUME NEW c \in calls, IntakeAnswered(c) PROVE PortalIInv'
    <2>1. Still /\ calls' = calls \ {c}
      BY <1>4, StillFacts DEF IntakeAnswered
    <2>2. screen = "dashboard" /\ c.arg \in Period
      BY <1>4, <1>t DEF IntakeAnswered, CallsFit, Belongs, Carries, OfPage, Parts
    <2>3. page' \in DashboardStates
      BY <1>4, <1>t, <2>2 DEF IntakeAnswered, DashboardStates
    <2>4. StillAwaited(calls \ {c})
      BY <1>1, <2>2, <2>3 DEF StillAwaited
    <2> QED BY <1>1, <2>1, <2>2, <2>3, <2>4, DropKeeps
  <1>5. ASSUME NEW c \in calls, StatsAnswered(c) PROVE PortalIInv'
    <2>1. Still /\ calls' = calls \ {c}
      BY <1>5, StillFacts DEF StatsAnswered
    <2>2. screen = "dashboard"
      BY <1>5, <1>t DEF StatsAnswered, CallsFit, Belongs, OfPage, Parts
    <2>3. page' \in DashboardStates
      BY <1>5, <1>t, <2>2 DEF StatsAnswered, DashboardStates
    <2>4. StillAwaited(calls \ {c})
      BY <1>1, <2>2, <2>3 DEF StillAwaited
    <2> QED BY <1>1, <2>1, <2>2, <2>3, <2>4, DropKeeps
  <1> QED BY <1>2, <1>3, <1>4, <1>5

\* An answer without a token leads to the login page.
LEMMA UnauthorizedKeeps ==
    ASSUME PortalIInv, NEW c \in calls, ShowLogin("router", calls \ {c}),
           UNCHANGED <<account, cookie, ours, applied, actions, faults>>
    PROVE  PortalIInv'
PROOF
  <1>1. Departs
    BY DEF PortalIInv, PortalTypeOK, histories, Departs
  <1>2. calls \ {c} \in SUBSET calls
    OBVIOUS
  <1> QED BY <1>1, <1>2, ShowLoginKeeps

\* The map: its pins and its filters.
LEMMA MapKeeps ==
    ASSUME PortalIInv,
           \/ RetryReports
           \/ \E category \in BOOLEAN, state \in BOOLEAN : SetMapFilter(category, state)
           \/ \E c \in calls : ReportsAnswered(c)
    PROVE  PortalIInv'
PROOF
  <1>t. PortalTypeOK /\ (screen = "map" => page \in MapStates) /\ CallsFit
    BY DEF PortalIInv, PortalTypeOK
  <1>1. ASSUME screen = "map", page' \in MapStates
        PROVE  PageMoves /\ StillAwaited(calls)
    BY <1>1, OffProfile DEF PageMoves
  <1>2. ASSUME RetryReports PROVE PortalIInv'
    <2>1. Still /\ screen = "map" /\ Ask("reports", None, None)
      BY <1>2, StillFacts DEF RetryReports, MapError
    <2>2. page' \in MapStates
      BY <1>2, <1>t, <2>1 DEF RetryReports, MapStates
    <2>3. "reports" \in Kind /\ OfPage("reports", screen)
      BY <2>1 DEF Kind, Reads, OfPage
    <2> QED BY <1>1, <2>1, <2>2, <2>3, AskKeeps
  <1>3. ASSUME NEW category \in BOOLEAN, NEW state \in BOOLEAN, SetMapFilter(category, state)
        PROVE  PortalIInv'
    <2>1. Still /\ screen = "map" /\ calls' = calls
      BY <1>3, StillFacts DEF SetMapFilter, MapShown
    <2>2. page' \in MapStates
      <3>1. page \in MapStates /\ page' = [page EXCEPT !.category = category, !.status = state]
        BY <1>3, <1>t, <2>1 DEF SetMapFilter
      <3> QED BY <3>1 DEF MapStates
    <2> QED BY <1>1, <2>1, <2>2, DropKeeps
  <1>4. ASSUME NEW c \in calls, ReportsAnswered(c) PROVE PortalIInv'
    <2>1. screen = "map"
      BY <1>4, <1>t DEF ReportsAnswered, CallsFit, Belongs, OfPage, Parts
    <2>2. CASE c.step = "unauthorized"
      BY <1>4, <2>2, UnauthorizedKeeps DEF ReportsAnswered
    <2>3. CASE c.step # "unauthorized"
      <3>1. Still /\ calls' = calls \ {c}
        BY <1>4, <2>3, StillFacts DEF ReportsAnswered, histories
      <3>2. page' \in MapStates
        BY <1>4, <1>t, <2>1, <2>3 DEF ReportsAnswered, MapStates
      <3>3. StillAwaited(calls \ {c})
        BY <1>1, <2>1, <3>2 DEF StillAwaited
      <3> QED BY <1>1, <2>1, <3>1, <3>2, <3>3, DropKeeps
    <2> QED BY <2>2, <2>3
  <1> QED BY <1>2, <1>3, <1>4

\* Analytics: its three parts come together, its boundaries by themselves.
LEMMA AnalyticsKeeps ==
    ASSUME PortalIInv,
           \/ RetryAnalytics
           \/ \E selected \in BOOLEAN : SelectWard(selected)
           \/ \E c \in calls : PartAnswered(c) \/ PartFailed(c) \/ ChoroplethMap(c)
    PROVE  PortalIInv'
PROOF
  <1>t. /\ PortalTypeOK /\ CallsFit /\ IsFiniteSet(calls) /\ OneAwaited
        /\ screen = "analytics" => /\ page \in AnalyticsStates
                                   /\ \A p, q \in Parts : page.shown[p] = page.shown[q]
    BY DEF PortalIInv, PortalTypeOK, ShownTogether
  <1>1. ASSUME screen = "analytics", page' \in AnalyticsStates,
               \A p, q \in Parts : page'.shown[p] = page'.shown[q]
        PROVE  PageMoves /\ StillAwaited(calls)
    BY <1>1, OffProfile DEF PageMoves
  <1>2. ASSUME NEW selected \in BOOLEAN, SelectWard(selected) PROVE PortalIInv'
    <2>1. Still /\ screen = "analytics" /\ calls' = calls
      BY <1>2, StillFacts DEF SelectWard, PartsShown
    <2>2. page \in AnalyticsStates /\ page' = [page EXCEPT !.ward = selected]
      BY <1>2, <1>t, <2>1 DEF SelectWard
    <2>3. page' \in AnalyticsStates /\ page'.shown = page.shown
      BY <2>2 DEF AnalyticsStates
    <2> QED BY <1>1, <1>t, <2>1, <2>3, DropKeeps
  <1>3. ASSUME NEW c \in calls, PartAnswered(c) PROVE PortalIInv'
    <2>1. Still /\ calls' = calls \ {c} /\ c.kind \in Parts
      BY <1>3, StillFacts DEF PartAnswered
    <2>2. screen = "analytics"
      BY <1>3, <1>t DEF PartAnswered, CallsFit, Belongs, OfPage, Parts
    <2> DEFINE got == page.got \cup {c.kind}
               shown == [p \in Parts |-> page.fetch]
    <2>3. got \in SUBSET Parts /\ shown \in [Parts -> Nat]
      BY <2>1, <2>2, <1>t DEF AnalyticsStates
    <2>4. /\ page' = [page EXCEPT !.got = got, !.state = "data", !.shown = shown]
             \/ page' = [page EXCEPT !.got = got]
      BY <1>3 DEF PartAnswered
    <2>5. \A p, q \in Parts : shown[p] = shown[q]
      OBVIOUS
    <2> HIDE DEF got, shown
    <2>6. page' \in AnalyticsStates /\ page'.shown \in {page.shown, shown}
      BY <1>t, <2>2, <2>3, <2>4 DEF AnalyticsStates
    <2>7. \A p, q \in Parts : page'.shown[p] = page'.shown[q]
      BY <2>2, <2>5, <2>6, <1>t
    <2>8. StillAwaited(calls \ {c})
      BY <1>1, <2>2, <2>6, <2>7 DEF StillAwaited
    <2> QED BY <1>1, <2>1, <2>2, <2>6, <2>7, <2>8, DropKeeps
  <1>4. ASSUME NEW c \in calls, PartFailed(c) PROVE PortalIInv'
    <2> DEFINE cs == {d \in calls : d.kind \notin Parts}
    <2>1. Still /\ calls' = cs
      BY <1>4, StillFacts DEF PartFailed
    <2>2. screen = "analytics"
      BY <1>4, <1>t DEF PartFailed, CallsFit, Belongs, OfPage, Parts
    <2>3. page \in AnalyticsStates /\ page' = [page EXCEPT !.state = "error"]
      BY <1>4, <1>t, <2>2 DEF PartFailed
    <2>4. page' \in AnalyticsStates /\ page'.shown = page.shown
      BY <2>3 DEF AnalyticsStates
    <2>5. StillAwaited(cs)
      BY <1>1, <1>t, <2>2, <2>4 DEF StillAwaited
    <2> QED BY <1>1, <1>t, <2>1, <2>2, <2>4, <2>5, DropKeeps
  <1>5. ASSUME NEW c \in calls, ChoroplethMap(c) PROVE PortalIInv'
    <2>1. Still /\ calls' = calls \ {c}
      BY <1>5, StillFacts DEF ChoroplethMap
    <2>2. screen = "analytics"
      BY <1>5, <1>t DEF ChoroplethMap, CallsFit, Belongs, OfPage, Parts
    <2>3. page \in AnalyticsStates
          /\ page' = [page EXCEPT !.map = IF c.step = "done" THEN "data" ELSE "error"]
      BY <1>5, <1>t, <2>2 DEF ChoroplethMap
    <2>4. page' \in AnalyticsStates /\ page'.shown = page.shown
      BY <2>3 DEF AnalyticsStates
    <2>5. StillAwaited(calls \ {c})
      BY <1>1, <1>t, <2>2, <2>4 DEF StillAwaited
    <2> QED BY <1>1, <1>t, <2>1, <2>2, <2>4, <2>5, DropKeeps
  <1>6. ASSUME RetryAnalytics PROVE PortalIInv'
    <2>1. Still /\ screen = "analytics"
      BY <1>6, StillFacts DEF RetryAnalytics, AnalyticsError, PartsShown
    <2> DEFINE N == {Asking(p, None, None, cookie) : p \in Parts}
               fetch == page.fetch + 1
    <2>2. calls' = calls \cup N /\ page \in AnalyticsStates /\ fetch \in Nat
          /\ page' = [page EXCEPT !.state = "loading", !.fetch = fetch, !.got = {}]
      BY <1>6, <1>t, <2>1 DEF RetryAnalytics, AnalyticsStates
    <2> HIDE DEF fetch
    <2>3. page' \in AnalyticsStates /\ page'.shown = page.shown
      <3>1. {} \in SUBSET Parts
        OBVIOUS
      <3> QED BY <2>2, <3>1 DEF AnalyticsStates
    <2>4. ASSUME NEW p \in Parts
          PROVE  Asked1(Asking(p, None, None, cookie)) /\ Asking(p, None, None, cookie).kind = p
      <3>1. p \in Kind /\ None \in {None} \cup Password /\ cookie \in BOOLEAN
            /\ None \in {None} \cup Period \cup Name \cup Password
        BY <1>t DEF Kind, Reads, PortalTypeOK
      <3>2. IsAsked(Asking(p, None, None, cookie), p, None, None, cookie)
        BY <3>1, <1>t, AskingFacts
      <3>3. OfPage(p, screen) /\ p \notin {"intake", "password", "name"}
        BY <2>1 DEF OfPage, Parts
      <3> QED BY <3>2, <3>3 DEF IsAsked, Asked1
    <2>5. IsFiniteSet(N)
      <3> DEFINE f == [p \in Parts |-> Asking(p, None, None, cookie)]
      <3>1. f \in Surjection(Parts, N)
        BY DEF Surjection
      <3>2. IsFiniteSet(Parts)
        <4>1. \A x : IsFiniteSet({x})
          BY FS_Singleton
        <4>2. IsFiniteSet({"wards"} \cup {"corps"})
          BY <4>1, FS_Union
        <4>3. IsFiniteSet({"wards", "corps"} \cup {"trend"})
          BY <4>1, <4>2, FS_Union
        <4> QED BY <4>3 DEF Parts
      <3> QED BY <3>1, <3>2, FS_Surjection
    <2>6. \A c \in N : Asked1(c) /\ c.kind \in Parts
      BY <2>4
    <2> HIDE DEF N
    <2>7. IsFiniteSet(calls')
      BY <2>2, <2>5, <1>t, FS_Union
    <2>8. PageMoves /\ StillAwaited(calls)
      BY <1>1, <1>t, <2>1, <2>3
    <2>9. FormFits' /\ ShownTogether' /\ SavedIsStored'
      BY <2>1, <2>8 DEF Still, PageMoves, FormFits, ShownTogether, SavedIsStored
    <2>10. \A c \in calls' : /\ c \in calls \/ Asked1(c)
                             /\ c.live /\ c.kind = "me" => page'.state = "loading"
                             /\ c.live /\ c.kind = "name" => page'.saving
      BY <2>2, <2>6, <2>8 DEF StillAwaited, Parts
    <2>11. OneAwaited'
      BY <2>2, <2>6, <1>t DEF OneAwaited, Parts
    <2>12. OnPage
      BY <2>7, <2>8, <2>9, <2>10, <2>11, <2>1 DEF OnPage, Still, PageMoves
    <2> QED BY <2>12, OnPageKeeps
  <1> QED BY <1>2, <1>3, <1>4, <1>5, <1>6

\* What is known of the profile page while it is open.
LEMMA ProfileFacts ==
    ASSUME PortalIInv, screen = "profile"
    PROVE  /\ page \in ProfileStates /\ FormFits /\ SavedIsStored /\ OneAwaited
           /\ \A c \in calls : Carries(c) /\ Belongs(c) /\ Awaited(c)
PROOF
  BY DEF PortalIInv, PortalTypeOK, CallsFit

\* The profile page's own calls are answered on it.
LEMMA OfProfile ==
    ASSUME PortalIInv, NEW c \in calls, c.live, c.kind \in {"me", "name", "password"}
    PROVE  screen = "profile"
PROOF
  BY DEF PortalIInv, CallsFit, Belongs, OfPage, Parts

\* The profile is read, and read again when that failed.
LEMMA LoadingKeeps ==
    ASSUME PortalIInv, RetryProfile \/ \E c \in calls : Loaded(c)
    PROVE  PortalIInv'
PROOF
  <1>1. ASSUME RetryProfile PROVE PortalIInv'
    <2>1. Still /\ screen = "profile" /\ page.state = "error" /\ Ask("me", None, None)
      BY <1>1, StillFacts DEF RetryProfile, ProfileError
    <2>2. /\ page \in ProfileStates /\ FormFits
          /\ \A c \in calls : Carries(c) /\ Belongs(c) /\ Awaited(c)
      BY <2>1, ProfileFacts
    <2>3. page' = [page EXCEPT !.state = "loading"]
      BY <1>1 DEF RetryProfile
    <2>4. /\ page' \in ProfileStates /\ page'.state = "loading" /\ page'.saving = page.saving
          /\ page'.said = page.said
      BY <2>2, <2>3 DEF ProfileStates
    <2>5. ~page.saving /\ page.said = "none"
      BY <2>1, <2>2 DEF FormFits
    <2>6. PageMoves
      BY <2>1, <2>4, <2>5 DEF PageMoves, Still, FormFits, SavedIsStored
    <2>7. \A c \in calls : ~(c.live /\ c.kind \in {"me", "name"})
      BY <2>1, <2>2, <2>5 DEF Awaited
    <2>8. StillAwaited(calls)
      BY <2>7 DEF StillAwaited
    <2>9. "me" \in Kind /\ OfPage("me", screen)
      BY <2>1 DEF Kind, OfPage
    <2> QED BY <2>1, <2>4, <2>6, <2>7, <2>8, <2>9, AskKeeps
  <1>2. ASSUME NEW c \in calls, Loaded(c) PROVE PortalIInv'
    <2>1. screen = "profile" /\ c.live /\ c.kind = "me"
      BY <1>2, OfProfile DEF Loaded
    <2>2. /\ page \in ProfileStates /\ FormFits /\ OneAwaited /\ Carries(c)
          /\ \A d \in calls : Awaited(d)
      BY <2>1, ProfileFacts
    <2>3. page.state = "loading" /\ ~page.saving /\ page.said = "none"
      BY <2>1, <2>2 DEF Awaited, FormFits
    <2>4. CASE c.step = "unauthorized"
      BY <1>2, <2>4, UnauthorizedKeeps DEF Loaded
    <2>5. CASE c.step # "unauthorized"
      <3>1. Still /\ calls' = calls \ {c}
        BY <1>2, <2>5, StillFacts DEF Loaded, histories
      <3>2. \A d \in calls \ {c} : ~(d.live /\ d.kind \in {"me", "name"})
        BY <2>1, <2>2, <2>3 DEF OneAwaited, Awaited
      <3>3. /\ page' \in ProfileStates /\ page'.saving = page.saving /\ page'.said = page.said
            /\ page'.state = "data" => page'.displayName \in Name /\ page'.initialName \in Name
        <4>1. CASE c.step = "done"
          <5>1. c.ans \in Name
            BY <4>1, <2>1, <2>2 DEF Carries
          <5>2. page' = [page EXCEPT !.state = "data", !.displayName = c.ans,
                                     !.initialName = c.ans]
            BY <1>2, <2>5, <4>1 DEF Loaded
          <5> QED BY <5>1, <5>2, <2>2 DEF ProfileStates
        <4>2. CASE c.step # "done"
          <5>1. page' = [page EXCEPT !.state = "error"]
            BY <1>2, <2>5, <4>2 DEF Loaded
          <5> QED BY <5>1, <2>2 DEF ProfileStates
        <4> QED BY <4>1, <4>2
      <3>4. PageMoves
        BY <2>1, <2>3, <3>1, <3>3 DEF PageMoves, Still, FormFits, SavedIsStored
      <3>5. StillAwaited(calls \ {c})
        BY <3>2 DEF StillAwaited
      <3> QED BY <3>1, <3>4, <3>5, DropKeeps
    <2> QED BY <2>4, <2>5
  <1> QED BY <1>1, <1>2

\* The form with the name: typing, saving, and the answer.
LEMMA NameKeeps ==
    ASSUME PortalIInv,
           \/ \E n \in Name : SetDisplayName(n)
           \/ HandleSaveProfile
           \/ \E c \in calls : NameAnswered(c)
    PROVE  PortalIInv'
PROOF
  <1>1. ASSUME NEW n \in Name, SetDisplayName(n) PROVE PortalIInv'
    <2>1. Still /\ screen = "profile" /\ page.state = "data" /\ calls' = calls
      BY <1>1, StillFacts DEF SetDisplayName, ProfileShown
    <2>2. page \in ProfileStates /\ FormFits /\ \A c \in calls : Awaited(c)
      BY <2>1, ProfileFacts
    <2>3. page' = [page EXCEPT !.displayName = n, !.said = "none"]
      BY <1>1 DEF SetDisplayName
    <2>4. /\ page' \in ProfileStates /\ page'.state = page.state /\ page'.saving = page.saving
          /\ page'.said = "none" /\ page'.displayName = n /\ page'.initialName = page.initialName
      BY <2>2, <2>3 DEF ProfileStates
    <2>5. PageMoves
      BY <2>1, <2>2, <2>4 DEF PageMoves, Still, FormFits, SavedIsStored
    <2>6. StillAwaited(calls)
      BY <2>2, <2>4 DEF StillAwaited, Awaited
    <2> QED BY <2>1, <2>5, <2>6, DropKeeps
  <1>2. ASSUME HandleSaveProfile PROVE PortalIInv'
    <2>1. /\ Still /\ screen = "profile" /\ page.state = "data" /\ ~page.saving
          /\ Ask("name", page.displayName, None)
      BY <1>2, StillFacts DEF HandleSaveProfile, SaveOffered, ProfileShown
    <2>2. page \in ProfileStates /\ FormFits /\ \A c \in calls : Awaited(c)
      BY <2>1, ProfileFacts
    <2>3. page' = [page EXCEPT !.saving = TRUE, !.said = "none"]
      BY <1>2 DEF HandleSaveProfile
    <2>4. /\ page' \in ProfileStates /\ page'.state = page.state /\ page'.saving
          /\ page'.said = "none" /\ page'.displayName = page.displayName
          /\ page'.initialName = page.initialName
      BY <2>2, <2>3 DEF ProfileStates
    <2>5. PageMoves
      BY <2>1, <2>2, <2>4 DEF PageMoves, Still, FormFits, SavedIsStored
    <2>6. \A c \in calls : ~(c.live /\ c.kind \in {"me", "name"})
      BY <2>1, <2>2 DEF Awaited
    <2>7. StillAwaited(calls)
      BY <2>6 DEF StillAwaited
    <2>8. "name" \in Kind /\ OfPage("name", screen) /\ page.displayName \in Name
      BY <2>1, <2>2 DEF Kind, OfPage, FormFits
    <2> QED BY <2>1, <2>4, <2>5, <2>6, <2>7, <2>8, AskKeeps
  <1>3. ASSUME NEW c \in calls, NameAnswered(c) PROVE PortalIInv'
    <2>1. screen = "profile" /\ c.live /\ c.kind = "name"
      BY <1>3, OfProfile DEF NameAnswered
    <2>2. /\ page \in ProfileStates /\ FormFits /\ OneAwaited /\ Carries(c)
          /\ \A d \in calls : Awaited(d)
      BY <2>1, ProfileFacts
    <2>3. page.state = "data" /\ page.saving
          /\ page.displayName \in Name /\ page.initialName \in Name
      BY <2>1, <2>2 DEF Awaited, FormFits
    <2>4. CASE c.step = "unauthorized"
      BY <1>3, <2>4, UnauthorizedKeeps DEF NameAnswered
    <2>5. CASE c.step # "unauthorized"
      <3>1. Still /\ calls' = calls \ {c}
        BY <1>3, <2>5, StillFacts DEF NameAnswered, histories
      <3>2. \A d \in calls \ {c} : ~(d.live /\ d.kind \in {"me", "name"})
        BY <2>1, <2>2, <2>3 DEF OneAwaited, Awaited
      <3>3. /\ page' \in ProfileStates /\ page'.state = "data" /\ page'.saving = FALSE
            /\ page'.displayName \in Name /\ page'.initialName \in Name
            /\ page'.said = "saved" /\ ours =>
                  page'.displayName = name /\ page'.initialName = name
        <4>1. CASE c.step = "done"
          <5>1. c.ans \in Name /\ (ours => c.ans = name)
            BY <4>1, <2>1, <2>2 DEF Carries, Awaited
          <5>2. page' = [page EXCEPT !.saving = FALSE, !.said = "saved",
                                     !.displayName = c.ans, !.initialName = c.ans]
            BY <1>3, <2>5, <4>1 DEF NameAnswered
          <5> QED BY <5>1, <5>2, <2>2, <2>3 DEF ProfileStates
        <4>2. CASE c.step # "done"
          <5>1. page' = [page EXCEPT !.saving = FALSE, !.said = "failed"]
            BY <1>3, <2>5, <4>2 DEF NameAnswered
          <5> QED BY <5>1, <2>2, <2>3 DEF ProfileStates
        <4> QED BY <4>1, <4>2
      <3>4. PageMoves
        BY <2>1, <3>1, <3>3 DEF PageMoves, Still, account, FormFits, SavedIsStored
      <3>5. StillAwaited(calls \ {c})
        BY <3>2 DEF StillAwaited
      <3> QED BY <3>1, <3>4, <3>5, DropKeeps
    <2> QED BY <2>4, <2>5
  <1> QED BY <1>1, <1>2, <1>3

\* The form with the passwords does not touch the other.
LEMMA OtherForm ==
    ASSUME PortalIInv, Still, screen = "profile", page' \in ProfileStates,
           page'.state = page.state, page'.saving = page.saving, page'.said = page.said,
           page'.displayName = page.displayName, page'.initialName = page.initialName
    PROVE  PageMoves /\ StillAwaited(calls)
PROOF
  <1>1. /\ FormFits /\ SavedIsStored
        /\ \A c \in calls : Awaited(c)
    BY ProfileFacts
  <1>2. PageMoves
    BY <1>1 DEF PageMoves, Still, account, FormFits, SavedIsStored
  <1> QED BY <1>1, <1>2 DEF StillAwaited, Awaited

\* The form with the passwords: typing, sending, and the answer.
LEMMA PasswordKeeps ==
    ASSUME PortalIInv,
           \/ \E p \in Password, q \in Password, same \in BOOLEAN : TypePasswords(p, q, same)
           \/ HandleChangePassword
           \/ \E c \in calls : PasswordAnswered(c)
    PROVE  PortalIInv'
PROOF
  <1>1. ASSUME NEW p \in Password, NEW q \in Password, NEW same \in BOOLEAN,
               TypePasswords(p, q, same)
        PROVE  PortalIInv'
    <2>1. Still /\ screen = "profile" /\ calls' = calls
      BY <1>1, StillFacts DEF TypePasswords, ProfileShown
    <2>2. page \in ProfileStates
      BY <2>1, ProfileFacts
    <2>3. page' = [page EXCEPT !.current = p, !.next = q, !.confirmed = same, !.told = "none"]
      BY <1>1 DEF TypePasswords
    <2>4. /\ page' \in ProfileStates
          /\ page'.state = page.state /\ page'.saving = page.saving /\ page'.said = page.said
          /\ page'.displayName = page.displayName /\ page'.initialName = page.initialName
      BY <2>2, <2>3 DEF ProfileStates
    <2>5. PageMoves /\ StillAwaited(calls)
      BY <2>1, <2>4, OtherForm
    <2> QED BY <2>1, <2>5, DropKeeps
  <1>2. ASSUME HandleChangePassword PROVE PortalIInv'
    <2>1. screen = "profile" /\ page.current # None /\ page.next # None
      BY <1>2 DEF HandleChangePassword, ChangeOffered, ProfileShown
    <2>2. page \in ProfileStates
      BY <2>1, ProfileFacts
    <2>3. Still
      <3>1. PortalTypeOK
        BY DEF PortalIInv
      <3>2. applied' \in BOOLEAN
        BY <1>2, <3>1 DEF HandleChangePassword, PortalTypeOK, histories
      <3> QED BY <1>2, <3>1, <3>2 DEF HandleChangePassword, PortalTypeOK, Still
    <2>4. CASE page.confirmed
      <3>1. page' = [page EXCEPT !.changing = TRUE, !.told = "none"]
            /\ Ask("password", page.current, page.next)
        BY <1>2, <2>4 DEF HandleChangePassword
      <3>2. /\ page' \in ProfileStates
            /\ page'.state = page.state /\ page'.saving = page.saving /\ page'.said = page.said
            /\ page'.displayName = page.displayName /\ page'.initialName = page.initialName
        BY <2>2, <3>1 DEF ProfileStates
      <3>3. PageMoves /\ StillAwaited(calls)
        BY <2>1, <2>3, <3>2, OtherForm
      <3>4. /\ "password" \in Kind /\ OfPage("password", screen)
            /\ page.current \in Password /\ page.next \in Password
        BY <2>1, <2>2 DEF Kind, OfPage, ProfileStates
      <3> QED BY <2>3, <3>1, <3>3, <3>4, AskKeeps
    <2>5. CASE ~page.confirmed
      <3>1. page' = [page EXCEPT !.told = "mismatch"] /\ calls' = calls
        BY <1>2, <2>5 DEF HandleChangePassword
      <3>2. /\ page' \in ProfileStates
            /\ page'.state = page.state /\ page'.saving = page.saving /\ page'.said = page.said
            /\ page'.displayName = page.displayName /\ page'.initialName = page.initialName
        BY <2>2, <3>1 DEF ProfileStates
      <3>3. PageMoves /\ StillAwaited(calls)
        BY <2>1, <2>3, <3>2, OtherForm
      <3> QED BY <2>3, <3>1, <3>3, DropKeeps
    <2> QED BY <2>4, <2>5
  <1>3. ASSUME NEW c \in calls, PasswordAnswered(c) PROVE PortalIInv'
    <2>1. Still /\ screen = "profile" /\ calls' = calls \ {c}
      BY <1>3, StillFacts, OfProfile DEF PasswordAnswered
    <2>2. page \in ProfileStates
      BY <2>1, ProfileFacts
    <2>3. PICK told \in {"updated", "failed"} :
             page' = [page EXCEPT !.changing = FALSE, !.current = None, !.next = None,
                                  !.confirmed = FALSE, !.told = told]
      BY <1>3 DEF PasswordAnswered
    <2>4. /\ page' \in ProfileStates
          /\ page'.state = page.state /\ page'.saving = page.saving /\ page'.said = page.said
          /\ page'.displayName = page.displayName /\ page'.initialName = page.initialName
      BY <2>2, <2>3 DEF ProfileStates
    <2>5. PageMoves /\ StillAwaited(calls)
      BY <2>1, <2>4, OtherForm
    <2>6. StillAwaited(calls \ {c})
      BY <2>5 DEF StillAwaited
    <2> QED BY <2>1, <2>5, <2>6, DropKeeps
  <1> QED BY <1>1, <1>2, <1>3

\* Signing out is asked on the page that is open.
LEMMA HandleLogoutKeeps == PortalIInv /\ HandleLogout => PortalIInv'
PROOF
  <1> SUFFICES ASSUME PortalIInv, HandleLogout PROVE PortalIInv'
    OBVIOUS
  <1>1. Still /\ page' = page /\ Ask("logout", None, None)
    BY StillFacts DEF HandleLogout
  <1>2. /\ PortalTypeOK /\ FormFits /\ ShownTogether /\ SavedIsStored
        /\ \A c \in calls : Awaited(c)
    BY DEF PortalIInv, CallsFit
  <1>3. PageMoves
    <2>1. FormFits' /\ SavedIsStored'
      BY <1>1, <1>2 DEF Still, account, FormFits, SavedIsStored
    <2> QED BY <1>1, <1>2, <2>1 DEF PageMoves, PortalTypeOK, ShownTogether
  <1>4. StillAwaited(calls)
    BY <1>1, <1>2 DEF StillAwaited, Awaited
  <1>5. "logout" \in Kind /\ OfPage("logout", screen)
    BY DEF Kind, OfPage
  <1> QED BY <1>1, <1>3, <1>4, <1>5, AskKeeps

-----------------------------------------------------------------------------
(* Loading pages, signing in and out.                                      *)

\* A link or an address leads to a page or to the login page.
LEMMA OpeningKeeps ==
    ASSUME PortalIInv,
           (\E s \in Screens : Open(s)) \/ OpenUnverified \/ OpenLogin \/ OpenProfile
    PROVE  PortalIInv'
PROOF
  <1>t. PortalTypeOK
    BY DEF PortalIInv
  <1>1. Departs
    <2>1. applied \in BOOLEAN
      BY <1>t DEF PortalTypeOK, histories
    <2> QED BY <1>t, <2>1, ActFacts DEF Open, OpenUnverified, OpenLogin, OpenProfile,
                                        PortalTypeOK, Departs
  <1>2. calls \in SUBSET calls
    OBVIOUS
  <1>3. ASSUME NEW s \in Screens, Open(s) PROVE PortalIInv'
    <2>1. CASE cookie
      <3>1. Show(s, calls, FALSE)
        BY <1>3, <2>1 DEF Open
      <3> QED BY <1>1, <1>2, <3>1, ShowKeeps
    <2>2. CASE ~cookie
      <3>1. ShowLogin("guard", calls)
        BY <1>3, <2>2 DEF Open
      <3> QED BY <1>1, <1>2, <3>1, ShowLoginKeeps
    <2> QED BY <2>1, <2>2
  <1>4. ASSUME OpenUnverified PROVE PortalIInv'
    BY <1>1, <1>2, <1>4, ShowLoginKeeps DEF OpenUnverified
  <1>5. ASSUME OpenLogin PROVE PortalIInv'
    BY <1>1, <1>2, <1>5, ShowLoginKeeps DEF OpenLogin
  <1>6. ASSUME OpenProfile PROVE PortalIInv'
    <2>1. cookie' = cookie /\ "profile" \in Screens
      BY <1>6 DEF OpenProfile, Screens
    <2>2. CASE cookie
      <3>1. Show("profile", calls, TRUE)
        BY <1>6, <2>2 DEF OpenProfile
      <3> QED BY <1>1, <1>2, <2>1, <3>1, ShowKeeps
    <2>3. CASE ~cookie
      <3>1. ShowLogin("router", calls)
        BY <1>6, <2>3 DEF OpenProfile
      <3> QED BY <1>1, <1>2, <2>1, <3>1, ShowLoginKeeps
    <2> QED BY <2>2, <2>3
  <1> QED BY <1>3, <1>4, <1>5, <1>6

\* The dashboard follows a sign-in, the login page a sign-out.
LEMMA SigningKeeps ==
    ASSUME PortalIInv, NEW c \in calls, LoggedIn(c) \/ LoggedOut(c)
    PROVE  PortalIInv'
PROOF
  <1>t. PortalTypeOK /\ CallsFit
    BY DEF PortalIInv
  <1>1. Departs
    <2>1. applied \in BOOLEAN
      BY <1>t DEF PortalTypeOK, histories
    <2>2. cookie' \in BOOLEAN
      BY DEF LoggedIn, LoggedOut
    <2> QED BY <1>t, <2>1, <2>2 DEF LoggedIn, LoggedOut, PortalTypeOK, Departs
  <1>2. calls \ {c} \in SUBSET calls
    OBVIOUS
  <1>3. CASE LoggedIn(c)
    <2>1. "dashboard" \in Screens /\ Show("dashboard", calls \ {c}, FALSE)
      BY <1>3 DEF Screens, LoggedIn
    <2> QED BY <1>1, <1>2, <2>1, ShowKeeps
  <1>4. CASE LoggedOut(c)
    <2>1. /\ c.kind = "logout" /\ c.live /\ c.step \notin Underway
          /\ cookie' = (cookie /\ c.step # "unreadable") /\ faults' = faults
          /\ ShowLogin("logout", calls \ {c})
      BY <1>4 DEF LoggedOut
    <2>2. Carries(c) /\ Belongs(c) /\ TokenKnown(c)
      BY <1>t DEF CallsFit
    <2>3. c.step \in {"unauthorized", "unreadable", "failed"}
      BY <2>1, <2>2 DEF Carries, Underway
    <2>4. ASSUME faults' = 0, ~leftLogin' PROVE ~cookie'
      <3>1. ~leftLogin
        BY <2>1, <2>4 DEF ShowLogin, Leaving
      <3>2. CASE c.step = "unreadable"
        BY <2>1, <3>2
      <3>3. CASE c.step = "unauthorized"
        <4>1. ~c.auth
          BY <2>2, <3>3 DEF Carries
        <4> QED BY <2>1, <2>2, <2>4, <3>1, <4>1 DEF TokenKnown
      <3>4. CASE c.step = "failed"
        BY <1>t, <2>1, <2>2, <2>4, <3>4 DEF Belongs, PortalTypeOK
      <3> QED BY <2>3, <3>2, <3>3, <3>4
    <2> QED BY <1>1, <1>2, <2>1, <2>4, ShowLoginKeeps
  <1> QED BY <1>3, <1>4

\* The token expires, also in the calls that carry it.
LEMMA ExpireKeeps == PortalIInv /\ Expire => PortalIInv'
PROOF
  <1> SUFFICES ASSUME PortalIInv, Expire PROVE PortalIInv'
    OBVIOUS
  <1>t. /\ PortalTypeOK /\ IsFiniteSet(calls) /\ CallsFit /\ OneAwaited
        /\ FormFits /\ ShownTogether /\ SavedIsStored
    BY DEF PortalIInv
  <1> DEFINE f == [c \in calls |-> [c EXCEPT !.auth = FALSE]]
  <1>1. /\ calls' = {f[c] : c \in calls} /\ cookie' = FALSE
        /\ UNCHANGED <<name, password, screen, page, leftLogin, ours, applied,
                       actions, faults>>
    BY DEF Expire, account, histories
  <1>2. ASSUME NEW c \in calls
        PROVE  /\ f[c] \in Call /\ f[c].auth = FALSE
               /\ f[c].kind = c.kind /\ f[c].arg = c.arg /\ f[c].new = c.new
               /\ f[c].live = c.live /\ f[c].step = c.step /\ f[c].ans = c.ans
    <2>1. c \in Call
      BY <1>t DEF PortalTypeOK
    <2> QED BY <2>1 DEF Call
  <1> HIDE DEF f
  <1>3. IsFiniteSet(calls')
    BY <1>1, <1>t, ImageFinite
  <1>4. PortalTypeOK'
    <2>1. calls' \subseteq Call
      BY <1>1, <1>2
    <2> QED BY <1>1, <1>t, <2>1 DEF PortalTypeOK, histories
  <1>5. CallsFit'
    <2> SUFFICES ASSUME NEW d \in calls'
                 PROVE  Carries(d) /\ (Belongs(d) /\ TokenKnown(d) /\ Awaited(d))'
      BY DEF CallsFit, Carries
    <2>1. PICK c \in calls : d = f[c]
      BY <1>1
    <2>2. /\ d.auth = FALSE /\ d.kind = c.kind /\ d.arg = c.arg /\ d.new = c.new
          /\ d.live = c.live /\ d.step = c.step /\ d.ans = c.ans
      BY <1>2, <2>1
    <2>3. Carries(c) /\ Belongs(c) /\ Awaited(c)
      BY <1>t DEF CallsFit
    <2>4. Carries(d)
      BY <2>2, <2>3 DEF Carries
    <2>5. Belongs(d)' /\ TokenKnown(d)'
      BY <1>1, <2>2, <2>3 DEF Belongs, TokenKnown
    <2>6. Awaited(d)'
      BY <1>1, <2>2, <2>3 DEF Awaited
    <2> QED BY <2>4, <2>5, <2>6
  <1>6. OneAwaited'
    <2> SUFFICES ASSUME NEW c \in calls, NEW d \in calls, f[c].live, f[d].live,
                        f[c].kind = f[d].kind, f[c].kind \in {"me", "name"}
                 PROVE  f[c] = f[d]
      BY <1>1 DEF OneAwaited
    <2>1. /\ f[c].live = c.live /\ f[d].live = d.live
          /\ f[c].kind = c.kind /\ f[d].kind = d.kind
      BY <1>2
    <2>2. c.live /\ d.live
      BY <2>1, Zenon
    <2>3. c.kind = d.kind /\ c.kind \in {"me", "name"}
      BY <2>1
    <2>4. c = d
      BY <2>2, <2>3, <1>t DEF OneAwaited
    <2> QED BY <2>4
  <1>7. FormFits' /\ ShownTogether' /\ SavedIsStored' /\ LogoutEnds'
    BY <1>1, <1>t DEF FormFits, ShownTogether, SavedIsStored, LogoutEnds
  <1> QED BY <1>3, <1>4, <1>5, <1>6, <1>7 DEF PortalIInv

\* Another session saves a name; nothing is claimed of the name from then on.
LEMMA OtherSavesKeeps ==
    ASSUME PortalIInv, NEW n \in Name, OtherSaves(n)
    PROVE  PortalIInv'
PROOF
  <1>t. /\ PortalTypeOK /\ IsFiniteSet(calls) /\ CallsFit /\ OneAwaited
        /\ FormFits /\ ShownTogether /\ LogoutEnds
    BY DEF PortalIInv
  <1>1. /\ name' = n /\ ours' = FALSE /\ faults' \in 0 .. MaxFaults /\ faults' > 0
        /\ UNCHANGED <<password, cookie, screen, page, calls, leftLogin, applied, actions>>
    BY <1>t, ActFacts DEF OtherSaves
  <1>2. PortalTypeOK'
    BY <1>1, <1>t DEF PortalTypeOK, histories
  <1>3. CallsFit'
    <2> SUFFICES ASSUME NEW c \in calls
                 PROVE  Carries(c) /\ (Belongs(c) /\ TokenKnown(c) /\ Awaited(c))'
      BY <1>1 DEF CallsFit, Carries
    <2>1. Carries(c) /\ Belongs(c) /\ TokenKnown(c) /\ Awaited(c)
      BY <1>t DEF CallsFit
    <2> QED BY <1>1, <2>1 DEF Belongs, TokenKnown, Awaited
  <1>4. IsFiniteSet(calls') /\ OneAwaited'
    BY <1>1, <1>t DEF OneAwaited
  <1>5. FormFits' /\ ShownTogether'
    BY <1>1, <1>t DEF FormFits, ShownTogether
  <1>6. SavedIsStored' /\ LogoutEnds'
    BY <1>1, <1>t DEF SavedIsStored, LogoutEnds
  <1> QED BY <1>2, <1>3, <1>4, <1>5, <1>6 DEF PortalIInv

\* Only the answer to a sign-in can set the cookie.
LEMMA TakenFacts ==
    ASSUME NEW c, cookie \in BOOLEAN, cookie' \in Taken(c)
    PROVE  cookie' \in BOOLEAN /\ (cookie' => cookie \/ c.kind = "login")
PROOF
  <1>1. CASE c.kind = "login" /\ c.step = "done"
    <2>1. cookie' \in {cookie, TRUE}
      BY <1>1 DEF Taken
    <2> QED BY <1>1, <2>1
  <1>2. CASE c.kind = "logout" /\ c.step = "unreadable"
    <2>1. cookie' \in {cookie, FALSE}
      BY <1>2 DEF Taken
    <2>2. CASE cookie' = cookie
      BY <2>2
    <2>3. CASE cookie' = FALSE
      BY <2>3
    <2> QED BY <2>1, <2>2, <2>3
  <1>3. CASE ~(c.kind = "login" /\ c.step = "done") /\ ~(c.kind = "logout" /\ c.step = "unreadable")
    <2>1. cookie' \in {cookie}
      BY <1>3 DEF Taken
    <2> QED BY <2>1
  <1> QED BY <1>1, <1>2, <1>3

\* A late answer is for nobody, and sets the cookie only if a sign-in was left.
LEMMA BelatedKeeps ==
    ASSUME PortalIInv, NEW c \in calls, Belated(c)
    PROVE  PortalIInv'
PROOF
  <1>t. /\ PortalTypeOK /\ IsFiniteSet(calls) /\ CallsFit /\ OneAwaited
        /\ FormFits /\ ShownTogether /\ SavedIsStored /\ LogoutEnds
    BY DEF PortalIInv
  <1>1. /\ calls' = calls \ {c}
        /\ UNCHANGED <<name, password, screen, page, leftLogin, ours, applied,
                       actions, faults>>
    BY DEF Belated, account, histories
  <1>2. cookie' \in BOOLEAN /\ (cookie' => cookie \/ leftLogin)
    <2>1. c.kind = "login" => leftLogin
      BY <1>t DEF Belated, CallsFit, Belongs
    <2>2. cookie' \in BOOLEAN /\ (cookie' => cookie \/ c.kind = "login")
      BY <1>t, TakenFacts DEF Belated, PortalTypeOK
    <2> QED BY <2>1, <2>2
  <1>3. PortalTypeOK'
    BY <1>1, <1>2, <1>t DEF PortalTypeOK, histories
  <1>4. CallsFit'
    <2> SUFFICES ASSUME NEW d \in calls
                 PROVE  Carries(d) /\ (Belongs(d) /\ TokenKnown(d) /\ Awaited(d))'
      BY <1>1 DEF CallsFit, Carries
    <2>1. Carries(d) /\ Belongs(d) /\ TokenKnown(d) /\ Awaited(d)
      BY <1>t DEF CallsFit
    <2>2. TokenKnown(d)'
      BY <1>1, <1>2, <2>1 DEF TokenKnown
    <2> QED BY <1>1, <2>1, <2>2 DEF Belongs, Awaited
  <1>5. IsFiniteSet(calls') /\ OneAwaited'
    BY <1>1, <1>t, FS_Subset DEF OneAwaited
  <1>6. FormFits' /\ ShownTogether' /\ SavedIsStored'
    BY <1>1, <1>t DEF FormFits, ShownTogether, SavedIsStored
  <1>7. LogoutEnds'
    BY <1>1, <1>2, <1>t DEF LogoutEnds
  <1> QED BY <1>3, <1>4, <1>5, <1>6, <1>7 DEF PortalIInv

-----------------------------------------------------------------------------
(* The handlers and the network.                                           *)

\* A step of a handler, or a call that is lost or given up.
LEMMA HandlersKeep ==
    ASSUME PortalIInv, NEW c \in calls,
           \/ Refuse(c) \/ ServeLogin(c) \/ ServeRead(c) \/ ServeLogout(c)
           \/ UpdateProfile(c) \/ VerifyPassword(c) \/ ChangePassword(c)
           \/ LimitLogin(c) \/ Lose(c)
    PROVE  PortalIInv'
PROOF
  <1>t. /\ PortalTypeOK /\ Carries(c)
        /\ name \in Name /\ password \in Password /\ cookie \in BOOLEAN
        /\ ours \in BOOLEAN /\ applied \in BOOLEAN /\ faults \in 0 .. MaxFaults
    BY DEF PortalIInv, CallsFit, PortalTypeOK, histories
  <1> USE DEF account, histories
  <1>1. CASE Refuse(c)
    <2>1. Advances(c, "unauthorized", None, {})
      BY <1>1, <1>t DEF Refuse, Move, Advances
    <2> QED BY <2>1, AdvanceKeeps
  <1>2. CASE ServeLogin(c)
    <2>1. \E step \in {"done", "refused"} : Advances(c, step, None, {})
      BY <1>2, <1>t DEF ServeLogin, Move, Advances
    <2> QED BY <2>1, AdvanceKeeps
  <1>3. CASE ServeRead(c)
    <2>1. CASE c.kind = "me"
      <3>1. Advances(c, "done", name, {})
        BY <1>3, <1>t, <2>1 DEF ServeRead, Move, Advances
      <3> QED BY <3>1, AdvanceKeeps
    <2>2. CASE c.kind # "me"
      <3>1. Advances(c, "done", None, {})
        BY <1>3, <1>t, <2>2 DEF ServeRead, Move, Advances, Reads, Parts
      <3> QED BY <3>1, AdvanceKeeps
    <2> QED BY <2>1, <2>2
  <1>4. CASE ServeLogout(c)
    <2>1. Advances(c, "unreadable", None, {})
      BY <1>4, <1>t DEF ServeLogout, Move, Advances
    <2> QED BY <2>1, AdvanceKeeps
  <1>5. CASE UpdateProfile(c)
    <2>1. c.arg \in Name
      BY <1>5, <1>t DEF UpdateProfile, Carries
    <2>2. ours' \in BOOLEAN /\ ours' = c.live
      <3>1. c.live \in BOOLEAN
        BY DEF PortalIInv, PortalTypeOK, Call
      <3> QED BY <1>5, <3>1 DEF UpdateProfile
    <2>3. Advances(c, "done", c.arg, {})
      <3>1. /\ c.kind = "name" /\ Move(c, "done", c.arg) /\ name' = c.arg
            /\ UNCHANGED <<password, cookie, screen, page, leftLogin, applied, actions, faults>>
        BY <1>5 DEF UpdateProfile
      <3> QED BY <1>t, <2>1, <2>2, <3>1 DEF Move, Advances
    <2> QED BY <2>3, AdvanceKeeps
  <1>6. CASE VerifyPassword(c)
    <2>1. \E step \in {"verified", "refused"} : Advances(c, step, None, {})
      BY <1>6, <1>t DEF VerifyPassword, Move, Advances
    <2> QED BY <2>1, AdvanceKeeps
  <1>7. CASE ChangePassword(c)
    <2>1. c.kind = "password" /\ c.new \in Password
      BY <1>7, <1>t DEF ChangePassword, Carries
    <2>2. Advances(c, "unreadable", None, {})
      BY <1>7, <1>t, <2>1 DEF ChangePassword, Move, Advances
    <2> QED BY <2>2, AdvanceKeeps
  <1>8. CASE LimitLogin(c)
    <2>1. Advances(c, "limited", None, {})
      BY <1>8, <1>t, ActFacts DEF LimitLogin, Move, Advances
    <2> QED BY <2>1, AdvanceKeeps
  <1>9. CASE Lose(c)
    <2>1. PICK rest \in SUBSET GoingOn(c) :
             calls' = (calls \ {c}) \cup {[c EXCEPT !.step = "failed", !.ans = None]} \cup rest
      BY <1>9 DEF Lose
    <2>2. /\ rest \subseteq {[c EXCEPT !.live = FALSE]}
          /\ rest # {} => c.kind \in {"name", "password"}
      BY <2>1 DEF GoingOn
    <2>3. cookie' \in BOOLEAN
      BY <1>9, <1>t, TakenFacts DEF Lose
    <2>4. Advances(c, "failed", None, rest)
      BY <1>9, <1>t, <2>1, <2>2, <2>3, ActFacts DEF Lose, Advances
    <2> QED BY <2>4, AdvanceKeeps
  <1> QED BY <1>1, <1>2, <1>3, <1>4, <1>5, <1>6, <1>7, <1>8, <1>9

-----------------------------------------------------------------------------
\* The tab starts on the login page, with nothing under way.
LEMMA PortalStart == PortalInit => PortalIInv
PROOF
  <1> SUFFICES ASSUME PortalInit PROVE PortalIInv
    OBVIOUS
  <1>1. PortalTypeOK
    <2>1. page \in LoginStates
      BY TabAssumption DEF PortalInit, LoginPage, LoginStates
    <2>2. histories \in BOOLEAN \X BOOLEAN \X BOOLEAN
      BY DEF PortalInit, histories
    <2>3. name \in Name /\ password \in Password /\ cookie \in BOOLEAN /\ calls \subseteq Call
      BY TabAssumption DEF PortalInit
    <2>4. screen = "login" /\ actions \in 0 .. MaxActions /\ faults \in 0 .. MaxFaults
      BY TabAssumption DEF PortalInit
    <2> QED BY <2>1, <2>2, <2>3, <2>4 DEF PortalTypeOK
  <1>2. IsFiniteSet(calls)
    BY FS_EmptySet DEF PortalInit
  <1>3. CallsFit /\ OneAwaited
    BY DEF PortalInit, CallsFit, OneAwaited
  <1>4. FormFits /\ ShownTogether /\ SavedIsStored /\ LogoutEnds
    BY DEF PortalInit, FormFits, ShownTogether, SavedIsStored, LogoutEnds
  <1> QED BY <1>1, <1>2, <1>3, <1>4 DEF PortalIInv

\* Every step of the tab, of the handlers and of the network keeps the invariant.
LEMMA PortalKeeps == PortalIInv /\ [PortalNext]_portalVars => PortalIInv'
PROOF
  <1> SUFFICES ASSUME PortalIInv, [PortalNext]_portalVars PROVE PortalIInv'
    OBVIOUS
  <1>1. CASE Clicking
    BY <1>1, OpeningKeeps, LoginKeeps, HandleLogoutKeeps, NameKeeps, PasswordKeeps,
       DashboardKeeps, MapKeeps, AnalyticsKeeps, LoadingKeeps DEF Clicking
  <1>2. CASE Filling
    BY <1>2, LoginKeeps, NameKeeps, PasswordKeeps, MapKeeps, AnalyticsKeeps DEF Filling
  <1>3. CASE CountDown \/ Expire
    BY <1>3, LoginKeeps, ExpireKeeps
  <1>4. ASSUME NEW c \in calls, Serving(c) \/ LimitLogin(c) \/ Lose(c) PROVE PortalIInv'
    BY <1>4, HandlersKeep DEF Serving
  <1>5. ASSUME NEW c \in calls, Handling(c) PROVE PortalIInv'
    <2>1. CASE LoggedIn(c) \/ LoggedOut(c)
      BY <2>1, SigningKeeps
    <2>2. CASE NotLoggedIn(c)
      BY <2>2, LoginKeeps
    <2>3. CASE IntakeAnswered(c) \/ StatsAnswered(c)
      BY <2>3, DashboardKeeps
    <2>4. CASE ReportsAnswered(c)
      BY <2>4, MapKeeps
    <2>5. CASE PartAnswered(c) \/ PartFailed(c) \/ ChoroplethMap(c)
      BY <2>5, AnalyticsKeeps
    <2>6. CASE Loaded(c)
      BY <2>6, LoadingKeeps
    <2>7. CASE NameAnswered(c)
      BY <2>7, NameKeeps
    <2>8. CASE PasswordAnswered(c)
      BY <2>8, PasswordKeeps
    <2>9. CASE Belated(c)
      BY <2>9, BelatedKeeps
    <2> QED BY <1>5, <2>1, <2>2, <2>3, <2>4, <2>5, <2>6, <2>7, <2>8, <2>9 DEF Handling
  <1>6. ASSUME NEW n \in Name, OtherSaves(n) PROVE PortalIInv'
    BY <1>6, OtherSavesKeeps
  <1>7. CASE UNCHANGED portalVars
    BY <1>7 DEF portalVars, account, histories, PortalIInv, PortalTypeOK, CallsFit, Carries,
                Belongs, TokenKnown, Awaited, OneAwaited, FormFits, ShownTogether,
                SavedIsStored, LogoutEnds
  <1> QED BY <1>1, <1>2, <1>3, <1>4, <1>5, <1>6, <1>7 DEF PortalNext

\* The invariant behind the theorems that follow: a call that the page waits for is of that
\* page and carries what it needs, the profile page waits for one read and one save at a
\* time, and the answer to a save is what is stored unless the row was written since.
THEOREM PortalInvariant == PortalSpec => []PortalIInv
PROOF
  <1> QED BY PortalStart, PortalKeeps, PTL DEF PortalSpec

\* The tab keeps to its types: every page has the state of its own form.
THEOREM PortalTypeCorrect == PortalSpec => []PortalTypeOK
PROOF
  <1>1. PortalIInv => PortalTypeOK
    BY DEF PortalIInv
  <1> QED BY <1>1, PortalInvariant, PTL

\* While the profile page says that the name is saved, it shows the name that the row
\* holds, unless the row was written since by another session, or by a save that its page
\* left or gave up.
THEOREM AlwaysSavedIsStored == PortalSpec => []SavedIsStored
PROOF
  <1>1. PortalIInv => SavedIsStored
    BY DEF PortalIInv
  <1> QED BY <1>1, PortalInvariant, PTL

\* Having signed out, the browser holds no token, unless a call was lost or a sign-in
\* was left under way.
THEOREM LogoutAlwaysEnds == PortalSpec => []LogoutEnds
PROOF
  <1>1. PortalIInv => LogoutEnds
    BY DEF PortalIInv
  <1> QED BY <1>1, PortalInvariant, PTL

\* Cards, chart and table of the analytics page stem from one fetch, however the fetches
\* fail and are repeated.
THEOREM AlwaysOfOneFetch == PortalSpec => []AnalyticsOfOneFetch
PROOF
  <1>1. PortalIInv => AnalyticsOfOneFetch
    <2> SUFFICES ASSUME PortalIInv, screen = "analytics",
                        NEW m \in KpiCards \cup TrendChart \cup WardTable,
                        NEW n \in KpiCards \cup TrendChart \cup WardTable
                 PROVE  m = n
      BY DEF AnalyticsOfOneFetch, PartsShown
    <2>1. \A p, q \in Parts : page.shown[p] = page.shown[q]
      BY DEF PortalIInv, ShownTogether
    <2>2. \E p \in Parts : m = page.shown[p]
      BY DEF KpiCards, TrendChart, WardTable, Parts
    <2>3. \E q \in Parts : n = page.shown[q]
      BY DEF KpiCards, TrendChart, WardTable, Parts
    <2> QED BY <2>1, <2>2, <2>3
  <1> QED BY <1>1, PortalInvariant, PTL

-----------------------------------------------------------------------------
(* The tab: nothing is waited for in vain.                                 *)

\* What the page that is open waits for.
WaitsFor(kind) ==
    \/ screen = "login" /\ page.busy /\ kind = "login"
    \/ screen = "dashboard" /\ page.stats = "loading" /\ kind = "stats"
    \/ screen = "map" /\ page.state = "loading" /\ kind = "reports"
    \/ screen = "analytics" /\ page.state = "loading" /\ kind \in Parts \ page.got
    \/ screen = "profile" /\ \/ page.state = "loading" /\ kind = "me"
                             \/ page.saving /\ kind = "name"
                             \/ page.changing /\ kind = "password"

\* Is a call of that kind under way for it.
UnderWay(kind) == \E c \in calls : c.live /\ c.kind = kind

WaitingIInv ==
    /\ \A kind \in Kind : WaitsFor(kind) => UnderWay(kind)
    /\ screen = "analytics" /\ page.state = "loading" => page.got # Parts

\* Whatever a page waits for is a call under way, or the countdown of the lock.
WaitingIsAwaited ==
    Waiting => \/ screen = "login" /\ page.countdown > 0
               \/ \E c \in calls : c.live /\ WaitsFor(c.kind)

\* A page that is open, or a call of it, goes on: nothing new is waited for but what is
\* asked for, and what was answered is not waited for any more.
GoesOn(lost) ==
    /\ \A kind \in Kind \ lost : UnderWay(kind) => UnderWay(kind)'
    /\ \A kind \in Kind : WaitsFor(kind)' => \/ UnderWay(kind)'
                                             \/ WaitsFor(kind) /\ kind \notin lost
    /\ screen' = "analytics" /\ page'.state = "loading" => page'.got # Parts

\* A page that goes on still waits for calls under way only.
LEMMA GoesOnKeeps ==
    ASSUME WaitingIInv, NEW lost, GoesOn(lost)
    PROVE  WaitingIInv'
PROOF
  BY DEF WaitingIInv, GoesOn

\* What is asked for is under way, and so is all else.
LEMMA AskedUnderWay ==
    ASSUME PortalIInv, NEW kind \in Kind,
           NEW arg \in {None} \cup Period \cup Name \cup Password,
           NEW new \in {None} \cup Password, Ask(kind, arg, new)
    PROVE  UnderWay(kind)' /\ \A k \in Kind : UnderWay(k) => UnderWay(k)'
PROOF
  <1> DEFINE d == Asking(kind, arg, new, cookie)
  <1>1. IsAsked(d, kind, arg, new, cookie)
    <2>1. PortalTypeOK /\ IsFiniteSet(calls) /\ cookie \in BOOLEAN
      BY DEF PortalIInv, PortalTypeOK
    <2> QED BY <2>1, AskingFacts
  <1>2. calls' = calls \cup {d}
    BY DEF Ask
  <1> HIDE DEF d
  <1> QED BY <1>1, <1>2 DEF IsAsked, UnderWay

\* Calls of other kinds than that which is answered stay under way.
LEMMA OthersUnderWay ==
    ASSUME NEW c \in calls, calls' = calls \ {c}
    PROVE  \A kind \in Kind \ {c.kind} : UnderWay(kind) => UnderWay(kind)'
PROOF
  BY DEF UnderWay

\* The login page.
LEMMA LoginWaits ==
    ASSUME PortalIInv, WaitingIInv,
           \/ \E p \in Password : TypePassword(p)
           \/ HandleSubmit \/ CountDown
           \/ \E c \in calls : NotLoggedIn(c)
    PROVE  WaitingIInv'
PROOF
  <1>t. PortalTypeOK /\ CallsFit
    BY DEF PortalIInv
  <1>1. screen = "login" /\ screen' = "login" /\ page \in LoginStates
    BY <1>t DEF TypePassword, HandleSubmit, SubmitOffered, LoginForm, CountDown, NotLoggedIn,
                CallsFit, Belongs, OfPage, Parts, PortalTypeOK
  <1>2. CASE (\E p \in Password : TypePassword(p)) \/ CountDown
    <2>1. calls' = calls /\ page'.busy = page.busy
      BY <1>1, <1>2 DEF TypePassword, CountDown, LoginStates
    <2>2. GoesOn({})
      BY <1>1, <2>1 DEF GoesOn, UnderWay, WaitsFor
    <2> QED BY <2>2, GoesOnKeeps
  <1>3. CASE HandleSubmit
    <2>1. Ask("login", page.typed, None)
      BY <1>3 DEF HandleSubmit
    <2>2. "login" \in Kind /\ page.typed \in {None} \cup Period \cup Name \cup Password
          /\ None \in {None} \cup Password
      BY <1>1 DEF Kind, LoginStates
    <2>3. UnderWay("login")' /\ \A k \in Kind : UnderWay(k) => UnderWay(k)'
      BY <2>1, <2>2, AskedUnderWay
    <2>4. GoesOn({})
      BY <1>1, <2>3 DEF GoesOn, WaitsFor
    <2> QED BY <2>4, GoesOnKeeps
  <1>4. ASSUME NEW c \in calls, NotLoggedIn(c) PROVE WaitingIInv'
    <2>1. calls' = calls \ {c} /\ page'.busy = FALSE
      BY <1>1, <1>4 DEF NotLoggedIn, LoginStates
    <2>2. GoesOn({c.kind})
      BY <1>1, <2>1, OthersUnderWay DEF GoesOn, WaitsFor
    <2> QED BY <2>2, GoesOnKeeps
  <1> QED BY <1>2, <1>3, <1>4

\* The login page comes, and waits for nothing.
LEMMA ShowLoginWaits ==
    ASSUME NEW by, NEW rest, ShowLogin(by, rest)
    PROVE  WaitingIInv'
PROOF
  <1>1. screen' = "login" /\ page'.busy = FALSE
    BY DEF ShowLogin, LoginPage
  <1> QED BY <1>1 DEF WaitingIInv, WaitsFor

\* A page comes, and has asked for what it waits for.
LEMMA ShowWaits ==
    ASSUME PortalIInv, NEW s \in Screens, NEW rest, NEW routed, Show(s, rest, routed)
    PROVE  WaitingIInv'
PROOF
  <1> DEFINE token == TRUE
             N == {Asking(k[1], k[2], None, token) : k \in Asked(s)}
  <1>1. screen' = s /\ page' = PageOf(s) /\ calls' = Left(rest, routed) \cup N /\ token = TRUE
    BY DEF Show
  <1> HIDE DEF token
  <1>2. ASSUME NEW k \in Asked(s) PROVE UnderWay(k[1])'
    <2>1. k[1] \in Kind /\ k[2] \in {None} \cup Period \cup Name \cup Password
      BY DEF Asked, Kind, Reads, Parts, Period, Screens
    <2>2. IsAsked(Asking(k[1], k[2], None, token), k[1], k[2], None, token)
      <3>1. PortalTypeOK /\ IsFiniteSet(calls) /\ token \in BOOLEAN
            /\ None \in {None} \cup Password
        BY <1>1 DEF PortalIInv
      <3> QED BY <2>1, <3>1, AskingFacts
    <2>3. Asking(k[1], k[2], None, token) \in calls'
      BY <1>1
    <2> QED BY <2>2, <2>3 DEF IsAsked, UnderWay
  <1>3. CASE s = "dashboard"
    <2>1. <<"stats", None>> \in Asked(s)
      BY <1>3 DEF Asked
    <2>2. UnderWay("stats")'
      BY <1>2, <2>1
    <2> QED BY <1>1, <1>3, <2>2 DEF WaitingIInv, WaitsFor
  <1>4. CASE s = "map"
    <2>1. <<"reports", None>> \in Asked(s)
      BY <1>4 DEF Asked
    <2>2. UnderWay("reports")'
      BY <1>2, <2>1
    <2> QED BY <1>1, <1>4, <2>2 DEF WaitingIInv, WaitsFor
  <1>5. CASE s = "analytics"
    <2>1. \A p \in Parts : <<p, None>> \in Asked(s)
      BY <1>5 DEF Asked
    <2>2. \A p \in Parts : UnderWay(p)'
      BY <1>2, <2>1
    <2>3. page'.got = {}
      BY <1>1, <1>5 DEF PageOf, Analytics
    <2> QED BY <1>1, <1>5, <2>2, <2>3 DEF WaitingIInv, WaitsFor, Parts
  <1>6. CASE s = "profile"
    <2>1. <<"me", None>> \in Asked(s)
      BY <1>6 DEF Asked
    <2>2. UnderWay("me")'
      BY <1>2, <2>1
    <2>3. page'.saving = FALSE /\ page'.changing = FALSE
      BY <1>1, <1>6 DEF PageOf, Profile
    <2> QED BY <1>1, <1>6, <2>2, <2>3 DEF WaitingIInv, WaitsFor
  <1> QED BY <1>3, <1>4, <1>5, <1>6 DEF Screens

\* The dashboard waits for its cards.
LEMMA DashboardWaits ==
    ASSUME PortalIInv, WaitingIInv,
           \/ \E p \in Period : SetActivePeriod(p)
           \/ RetryStats
           \/ \E c \in calls : IntakeAnswered(c) \/ StatsAnswered(c)
    PROVE  WaitingIInv'
PROOF
  <1>t. PortalTypeOK /\ CallsFit
    BY DEF PortalIInv
  <1>1. screen = "dashboard" /\ screen' = "dashboard" /\ page \in DashboardStates
    BY <1>t DEF SetActivePeriod, RetryStats, IntakeAnswered, StatsAnswered,
                CallsFit, Belongs, OfPage, Parts, PortalTypeOK
  <1>2. ASSUME NEW p \in Period, SetActivePeriod(p) PROVE WaitingIInv'
    <2>1. Ask("intake", p, None) /\ page'.stats = page.stats
      BY <1>1, <1>2 DEF SetActivePeriod, DashboardStates
    <2>2. "intake" \in Kind /\ p \in {None} \cup Period \cup Name \cup Password
          /\ None \in {None} \cup Password
      BY DEF Kind, Reads
    <2>3. \A k \in Kind : UnderWay(k) => UnderWay(k)'
      BY <2>1, <2>2, AskedUnderWay
    <2>4. GoesOn({})
      BY <1>1, <2>1, <2>3 DEF GoesOn, WaitsFor
    <2> QED BY <2>4, GoesOnKeeps
  <1>3. CASE RetryStats
    <2>1. Ask("stats", None, None)
      BY <1>3 DEF RetryStats
    <2>2. "stats" \in Kind /\ None \in {None} \cup Period \cup Name \cup Password
          /\ None \in {None} \cup Password
      BY DEF Kind, Reads
    <2>3. UnderWay("stats")' /\ \A k \in Kind : UnderWay(k) => UnderWay(k)'
      BY <2>1, <2>2, AskedUnderWay
    <2>4. GoesOn({})
      BY <1>1, <2>3 DEF GoesOn, WaitsFor
    <2> QED BY <2>4, GoesOnKeeps
  <1>4. ASSUME NEW c \in calls, IntakeAnswered(c) PROVE WaitingIInv'
    <2>1. calls' = calls \ {c} /\ page'.stats = page.stats /\ c.kind = "intake"
      BY <1>1, <1>4 DEF IntakeAnswered, DashboardStates
    <2>2. GoesOn({c.kind})
      BY <1>1, <2>1, OthersUnderWay DEF GoesOn, WaitsFor
    <2> QED BY <2>2, GoesOnKeeps
  <1>5. ASSUME NEW c \in calls, StatsAnswered(c) PROVE WaitingIInv'
    <2>1. calls' = calls \ {c} /\ page'.stats # "loading"
      BY <1>1, <1>5 DEF StatsAnswered, DashboardStates
    <2>2. GoesOn({c.kind})
      BY <1>1, <2>1, OthersUnderWay DEF GoesOn, WaitsFor
    <2> QED BY <2>2, GoesOnKeeps
  <1> QED BY <1>2, <1>3, <1>4, <1>5

\* The map waits for its reports.
LEMMA MapWaits ==
    ASSUME PortalIInv, WaitingIInv,
           \/ RetryReports
           \/ \E category \in BOOLEAN, state \in BOOLEAN : SetMapFilter(category, state)
           \/ \E c \in calls : ReportsAnswered(c)
    PROVE  WaitingIInv'
PROOF
  <1>t. PortalTypeOK /\ CallsFit
    BY DEF PortalIInv
  <1>1. screen = "map" /\ page \in MapStates
    BY <1>t DEF RetryReports, MapError, SetMapFilter, MapShown, ReportsAnswered,
                CallsFit, Belongs, OfPage, Parts, PortalTypeOK
  <1>2. CASE RetryReports
    <2>1. Ask("reports", None, None) /\ screen' = "map"
      BY <1>1, <1>2 DEF RetryReports
    <2>2. "reports" \in Kind /\ None \in {None} \cup Period \cup Name \cup Password
          /\ None \in {None} \cup Password
      BY DEF Kind, Reads
    <2>3. UnderWay("reports")' /\ \A k \in Kind : UnderWay(k) => UnderWay(k)'
      BY <2>1, <2>2, AskedUnderWay
    <2>4. GoesOn({})
      BY <1>1, <2>1, <2>3 DEF GoesOn, WaitsFor
    <2> QED BY <2>4, GoesOnKeeps
  <1>3. ASSUME NEW category \in BOOLEAN, NEW state \in BOOLEAN, SetMapFilter(category, state)
        PROVE  WaitingIInv'
    <2>1. calls' = calls /\ screen' = "map" /\ page'.state = page.state
      BY <1>1, <1>3 DEF SetMapFilter, MapStates
    <2>2. GoesOn({})
      BY <1>1, <2>1 DEF GoesOn, UnderWay, WaitsFor
    <2> QED BY <2>2, GoesOnKeeps
  <1>4. ASSUME NEW c \in calls, ReportsAnswered(c) PROVE WaitingIInv'
    <2>1. CASE c.step = "unauthorized"
      BY <1>4, <2>1, ShowLoginWaits DEF ReportsAnswered
    <2>2. CASE c.step # "unauthorized"
      <3>1. calls' = calls \ {c} /\ screen' = "map" /\ page'.state # "loading"
        BY <1>1, <1>4, <2>2 DEF ReportsAnswered, MapStates
      <3>2. GoesOn({c.kind})
        BY <1>1, <3>1, OthersUnderWay DEF GoesOn, WaitsFor
      <3> QED BY <3>2, GoesOnKeeps
    <2> QED BY <2>1, <2>2
  <1> QED BY <1>2, <1>3, <1>4

\* The analytics page waits for the parts of its fetch that have not come.
LEMMA AnalyticsWaits ==
    ASSUME PortalIInv, WaitingIInv,
           \/ RetryAnalytics
           \/ \E selected \in BOOLEAN : SelectWard(selected)
           \/ \E c \in calls : PartAnswered(c) \/ PartFailed(c) \/ ChoroplethMap(c)
    PROVE  WaitingIInv'
PROOF
  <1>t. PortalTypeOK /\ CallsFit /\ IsFiniteSet(calls)
    BY DEF PortalIInv
  <1>1. screen = "analytics" /\ screen' = "analytics" /\ page \in AnalyticsStates
    BY <1>t DEF RetryAnalytics, AnalyticsError, SelectWard, PartsShown, PartAnswered, PartFailed,
                ChoroplethMap, CallsFit, Belongs, OfPage, Parts, PortalTypeOK
  <1>2. CASE RetryAnalytics
    <2>1. calls' = calls \cup {Asking(p, None, None, cookie) : p \in Parts} /\ page'.got = {}
      BY <1>1, <1>2 DEF RetryAnalytics, AnalyticsStates
    <2>2. ASSUME NEW p \in Parts PROVE UnderWay(p)'
      <3>1. IsAsked(Asking(p, None, None, cookie), p, None, None, cookie)
        <4>1. p \in Kind /\ None \in {None} \cup Password /\ cookie \in BOOLEAN
              /\ None \in {None} \cup Period \cup Name \cup Password
          BY <1>t DEF Kind, Reads, PortalTypeOK
        <4> QED BY <1>t, <4>1, AskingFacts
      <3> QED BY <2>1, <3>1 DEF IsAsked, UnderWay
    <2> QED BY <1>1, <2>1, <2>2 DEF WaitingIInv, WaitsFor, Parts
  <1>3. ASSUME NEW selected \in BOOLEAN, SelectWard(selected) PROVE WaitingIInv'
    <2>1. calls' = calls /\ page'.state = page.state /\ page'.got = page.got
      BY <1>1, <1>3 DEF SelectWard, AnalyticsStates
    <2>2. GoesOn({})
      BY <1>1, <2>1 DEF GoesOn, UnderWay, WaitsFor, WaitingIInv
    <2> QED BY <2>2, GoesOnKeeps
  <1>4. ASSUME NEW c \in calls, PartAnswered(c) PROVE WaitingIInv'
    <2> DEFINE got == page.got \cup {c.kind}
               shown == [p \in Parts |-> page.fetch]
    <2>1. calls' = calls \ {c} /\ c.kind \in Parts
      BY <1>4 DEF PartAnswered
    <2>2. page' = IF got = Parts
                  THEN [page EXCEPT !.got = got, !.state = "data", !.shown = shown]
                  ELSE [page EXCEPT !.got = got]
      BY <1>4 DEF PartAnswered
    <2> HIDE DEF shown
    <2>3. /\ page'.got = got
          /\ got = Parts => page'.state = "data"
          /\ got # Parts => page'.state = page.state
      <3> HIDE DEF got
      <3> QED BY <1>1, <2>2 DEF AnalyticsStates
    <2>4. page'.state = "loading" => page.state = "loading" /\ page'.got # Parts
      BY <2>3
    <2>5. GoesOn({c.kind})
      BY <1>1, <2>1, <2>3, <2>4, OthersUnderWay DEF GoesOn, WaitsFor
    <2> QED BY <2>5, GoesOnKeeps
  <1>5. ASSUME NEW c \in calls, PartFailed(c) PROVE WaitingIInv'
    <2>1. page'.state = "error"
      BY <1>1, <1>5 DEF PartFailed, AnalyticsStates
    <2> QED BY <1>1, <2>1 DEF WaitingIInv, WaitsFor
  <1>6. ASSUME NEW c \in calls, ChoroplethMap(c) PROVE WaitingIInv'
    <2>1. /\ calls' = calls \ {c} /\ c.kind = "boundaries"
          /\ page'.state = page.state /\ page'.got = page.got
      BY <1>1, <1>6 DEF ChoroplethMap, AnalyticsStates
    <2>2. GoesOn({c.kind})
      BY <1>1, <2>1, OthersUnderWay DEF GoesOn, WaitsFor, WaitingIInv, Parts
    <2> QED BY <2>2, GoesOnKeeps
  <1> QED BY <1>2, <1>3, <1>4, <1>5, <1>6

\* The profile page waits for its read, and each form for its answer.
LEMMA ProfileWaits ==
    ASSUME PortalIInv, WaitingIInv,
           \/ \E n \in Name : SetDisplayName(n)
           \/ \E p \in Password, q \in Password, same \in BOOLEAN : TypePasswords(p, q, same)
           \/ RetryProfile \/ HandleSaveProfile \/ HandleChangePassword
           \/ \E c \in calls : Loaded(c) \/ NameAnswered(c) \/ PasswordAnswered(c)
    PROVE  WaitingIInv'
PROOF
  <1>t. PortalTypeOK
    BY DEF PortalIInv
  <1>1. screen = "profile"
    BY OfProfile DEF SetDisplayName, ProfileShown, TypePasswords, RetryProfile, ProfileError,
       HandleSaveProfile, SaveOffered, HandleChangePassword, ChangeOffered, Loaded, NameAnswered,
       PasswordAnswered
  <1>2. page \in ProfileStates
    BY <1>1, ProfileFacts
  <1>a. None \in {None} \cup Password /\ None \in {None} \cup Period \cup Name \cup Password
        /\ "me" \in Kind /\ "name" \in Kind /\ "password" \in Kind
    BY DEF Kind
  <1>3. CASE \/ \E n \in Name : SetDisplayName(n)
             \/ \E p \in Password, q \in Password, same \in BOOLEAN : TypePasswords(p, q, same)
    <2>1. /\ calls' = calls /\ screen' = screen
          /\ page'.state = page.state /\ page'.saving = page.saving
          /\ page'.changing = page.changing
      BY <1>2, <1>3 DEF SetDisplayName, TypePasswords, ProfileStates
    <2>2. GoesOn({})
      BY <1>1, <2>1 DEF GoesOn, UnderWay, WaitsFor
    <2> QED BY <2>2, GoesOnKeeps
  <1>4. CASE RetryProfile
    <2>1. /\ Ask("me", None, None) /\ screen' = screen
          /\ page'.saving = page.saving /\ page'.changing = page.changing
      BY <1>2, <1>4 DEF RetryProfile, ProfileStates
    <2>2. UnderWay("me")' /\ \A k \in Kind : UnderWay(k) => UnderWay(k)'
      BY <1>a, <2>1, AskedUnderWay
    <2>3. GoesOn({})
      BY <1>1, <2>1, <2>2 DEF GoesOn, WaitsFor
    <2> QED BY <2>3, GoesOnKeeps
  <1>5. CASE HandleSaveProfile
    <2>1. /\ Ask("name", page.displayName, None) /\ screen' = screen
          /\ page'.state = page.state /\ page'.changing = page.changing
      BY <1>2, <1>5 DEF HandleSaveProfile, ProfileStates
    <2>2. page.displayName \in {None} \cup Period \cup Name \cup Password
      BY <1>2 DEF ProfileStates
    <2>3. UnderWay("name")' /\ \A k \in Kind : UnderWay(k) => UnderWay(k)'
      BY <1>a, <2>1, <2>2, AskedUnderWay
    <2>4. GoesOn({})
      BY <1>1, <2>1, <2>3 DEF GoesOn, WaitsFor
    <2> QED BY <2>4, GoesOnKeeps
  <1>6. CASE HandleChangePassword
    <2>1. screen' = screen
      BY <1>6 DEF HandleChangePassword
    <2>2. page'.state = page.state /\ page'.saving = page.saving
      BY <1>2, <1>6 DEF HandleChangePassword, ProfileStates
    <2>3. CASE page.confirmed
      <3>1. Ask("password", page.current, page.next)
        BY <1>6, <2>3 DEF HandleChangePassword
      <3>2. page.current \in {None} \cup Period \cup Name \cup Password
            /\ page.next \in {None} \cup Password
        BY <1>2 DEF ProfileStates
      <3>3. UnderWay("password")' /\ \A k \in Kind : UnderWay(k) => UnderWay(k)'
        BY <1>a, <3>1, <3>2, AskedUnderWay
      <3>4. GoesOn({})
        BY <1>1, <2>1, <2>2, <3>3 DEF GoesOn, WaitsFor
      <3> QED BY <3>4, GoesOnKeeps
    <2>4. CASE ~page.confirmed
      <3>1. calls' = calls /\ page'.changing = page.changing
        BY <1>2, <1>6, <2>4 DEF HandleChangePassword, ProfileStates
      <3>2. GoesOn({})
        BY <1>1, <2>1, <2>2, <3>1 DEF GoesOn, UnderWay, WaitsFor
      <3> QED BY <3>2, GoesOnKeeps
    <2> QED BY <2>3, <2>4
  <1>7. ASSUME NEW c \in calls, Loaded(c) PROVE WaitingIInv'
    <2>1. CASE c.step = "unauthorized"
      BY <1>7, <2>1, ShowLoginWaits DEF Loaded
    <2>2. CASE c.step # "unauthorized"
      <3>1. /\ calls' = calls \ {c} /\ screen' = screen /\ c.kind = "me"
            /\ page'.state # "loading"
            /\ page'.saving = page.saving /\ page'.changing = page.changing
        BY <1>2, <1>7, <2>2 DEF Loaded, ProfileStates
      <3>2. GoesOn({c.kind})
        BY <1>1, <3>1, OthersUnderWay DEF GoesOn, WaitsFor
      <3> QED BY <3>2, GoesOnKeeps
    <2> QED BY <2>1, <2>2
  <1>8. ASSUME NEW c \in calls, NameAnswered(c) PROVE WaitingIInv'
    <2>1. CASE c.step = "unauthorized"
      BY <1>8, <2>1, ShowLoginWaits DEF NameAnswered
    <2>2. CASE c.step # "unauthorized"
      <3>1. /\ calls' = calls \ {c} /\ screen' = screen /\ c.kind = "name"
            /\ page'.saving = FALSE
            /\ page'.state = page.state /\ page'.changing = page.changing
        BY <1>2, <1>8, <2>2 DEF NameAnswered, ProfileStates
      <3>2. GoesOn({c.kind})
        BY <1>1, <3>1, OthersUnderWay DEF GoesOn, WaitsFor
      <3> QED BY <3>2, GoesOnKeeps
    <2> QED BY <2>1, <2>2
  <1>9. ASSUME NEW c \in calls, PasswordAnswered(c) PROVE WaitingIInv'
    <2>1. /\ calls' = calls \ {c} /\ screen' = screen /\ c.kind = "password"
          /\ page'.changing = FALSE
          /\ page'.state = page.state /\ page'.saving = page.saving
      BY <1>2, <1>9 DEF PasswordAnswered, ProfileStates
    <2>2. GoesOn({c.kind})
      BY <1>1, <2>1, OthersUnderWay DEF GoesOn, WaitsFor
    <2> QED BY <2>2, GoesOnKeeps
  <1> QED BY <1>3, <1>4, <1>5, <1>6, <1>7, <1>8, <1>9

\* The page that is open waits on while calls are served, lost or left.
LEMMA PassingWaits ==
    ASSUME PortalIInv, WaitingIInv, screen' = screen, page' = page,
           \A c \in calls : c.live => UnderWay(c.kind)'
    PROVE  WaitingIInv'
PROOF
  <1>1. \A kind \in Kind : UnderWay(kind) => UnderWay(kind)'
    BY DEF UnderWay
  <1>2. GoesOn({})
    BY <1>1 DEF GoesOn, WaitsFor, WaitingIInv
  <1> QED BY <1>2, GoesOnKeeps

\* What becomes of a call on its way.
LEMMA MovingWaits ==
    ASSUME PortalIInv, WaitingIInv, NEW c \in calls, NEW step, NEW ans,
           (calls \ {c}) \cup {[c EXCEPT !.step = step, !.ans = ans]} \subseteq calls',
           screen' = screen, page' = page
    PROVE  WaitingIInv'
PROOF
  <1> DEFINE d == [c EXCEPT !.step = step, !.ans = ans]
  <1>1. c \in Call
    BY DEF PortalIInv, PortalTypeOK
  <1>2. (calls \ {c}) \cup {d} \subseteq calls' /\ d.kind = c.kind /\ d.live = c.live
    BY <1>1 DEF Call
  <1> HIDE DEF d
  <1>3. \A e \in calls : e.live => UnderWay(e.kind)'
    BY <1>2 DEF UnderWay
  <1> QED BY <1>3, PassingWaits

\* Signing out is asked on a page that waits on.
LEMMA HandleLogoutWaits == PortalIInv /\ WaitingIInv /\ HandleLogout => WaitingIInv'
PROOF
  <1> SUFFICES ASSUME PortalIInv, WaitingIInv, HandleLogout PROVE WaitingIInv'
    OBVIOUS
  <1>1. Ask("logout", None, None) /\ screen' = screen /\ page' = page
    BY DEF HandleLogout
  <1>2. \A c \in calls : c \in calls'
    BY <1>1 DEF Ask
  <1> QED BY <1>1, <1>2, PassingWaits DEF UnderWay

\* What happens elsewhere: the token expires, another session saves a name, a call that
\* was left behind is answered.
LEMMA ElsewhereWaits ==
    ASSUME PortalIInv, WaitingIInv,
           \/ Expire
           \/ \E n \in Name : OtherSaves(n)
           \/ \E c \in calls : Belated(c)
    PROVE  WaitingIInv'
PROOF
  <1>1. screen' = screen /\ page' = page
    BY DEF Expire, OtherSaves, Belated
  <1>2. CASE Expire
    <2> DEFINE f == [c \in calls |-> [c EXCEPT !.auth = FALSE]]
    <2>1. calls' = {f[c] : c \in calls}
      BY <1>2 DEF Expire
    <2>2. ASSUME NEW c \in calls PROVE f[c].live = c.live /\ f[c].kind = c.kind
      BY DEF PortalIInv, PortalTypeOK, Call
    <2> HIDE DEF f
    <2>3. ASSUME NEW c \in calls, c.live PROVE UnderWay(c.kind)'
      <3>1. f[c] \in calls' /\ f[c].kind = c.kind
        BY <2>1, <2>2
      <3>2. f[c].live
        BY <2>2, <2>3, Zenon
      <3> QED BY <3>1, <3>2 DEF UnderWay
    <2> QED BY <1>1, <2>3, PassingWaits
  <1>3. CASE \E n \in Name : OtherSaves(n)
    <2>1. calls' = calls
      BY <1>3 DEF OtherSaves
    <2> QED BY <1>1, <2>1, PassingWaits DEF UnderWay
  <1>4. ASSUME NEW c \in calls, Belated(c) PROVE WaitingIInv'
    <2>1. calls' = calls \ {c} /\ ~c.live
      BY <1>4 DEF Belated
    <2> QED BY <1>1, <2>1, PassingWaits DEF UnderWay
  <1> QED BY <1>2, <1>3, <1>4

\* No step leaves the page waiting for nothing.
LEMMA WaitingKeeps ==
    PortalIInv /\ WaitingIInv /\ [PortalNext]_portalVars => WaitingIInv'
PROOF
  <1> SUFFICES ASSUME PortalIInv, WaitingIInv, [PortalNext]_portalVars PROVE WaitingIInv'
    OBVIOUS
  <1>1. CASE Clicking
    <2>1. ASSUME NEW s \in Screens, Open(s) PROVE WaitingIInv'
      <3>1. CASE cookie
        BY <2>1, <3>1, ShowWaits DEF Open
      <3>2. CASE ~cookie
        <4>1. ShowLogin("guard", calls)
          BY <2>1, <3>2 DEF Open
        <4> QED BY <4>1, ShowLoginWaits
      <3> QED BY <3>1, <3>2
    <2>2. CASE OpenUnverified \/ OpenLogin
      BY <2>2, ShowLoginWaits DEF OpenUnverified, OpenLogin
    <2>9. CASE OpenProfile
      BY <2>9, ShowWaits, ShowLoginWaits DEF OpenProfile, Screens
    <2>3. CASE HandleSubmit
      BY <2>3, LoginWaits
    <2>4. CASE HandleLogout
      BY <2>4, HandleLogoutWaits
    <2>5. CASE HandleSaveProfile \/ HandleChangePassword \/ RetryProfile
      BY <2>5, ProfileWaits
    <2>6. CASE (\E p \in Period : SetActivePeriod(p)) \/ RetryStats
      BY <2>6, DashboardWaits
    <2>7. CASE RetryReports
      BY <2>7, MapWaits
    <2>8. CASE RetryAnalytics
      BY <2>8, AnalyticsWaits
    <2> QED BY <1>1, <2>1, <2>2, <2>3, <2>4, <2>5, <2>6, <2>7, <2>8, <2>9 DEF Clicking
  <1>2. CASE Filling
    <2>1. CASE \E p \in Password : TypePassword(p)
      BY <2>1, LoginWaits
    <2>2. CASE \/ \E n \in Name : SetDisplayName(n)
               \/ \E p \in Password, q \in Password, same \in BOOLEAN : TypePasswords(p, q, same)
      BY <2>2, ProfileWaits
    <2>3. CASE \E category \in BOOLEAN, state \in BOOLEAN : SetMapFilter(category, state)
      BY <2>3, MapWaits
    <2>4. CASE \E selected \in BOOLEAN : SelectWard(selected)
      BY <2>4, AnalyticsWaits
    <2> QED BY <1>2, <2>1, <2>2, <2>3, <2>4 DEF Filling
  <1>3. CASE CountDown
    BY <1>3, LoginWaits
  <1>4. CASE Expire \/ \E n \in Name : OtherSaves(n)
    BY <1>4, ElsewhereWaits
  <1>5. ASSUME NEW c \in calls, Serving(c) \/ LimitLogin(c) \/ Lose(c) PROVE WaitingIInv'
    <2>1. CASE Serving(c) \/ LimitLogin(c)
      <3>1. (\E step, ans : Move(c, step, ans)) /\ screen' = screen /\ page' = page
        BY <2>1 DEF Serving, Refuse, ServeLogin, ServeRead, ServeLogout, UpdateProfile,
                    VerifyPassword, ChangePassword, LimitLogin
      <3> QED BY <3>1, MovingWaits DEF Move
    <2>2. CASE Lose(c)
      <3>1. /\ (calls \ {c}) \cup {[c EXCEPT !.step = "failed", !.ans = None]} \subseteq calls'
            /\ screen' = screen /\ page' = page
        BY <2>2 DEF Lose
      <3> QED BY <3>1, MovingWaits
    <2> QED BY <1>5, <2>1, <2>2
  <1>6. ASSUME NEW c \in calls, Handling(c) PROVE WaitingIInv'
    <2>1. CASE LoggedIn(c)
      <3>1. "dashboard" \in Screens /\ Show("dashboard", calls \ {c}, FALSE)
        BY <2>1 DEF LoggedIn, Screens
      <3> QED BY <3>1, ShowWaits
    <2>2. CASE LoggedOut(c)
      BY <2>2, ShowLoginWaits DEF LoggedOut
    <2>3. CASE NotLoggedIn(c)
      BY <2>3, LoginWaits
    <2>4. CASE IntakeAnswered(c) \/ StatsAnswered(c)
      BY <2>4, DashboardWaits
    <2>5. CASE ReportsAnswered(c)
      BY <2>5, MapWaits
    <2>6. CASE PartAnswered(c) \/ PartFailed(c) \/ ChoroplethMap(c)
      BY <2>6, AnalyticsWaits
    <2>7. CASE Loaded(c) \/ NameAnswered(c) \/ PasswordAnswered(c)
      BY <2>7, ProfileWaits
    <2>8. CASE Belated(c)
      BY <2>8, ElsewhereWaits
    <2> QED BY <1>6, <2>1, <2>2, <2>3, <2>4, <2>5, <2>6, <2>7, <2>8 DEF Handling
  <1>7. CASE UNCHANGED portalVars
    BY <1>7, PassingWaits DEF portalVars, UnderWay
  <1> QED BY <1>1, <1>2, <1>3, <1>4, <1>5, <1>6, <1>7 DEF PortalNext

\* No page waits for nothing: behind every spinner and every locked form there is a call
\* under way whose answer ends it, or the countdown of the lock.
THEOREM AlwaysAwaited == PortalSpec => []WaitingIsAwaited
PROOF
  <1>1. PortalInit => WaitingIInv
    BY DEF PortalInit, LoginPage, WaitingIInv, WaitsFor
  <1>2. PortalIInv /\ WaitingIInv => WaitingIsAwaited
    <2> SUFFICES ASSUME PortalIInv, WaitingIInv, Waiting, ~(screen = "login" /\ page.countdown > 0)
                 PROVE  \E kind \in Kind : WaitsFor(kind)
      BY DEF WaitingIInv, WaitingIsAwaited, UnderWay
    <2>1. CASE screen = "analytics"
      <3>1. page \in AnalyticsStates /\ page.state = "loading"
        BY <2>1 DEF Waiting, PortalIInv, PortalTypeOK
      <3>2. PICK kind \in Parts : kind \notin page.got
        BY <2>1, <3>1 DEF WaitingIInv, AnalyticsStates
      <3> QED BY <2>1, <3>1, <3>2 DEF WaitsFor, Kind, Reads
    <2>2. CASE screen # "analytics"
      BY <2>2 DEF Waiting, WaitsFor, Kind, Reads
    <2> QED BY <2>1, <2>2
  <1> QED BY <1>1, <1>2, WaitingKeeps, PortalInvariant, PTL DEF PortalSpec
=============================================================================
