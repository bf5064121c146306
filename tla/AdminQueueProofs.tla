-------------------------- MODULE AdminQueueProofs --------------------------
(***************************************************************************)
(* Proofs about AdminQueue for any reports, any page size and any number   *)
(* of clicks and of changes by others.                                     *)
(***************************************************************************)
EXTENDS AdminQueue, TLAPS, FiniteSetTheorems

(***************************************************************************)
(* What the server answers.                                                *)
(***************************************************************************)
\* The listed reports can be counted.
LEMMA CountType ==
    ASSUME TypeOK
    PROVE  Cardinality(listed) \in Nat
<1>1. listed \subseteq Report
    BY DEF listed, live
<1>2. IsFiniteSet(listed)
    BY <1>1, FS_Subset, QueueAssumption
<1>3. QED
    BY <1>2, FS_CardinalityType

\* A page of the list gives a status to some reports, and so does no page.
LEMMA RowsType ==
    ASSUME TypeOK, NEW pg
    PROVE  PageRows(pg) \in RowSets /\ NoRows \in RowSets
<1> DEFINE Rank(r) == Cardinality({s \in listed : r <= s})
<1> DEFINE S == {q \in listed : /\ (pg - 1) * PageSize < Rank(q)
                                /\ Rank(q) <= pg * PageSize}
<1>1. PageRows(pg) = [r \in S |-> status[r]]
    BY DEF PageRows
<1>2. S \subseteq live /\ live \subseteq Report /\ \A r \in live : status[r] \in Status
    BY DEF listed, live
<1> HIDE DEF S
<1>3. [r \in S |-> status[r]] \in [S -> Status]
    BY <1>2
<1>4. S \in SUBSET Report
    BY <1>2
<1>5. NoRows \in [{} -> Status] /\ {} \in SUBSET Report
    BY DEF NoRows
<1>6. QED
    BY <1>1, <1>3, <1>4, <1>5 DEF RowSets

\* There is always a first page.
LEMMA PagesType ==
    ASSUME NEW count \in Nat
    PROVE  PagesOf(count) \in Nat \ {0}
<1> DEFINE a == count + PageSize - 1
<1>1. a \in Int /\ PageSize \in Int /\ PageSize > 0
    BY QueueAssumption
<1>2. a \div PageSize \in Int
    BY <1>1
<1> DEFINE d == a \div PageSize
<1>3. PagesOf(count) = Larger(1, d)
    BY DEF PagesOf
<1> HIDE DEF d
<1>4. d \in Int
    BY <1>2 DEF d
<1>5. QED
    BY <1>3, <1>4 DEF Larger

\* The later of two dates.
LEMMA LargerType ==
    ASSUME NEW m \in Nat, NEW n \in Nat
    PROVE  Larger(m, n) \in Nat /\ (Larger(m, n) = m \/ Larger(m, n) = n)
    BY DEF Larger

\* The invariant holds when the page has just begun to load.
LEMMA InitIInv == Init => IInv
<1> SUFFICES ASSUME Init PROVE IInv
    OBVIOUS
<1> USE DEF Init
<1>1. NoRows \in RowSets
    <2>1. NoRows \in [{} -> Status] /\ {} \in SUBSET Report
        BY DEF NoRows
    <2>2. QED
        BY <2>1 DEF RowSets
<1>2. TypeOK
    <2> DEFINE g == [n |-> 1, page |-> 1, rows |-> None, rev |-> 0, total |-> None]
    <2>1. g \in Fetch /\ fetches = {g}
        BY DEF Fetch
    <2>2. Idle \in Update
        BY DEF Update, Idle
    <2>3. status \in [Report -> Status \cup {"none", "deleted"}]
        BY QueueAssumption
    <2>4. filter \in SUBSET Status
        BY QueueAssumption
    <2> HIDE DEF g
    <2>5. fetches \subseteq Fetch /\ deletes \subseteq Delete
        BY <2>1
    <2>6. /\ rev \in Nat /\ others \in Nat
          /\ user \in {"admin", "reviewer"} /\ role \in {"admin", "reviewer"}
          /\ total \in Nat /\ pages \in Nat \ {0} /\ page \in Nat \ {0}
        OBVIOUS
    <2>10. loading \in BOOLEAN /\ failed \in BOOLEAN
        BY Zenon
    <2>7. /\ rows \in RowSets /\ update \in Update
          /\ modal \in Report \cup {None} /\ error \in Report \cup {None}
        BY <1>1, <2>2
    <2>8. /\ issued \in Nat /\ applied \in Nat /\ seen \in Nat /\ confirmed \in Nat
          /\ outcome \in {"none", "empty", "rows", "failed"} /\ clicks \in Nat
        OBVIOUS
    <2>9. QED
        BY <2>3, <2>4, <2>5, <2>6, <2>7, <2>8, <2>10 DEF TypeOK
<1>3. SpinnerHasFetch /\ OutcomeShown /\ DialogOfUpdate /\ DeleteNeedsAdmin
    BY DEF SpinnerHasFetch, OutcomeShown, DialogOfUpdate, DeleteNeedsAdmin, Idle
<1>4. Dated
    BY DEF Dated, ConfirmedIsShown, Idle
<1>5. QED
    BY <1>2, <1>3, <1>4 DEF IInv

(***************************************************************************)
(* List requests.                                                          *)
(***************************************************************************)
\* What a new request leaves, when the confirmed changes are in the table.
LEMMA Requested ==
    ASSUME IInv, NEW pg \in Nat \ {0}, FetchReports(pg),
           UNCHANGED <<server, role, filter>>,
           confirmed' \in Nat, confirmed' <= rev
    PROVE  /\ fetches' \subseteq Fetch /\ fetches' # {}
           /\ issued' \in Nat /\ issued' = issued + 1
           /\ applied' = applied /\ applied' < issued'
           /\ \A f \in fetches' : /\ f.n <= issued'
                                  /\ f.n = issued' /\ f.rows # None => f.rev >= confirmed'
           /\ loading' = TRUE /\ failed' = FALSE
           /\ UNCHANGED <<rows, total, pages, page, applied, seen, outcome>>
<1> DEFINE g == [n |-> issued + 1, page |-> pg, rows |-> None, rev |-> 0,
                 total |-> None]
<1>1. fetches' = fetches \cup {g} /\ issued' = issued + 1
    BY DEF FetchReports
<1>2. issued \in Nat /\ fetches \subseteq Fetch /\ applied \in Nat /\ applied <= issued
    BY DEF IInv, TypeOK, Dated
<1>3. g \in Fetch /\ g.n = issued + 1 /\ g.rows = None
    BY <1>2 DEF Fetch
<1>4. \A f \in fetches : f.n \in Nat /\ f.n <= issued
    BY <1>2 DEF IInv, Dated, Fetch
<1> HIDE DEF g
<1>5. \A f \in fetches' : /\ f.n <= issued'
                          /\ f.n = issued' /\ f.rows # None => f.rev >= confirmed'
    BY <1>1, <1>2, <1>3, <1>4
<1>6. QED
    BY <1>1, <1>2, <1>3, <1>5 DEF FetchReports

\* A step that requests the list keeps what is said of it.
LEMMA RequestStep ==
    ASSUME IInv, NEW pg \in Nat \ {0}, FetchReports(pg),
           UNCHANGED <<server, role, filter>>,
           confirmed' \in Nat, confirmed' <= rev,
           deletes' \subseteq deletes, update' \in Update, update'.rev <= rev,
           modal' \in Report \cup {None}, error' \in Report \cup {None},
           clicks' \in Nat
    PROVE  TypeOK' /\ SpinnerHasFetch' /\ OutcomeShown' /\ Dated'
<1>1. /\ fetches' \subseteq Fetch /\ fetches' # {}
      /\ issued' \in Nat /\ issued' = issued + 1
      /\ applied' = applied /\ applied' < issued'
      /\ \A f \in fetches' : /\ f.n <= issued'
                             /\ f.n = issued' /\ f.rows # None => f.rev >= confirmed'
      /\ loading' = TRUE /\ failed' = FALSE
      /\ UNCHANGED <<rows, total, pages, page, applied, seen, outcome>>
    BY Requested
<1>2. TypeOK'
    BY <1>1 DEF IInv, TypeOK, server
<1>3. SpinnerHasFetch' /\ OutcomeShown'
    BY <1>1 DEF IInv, SpinnerHasFetch, OutcomeShown, NoRows
<1>4. applied \in Nat /\ rev \in Nat /\ rev' = rev
    BY DEF IInv, TypeOK, server
<1>5. Dated'
    BY <1>1, <1>4 DEF IInv, Dated, ConfirmedIsShown, server
<1>6. QED
    BY <1>2, <1>3, <1>5

\* The two halves of an answer.
LEMMA ServeStep ==
    ASSUME IInv, NEW f \in fetches, List(f) \/ Count(f)
    PROVE  IInv'
<1>1. PICK g \in Fetch : /\ fetches' = (fetches \ {f}) \cup {g}
                         /\ g.n = f.n
                         /\ g.rows # None => \/ g.rev = rev
                                             \/ f.rows # None /\ g.rev = f.rev
    <2>1. f \in Fetch /\ rev \in Nat
        BY DEF IInv, TypeOK
    <2>2. CASE List(f)
        <3> DEFINE g == [f EXCEPT !.rows = PageRows(f.page), !.rev = rev]
        <3>1. PageRows(f.page) \in RowSets
            BY RowsType DEF IInv
        <3>2. g \in Fetch /\ g.n = f.n /\ g.rev = rev
            BY <2>1, <3>1 DEF Fetch
        <3>3. QED
            BY <2>2, <3>2 DEF List
    <2>3. CASE Count(f)
        <3> DEFINE g == [f EXCEPT !.total = Cardinality(listed)]
        <3>1. Cardinality(listed) \in Nat
            BY CountType DEF IInv
        <3>2. g \in Fetch /\ g.n = f.n /\ g.rev = f.rev /\ g.rows = f.rows
            BY <2>1, <3>1 DEF Fetch
        <3>3. QED
            BY <2>3, <3>2 DEF Count
    <2>4. QED
        BY <2>2, <2>3
<1>2. UNCHANGED <<server, role, filter, list, deletes, dialog, history, confirmed, clicks>>
    BY DEF List, Count
<1>3. TypeOK'
    BY <1>1, <1>2 DEF IInv, TypeOK, server, list, dialog, history
<1>4. SpinnerHasFetch' /\ OutcomeShown' /\ DialogOfUpdate' /\ DeleteNeedsAdmin'
    BY <1>1, <1>2 DEF IInv, SpinnerHasFetch, OutcomeShown, DialogOfUpdate,
                      DeleteNeedsAdmin, server, list, dialog, history, NoRows
<1>5. confirmed \in Nat /\ rev \in Nat /\ confirmed <= rev
    BY DEF IInv, TypeOK, Dated
<1>6. \A h \in fetches' : /\ h.n <= issued
                          /\ h.n = issued /\ h.rows # None => h.rev >= confirmed
    BY <1>1, <1>5 DEF IInv, Dated
<1>7. Dated'
    BY <1>2, <1>6 DEF IInv, Dated, ConfirmedIsShown, server, dialog, history
<1>8. QED
    BY <1>3, <1>4, <1>7 DEF IInv

\* The end of a request.
LEMMA SettleStep ==
    ASSUME IInv, NEW f \in fetches, Settle(f)
    PROVE  IInv'
<1>1. /\ f \in Fetch /\ fetches' = fetches \ {f} /\ loading' = FALSE
      /\ update' = EndOf(f) /\ rows' \in RowSets
      /\ outcome' \in {"empty", "rows", "failed"}
      /\ outcome' = "failed" => failed'
      /\ outcome' = "rows" => rows' # NoRows
      /\ UNCHANGED <<server, role, filter, deletes, modal, error, issued,
                     confirmed, clicks>>
    BY RowsType DEF IInv, TypeOK, Settle, Loaded, NotLoaded, Fetch
<1>2. /\ total' \in Nat /\ pages' \in Nat \ {0} /\ page' \in Nat \ {0}
      /\ failed' \in BOOLEAN /\ applied' \in Nat /\ seen' \in Nat
    BY <1>1, PagesType DEF IInv, TypeOK, Settle, Loaded, NotLoaded, Fetch
<1>3. update' \in Update /\ (update' = update \/ update' = Idle)
    BY <1>1 DEF EndOf, IInv, TypeOK, Idle, Update
<1>4. update.at \in {"sent", "done", "refused"} => update' = update
    BY <1>1 DEF EndOf
<1>5. TypeOK'
    BY <1>1, <1>2, <1>3 DEF IInv, TypeOK, server
<1>6. SpinnerHasFetch' /\ OutcomeShown' /\ DialogOfUpdate' /\ DeleteNeedsAdmin'
    BY <1>1, <1>3, <1>4 DEF IInv, SpinnerHasFetch, OutcomeShown, DialogOfUpdate,
                            DeleteNeedsAdmin, server, Idle, NoRows
<1>7. \/ applied' = applied /\ seen' = seen
      \/ applied' = f.n /\ seen' = f.rev /\ f.rows # None
    BY DEF Settle, Loaded, NotLoaded
<1>8. update'.rev <= rev
    BY <1>3 DEF IInv, Dated, TypeOK, Idle
<1>9. Dated'
    BY <1>1, <1>7, <1>8 DEF IInv, Dated, ConfirmedIsShown, server
<1>10. QED
    BY <1>5, <1>6, <1>9 DEF IInv

(***************************************************************************)
(* The admin.                                                              *)
(***************************************************************************)
\* Prev, Next and Try again.
LEMMA BrowseStep ==
    ASSUME IInv, TurnPage \/ TryAgain
    PROVE  IInv'
<1>1. PICK pg \in Nat \ {0} : FetchReports(pg)
    BY DEF IInv, TypeOK, TurnPage, TryAgain
<1>2. UNCHANGED <<server, role, filter, deletes, dialog, confirmed>> /\ clicks' \in Nat
    BY DEF IInv, TypeOK, TurnPage, TryAgain, Click
<1>3. /\ confirmed' \in Nat /\ confirmed' <= rev /\ deletes' \subseteq deletes
      /\ update' \in Update /\ update'.rev <= rev
      /\ modal' \in Report \cup {None} /\ error' \in Report \cup {None}
    BY <1>2 DEF IInv, TypeOK, Dated, dialog
<1>4. TypeOK' /\ SpinnerHasFetch' /\ OutcomeShown' /\ Dated'
    BY <1>1, <1>2, <1>3, RequestStep
<1>5. DialogOfUpdate' /\ DeleteNeedsAdmin'
    BY <1>2 DEF IInv, DialogOfUpdate, DeleteNeedsAdmin, server, dialog
<1>6. QED
    BY <1>4, <1>5 DEF IInv

\* The answer of getMe.
LEMMA RoleStep ==
    ASSUME IInv, LearnRole
    PROVE  IInv'
<1>1. role' \in {"admin", "reviewer"}
      /\ UNCHANGED <<server, filter, list, fetches, deletes, dialog, history,
                     confirmed, clicks>>
    BY DEF IInv, TypeOK, LearnRole
<1>2. TypeOK'
    BY <1>1 DEF IInv, TypeOK, server, list, dialog, history
<1>3. SpinnerHasFetch' /\ OutcomeShown' /\ DialogOfUpdate' /\ DeleteNeedsAdmin' /\ Dated'
    BY <1>1 DEF IInv, SpinnerHasFetch, OutcomeShown, DialogOfUpdate, DeleteNeedsAdmin,
                Dated, ConfirmedIsShown, server, list, dialog, history, NoRows
<1>4. QED
    BY <1>2, <1>3 DEF IInv

\* Clicks that do not request the list.
LEMMA ClickStep ==
    ASSUME IInv, NEW r \in Report,
           HandleDelete(r) \/ HandleUpdateStatus(r) \/ ConfirmStatusUpdate \/ Cancel
    PROVE  IInv'
<1> USE DEF IInv
<1>1. UNCHANGED <<server, filter, list, fetches, history, confirmed>>
    BY DEF HandleDelete, HandleUpdateStatus, ConfirmStatusUpdate, Cancel
<1>2. CASE HandleDelete(r)
    <2> DEFINE d == [n |-> clicks', r |-> r, at |-> "sent", rev |-> 0]
    <2>1. clicks' \in Nat /\ d \in Delete
        BY <1>2 DEF HandleDelete, Click, TypeOK, Delete
    <2>2. deletes' = deletes \cup {d} /\ d.at = "sent" /\ d.rev = 0
        BY <1>2 DEF HandleDelete
    <2>3. UNCHANGED <<role, dialog>>
        BY <1>2 DEF HandleDelete
    <2> HIDE DEF d
    <2>4. TypeOK'
        BY <1>1, <2>1, <2>2, <2>3 DEF TypeOK, server, list, history, dialog
    <2>5. SpinnerHasFetch' /\ OutcomeShown' /\ DialogOfUpdate' /\ DeleteNeedsAdmin'
        BY <1>1, <2>2, <2>3 DEF SpinnerHasFetch, OutcomeShown, DialogOfUpdate,
                                DeleteNeedsAdmin, server, list, history, dialog, NoRows
    <2>6. Dated'
        BY <1>1, <2>2, <2>3 DEF Dated, ConfirmedIsShown, server, history, dialog, TypeOK
    <2>7. QED
        BY <2>4, <2>5, <2>6
<1>3. CASE HandleUpdateStatus(r) \/ Cancel
    <2>1. TypeOK'
        BY <1>1, <1>3 DEF TypeOK, HandleUpdateStatus, Cancel, Click,
                          server, list, history, dialog
    <2>2. UNCHANGED <<update, deletes>>
        BY <1>3 DEF HandleUpdateStatus, Cancel, dialog
    <2>3. SpinnerHasFetch' /\ OutcomeShown' /\ DeleteNeedsAdmin' /\ Dated'
        BY <1>1, <2>2 DEF SpinnerHasFetch, OutcomeShown, DeleteNeedsAdmin, Dated,
                          ConfirmedIsShown, server, list, history, NoRows
    <2>4. DialogOfUpdate'
        <3>1. CASE HandleUpdateStatus(r)
            <4>1. r # None
                BY QueueAssumption
            <4>2. update.at \notin {"sent", "done", "refused"}
                BY <3>1 DEF HandleUpdateStatus, Click, DialogOfUpdate
            <4>3. QED
                BY <3>1, <2>2, <4>1, <4>2 DEF HandleUpdateStatus, DialogOfUpdate
        <3>2. CASE Cancel
            BY <3>2, <2>2 DEF Cancel, DialogOfUpdate
        <3>3. QED
            BY <1>3, <3>1, <3>2
    <2>5. QED
        BY <2>1, <2>3, <2>4
<1>4. CASE ConfirmStatusUpdate
    <2>1. modal \in Report /\ update'.r = modal /\ update'.at = "sent" /\ update'.rev = 0
        BY <1>4 DEF ConfirmStatusUpdate, TypeOK
    <2>2. update' \in Update /\ clicks' \in Nat
        BY <1>4, <2>1 DEF ConfirmStatusUpdate, TypeOK, Update
    <2>3. UNCHANGED <<role, deletes, modal>> /\ error' = None
        BY <1>4 DEF ConfirmStatusUpdate
    <2>4. TypeOK'
        BY <1>1, <2>2, <2>3 DEF TypeOK, server, list, history
    <2>5. SpinnerHasFetch' /\ OutcomeShown' /\ DeleteNeedsAdmin'
        BY <1>1, <2>3 DEF SpinnerHasFetch, OutcomeShown, DeleteNeedsAdmin, server,
                          list, history, NoRows
    <2>6. Dated'
        BY <1>1, <2>1, <2>3 DEF Dated, ConfirmedIsShown, server, history, TypeOK
    <2>7. DialogOfUpdate'
        BY <2>1, <2>3, QueueAssumption DEF DialogOfUpdate
    <2>8. QED
        BY <2>4, <2>5, <2>6, <2>7
<1>5. QED
    BY <1>2, <1>3, <1>4

(***************************************************************************)
(* The calls that change a report, and the others.                         *)
(***************************************************************************)
\* A change of the table keeps what is said of the page.
LEMMA ChangeStep ==
    ASSUME IInv, NEW r \in Report, NEW s \in Status \cup {"deleted"}, Change(r, s),
           others' \in Nat,
           UNCHANGED <<user, role, filter, list, fetches, modal, error, history,
                       confirmed, clicks>>,
           deletes' \subseteq Delete, update' \in Update,
           \A d \in deletes' : d.rev <= rev',
           update'.rev <= rev'
    PROVE  TypeOK' /\ SpinnerHasFetch' /\ OutcomeShown' /\ Dated'
<1> USE DEF IInv
<1>1. rev \in Nat /\ rev' = rev + 1 /\ confirmed \in Nat
    BY DEF TypeOK, Change
<1>2. status' \in [Report -> Status \cup {"none", "deleted"}]
    BY DEF TypeOK, Change
<1>3. TypeOK'
    BY <1>1, <1>2 DEF TypeOK, list, history
<1>4. SpinnerHasFetch' /\ OutcomeShown'
    BY DEF SpinnerHasFetch, OutcomeShown, list, history, NoRows
<1>5. Dated'
    BY <1>1 DEF Dated, ConfirmedIsShown, history
<1>6. QED
    BY <1>3, <1>4, <1>5

\* How a DELETE changes on the way.
LEMMA DeleteRecord ==
    ASSUME NEW n \in Nat, NEW d \in Delete
    PROVE  /\ [d EXCEPT !.at = "done", !.rev = n] \in Delete
           /\ [d EXCEPT !.at = "done", !.rev = n].rev = n
    BY DEF Delete

\* And how a PATCH does.
LEMMA UpdateDone ==
    ASSUME NEW n \in Nat, NEW u \in Update
    PROVE  LET v == [u EXCEPT !.at = "done", !.rev = n]
           IN  v \in Update /\ v.rev = n /\ v.at = "done" /\ v.r = u.r
    BY DEF Update

\* The other ways a PATCH ends.
LEMMA UpdateRefused ==
    ASSUME NEW u \in Update
    PROVE  LET v == [u EXCEPT !.at = "refused"]
           IN  v \in Update /\ v.rev = u.rev /\ v.at = "refused" /\ v.r = u.r
    BY DEF Update

\* Nothing under way.
LEMMA UpdateIdle == Idle \in Update /\ Idle.at = "idle" /\ Idle.rev = 0
    BY DEF Update, Idle

\* A DELETE at the server, and its end at the page.
LEMMA DeleteStep ==
    ASSUME IInv, NEW d \in deletes, ServeDelete(d) \/ Deleted(d) \/ NotDeleted(d)
    PROVE  IInv'
<1> USE DEF IInv
<1>1. d \in Delete /\ rev \in Nat /\ d.rev \in Nat /\ d.rev <= rev
      /\ confirmed \in Nat /\ confirmed <= rev
    BY DEF TypeOK, Dated, Delete
<1>2. CASE ServeDelete(d) /\ user = "admin" /\ d.r \in live
    <2> DEFINE e == [d EXCEPT !.at = "done", !.rev = rev + 1]
    <2>1. Change(d.r, "deleted") /\ deletes' = (deletes \ {d}) \cup {e}
        BY <1>2 DEF ServeDelete, Change
    <2>2. e \in Delete /\ e.rev = rev + 1
        <3>1. rev + 1 \in Nat
            BY <1>1
        <3>2. QED
            BY <1>1, <3>1, DeleteRecord
    <2>3. rev' = rev + 1 /\ d.r \in Report
        BY <1>1, <2>1 DEF Change, Delete
    <2>4. UNCHANGED <<others, user, role, filter, list, fetches, dialog, history,
                      confirmed, clicks>>
        BY <1>2 DEF ServeDelete
    <2> HIDE DEF e
    <2>5. deletes' \subseteq Delete /\ \A x \in deletes' : x.rev <= rev'
        <3>1. \A x \in deletes : x.rev \in Nat /\ x.rev <= rev
            BY DEF TypeOK, Delete, Dated
        <3>2. QED
            BY <1>1, <2>1, <2>2, <2>3, <3>1 DEF TypeOK
    <2>6. update' \in Update /\ update'.rev <= rev' /\ others' \in Nat
        <3>1. update.rev \in Nat /\ update.rev <= rev
            BY DEF TypeOK, Update, Dated
        <3>2. QED
            BY <1>1, <2>3, <2>4, <3>1 DEF TypeOK, dialog
    <2>7. UNCHANGED <<user, role, filter, list, fetches, modal, error, history,
                      confirmed, clicks>>
        BY <2>4 DEF dialog
    <2>8. TypeOK' /\ SpinnerHasFetch' /\ OutcomeShown' /\ Dated'
        BY <2>1, <2>3, <2>5, <2>6, <2>7, ChangeStep
    <2>9. DialogOfUpdate' /\ DeleteNeedsAdmin'
        BY <1>2, <2>4 DEF DialogOfUpdate, DeleteNeedsAdmin, dialog
    <2>10. QED
        BY <2>8, <2>9
<1>3. CASE ServeDelete(d) /\ ~(user = "admin" /\ d.r \in live)
    <2> DEFINE e == [d EXCEPT !.at = "refused"]
    <2>1. deletes' = (deletes \ {d}) \cup {e}
        BY <1>3 DEF ServeDelete
    <2>2. UNCHANGED <<server, role, filter, list, fetches, dialog, history,
                      confirmed, clicks>>
        BY <1>3 DEF ServeDelete, server
    <2>3. e \in Delete /\ e.rev = d.rev /\ e.at = "refused"
        BY <1>1 DEF Delete
    <2> HIDE DEF e
    <2>4. TypeOK'
        BY <2>1, <2>2, <2>3 DEF TypeOK, server, list, dialog, history
    <2>5. SpinnerHasFetch' /\ OutcomeShown' /\ DialogOfUpdate' /\ DeleteNeedsAdmin'
        BY <2>1, <2>2, <2>3 DEF SpinnerHasFetch, OutcomeShown, DialogOfUpdate,
                DeleteNeedsAdmin, server, list, dialog, history, NoRows
    <2>6. Dated'
        BY <1>1, <2>1, <2>2, <2>3 DEF Dated, ConfirmedIsShown, server, dialog, history
    <2>7. QED
        BY <2>4, <2>5, <2>6
<1>4. CASE Deleted(d)
    <2>1. confirmed' \in Nat /\ confirmed' <= rev
        BY <1>1, <1>4, LargerType DEF Deleted
    <2>2. UNCHANGED <<server, role, filter, dialog, clicks>> /\ deletes' \subseteq deletes
        BY <1>4 DEF Deleted
    <2>3. update' \in Update /\ update'.rev <= rev /\ clicks' \in Nat
          /\ modal' \in Report \cup {None} /\ error' \in Report \cup {None}
        BY <2>2 DEF TypeOK, Dated, dialog
    <2>4. page \in Nat \ {0} /\ FetchReports(page)
        BY <1>4 DEF TypeOK, Deleted
    <2>5. TypeOK' /\ SpinnerHasFetch' /\ OutcomeShown' /\ Dated'
        BY <2>1, <2>2, <2>3, <2>4, RequestStep
    <2>6. DialogOfUpdate' /\ DeleteNeedsAdmin'
        BY <2>2 DEF DialogOfUpdate, DeleteNeedsAdmin, dialog, server
    <2>7. QED
        BY <2>5, <2>6
<1>5. CASE NotDeleted(d)
    <2>1. UNCHANGED <<server, role, filter, list, fetches, dialog, history,
                      confirmed, clicks>> /\ deletes' \subseteq deletes
        BY <1>5 DEF NotDeleted
    <2>2. TypeOK'
        BY <2>1 DEF TypeOK, server, list, dialog, history
    <2>3. SpinnerHasFetch' /\ OutcomeShown' /\ DialogOfUpdate' /\ DeleteNeedsAdmin'
        BY <2>1 DEF SpinnerHasFetch, OutcomeShown, DialogOfUpdate,
                DeleteNeedsAdmin, server, list, dialog, history, NoRows
    <2>4. Dated'
        BY <2>1 DEF Dated, ConfirmedIsShown, server, dialog, history
    <2>5. QED
        BY <2>2, <2>3, <2>4
<1>6. QED
    BY <1>2, <1>3, <1>4, <1>5

\* The PATCH at the server, and its end at the page.
LEMMA UpdateStep ==
    ASSUME IInv, ServeUpdate \/ Updated \/ NotUpdated
    PROVE  IInv'
<1> USE DEF IInv
<1>1. update \in Update /\ update.rev \in Nat /\ update.rev <= rev /\ rev \in Nat
      /\ confirmed \in Nat /\ confirmed <= rev
    BY DEF TypeOK, Dated, Update
<1>2. CASE ServeUpdate /\ update.r \in live
    <2>1. PICK s \in Status : /\ Change(update.r, s)
                              /\ update' = [update EXCEPT !.at = "done", !.rev = rev']
        BY <1>2 DEF ServeUpdate
    <2>2. rev' = rev + 1 /\ update.r \in Report
        BY <1>2, <2>1 DEF Change, live
    <2>3. /\ update' \in Update /\ update'.rev = rev' /\ update'.at = "done"
          /\ update'.r = update.r
        <3> DEFINE u == [update EXCEPT !.at = "done", !.rev = rev + 1]
        <3>1. rev + 1 \in Nat
            BY <1>1
        <3>2. u \in Update /\ u.rev = rev + 1 /\ u.at = "done" /\ u.r = update.r
            BY <1>1, <3>1, UpdateDone
        <3>3. update' = u
            BY <2>1, <2>2
        <3> HIDE DEF u
        <3>4. QED
            BY <2>2, <3>2, <3>3
    <2>4. UNCHANGED <<others, user, role, filter, list, fetches, deletes, modal,
                      error, history, confirmed, clicks>>
        BY <1>2 DEF ServeUpdate
    <2>5. \A x \in deletes' : x.rev <= rev'
        <3>1. \A x \in deletes : x.rev \in Nat /\ x.rev <= rev
            BY DEF TypeOK, Delete, Dated
        <3>2. QED
            BY <1>1, <2>2, <2>4, <3>1
    <2>6. deletes' \subseteq Delete /\ others' \in Nat /\ update'.rev <= rev'
        BY <1>1, <2>2, <2>3, <2>4 DEF TypeOK
    <2>7. TypeOK' /\ SpinnerHasFetch' /\ OutcomeShown' /\ Dated'
        BY <2>1, <2>2, <2>3, <2>4, <2>5, <2>6, ChangeStep
    <2>8. DialogOfUpdate' /\ DeleteNeedsAdmin'
        BY <1>2, <2>3, <2>4 DEF ServeUpdate, DialogOfUpdate, DeleteNeedsAdmin
    <2>9. QED
        BY <2>7, <2>8
<1>3. CASE (ServeUpdate /\ update.r \notin live) \/ NotUpdated
    <2>1. UNCHANGED <<server, role, filter, list, fetches, deletes, modal, history,
                      confirmed, clicks>>
        BY <1>3 DEF ServeUpdate, NotUpdated, server
    <2>2. /\ update' \in Update
          /\ update'.rev = update.rev \/ update'.rev = 0
          /\ \/ /\ update'.at = "refused" /\ update'.r = update.r
                /\ update.at = "sent" /\ error' = error
             \/ /\ update'.at = "idle" /\ modal # None /\ error' = modal
        <3>1. CASE ServeUpdate /\ update.r \notin live
            <4>1. update' = [update EXCEPT !.at = "refused"] /\ error' = error
                  /\ update.at = "sent"
                BY <3>1 DEF ServeUpdate
            <4>2. QED
                BY <1>1, <4>1, UpdateRefused
        <3>2. CASE NotUpdated
            <4>1. update' = Idle /\ error' = update.r /\ modal # None /\ modal = update.r
                BY <3>2 DEF NotUpdated, DialogOfUpdate
            <4>2. QED
                BY <4>1, UpdateIdle
        <3>3. QED
            BY <1>3, <3>1, <3>2
    <2>3. TypeOK'
        BY <2>1, <2>2 DEF TypeOK, server, list, history
    <2>4. SpinnerHasFetch' /\ OutcomeShown' /\ DialogOfUpdate' /\ DeleteNeedsAdmin'
        BY <2>1, <2>2 DEF SpinnerHasFetch, OutcomeShown, DialogOfUpdate,
                DeleteNeedsAdmin, server, list, history, NoRows
    <2>5. Dated'
        BY <1>1, <2>1, <2>2 DEF Dated, ConfirmedIsShown, server, history
    <2>6. QED
        BY <2>3, <2>4, <2>5
<1>4. CASE Updated
    <2>1. confirmed' \in Nat /\ confirmed' <= rev
        BY <1>1, <1>4, LargerType DEF Updated
    <2>2. UNCHANGED <<server, role, filter, deletes, error, clicks>> /\ modal' = None
        BY <1>4 DEF Updated
    <2>3. page \in Nat \ {0} /\ FetchReports(page)
        BY <1>4 DEF TypeOK, Updated
    <2>4. issued' \in Nat
        BY <2>3 DEF TypeOK, FetchReports
    <2>5. update' \in Update /\ update'.rev <= rev /\ update'.at = "refetch"
        BY <1>1, <1>4, <2>4 DEF Updated, Update
    <2>6. clicks' \in Nat /\ modal' \in Report \cup {None} /\ error' \in Report \cup {None}
        BY <2>2 DEF TypeOK
    <2>7. TypeOK' /\ SpinnerHasFetch' /\ OutcomeShown' /\ Dated'
        BY <2>1, <2>2, <2>3, <2>5, <2>6, RequestStep
    <2>8. DialogOfUpdate' /\ DeleteNeedsAdmin'
        BY <2>2, <2>5 DEF DialogOfUpdate, DeleteNeedsAdmin, server
    <2>9. QED
        BY <2>7, <2>8
<1>5. QED
    BY <1>2, <1>3, <1>4

\* The citizens and the other admins.
LEMMA OthersStep ==
    ASSUME IInv, NEW r \in Report, Others(r)
    PROVE  IInv'
<1> USE DEF IInv
<1>1. PICK s \in Status \cup {"deleted"} : Change(r, s)
    BY QueueAssumption DEF Others
<1>2. UNCHANGED <<user, role, filter, list, fetches, deletes, dialog, history,
                  confirmed, clicks>> /\ others' \in Nat
    BY DEF Others, TypeOK
<1>3. rev \in Nat /\ rev' = rev + 1
    BY <1>1 DEF Change, TypeOK
<1>4. \A x \in deletes : x.rev \in Nat /\ x.rev <= rev
    BY DEF TypeOK, Delete, Dated
<1>5. update.rev \in Nat /\ update.rev <= rev
    BY DEF TypeOK, Update, Dated
<1>6. /\ deletes' \subseteq Delete /\ update' \in Update
      /\ \A x \in deletes' : x.rev <= rev'
      /\ update'.rev <= rev'
    BY <1>2, <1>3, <1>4, <1>5 DEF TypeOK, dialog
<1>7. UNCHANGED <<user, role, filter, list, fetches, modal, error, history,
                  confirmed, clicks>>
    BY <1>2 DEF dialog
<1>8. TypeOK' /\ SpinnerHasFetch' /\ OutcomeShown' /\ Dated'
    BY <1>1, <1>2, <1>6, <1>7, ChangeStep
<1>9. DialogOfUpdate' /\ DeleteNeedsAdmin'
    BY <1>2 DEF DialogOfUpdate, DeleteNeedsAdmin, dialog
<1>10. QED
    BY <1>8, <1>9

(***************************************************************************)
(* The theorems.                                                           *)
(***************************************************************************)
\* No step breaks the invariant.
LEMMA NextIInv == IInv /\ [Next]_vars => IInv'
<1> SUFFICES ASSUME IInv, [Next]_vars PROVE IInv'
    OBVIOUS
<1>1. CASE UNCHANGED vars
    BY <1>1 DEF vars, server, list, history, dialog, IInv, TypeOK, SpinnerHasFetch,
        OutcomeShown, Dated, DialogOfUpdate, DeleteNeedsAdmin, ConfirmedIsShown, NoRows
<1>2. ASSUME NEW f \in fetches, List(f) \/ Count(f) \/ Settle(f) PROVE IInv'
    BY <1>2, ServeStep, SettleStep
<1>3. ASSUME NEW d \in deletes, ServeDelete(d) \/ Deleted(d) \/ NotDeleted(d) PROVE IInv'
    BY <1>3, DeleteStep
<1>4. CASE ServeUpdate \/ Updated \/ NotUpdated
    BY <1>4, UpdateStep
<1>5. CASE TurnPage \/ TryAgain
    BY <1>5, BrowseStep
<1>6. CASE ConfirmStatusUpdate \/ Cancel \/ LearnRole
    <2>1. CASE LearnRole
        BY <2>1, RoleStep
    <2>2. CASE ConfirmStatusUpdate \/ Cancel
        <3>1. modal \in Report
            BY <2>2 DEF ConfirmStatusUpdate, Cancel, IInv, TypeOK
        <3>2. QED
            BY <2>2, <3>1, ClickStep
    <2>3. QED
        BY <1>6, <2>1, <2>2
<1>7. ASSUME NEW r \in Report, HandleDelete(r) \/ HandleUpdateStatus(r) PROVE IInv'
    BY <1>7, ClickStep
<1>8. ASSUME NEW r \in Report, Others(r) PROVE IInv'
    BY <1>8, OthersStep
<1>9. QED
    BY <1>1, <1>2, <1>3, <1>4, <1>5, <1>6, <1>7, <1>8 DEF Next

\* The inductive invariant holds in every behaviour.
THEOREM Invariance == Spec => []IInv
<1>1. Init => IInv
    BY InitIInv
<1>2. IInv /\ [Next]_vars => IInv'
    BY NextIInv
<1>3. QED
    BY <1>1, <1>2, PTL DEF Spec

\* The page keeps to its types: page numbers start at one, and the table
\* always has a first page.
THEOREM TypeCorrect == Spec => []TypeOK
BY Invariance, PTL DEF IInv

\* The skeleton always waits for a request (fetchReports, finally).
THEOREM NoIdleSpinner == Spec => []SpinnerHasFetch
BY Invariance, PTL DEF IInv

\* "No reports found" is never the face of a failed request.
THEOREM EmptinessAnswered == Spec => []EmptyIsAnswered
<1>1. IInv => EmptyIsAnswered
    BY DEF IInv, TypeOK, OutcomeShown, EmptyIsAnswered, View
<1>2. QED
    BY <1>1, Invariance, PTL

\* The newest list shows the page's own changes, for any overlap of deletes,
\* status changes, page turns and retries.
THEOREM OwnChangesShown == Spec => []ConfirmedIsShown
<1>1. IInv => ConfirmedIsShown
    BY DEF IInv, Dated
<1>2. QED
    BY <1>1, Invariance, PTL

\* The dialog stays with its report until the PATCH has ended.
THEOREM DialogKept == Spec => []DialogOfUpdate
BY Invariance, PTL DEF IInv

\* Only an account that is an admin deletes.
THEOREM OnlyAdminsDelete == Spec => []DeleteNeedsAdmin
BY Invariance, PTL DEF IInv
=============================================================================
