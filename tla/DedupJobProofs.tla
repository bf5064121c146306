--------------------------- MODULE DedupJobProofs ---------------------------
(***************************************************************************)
(* IInv is an inductive invariant of DedupJob, and what follows from it,   *)
(* for any number of reports and any geography.                            *)
(***************************************************************************)
EXTENDS DedupJob, FiniteSetTheorems, TLAPS

\* Rows have ids of reports.
LEMMA LiveType == live \subseteq Report
  BY DEF live

\* The children of a report are among the rows, hence finitely many.
LEMMA ChildrenFinite ==
  ASSUME IsFiniteSet(live), NEW p, NEW d
  PROVE  /\ Children(p, d) \subseteq live
         /\ IsFiniteSet(Children(p, d))
         /\ Cardinality(Children(p, d)) \in Nat
<1>1. Children(p, d) \subseteq live
  BY DEF Children
<1>2. IsFiniteSet(Children(p, d))
  BY <1>1, FS_Subset
<1>3. QED
  BY <1>1, <1>2, FS_CardinalityType

\* There are no more distinct addresses than duplicates.
LEMMA DistinctIpsBound ==
  ASSUME IsFiniteSet(live), NEW p, NEW d
  PROVE  /\ DistinctIps(p, d) \in Nat
         /\ DistinctIps(p, d) <= Cardinality(Children(p, d))
<1> DEFINE C == Children(p, d)
           V == {ip[r] : r \in C}
           f == [r \in C |-> ip[r]]
<1>1. IsFiniteSet(C)
  BY ChildrenFinite
<1>2. f \in Surjection(C, V)
  BY DEF Surjection
<1>3. IsFiniteSet(V) /\ Cardinality(V) <= Cardinality(C)
  <2> HIDE DEF C, V, f
  <2> QED BY <1>1, <1>2, FS_Surjection
<1>4. Cardinality(V) \in Nat
  BY <1>3, FS_CardinalityType
<1> QED
  BY <1>3, <1>4 DEF DistinctIps

\* The invariant holds of the empty table.
LEMMA InitIInv == Init => IInv
<1> SUFFICES ASSUME Init PROVE IInv
  OBVIOUS
<1>1. live = {}
  BY DEF Init, live
<1>2. IsFiniteSet(live)
  BY <1>1, FS_EmptySet
<1>3. TypeOK
  BY <1>1, StatusAssumption DEF Init, TypeOK, Confidence
<1>4. JobInv
  BY DEF Init, JobInv, AbsentRowsClear, TodoUnlinked, PairUnlinked
<1>5. NoDuplicateCycle
  BY NoneAssumption DEF Init, NoDuplicateCycle
<1>6. CountCoversLinks /\ HighCountedTwice
  BY <1>1 DEF CountCoversLinks, HighCountedTwice
<1> QED
  BY <1>2, <1>3, <1>4, <1>5, <1>6 DEF IInv

(***************************************************************************)
(* A step that leaves the rows and their links alone can only disturb what *)
(* the job remembers.                                                      *)
(***************************************************************************)
LEMMA RowsFrame ==
  ASSUME IInv, live' = live, UNCHANGED links
  PROVE  /\ IsFiniteSet(live)'
         /\ AbsentRowsClear'
         /\ NoDuplicateCycle'
         /\ CountCoversLinks'
         /\ HighCountedTwice'
<1>1. IsFiniteSet(live)'
  BY DEF IInv
<1>2. AbsentRowsClear'
  BY DEF IInv, JobInv, AbsentRowsClear, links
<1>3. NoDuplicateCycle'
  BY DEF IInv, NoDuplicateCycle, links
<1>4. CountCoversLinks'
  BY DEF IInv, CountCoversLinks, Children, links
<1>5. HighCountedTwice'
  BY DEF IInv, HighCountedTwice, links
<1> QED
  BY <1>1, <1>2, <1>3, <1>4, <1>5

\* Neither does a step that also leaves the job alone.
LEMMA JobFrame ==
  ASSUME IInv, UNCHANGED <<dupOf, job>>
  PROVE  /\ TodoUnlinked'
         /\ PairUnlinked'
BY DEF IInv, JobInv, TodoUnlinked, PairUnlinked, job

\* An INSERT that starts changes only created_at.
LEMMA InsertBeginInv ==
  ASSUME IInv, NEW r \in Report, InsertBegin(r)
  PROVE  IInv'
<1>1. live' = live
  BY DEF InsertBegin, IInv, TypeOK, live
<1>2. TypeOK'
  BY <1>1 DEF InsertBegin, IInv, TypeOK, links, job
<1> QED
  BY <1>1, <1>2, RowsFrame, JobFrame DEF InsertBegin, IInv, JobInv, links

\* A new row has no link, no count and a low confidence.
LEMMA InsertCommitInv ==
  ASSUME IInv, NEW r \in Report, InsertCommit(r)
  PROVE  IInv'
<1>1. live' = live \cup {r} /\ r \notin live
  BY DEF InsertCommit, IInv, TypeOK, live
<1>2. TypeOK'
  BY <1>1 DEF InsertCommit, IInv, TypeOK, fixed, links, time, job
<1>3. IsFiniteSet(live)'
  BY <1>1, FS_AddElement DEF IInv
<1>4. UNCHANGED links
  BY DEF InsertCommit
<1>5. AbsentRowsClear' /\ NoDuplicateCycle'
  BY <1>1, <1>4 DEF IInv, JobInv, AbsentRowsClear, NoDuplicateCycle, links
<1>6. CountCoversLinks'
  <2> SUFFICES ASSUME NEW p \in live'
               PROVE  Cardinality(Children(p, dupOf)') <= dupCount[p]
    BY <1>4 DEF CountCoversLinks, links
  <2>1. Children(p, dupOf)' = Children(p, dupOf)
    BY <1>1, <1>4, NoneAssumption
       DEF IInv, JobInv, AbsentRowsClear, Children, links, live
  <2>2. CASE p \in live
    BY <2>1, <2>2 DEF IInv, CountCoversLinks
  <2>3. CASE p = r
    <3>1. Children(p, dupOf) = {}
      BY <1>1, <2>3, NoneAssumption DEF IInv, TypeOK, Children, live
    <3> QED
      BY <2>1, <2>3, <3>1, FS_EmptySet DEF IInv, TypeOK
  <2> QED
    BY <1>1, <2>2, <2>3
<1>7. HighCountedTwice'
  BY <1>1, <1>4 DEF IInv, JobInv, AbsentRowsClear, HighCountedTwice, links
<1> QED
  BY <1>2, <1>3, <1>5, <1>6, <1>7, JobFrame
     DEF InsertCommit, IInv, JobInv, links

\* No part of the invariant reads the status, but for its type.
LEMMA SetStatusInv ==
  ASSUME IInv, NEW r \in Report, SetStatus(r)
  PROVE  IInv'
<1>1. live' = live
  BY DEF SetStatus, live
<1>2. TypeOK'
  BY <1>1 DEF SetStatus, IInv, TypeOK, fixed, links, time, job
<1> QED
  BY <1>1, <1>2, RowsFrame, JobFrame DEF SetStatus, IInv, JobInv, links

\* Deleting r frees its duplicates and loses one child of its own parent.
LEMMA DeleteReportInv ==
  ASSUME IInv, NEW r \in Report, DeleteReport(r)
  PROVE  IInv'
<1> DEFINE freed == [s \in Report |-> IF s = r \/ dupOf[s] = r THEN None
                                                           ELSE dupOf[s]]
<1>1. live' = live \ {r} /\ r \in live
  BY DEF DeleteReport, IInv, TypeOK, live
<1>2. dupOf' = freed
  BY DEF DeleteReport
<1>3. dupOf' \in [Report -> live' \cup {None}]
  BY <1>1, <1>2 DEF IInv, TypeOK
<1>4. TypeOK'
  BY <1>3, StatusAssumption
     DEF DeleteReport, IInv, TypeOK, Confidence, fixed, time, job
<1>5. IsFiniteSet(live)'
  BY <1>1, FS_RemoveElement DEF IInv
<1>6. AbsentRowsClear'
  BY <1>1 DEF DeleteReport, IInv, TypeOK, JobInv, AbsentRowsClear
<1>7. \A s \in Report : dupOf[s] = None => dupOf'[s] = None
  BY <1>2
<1>8. TodoUnlinked' /\ PairUnlinked'
  BY <1>7 DEF DeleteReport, IInv, TypeOK, JobInv, TodoUnlinked, PairUnlinked,
              job
<1>9. NoDuplicateCycle'
  BY <1>2, NoneAssumption DEF IInv, NoDuplicateCycle
<1>10. \A p \in live' : /\ Children(p, dupOf)' \subseteq Children(p, dupOf)
                        /\ dupCount'[p] = dupCount[p]
                        /\ confidence'[p] = confidence[p]
  BY <1>1, <1>2, NoneAssumption DEF DeleteReport, IInv, TypeOK, Children, live
<1>11. CountCoversLinks'
  <2> SUFFICES ASSUME NEW p \in live'
               PROVE  Cardinality(Children(p, dupOf)') <= dupCount'[p]
    BY DEF CountCoversLinks
  <2>1. /\ Cardinality(Children(p, dupOf)') \in Nat
        /\ Cardinality(Children(p, dupOf)') <= Cardinality(Children(p, dupOf))
        /\ Cardinality(Children(p, dupOf)) \in Nat
    BY <1>10, ChildrenFinite, FS_Subset, FS_CardinalityType DEF IInv
  <2>2. p \in live
    BY <1>1
  <2> QED
    BY <1>10, <2>1, <2>2, LiveType DEF IInv, TypeOK, CountCoversLinks
<1>12. HighCountedTwice'
  BY <1>1, <1>10 DEF IInv, HighCountedTwice
<1> QED
  BY <1>4, <1>5, <1>6, <1>8, <1>9, <1>11, <1>12 DEF IInv, JobInv

\* Time only narrows what is fresh.
LEMMA AgeOutInv ==
  ASSUME IInv, AgeOut
  PROVE  IInv'
<1>1. live' = live
  BY DEF AgeOut, rows, live
<1>2. TypeOK'
  BY <1>1 DEF AgeOut, IInv, TypeOK, rows, fixed, links, job
<1> QED
  BY <1>1, <1>2, RowsFrame, JobFrame DEF AgeOut, IInv, JobInv, rows, links

\* The candidates of a pass are unlinked when it starts.
LEMMA PassStartInv ==
  ASSUME IInv, PassStart
  PROVE  IInv'
<1>1. live' = live
  BY DEF PassStart, rows, live
<1>2. Candidates \subseteq {r \in Report : dupOf[r] = None}
  BY LiveType DEF Candidates, Unlinked
<1>3. TypeOK'
  BY <1>1, <1>2 DEF PassStart, IInv, TypeOK, rows, fixed, links, time
<1>4. TodoUnlinked' /\ PairUnlinked'
  BY <1>2 DEF PassStart, IInv, TypeOK, TodoUnlinked, PairUnlinked, rows, links
<1> QED
  BY <1>1, <1>3, <1>4, RowsFrame DEF PassStart, IInv, JobInv, rows, links

\* The pair a pass is about to link is unlinked.
LEMMA FindInv ==
  ASSUME IInv, NEW r \in Report, Find(r)
  PROVE  IInv'
<1>1. live' = live
  BY DEF Find, rows, live
<1>2. r \in todo /\ todo' = todo \ {r}
  BY DEF Find, IsOldest
<1>3. Matches(r) \subseteq {s \in Report : s # r /\ dupOf[s] = None}
  BY LiveType DEF Matches
<1>4. TypeOK'
  BY <1>1, <1>2, <1>3
     DEF Find, IsOldest, IInv, TypeOK, rows, fixed, links, time
<1>5. TodoUnlinked' /\ PairUnlinked'
  BY <1>2, <1>3 DEF Find, IsOldest, IInv, JobInv, TodoUnlinked, PairUnlinked,
                    rows, links
<1> QED
  BY <1>1, <1>2, <1>4, <1>5, RowsFrame
     DEF Find, IInv, JobInv, rows, links

\* Linking child to parent.  A set closed under duplicate_of_id would have
\* to contain the parent, which has no link.
LEMMA LinkInv ==
  ASSUME IInv, Link
  PROVE  IInv'
<1>1. live' = live
  BY DEF Link, live
<1>2. /\ child \in Report /\ parent \in Report /\ child # parent
      /\ dupOf[child] = None /\ dupOf[parent] = None
      /\ child \notin todo
  BY DEF Link, IInv, JobInv, PairUnlinked
<1>3. dupOf' = [dupOf EXCEPT ![child] = IF child \in live THEN parent ELSE @]
  BY DEF Link, LinkRows
<1>4. dupCount' = [dupCount EXCEPT ![parent] =
                     IF parent \in live THEN @ + 1 ELSE @]
  BY DEF Link, LinkRows
<1>5. confidence' =
        [confidence EXCEPT ![parent] =
           IF parent \in live /\ DistinctIps(parent, dupOf') >= 2
           THEN "high" ELSE @]
  BY DEF Link, LinkRows
<1>6. dupOf' \in [Report -> live' \cup {None}]
  BY <1>1, <1>2, <1>3 DEF Link, IInv, TypeOK
<1>7. dupCount' \in [Report -> Nat] /\ confidence' \in [Report -> Confidence]
  <2>1. dupCount' \in [Report -> Nat]
    <3>1. dupCount \in [Report -> Nat] /\ dupCount[parent] + 1 \in Nat
      BY <1>2 DEF IInv, TypeOK
    <3> QED
      BY <1>4, <3>1
  <2>2. confidence' \in [Report -> Confidence]
    <3> DEFINE new == IF parent \in live /\ DistinctIps(parent, dupOf') >= 2
                      THEN "high" ELSE confidence[parent]
    <3>1. confidence \in [Report -> Confidence]
      BY DEF IInv, TypeOK
    <3>2. new \in Confidence
      BY <1>2, <3>1 DEF Confidence
    <3>3. confidence' = [confidence EXCEPT ![parent] = new]
      BY <1>5
    <3> HIDE DEF new
    <3> QED
      BY <3>1, <3>2, <3>3
  <2> QED
    BY <2>1, <2>2
<1>8. TypeOK'
  BY <1>6, <1>7 DEF Link, Linked, IInv, TypeOK, fixed, time
<1>9. IsFiniteSet(live)'
  BY <1>1 DEF IInv
<1>10. AbsentRowsClear'
  BY <1>1, <1>3, <1>5 DEF IInv, TypeOK, JobInv, AbsentRowsClear
<1>11. TodoUnlinked' /\ PairUnlinked'
  BY <1>2, <1>3 DEF Link, Linked, IInv, TypeOK, JobInv, TodoUnlinked,
                    PairUnlinked
<1>12. NoDuplicateCycle'
  <2> SUFFICES ASSUME NEW S \in (SUBSET Report) \ {{}}
               PROVE  \E r \in S : dupOf'[r] \notin S
    BY DEF NoDuplicateCycle
  <2>1. CASE child \in S /\ parent \in S
    BY <1>2, <1>3, <2>1, NoneAssumption DEF IInv, TypeOK
  <2>2. CASE child \in S /\ parent \notin S
    BY <1>2, <1>3, <2>2, NoneAssumption DEF IInv, TypeOK
  <2>3. CASE child \notin S
    BY <1>3, <2>3 DEF IInv, TypeOK, NoDuplicateCycle
  <2> QED
    BY <2>1, <2>2, <2>3
<1>13. ASSUME NEW p \in live, p # parent
       PROVE  Children(p, dupOf)' = Children(p, dupOf)
  BY <1>1, <1>2, <1>3, <1>13, LiveType, NoneAssumption
     DEF IInv, TypeOK, Children
<1>14. ASSUME NEW p \in live, p = parent
       PROVE  Children(p, dupOf)' \subseteq Children(p, dupOf) \cup {child}
  BY <1>1, <1>2, <1>3, <1>14, LiveType DEF IInv, TypeOK, Children
<1>15. CountCoversLinks'
  <2> SUFFICES ASSUME NEW p \in live
               PROVE  Cardinality(Children(p, dupOf)') <= dupCount'[p]
    BY <1>1 DEF CountCoversLinks
  <2>1. p \in Report /\ Cardinality(Children(p, dupOf)) <= dupCount[p]
    BY LiveType DEF IInv, CountCoversLinks
  <2>2. CASE p # parent
    BY <1>4, <1>13, <2>1, <2>2 DEF IInv, TypeOK
  <2>3. CASE p = parent
    <3> DEFINE C == Children(p, dupOf)
               D == Children(p, dupOf)'
    <3>1. IsFiniteSet(C) /\ Cardinality(C) \in Nat
      BY ChildrenFinite DEF IInv
    <3>2. D \subseteq C \cup {child}
      BY <1>14, <2>3
    <3>3. Cardinality(C) <= dupCount[p]
      BY <2>1
    <3>4. dupCount'[p] = dupCount[p] + 1 /\ dupCount[p] \in Nat
      BY <1>4, <2>1, <2>3 DEF IInv, TypeOK
    <3> HIDE DEF C, D
    <3>5. /\ IsFiniteSet(C \cup {child})
          /\ Cardinality(C \cup {child}) \in Nat
          /\ Cardinality(C \cup {child}) <= Cardinality(C) + 1
      <4>1. /\ IsFiniteSet(C \cup {child})
            /\ Cardinality(C \cup {child})
                 = IF child \in C THEN Cardinality(C) ELSE Cardinality(C) + 1
        BY <3>1, FS_AddElement
      <4> QED
        BY <3>1, <4>1
    <3>6. Cardinality(D) \in Nat /\ Cardinality(D) <= Cardinality(C \cup {child})
      BY <3>2, <3>5, FS_Subset, FS_CardinalityType
    <3>7. Cardinality(D) <= dupCount'[p]
      BY <3>1, <3>3, <3>4, <3>5, <3>6
    <3> QED
      BY <3>7 DEF D
  <2> QED
    BY <2>2, <2>3
<1>16. HighCountedTwice'
  <2> SUFFICES ASSUME NEW p \in live, confidence'[p] = "high"
               PROVE  dupCount'[p] >= 2
    BY <1>1 DEF HighCountedTwice
  <2>1. /\ p \in Report
        /\ dupCount[p] \in Nat /\ dupCount'[p] \in Nat
        /\ dupCount'[p] >= dupCount[p]
    <3>1. dupCount \in [Report -> Nat] /\ p \in Report
      BY LiveType DEF IInv, TypeOK
    <3> QED
      BY <1>4, <1>7, <3>1
  <2>2. CASE confidence[p] = "high"
    <3>1. dupCount[p] >= 2
      BY <2>2 DEF IInv, HighCountedTwice
    <3> QED
      BY <2>1, <3>1
  <2>3. CASE confidence[p] # "high"
    <3>1. p = parent /\ DistinctIps(p, dupOf') >= 2
      BY <1>5, <2>1, <2>3 DEF IInv, TypeOK
    <3>2. /\ DistinctIps(p, dupOf') \in Nat
          /\ DistinctIps(p, dupOf') <= Cardinality(Children(p, dupOf'))
          /\ Cardinality(Children(p, dupOf')) \in Nat
      BY DistinctIpsBound, ChildrenFinite DEF IInv
    <3>3. Children(p, dupOf') = Children(p, dupOf)'
      BY <1>1 DEF Children
    <3>4. Cardinality(Children(p, dupOf)') <= dupCount'[p]
      BY <1>1, <1>15 DEF CountCoversLinks
    <3> QED
      BY <1>7, <2>1, <3>1, <3>2, <3>3, <3>4
  <2> QED
    BY <2>2, <2>3
<1> QED
  BY <1>8, <1>9, <1>10, <1>11, <1>12, <1>15, <1>16 DEF IInv, JobInv

\* However a pass ends, it only forgets.
LEMMA PassOverInv ==
  ASSUME IInv, PassOver, faults' \in Nat
  PROVE  IInv'
<1>1. live' = live
  BY DEF PassOver, rows, live
<1>2. TypeOK'
  BY <1>1 DEF PassOver, IInv, TypeOK, rows, fixed, links, time
<1>3. TodoUnlinked' /\ PairUnlinked'
  BY DEF PassOver, TodoUnlinked, PairUnlinked
<1> QED
  BY <1>1, <1>2, <1>3, RowsFrame DEF PassOver, IInv, JobInv, rows, links

\* A step that changes nothing keeps everything.
LEMMA StutterInv ==
  ASSUME IInv, UNCHANGED vars
  PROVE  IInv'
<1>1. live' = live
  BY DEF vars, rows, live
<1>2. TypeOK'
  BY <1>1 DEF IInv, TypeOK, vars, rows, fixed, links, time, job
<1> QED
  BY <1>1, <1>2, RowsFrame, JobFrame DEF IInv, JobInv, vars, rows, links

\* Every step keeps the invariant.
LEMMA NextIInv == IInv /\ [Next]_vars => IInv'
<1> SUFFICES ASSUME IInv, [Next]_vars PROVE IInv'
  OBVIOUS
<1>1. ASSUME NEW r \in Report,
             InsertBegin(r) \/ InsertCommit(r) \/ SetStatus(r) \/ DeleteReport(r)
      PROVE  IInv'
  BY <1>1, InsertBeginInv, InsertCommitInv, SetStatusInv, DeleteReportInv
<1>2. CASE AgeOut
  BY <1>2, AgeOutInv
<1>3. CASE PassStart
  BY <1>3, PassStartInv
<1>4. ASSUME NEW r \in Report, Find(r) PROVE IInv'
  BY <1>4, FindInv
<1>5. CASE Link
  BY <1>5, LinkInv
<1>6. CASE LinkRefused \/ PassEnd \/ PassAborts
  BY <1>6, PassOverInv DEF LinkRefused, PassEnd, PassAborts, IInv, TypeOK
<1>7. CASE UNCHANGED vars
  BY <1>7, StutterInv
<1> QED
  BY <1>1, <1>2, <1>3, <1>4, <1>5, <1>6, <1>7 DEF Next, JobNext

\* The inductive invariant holds always.
THEOREM Invariance == Spec => []IInv
  BY InitIInv, NextIInv, PTL DEF Spec

\* The columns keep their types and duplicate_of_id names a row or is NULL.
THEOREM TypeCorrect == Spec => []TypeOK
<1>1. IInv => TypeOK
  BY DEF IInv
<1> QED
  BY <1>1, Invariance, PTL

\* No interleaving of the job with inserts, status changes, deletions,
\* faults and restarts makes a report its own duplicate, directly or through
\* others.
THEOREM NoCycle == Spec => []NoDuplicateCycle
<1>1. IInv => NoDuplicateCycle
  BY DEF IInv
<1> QED
  BY <1>1, Invariance, PTL

\* duplicate_count is never less than the number of linked duplicates.
THEOREM CountCovers == Spec => []CountCoversLinks
<1>1. IInv => CountCoversLinks
  BY DEF IInv
<1> QED
  BY <1>1, Invariance, PTL

\* A report whose confidence is 'high' was counted at least twice.
THEOREM HighIsTwice == Spec => []HighCountedTwice
<1>1. IInv => HighCountedTwice
  BY DEF IInv
<1> QED
  BY <1>1, Invariance, PTL

\* Under the invariant no step moves a link to another parent.
LEMMA NextNotReparented == IInv /\ [Next]_vars => [NotReparented]_vars
<1> SUFFICES ASSUME IInv, Next, NEW r \in live,
                    dupOf[r] # None, dupOf'[r] # dupOf[r]
             PROVE  dupOf'[r] = None /\ (r \notin live' \/ dupOf[r] \notin live')
  BY DEF NotReparented
<1>1. ASSUME NEW s \in Report, DeleteReport(s)
      PROVE  dupOf'[r] = None /\ (r \notin live' \/ dupOf[r] \notin live')
  <2>1. live' = live \ {s}
    BY <1>1 DEF DeleteReport, IInv, TypeOK, live
  <2>2. dupOf'[r] = None /\ (r = s \/ dupOf[r] = s)
    BY <1>1, LiveType DEF DeleteReport
  <2> QED
    BY <2>1, <2>2
<1>2. ASSUME Link PROVE FALSE
  <2>1. dupOf[child] = None
    BY <1>2 DEF Link, IInv, JobInv, PairUnlinked
  <2>2. r # child => dupOf'[r] = dupOf[r]
    BY <1>2, LiveType DEF Link, LinkRows, IInv, TypeOK
  <2> QED
    BY <2>1, <2>2
<1>3. UNCHANGED dupOf \/ Link \/ \E s \in Report : DeleteReport(s)
  BY DEF Next, JobNext, InsertBegin, InsertCommit, SetStatus, AgeOut, PassStart,
         Find, LinkRefused, PassEnd, PassAborts, PassOver, rows, links
<1> QED
  BY <1>1, <1>2, <1>3

\* The job never moves a duplicate from one parent to another.
THEOREM NeverReparented == Spec => DuplicateNotReparented
  BY Invariance, NextNotReparented, PTL DEF Spec, DuplicateNotReparented

=============================================================================
