---------------------- MODULE AdminReportDetailProofs ----------------------
(***************************************************************************)
(* Proofs about AdminReportDetail for any number of clicks, of files and   *)
(* of changes by others, with the proxy and without it.                    *)
(***************************************************************************)
EXTENDS AdminReportDetail, TLAPS

(***************************************************************************)
(* What a step leaves of the calls.                                        *)
(***************************************************************************)
\* A call is replaced and the others stay.
LEMMA CallSet ==
    ASSUME calls \in [Kind -> Call], NEW k \in Kind, NEW c \in Call, Set(k, c)
    PROVE  /\ calls' \in [Kind -> Call]
           /\ calls'[k] = c
           /\ \A j \in Kind : j # k => calls'[j] = calls[j]
    BY DEF Set

\* A call moves on.
LEMMA CallAt ==
    ASSUME NEW c \in Call,
           NEW a \in {"idle", "sent", "saved", "read", "answered", "refused"}
    PROVE  LET d == [c EXCEPT !.at = a]
           IN  /\ d \in Call
               /\ d.at = a /\ d.to = c.to /\ d.file = c.file /\ d.snap = c.snap
    BY DEF Call

\* A call is over, or has not begun.
LEMMA IdleCall == NoCall \in Call /\ NoCall.at = "idle" /\ NoCall.snap = None
    BY DEF NoCall, Call

\* A call that ends leaves nothing behind.
LEMMA CallOver ==
    ASSUME TypeOK, NEW k \in Kind, Set(k, NoCall)
    PROVE  /\ calls' \in [Kind -> Call]
           /\ calls'[k].at = "idle"
           /\ \A j \in Kind : j # k => calls'[j] = calls[j]
<1>1. calls \in [Kind -> Call]
    BY DEF TypeOK, ServerOK, CallsOK, PageOK, FlagsOK
<1>2. QED
    BY <1>1, IdleCall, CallSet

\* A call that begins was not under way.
LEMMA CallBegun ==
    ASSUME TypeOK, NEW k \in Kind, NEW to \in Status \cup {None},
           NEW file \in {"jpeg", "other", None}, Begin(k, to, file)
    PROVE  /\ calls' \in [Kind -> Call]
           /\ calls[k].at = "idle" /\ calls'[k].at = "sent"
           /\ calls'[k].to = to /\ calls'[k].file = file
           /\ \A j \in Kind : j # k => calls'[j] = calls[j]
           /\ clicks' \in Nat
           /\ overlap' \in BOOLEAN
           /\ ~overlap' => ~overlap /\ \A j \in Kind : calls[j].at = "idle"
           /\ faulty' = faulty
<1> DEFINE c == [at |-> "sent", to |-> to, file |-> file, snap |-> None]
<1>1. calls \in [Kind -> Call] /\ clicks \in Nat /\ overlap \in BOOLEAN
    BY DEF TypeOK, ServerOK, CallsOK, PageOK, FlagsOK
<1>2. c \in Call /\ c.at = "sent" /\ c.to = to /\ c.file = file
    BY DEF Call
<1>3. Set(k, c)
    BY DEF Begin
<1> HIDE DEF c
<1>4. /\ calls' \in [Kind -> Call] /\ calls'[k] = c
      /\ \A j \in Kind : j # k => calls'[j] = calls[j]
    BY <1>1, <1>2, <1>3, CallSet
<1>5. clicks' \in Nat /\ calls[k].at = "idle" /\ faulty' = faulty
    BY <1>1 DEF Begin, Under
<1>6. overlap' = (overlap \/ \E j \in Kind : Under(j))
    BY DEF Begin
<1>7. overlap' \in BOOLEAN
    BY <1>6, Zenon
<1>8. ~overlap' => ~overlap /\ \A j \in Kind : calls[j].at = "idle"
    BY <1>6 DEF Under
<1>9. QED
    BY <1>2, <1>4, <1>5, <1>7, <1>8

\* The handler's write.
LEMMA Saved ==
    ASSUME TypeOK, NEW k \in Kind, Save(k)
    PROVE  /\ calls' \in [Kind -> Call]
           /\ calls[k].at = "sent"
           /\ calls'[k].at \in {"saved", "answered", "refused"}
           /\ k # "delete" => calls'[k].at # "answered"
           /\ k = "delete" => calls'[k].at # "saved"
           /\ calls'[k].at \in {"saved", "answered"} => stored /\ row' = Written(k)
           /\ calls'[k].at = "refused" => row' = row
           /\ \A j \in Kind : j # k => calls'[j] = calls[j]
<1>1. calls \in [Kind -> Call] /\ calls[k] \in Call
    BY DEF TypeOK, ServerOK, CallsOK, PageOK, FlagsOK
<1> DEFINE C(a) == [calls[k] EXCEPT !.at = a]
<1>2. calls[k].at = "sent"
    BY DEF Save
<1>3. CASE Accepted(k) /\ k = "delete"
    <2>1. row' = Written(k) /\ stored /\ Set(k, C("answered"))
        BY <1>3 DEF Save, Accepted
    <2>2. C("answered") \in Call /\ C("answered").at = "answered"
        BY <1>1, CallAt
    <2> HIDE DEF C
    <2>3. QED
        BY <1>1, <1>2, <1>3, <2>1, <2>2, CallSet
<1>4. CASE Accepted(k) /\ k # "delete"
    <2>1. row' = Written(k) /\ stored /\ Set(k, C("saved"))
        BY <1>4 DEF Save, Accepted
    <2>2. C("saved") \in Call /\ C("saved").at = "saved"
        BY <1>1, CallAt
    <2> HIDE DEF C
    <2>3. QED
        BY <1>1, <1>2, <1>4, <2>1, <2>2, CallSet
<1>5. CASE ~Accepted(k)
    <2>1. row' = row /\ Set(k, C("refused"))
        BY <1>5 DEF Save
    <2>2. C("refused") \in Call /\ C("refused").at = "refused"
        BY <1>1, CallAt
    <2> HIDE DEF C
    <2>3. QED
        BY <1>1, <1>2, <1>5, <2>1, <2>2, CallSet
<1>6. QED
    BY <1>3, <1>4, <1>5

\* The first statement of the read.
LEMMA RowRead ==
    ASSUME TypeOK, NEW k \in Kind, ReadRow(k)
    PROVE  /\ calls' \in [Kind -> Call]
           /\ calls[k].at = "saved"
           /\ calls'[k].at \in {"read", "refused"}
           /\ calls'[k].at = "read" => /\ stored
                                       /\ calls'[k].snap \in Snapshot
                                       /\ SameReport(calls'[k].snap)
           /\ calls'[k].at = "refused" => ~stored
           /\ \A j \in Kind : j # k => calls'[j] = calls[j]
<1>1. calls \in [Kind -> Call] /\ calls[k] \in Call
    BY DEF TypeOK, ServerOK, CallsOK, PageOK, FlagsOK
<1>2. row \in [status : Status \cup {"deleted"}, photo : BOOLEAN, n : Nat]
    BY DEF TypeOK, ServerOK, CallsOK, PageOK, FlagsOK
<1> DEFINE p == [status |-> row.status, photo |-> row.photo, n |-> row.n, hist |-> 0]
<1> DEFINE c == [calls[k] EXCEPT !.at = "read", !.snap = p]
<1> DEFINE d == [calls[k] EXCEPT !.at = "refused"]
<1>3. CASE stored
    <2>1. p \in Snapshot
        BY <1>2, <1>3 DEF Snapshot, stored
    <2>2. SameReport(p)
        BY DEF SameReport
    <2>3. Set(k, c) /\ calls[k].at = "saved"
        BY <1>3 DEF ReadRow
    <2> HIDE DEF p
    <2>4. c \in Call /\ c.at = "read" /\ c.snap = p
        BY <1>1, <2>1 DEF Call
    <2> HIDE DEF c
    <2>5. QED
        BY <1>1, <1>3, <2>1, <2>2, <2>3, <2>4, CallSet
<1>4. CASE ~stored
    <2>1. Set(k, d) /\ calls[k].at = "saved"
        BY <1>4 DEF ReadRow
    <2>2. d \in Call /\ d.at = "refused"
        BY <1>1, CallAt
    <2> HIDE DEF d
    <2>3. QED
        BY <1>1, <1>4, <2>1, <2>2, CallSet
<1>5. QED
    BY <1>3, <1>4

\* The second.
LEMMA HistoryRead ==
    ASSUME TypeOK, NEW k \in Kind, k # "delete", ReadHistory(k)
    PROVE  /\ calls' \in [Kind -> Call]
           /\ calls[k].at = "read" /\ calls'[k].at = "answered"
           /\ calls[k].snap \in Snapshot /\ calls'[k].snap \in Snapshot
           /\ calls'[k].snap.status = calls[k].snap.status
           /\ calls'[k].snap.photo = calls[k].snap.photo
           /\ calls'[k].snap.n = calls[k].snap.n
           /\ calls'[k].snap.hist = IF stored THEN row.n ELSE 0
           /\ \A j \in Kind : j # k => calls'[j] = calls[j]
<1>1. calls \in [Kind -> Call] /\ calls[k] \in Call /\ calls[k].at = "read"
    BY DEF TypeOK, ServerOK, CallsOK, PageOK, FlagsOK, ReadHistory
<1>2. calls[k].snap # None
    BY <1>1 DEF TypeOK, ServerOK, CallsOK, PageOK, FlagsOK
<1>3. calls[k].snap \in Snapshot
    BY <1>1, <1>2 DEF Call
<1> DEFINE p == Timed(calls[k].snap)
<1> DEFINE c == [calls[k] EXCEPT !.at = "answered", !.snap = p]
<1>4. row.n \in Nat
    BY DEF TypeOK, ServerOK, CallsOK, PageOK, FlagsOK
<1>5. Set(k, c)
    BY DEF ReadHistory
<1>6. /\ p \in Snapshot /\ p.hist = IF stored THEN row.n ELSE 0
      /\ p.status = calls[k].snap.status
      /\ p.photo = calls[k].snap.photo /\ p.n = calls[k].snap.n
    BY <1>3, <1>4 DEF Snapshot, Timed
<1> HIDE DEF p
<1>7. c \in Call /\ c.at = "answered" /\ c.snap = p
    BY <1>1, <1>6 DEF Call
<1> HIDE DEF c
<1>8. QED
    BY <1>1, <1>3, <1>5, <1>6, <1>7, CallSet

(***************************************************************************)
(* Records.                                                                *)
(***************************************************************************)
\* A snapshot is a record, and no mark of an absent one.
LEMMA NoneApart == None \notin Snapshot
    BY DetailAssumption

\* No file is no preview.
LEMMA NoFileType == NoFile \in Preview
    BY DEF Preview

\* A submission carries the status of its mode and the file.
LEMMA Submitted ==
    ASSUME TypeOK, HandleSubmit
    PROVE  /\ calls' \in [Kind -> Call]
           /\ calls["resolve"].at = "idle" /\ calls'["resolve"].at = "sent"
           /\ calls'["resolve"].to \in Final
           /\ \A j \in Kind : j # "resolve" => calls'[j] = calls[j]
           /\ clicks' \in Nat /\ overlap' \in BOOLEAN /\ faulty' = faulty
           /\ ~overlap' => ~overlap /\ \A j \in Kind : calls[j].at = "idle"
<1> DEFINE t == IF modal.mode = "resolve" THEN "resolved" ELSE "closed"
<1>1. Begin("resolve", t, modal.file.type) /\ modal.file # NoFile
    BY DEF HandleSubmit
<1>2. t \in Final /\ t \in Status \cup {None} /\ "resolve" \in Kind
    BY DEF Final, Status, Kind
<1>3. modal.file.type \in {"jpeg", "other", None}
    <2>1. modal.file \in Preview
        BY DEF TypeOK, PageOK
    <2>2. QED
        BY <1>1, <2>1 DEF Preview
<1> HIDE DEF t
<1>4. QED
    BY <1>1, <1>2, <1>3, CallBegun
\* What a handler may write: no status but a final one with its photo, or one
\* that is not final; never an earlier n.
LEMMA Wrote ==
    ASSUME IInv, NEW k \in Kind, calls[k].at = "sent"
    PROVE  /\ Written(k) \in [status : Status \cup {"deleted"}, photo : BOOLEAN, n : Nat]
           /\ Written(k).n \in Nat /\ row.n \in Nat /\ row.n <= Written(k).n
           /\ k = "delete" => Written(k).status = "deleted"
           /\ k # "delete" => Written(k).status \in Status
           /\ Written(k).status \in Final => Written(k).photo = TRUE
<1> DEFINE R == [status : Status \cup {"deleted"}, photo : BOOLEAN, n : Nat]
<1>1. row \in R
    BY DEF IInv, TypeOK, ServerOK
<1>2. row.n \in Nat /\ row.photo \in BOOLEAN
    BY <1>1
<1>3. \A s \in Status, p \in BOOLEAN :
         /\ Change(s, p) \in R /\ Change(s, p).status = s
         /\ Change(s, p).n = row.n + 1 /\ Change(s, p).photo = p
    BY <1>2 DEF Change
<1>4. Gone \in R /\ Gone.status = "deleted" /\ Gone.n = row.n
    BY <1>2 DEF Gone
<1>6. CASE k = "move"
    <2>1. calls[k].to \in Status \ Final
        BY <1>6 DEF IInv, Carried
    <2>2. Written(k) = Change(calls[k].to, row.photo)
        BY <1>6 DEF Written
    <2>3. QED
        BY <1>2, <1>3, <1>6, <2>1, <2>2 DEF Status
<1>7. CASE k = "assign"
    <2>1. Written(k) = Change("assigned", row.photo)
        BY <1>7 DEF Written
    <2>2. "assigned" \in Status /\ "assigned" \notin Final
        BY DEF Status, Final
    <2>3. QED
        BY <1>2, <1>3, <1>7, <2>1, <2>2
<1>8. CASE k = "resolve"
    <2>1. calls[k].to \in Final
        BY <1>8 DEF IInv, Carried
    <2>2. calls[k].to \in Status
        BY <2>1 DEF Status, Final
    <2>3. Written(k) = Change(calls[k].to, TRUE)
        BY <1>8 DEF Written
    <2>4. LET w == Change(calls[k].to, TRUE)
          IN  w \in R /\ w.status = calls[k].to /\ w.n = row.n + 1 /\ w.photo = TRUE
        <3>1. TRUE \in BOOLEAN
            OBVIOUS
        <3>2. QED
            BY <1>3, <2>2, <3>1
    <2>5. Written(k).photo = TRUE
        BY <2>3, <2>4, Zenon
    <2> DEFINE n == row.n
    <2>6. n \in Nat /\ n <= n + 1 /\ n + 1 \in Nat
        BY <1>2
    <2> HIDE DEF n
    <2>7. Written(k) \in R /\ Written(k).status = calls[k].to /\ Written(k).n = n + 1
        BY <2>3, <2>4, Zenon DEF n
    <2>8. QED
        BY <1>8, <2>2, <2>5, <2>6, <2>7 DEF n
<1>9. CASE k = "delete"
    <2>1. Written(k) = Gone
        BY <1>9 DEF Written
    <2>2. "deleted" \notin Final
        BY DEF Final
    <2>3. QED
        BY <1>2, <1>4, <1>9, <2>1, <2>2
<1>10. k # "load"
    BY DEF IInv, Carried
<1>11. QED
    BY <1>6, <1>7, <1>8, <1>9, <1>10 DEF Kind

\* The modal with another file, and the modal that is shut.
LEMMA ModalType ==
    ASSUME TypeOK, NEW f \in Preview
    PROVE  LET M == [open : BOOLEAN, mode : {"resolve", "close"}, file : Preview]
               m == [modal EXCEPT !.file = f]
               s == ShutModal(modal.mode)
               r == ShutModal("resolve")
           IN  /\ m \in M /\ m.open = modal.open /\ m.mode = modal.mode /\ m.file = f
               /\ s \in M /\ s.file = NoFile /\ ~s.open
               /\ r \in M /\ r.file = NoFile /\ ~r.open
<1> DEFINE M == [open : BOOLEAN, mode : {"resolve", "close"}, file : Preview]
<1>1. modal \in M
    BY DEF TypeOK, PageOK
<1>2. NoFile \in Preview
    BY DEF Preview
<1>3. LET m == [modal EXCEPT !.file = f]
      IN  m \in M /\ m.open = modal.open /\ m.mode = modal.mode /\ m.file = f
    BY <1>1
<1>4. \A x \in {"resolve", "close"} :
         ShutModal(x) \in M /\ ShutModal(x).file = NoFile /\ ~ShutModal(x).open
    BY <1>2 DEF ShutModal
<1>5. modal.mode \in {"resolve", "close"}
    BY <1>1
<1>6. QED
    BY <1>3, <1>4, <1>5

(***************************************************************************)
(* Types.                                                                  *)
(***************************************************************************)
\* The report, the counters.
LEMMA ServerStep == ASSUME IInv, [Next]_vars PROVE ServerOK'
<1> DEFINE Goal == ServerOK'
<1> SUFFICES Goal
    OBVIOUS
<1> USE DEF IInv
<1>1. ASSUME NEW k \in Kind, Save(k) PROVE Goal
    <2>1. /\ calls[k].at = "sent"
          /\ row' = row \/ row' = Written(k)
        BY <1>1, Saved
    <2>2. Written(k) \in [status : Status \cup {"deleted"}, photo : BOOLEAN, n : Nat]
        BY <2>1, Wrote
    <2>3. row' \in [status : Status \cup {"deleted"}, photo : BOOLEAN, n : Nat]
        BY <2>1, <2>2 DEF TypeOK, ServerOK
    <2>4. QED
        BY <1>1, <2>3 DEF Save, TypeOK, ServerOK
<1>2. ASSUME NEW k \in Kind, ReadRow(k) PROVE Goal
    BY <1>2 DEF ReadRow, vars, server, page, dialogs, history, TypeOK, ServerOK, Begin
<1>3. ASSUME NEW k \in Kind, ReadHistory(k) PROVE Goal
    BY <1>3 DEF ReadHistory, vars, server, page, dialogs, history, TypeOK, ServerOK,
       Begin
<1>4. CASE Others
    <2>1. row.n \in Nat /\ row.photo \in BOOLEAN
        BY DEF TypeOK, ServerOK
    <2>2. ASSUME NEW s \in Status
          PROVE  Change(s, row.photo) \in [status : Status \cup {"deleted"}, photo : BOOLEAN, n : Nat]
        BY <2>1 DEF Change
    <2>3. Gone \in [status : Status \cup {"deleted"}, photo : BOOLEAN, n : Nat]
        BY <2>1 DEF Gone
    <2>4. row' \in [status : Status \cup {"deleted"}, photo : BOOLEAN, n : Nat]
        BY <1>4, <2>2, <2>3, Zenon DEF Others
    <2>5. QED
        BY <1>4, <2>4 DEF Others, TypeOK, ServerOK
<1>5. CASE LearnRole
    BY <1>5 DEF LearnRole, vars, server, page, dialogs, history, TypeOK, ServerOK, Begin
<1>6. CASE Organisations
    BY <1>6 DEF Organisations, vars, server, page, dialogs, history, TypeOK,
       ServerOK, Begin
<1>7. CASE Loaded
    BY <1>7 DEF Loaded, Answer, vars, server, page, dialogs, history, TypeOK,
       ServerOK, Begin
<1>8. CASE NotLoaded
    BY <1>8 DEF NotLoaded, vars, server, page, dialogs, history, TypeOK, ServerOK, Begin
<1>9. CASE Moved
    BY <1>9 DEF Moved, Answer, vars, server, page, dialogs, history, TypeOK,
       ServerOK, Begin
<1>10. CASE Assigned
    BY <1>10 DEF Assigned, Answer, vars, server, page, dialogs, history, TypeOK,
       ServerOK, Begin
<1>11. CASE Resolved
    BY <1>11 DEF Resolved, Answer, Shut, ShutModal, vars, server, page, dialogs,
       history, TypeOK, ServerOK, Begin
<1>12. CASE Deleted
    BY <1>12 DEF Deleted, Unmount, ShutModal, vars, server, page, dialogs, history,
       TypeOK, ServerOK, Begin
<1>13. ASSUME NEW k \in Kind, Failed(k) PROVE Goal
    BY <1>13 DEF Failed, vars, server, page, dialogs, history, TypeOK, ServerOK, Begin
<1>14. CASE Leave
    BY <1>14 DEF Leave, Unmount, ShutModal, vars, server, page, dialogs, history,
       TypeOK, ServerOK, Begin
<1>15. ASSUME NEW s \in Status, HandleStatusMove(s) PROVE Goal
    BY <1>15 DEF HandleStatusMove, Begin, vars, server, page, dialogs, history,
       TypeOK, ServerOK, Begin
<1>16. ASSUME NEW mode \in {"resolve", "close"}, OpenModal(mode) PROVE Goal
    BY <1>16 DEF OpenModal, vars, server, page, dialogs, history, TypeOK, ServerOK,
       Begin
<1>17. ASSUME NEW type \in {"jpeg", "other"}, HandleFileChange(type) PROVE Goal
    BY <1>17 DEF HandleFileChange, vars, server, page, dialogs, history, TypeOK,
       ServerOK, Begin
<1>18. CASE HandleSave
    BY <1>18 DEF HandleSave, Begin, vars, server, page, dialogs, history, TypeOK,
       ServerOK, Begin
<1>19. CASE HandleRemovePhoto
    BY <1>19 DEF HandleRemovePhoto, vars, server, page, dialogs, history, TypeOK,
       ServerOK, Begin
<1>20. CASE HandleSubmit
    BY <1>20 DEF HandleSubmit, Begin, vars, server, page, dialogs, history, TypeOK,
       ServerOK, Begin
<1>21. CASE CloseModal
    BY <1>21 DEF CloseModal, Shut, ShutModal, vars, server, page, dialogs, history,
       TypeOK, ServerOK, Begin
<1>22. CASE AskDelete
    BY <1>22 DEF AskDelete, vars, server, page, dialogs, history, TypeOK, ServerOK,
       Begin
<1>23. CASE HandleDelete
    BY <1>23 DEF HandleDelete, Begin, vars, server, page, dialogs, history, TypeOK,
       ServerOK, Begin
<1>24. CASE UNCHANGED vars
    BY <1>24 DEF vars, server, page, dialogs, history, TypeOK, ServerOK, Begin
<1>25. QED
    BY <1>1, <1>2, <1>3, <1>4, <1>5, <1>6, <1>7, <1>8, <1>9, <1>10, <1>11, <1>12,
       <1>13, <1>14, <1>15, <1>16, <1>17, <1>18, <1>19, <1>20, <1>21, <1>22, <1>23,
       <1>24 DEF Next, Settle

\* The calls.
LEMMA CallsStep == ASSUME IInv, [Next]_vars PROVE CallsOK'
<1> DEFINE Goal == CallsOK'
<1> SUFFICES Goal
    OBVIOUS
<1> USE DEF IInv
<1>1. ASSUME NEW k \in Kind, Save(k) PROVE Goal
    BY <1>1, Saved DEF TypeOK, CallsOK
<1>2. ASSUME NEW k \in Kind, ReadRow(k) PROVE Goal
    BY <1>2, RowRead, NoneApart DEF TypeOK, CallsOK
<1>3. ASSUME NEW k \in Kind, ReadHistory(k) PROVE Goal
    <2>1. k # "delete"
        BY <1>3 DEF ReadHistory, Carried
    <2>2. None \notin Snapshot
        BY NoneApart
    <2>3. QED
        BY <1>3, <2>1, <2>2, HistoryRead DEF TypeOK, CallsOK
<1>4. CASE Others
    BY <1>4 DEF Others, vars, server, page, dialogs, history, TypeOK, CallsOK
<1>5. CASE LearnRole
    BY <1>5 DEF LearnRole, vars, server, page, dialogs, history, TypeOK, CallsOK
<1>6. CASE Organisations
    BY <1>6 DEF Organisations, vars, server, page, dialogs, history, TypeOK, CallsOK
<1>7. CASE Loaded
    <2>1. Set("load", NoCall) /\ "load" \in Kind
        BY <1>7 DEF Loaded, Answer, Kind
    <2>2. QED
        BY <2>1, CallOver DEF TypeOK, CallsOK
<1>8. CASE NotLoaded
    <2>1. Set("load", NoCall) /\ "load" \in Kind
        BY <1>8 DEF NotLoaded, Answer, Kind
    <2>2. QED
        BY <2>1, CallOver DEF TypeOK, CallsOK
<1>9. CASE Moved
    <2>1. Set("move", NoCall) /\ "move" \in Kind
        BY <1>9 DEF Moved, Answer, Kind
    <2>2. QED
        BY <2>1, CallOver DEF TypeOK, CallsOK
<1>10. CASE Assigned
    <2>1. Set("assign", NoCall) /\ "assign" \in Kind
        BY <1>10 DEF Assigned, Answer, Kind
    <2>2. QED
        BY <2>1, CallOver DEF TypeOK, CallsOK
<1>11. CASE Resolved
    <2>1. Set("resolve", NoCall) /\ "resolve" \in Kind
        BY <1>11 DEF Resolved, Answer, Kind
    <2>2. QED
        BY <2>1, CallOver DEF TypeOK, CallsOK
<1>12. CASE Deleted
    <2>1. calls' = [k \in Kind |-> NoCall]
        BY <1>12 DEF Deleted, Unmount
    <2>2. QED
        BY <2>1, IdleCall DEF CallsOK
<1>13. ASSUME NEW k \in Kind, Failed(k) PROVE Goal
    <2>1. Set(k, NoCall)
        BY <1>13 DEF Failed
    <2>2. QED
        BY <1>13, <2>1, CallOver DEF TypeOK, CallsOK
<1>14. CASE Leave
    <2>1. calls' = [k \in Kind |-> NoCall]
        BY <1>14 DEF Leave, Unmount
    <2>2. QED
        BY <2>1, IdleCall DEF CallsOK
<1>15. ASSUME NEW s \in Status, HandleStatusMove(s) PROVE Goal
    <2>1. Begin("move", s, None) /\ "move" \in Kind
        BY <1>15 DEF HandleStatusMove, Kind
    <2>2. QED
        BY <1>15, <2>1, CallBegun DEF TypeOK, CallsOK
<1>16. ASSUME NEW mode \in {"resolve", "close"}, OpenModal(mode) PROVE Goal
    BY <1>16 DEF OpenModal, vars, server, page, dialogs, history, TypeOK, CallsOK
<1>17. ASSUME NEW type \in {"jpeg", "other"}, HandleFileChange(type) PROVE Goal
    BY <1>17 DEF HandleFileChange, vars, server, page, dialogs, history, TypeOK, CallsOK
<1>18. CASE HandleSave
    <2>1. Begin("assign", None, None) /\ "assign" \in Kind
        BY <1>18 DEF HandleSave, Kind
    <2>2. QED
        BY <2>1, CallBegun DEF TypeOK, CallsOK
<1>19. CASE HandleRemovePhoto
    BY <1>19 DEF HandleRemovePhoto, vars, server, page, dialogs, history, TypeOK,
       CallsOK
<1>20. CASE HandleSubmit
    <2>1. "resolve" \in Kind
        BY DEF Kind
    <2>2. QED
        BY <1>20, <2>1, Submitted DEF TypeOK, CallsOK
<1>21. CASE CloseModal
    BY <1>21 DEF CloseModal, Shut, ShutModal, vars, server, page, dialogs, history,
       TypeOK, CallsOK
<1>22. CASE AskDelete
    BY <1>22 DEF AskDelete, vars, server, page, dialogs, history, TypeOK, CallsOK
<1>23. CASE HandleDelete
    <2>1. Begin("delete", None, None) /\ "delete" \in Kind
        BY <1>23 DEF HandleDelete, Kind
    <2>2. QED
        BY <2>1, CallBegun DEF TypeOK, CallsOK
<1>24. CASE UNCHANGED vars
    BY <1>24 DEF vars, server, page, dialogs, history, TypeOK, CallsOK
<1>25. QED
    BY <1>1, <1>2, <1>3, <1>4, <1>5, <1>6, <1>7, <1>8, <1>9, <1>10, <1>11, <1>12,
       <1>13, <1>14, <1>15, <1>16, <1>17, <1>18, <1>19, <1>20, <1>21, <1>22, <1>23,
       <1>24 DEF Next, Settle

\* The page.
LEMMA PageStep == ASSUME IInv, [Next]_vars PROVE PageOK'
<1> DEFINE Goal == PageOK'
<1> SUFFICES Goal
    OBVIOUS
<1> USE DEF IInv
<1>1. ASSUME NEW k \in Kind, Save(k) PROVE Goal
    BY <1>1 DEF Save, vars, server, page, dialogs, history, TypeOK, PageOK
<1>2. ASSUME NEW k \in Kind, ReadRow(k) PROVE Goal
    BY <1>2 DEF ReadRow, vars, server, page, dialogs, history, TypeOK, PageOK
<1>3. ASSUME NEW k \in Kind, ReadHistory(k) PROVE Goal
    BY <1>3 DEF ReadHistory, vars, server, page, dialogs, history, TypeOK, PageOK
<1>4. CASE Others
    BY <1>4 DEF Others, vars, server, page, dialogs, history, TypeOK, PageOK
<1>5. CASE LearnRole
    BY <1>5 DEF LearnRole, dialogs, TypeOK, PageOK, ServerOK
<1>6. CASE Organisations
    BY <1>6 DEF Organisations, vars, server, page, dialogs, history, TypeOK, PageOK
<1>7. CASE Loaded
    <2>1. calls["load"].at = "answered" /\ shown' = calls["load"].snap
        BY <1>7 DEF Loaded, Answer
    <2>2. calls["load"] \in Call /\ calls["load"].snap # None
        BY <2>1 DEF TypeOK, CallsOK, Kind
    <2>3. shown' \in Snapshot \cup {None} /\ shown' # None
        BY <2>1, <2>2 DEF Call
    <2>4. QED
        BY <1>7, <2>3 DEF Loaded, Answer, TypeOK, PageOK, dialogs
<1>8. CASE NotLoaded
    BY <1>8 DEF NotLoaded, vars, server, page, dialogs, history, TypeOK, PageOK
<1>9. CASE Moved
    <2>1. calls["move"].at = "answered" /\ shown' = calls["move"].snap
        BY <1>9 DEF Moved, Answer
    <2>2. calls["move"] \in Call /\ calls["move"].snap # None
        BY <2>1 DEF TypeOK, CallsOK, Kind
    <2>3. shown' \in Snapshot \cup {None} /\ shown' # None
        BY <2>1, <2>2 DEF Call
    <2>4. QED
        BY <1>9, <2>3 DEF Moved, Answer, TypeOK, PageOK, dialogs
<1>10. CASE Assigned
    <2>1. calls["assign"].at = "answered" /\ shown' = calls["assign"].snap
        BY <1>10 DEF Assigned, Answer
    <2>2. calls["assign"] \in Call /\ calls["assign"].snap # None
        BY <2>1 DEF TypeOK, CallsOK, Kind
    <2>3. shown' \in Snapshot \cup {None} /\ shown' # None
        BY <2>1, <2>2 DEF Call
    <2>4. QED
        BY <1>10, <2>3 DEF Assigned, Answer, TypeOK, PageOK, dialogs
<1>11. CASE Resolved
    <2>1. calls["resolve"].at = "answered" /\ shown' = calls["resolve"].snap
        BY <1>11 DEF Resolved, Answer
    <2>2. calls["resolve"] \in Call /\ calls["resolve"].snap # None
        BY <2>1 DEF TypeOK, CallsOK, Kind
    <2>3. shown' \in Snapshot \cup {None} /\ shown' # None
        BY <2>1, <2>2 DEF Call
    <2>4. QED
        BY <1>11, <2>3, ModalType, NoFileType DEF Resolved, Answer, TypeOK, PageOK,
           dialogs, Shut
<1>12. CASE Deleted
    BY <1>12, ModalType, NoFileType DEF Deleted, Unmount, TypeOK, PageOK
<1>13. ASSUME NEW k \in Kind, Failed(k) PROVE Goal
    BY <1>13 DEF Failed, vars, server, page, dialogs, history, TypeOK, PageOK
<1>14. CASE Leave
    BY <1>14, ModalType, NoFileType DEF Leave, Unmount, TypeOK, PageOK
<1>15. ASSUME NEW s \in Status, HandleStatusMove(s) PROVE Goal
    BY <1>15 DEF HandleStatusMove, Begin, vars, server, page, dialogs, history,
       TypeOK, PageOK
<1>16. ASSUME NEW mode \in {"resolve", "close"}, OpenModal(mode) PROVE Goal
    <2>1. modal' \in [open : BOOLEAN, mode : {"resolve", "close"}, file : Preview]
        BY <1>16, NoFileType DEF OpenModal
    <2>2. QED
        BY <1>16, <2>1 DEF OpenModal, TypeOK, PageOK
<1>17. ASSUME NEW type \in {"jpeg", "other"}, HandleFileChange(type) PROVE Goal
    <2>1. [type |-> type, url |-> picks'] \in Preview /\ picks' \in Nat
        BY <1>17 DEF HandleFileChange, Preview, TypeOK, ServerOK
    <2>2. modal' \in [open : BOOLEAN, mode : {"resolve", "close"}, file : Preview]
        BY <1>17, <2>1, ModalType DEF HandleFileChange
    <2>3. QED
        BY <1>17, <2>1, <2>2 DEF HandleFileChange, TypeOK, PageOK
<1>18. CASE HandleSave
    BY <1>18 DEF HandleSave, Begin, vars, server, page, dialogs, history, TypeOK, PageOK
<1>19. CASE HandleRemovePhoto
    <2>1. modal' \in [open : BOOLEAN, mode : {"resolve", "close"}, file : Preview]
        BY <1>19, ModalType, NoFileType DEF HandleRemovePhoto
    <2>2. QED
        BY <1>19, <2>1 DEF HandleRemovePhoto, TypeOK, PageOK
<1>20. CASE HandleSubmit
    BY <1>20 DEF HandleSubmit, Begin, vars, server, page, dialogs, history, TypeOK,
       PageOK
<1>21. CASE CloseModal
    BY <1>21, ModalType, NoFileType DEF CloseModal, Shut, TypeOK, PageOK
<1>22. CASE AskDelete
    BY <1>22 DEF AskDelete, vars, server, page, dialogs, history, TypeOK, PageOK
<1>23. CASE HandleDelete
    BY <1>23 DEF HandleDelete, Begin, vars, server, page, dialogs, history, TypeOK,
       PageOK
<1>24. CASE UNCHANGED vars
    BY <1>24 DEF vars, server, page, dialogs, history, TypeOK, PageOK
<1>25. QED
    BY <1>1, <1>2, <1>3, <1>4, <1>5, <1>6, <1>7, <1>8, <1>9, <1>10, <1>11, <1>12,
       <1>13, <1>14, <1>15, <1>16, <1>17, <1>18, <1>19, <1>20, <1>21, <1>22, <1>23,
       <1>24 DEF Next, Settle

\* The flags.
LEMMA FlagsStep == ASSUME IInv, [Next]_vars PROVE FlagsOK'
<1> DEFINE Goal == FlagsOK'
<1> SUFFICES Goal
    OBVIOUS
<1> USE DEF IInv
<1>1. ASSUME NEW k \in Kind, Save(k) PROVE Goal
    BY <1>1, Zenon DEF Save, vars, server, page, dialogs, history, TypeOK, FlagsOK
<1>2. ASSUME NEW k \in Kind, ReadRow(k) PROVE Goal
    BY <1>2, Zenon DEF ReadRow, vars, server, page, dialogs, history, TypeOK, FlagsOK
<1>3. ASSUME NEW k \in Kind, ReadHistory(k) PROVE Goal
    BY <1>3, Zenon DEF ReadHistory, vars, server, page, dialogs, history, TypeOK,
       FlagsOK
<1>4. CASE Others
    BY <1>4, Zenon DEF Others, vars, server, page, dialogs, history, TypeOK, FlagsOK
<1>5. CASE LearnRole
    BY <1>5, Zenon DEF LearnRole, vars, server, page, dialogs, history, TypeOK, FlagsOK
<1>6. CASE Organisations
    BY <1>6, Zenon DEF Organisations, vars, server, page, dialogs, history, TypeOK,
       FlagsOK
<1>7. CASE Loaded
    BY <1>7, Zenon DEF Loaded, Answer, vars, server, page, dialogs, history, TypeOK,
       FlagsOK
<1>8. CASE NotLoaded
    BY <1>8, Zenon DEF NotLoaded, vars, server, page, dialogs, history, TypeOK, FlagsOK
<1>9. CASE Moved
    BY <1>9, Zenon DEF Moved, Answer, vars, server, page, dialogs, history, TypeOK,
       FlagsOK
<1>10. CASE Assigned
    BY <1>10, Zenon DEF Assigned, Answer, vars, server, page, dialogs, history,
       TypeOK, FlagsOK
<1>11. CASE Resolved
    BY <1>11, Zenon DEF Resolved, Answer, Shut, ShutModal, vars, server, page,
       dialogs, history, TypeOK, FlagsOK
<1>12. CASE Deleted
    BY <1>12, Zenon DEF Deleted, Unmount, ShutModal, vars, server, page, dialogs,
       history, TypeOK, FlagsOK
<1>13. ASSUME NEW k \in Kind, Failed(k) PROVE Goal
    BY <1>13, Zenon DEF Failed, TypeOK, FlagsOK
<1>14. CASE Leave
    BY <1>14, Zenon DEF Leave, Unmount, ShutModal, vars, server, page, dialogs,
       history, TypeOK, FlagsOK
<1>15. ASSUME NEW s \in Status, HandleStatusMove(s) PROVE Goal
    BY <1>15, Zenon DEF HandleStatusMove, Begin, TypeOK, FlagsOK, page, dialogs, history
<1>16. ASSUME NEW mode \in {"resolve", "close"}, OpenModal(mode) PROVE Goal
    BY <1>16, Zenon DEF OpenModal, vars, server, page, dialogs, history, TypeOK, FlagsOK
<1>17. ASSUME NEW type \in {"jpeg", "other"}, HandleFileChange(type) PROVE Goal
    BY <1>17, Zenon DEF HandleFileChange, vars, server, page, dialogs, history,
       TypeOK, FlagsOK
<1>18. CASE HandleSave
    BY <1>18, Zenon DEF HandleSave, Begin, TypeOK, FlagsOK, page, dialogs, history
<1>19. CASE HandleRemovePhoto
    BY <1>19, Zenon DEF HandleRemovePhoto, vars, server, page, dialogs, history,
       TypeOK, FlagsOK
<1>20. CASE HandleSubmit
    BY <1>20, Zenon DEF HandleSubmit, Begin, TypeOK, FlagsOK, page, dialogs, history
<1>21. CASE CloseModal
    BY <1>21, Zenon DEF CloseModal, Shut, ShutModal, vars, server, page, dialogs,
       history, TypeOK, FlagsOK
<1>22. CASE AskDelete
    BY <1>22, Zenon DEF AskDelete, vars, server, page, dialogs, history, TypeOK, FlagsOK
<1>23. CASE HandleDelete
    BY <1>23, Zenon DEF HandleDelete, Begin, TypeOK, FlagsOK
<1>24. CASE UNCHANGED vars
    BY <1>24, Zenon DEF vars, server, page, dialogs, history, TypeOK, FlagsOK
<1>25. QED
    BY <1>1, <1>2, <1>3, <1>4, <1>5, <1>6, <1>7, <1>8, <1>9, <1>10, <1>11, <1>12,
       <1>13, <1>14, <1>15, <1>16, <1>17, <1>18, <1>19, <1>20, <1>21, <1>22, <1>23,
       <1>24 DEF Next, Settle

\* The types hold after every step.
LEMMA TypeStep == ASSUME IInv, [Next]_vars PROVE TypeOK'
    BY ServerStep, CallsStep, PageStep, FlagsStep DEF TypeOK

\* Previews and their object URLs.
LEMMA PreviewStep == ASSUME IInv, [Next]_vars PROVE PreviewIsLive'
<1> DEFINE Goal == PreviewIsLive'
<1> SUFFICES Goal
    OBVIOUS
<1> USE DEF IInv
<1>1. ASSUME NEW k \in Kind, Save(k) PROVE Goal
    BY <1>1 DEF Save, PreviewIsLive, page, dialogs
<1>2. ASSUME NEW k \in Kind, ReadRow(k) PROVE Goal
    BY <1>2 DEF ReadRow, PreviewIsLive, page, dialogs
<1>3. ASSUME NEW k \in Kind, ReadHistory(k) PROVE Goal
    BY <1>3 DEF ReadHistory, PreviewIsLive, page, dialogs
<1>4. CASE Others
    BY <1>4 DEF Others, PreviewIsLive, page, dialogs
<1>5. CASE LearnRole
    BY <1>5 DEF LearnRole, vars, server, page, dialogs, history, PreviewIsLive
<1>6. CASE Organisations
    BY <1>6 DEF Organisations, vars, server, page, dialogs, history, PreviewIsLive
<1>7. CASE Loaded
    BY <1>7 DEF Loaded, PreviewIsLive, dialogs
<1>8. CASE NotLoaded
    BY <1>8 DEF NotLoaded, PreviewIsLive, dialogs
<1>9. CASE Moved
    BY <1>9 DEF Moved, PreviewIsLive, dialogs
<1>10. CASE Assigned
    BY <1>10 DEF Assigned, PreviewIsLive, dialogs
<1>11. CASE Resolved
    <2>1. modal'.file = NoFile /\ urls' = urls \ {modal.file.url}
        BY <1>11, ModalType, NoFileType DEF Resolved, Shut
    <2>2. QED
        BY <2>1 DEF PreviewIsLive
<1>12. CASE Deleted
    <2>1. modal'.file = NoFile /\ urls' = urls \ {modal.file.url}
        BY <1>12, ModalType, NoFileType DEF Deleted, Unmount
    <2>2. QED
        BY <2>1 DEF PreviewIsLive
<1>13. ASSUME NEW k \in Kind, Failed(k) PROVE Goal
    BY <1>13 DEF Failed, PreviewIsLive, dialogs
<1>14. CASE Leave
    <2>1. modal'.file = NoFile /\ urls' = urls \ {modal.file.url}
        BY <1>14, ModalType, NoFileType DEF Leave, Unmount
    <2>2. QED
        BY <2>1 DEF PreviewIsLive
<1>15. ASSUME NEW s \in Status, HandleStatusMove(s) PROVE Goal
    BY <1>15 DEF HandleStatusMove, PreviewIsLive, page, dialogs
<1>16. ASSUME NEW mode \in {"resolve", "close"}, OpenModal(mode) PROVE Goal
    BY <1>16 DEF OpenModal, PreviewIsLive, free
<1>17. ASSUME NEW type \in {"jpeg", "other"}, HandleFileChange(type) PROVE Goal
    <2>1. /\ modal' = [modal EXCEPT !.file = [type |-> type, url |-> picks']]
          /\ urls' = (urls \ {modal.file.url}) \cup {picks'}
          /\ modal.open
        BY <1>17 DEF HandleFileChange
    <2>2. [type |-> type, url |-> picks'] \in Preview /\ picks' \in Nat
        BY <1>17 DEF HandleFileChange, Preview, TypeOK, ServerOK
    <2>3. modal'.file = [type |-> type, url |-> picks'] /\ modal'.open = modal.open
        BY <2>1, <2>2, ModalType
    <2>4. modal'.file # NoFile
        BY <2>2, <2>3, DetailAssumption DEF NoFile
    <2>5. urls' = {picks'}
        BY <2>1 DEF PreviewIsLive
    <2>6. QED
        BY <2>1, <2>3, <2>4, <2>5 DEF PreviewIsLive
<1>18. CASE HandleSave
    BY <1>18 DEF HandleSave, PreviewIsLive, page, dialogs
<1>19. CASE HandleRemovePhoto
    <2>1. modal'.file = NoFile /\ urls' = urls \ {modal.file.url}
        BY <1>19, ModalType, NoFileType DEF HandleRemovePhoto
    <2>2. QED
        BY <2>1 DEF PreviewIsLive
<1>20. CASE HandleSubmit
    BY <1>20 DEF HandleSubmit, PreviewIsLive, page, dialogs
<1>21. CASE CloseModal
    <2>1. modal'.file = NoFile /\ urls' = urls \ {modal.file.url}
        BY <1>21, ModalType, NoFileType DEF CloseModal, Shut
    <2>2. QED
        BY <2>1 DEF PreviewIsLive
<1>22. CASE AskDelete
    BY <1>22 DEF AskDelete, vars, server, page, dialogs, history, PreviewIsLive
<1>23. CASE HandleDelete
    BY <1>23 DEF HandleDelete, PreviewIsLive, dialogs
<1>24. CASE UNCHANGED vars
    BY <1>24 DEF vars, server, page, dialogs, history, PreviewIsLive
<1>25. QED
    BY <1>1, <1>2, <1>3, <1>4, <1>5, <1>6, <1>7, <1>8, <1>9, <1>10, <1>11, <1>12,
       <1>13, <1>14, <1>15, <1>16, <1>17, <1>18, <1>19, <1>20, <1>21, <1>22, <1>23,
       <1>24 DEF Next, Settle

\* Where calls may be and what they carry.
LEMMA CarriedStep == ASSUME IInv, [Next]_vars PROVE Carried'
<1> DEFINE Goal == Carried'
<1> SUFFICES Goal
    OBVIOUS
<1> USE DEF IInv
<1>1. ASSUME NEW k \in Kind, Save(k) PROVE Goal
    <2>1. k # "load"
        BY <1>1 DEF Save, Carried
    <2>2. UNCHANGED <<view, modal>>
        BY <1>1 DEF Save, page, dialogs
    <2>3. QED
        BY <1>1, <2>1, <2>2, Saved DEF Carried, Under, Kind
<1>2. ASSUME NEW k \in Kind, ReadRow(k) PROVE Goal
    <2>1. k # "delete"
        BY <1>2 DEF ReadRow, Carried
    <2>2. UNCHANGED <<view, modal>>
        BY <1>2 DEF ReadRow, page, dialogs
    <2>3. QED
        BY <1>2, <2>1, <2>2, RowRead DEF Carried, Under, Kind
<1>3. ASSUME NEW k \in Kind, ReadHistory(k) PROVE Goal
    <2>1. k # "delete"
        BY <1>3 DEF ReadHistory, Carried
    <2>2. UNCHANGED <<view, modal>>
        BY <1>3 DEF ReadHistory, page, dialogs
    <2>3. QED
        BY <1>3, <2>1, <2>2, HistoryRead DEF Carried, Under, Kind
<1>4. CASE Others
    BY <1>4 DEF Others, vars, server, page, dialogs, history, Carried, Under
<1>5. CASE LearnRole
    BY <1>5 DEF LearnRole, vars, server, page, dialogs, history, Carried, Under
<1>6. CASE Organisations
    BY <1>6 DEF Organisations, vars, server, page, dialogs, history, Carried, Under
<1>7. CASE Loaded
    <2>1. Set("load", NoCall) /\ "load" \in Kind
        BY <1>7 DEF Loaded, Answer, Kind
    <2>2. QED
        BY <1>7, <2>1, CallOver DEF Carried, Under, Loaded, Kind, dialogs
<1>8. CASE NotLoaded
    <2>1. Set("load", NoCall) /\ "load" \in Kind
        BY <1>8 DEF NotLoaded, Answer, Kind
    <2>2. QED
        BY <1>8, <2>1, CallOver DEF Carried, Under, NotLoaded, Kind, dialogs
<1>9. CASE Moved
    <2>1. Set("move", NoCall) /\ "move" \in Kind
        BY <1>9 DEF Moved, Answer, Kind
    <2>2. QED
        BY <1>9, <2>1, CallOver DEF Carried, Under, Moved, Kind, dialogs
<1>10. CASE Assigned
    <2>1. Set("assign", NoCall) /\ "assign" \in Kind
        BY <1>10 DEF Assigned, Answer, Kind
    <2>2. QED
        BY <1>10, <2>1, CallOver DEF Carried, Under, Assigned, Kind, dialogs
<1>11. CASE Resolved
    <2>1. Set("resolve", NoCall) /\ "resolve" \in Kind /\ view' = view /\ modal'.open = FALSE
        BY <1>11, ModalType, NoFileType DEF Resolved, Answer, Kind, Shut, ShutModal
    <2>2. ~Under("move")
        BY <1>11 DEF Resolved, Answer, Carried, Under
    <2>3. QED
        BY <1>11, <2>1, <2>2, CallOver DEF Carried, Under, Kind
<1>12. CASE Deleted
    <2>1. calls' = [k \in Kind |-> NoCall] /\ view' = "left"
        BY <1>12 DEF Deleted, Unmount
    <2>2. QED
        BY <2>1, IdleCall DEF Carried, Under, Kind
<1>13. ASSUME NEW k \in Kind, Failed(k) PROVE Goal
    <2>1. Set(k, NoCall) /\ UNCHANGED <<view, modal>>
        BY <1>13 DEF Failed
    <2>2. QED
        BY <1>13, <2>1, CallOver DEF Carried, Under, Kind
<1>14. CASE Leave
    <2>1. calls' = [k \in Kind |-> NoCall] /\ view' = "left"
        BY <1>14 DEF Leave, Unmount
    <2>2. QED
        BY <2>1, IdleCall DEF Carried, Under, Kind
<1>15. ASSUME NEW s \in Status, HandleStatusMove(s) PROVE Goal
    <2>1. /\ Begin("move", s, None) /\ "move" \in Kind /\ UNCHANGED <<view, modal>>
          /\ view = "shown" /\ ~modal.open
        BY <1>15 DEF HandleStatusMove, Kind, page, dialogs, free
    <2>2. s \in Status \ Final
        BY <1>15 DEF HandleStatusMove, Moves, Status, Final
    <2>3. QED
        BY <2>1, <2>2, CallBegun DEF Carried, Under, Kind
<1>16. ASSUME NEW mode \in {"resolve", "close"}, OpenModal(mode) PROVE Goal
    BY <1>16 DEF OpenModal, vars, server, page, dialogs, history, Carried, Under
<1>17. ASSUME NEW type \in {"jpeg", "other"}, HandleFileChange(type) PROVE Goal
    <2>1. modal'.open = modal.open /\ UNCHANGED <<view, calls>>
        <3>1. [type |-> type, url |-> picks'] \in Preview
            BY <1>17 DEF HandleFileChange, Preview, TypeOK, ServerOK
        <3>2. QED
            BY <1>17, <3>1, ModalType DEF HandleFileChange
    <2>2. QED
        BY <2>1 DEF Carried, Under
<1>18. CASE HandleSave
    <2>1. Begin("assign", None, None) /\ "assign" \in Kind /\ UNCHANGED <<view, modal>> /\ view = "shown"
        BY <1>18 DEF HandleSave, Kind, page, dialogs
    <2>2. QED
        BY <2>1, CallBegun DEF Carried, Under, Kind
<1>19. CASE HandleRemovePhoto
    <2>1. modal'.open = modal.open /\ UNCHANGED <<view, calls>>
        BY <1>19, ModalType, NoFileType DEF HandleRemovePhoto
    <2>2. QED
        BY <2>1 DEF Carried, Under
<1>20. CASE HandleSubmit
    <2>1. modal.open /\ view = "shown" /\ UNCHANGED <<view, modal>>
        BY <1>20 DEF HandleSubmit, page, dialogs
    <2>2. QED
        BY <1>20, <2>1, Submitted DEF Carried, Under, Kind
<1>21. CASE CloseModal
    <2>1. ~Under("resolve") /\ UNCHANGED <<view, calls>> /\ modal.open
        BY <1>21 DEF CloseModal
    <2>2. QED
        BY <2>1 DEF Carried, Under
<1>22. CASE AskDelete
    BY <1>22 DEF AskDelete, vars, server, page, dialogs, history, Carried, Under
<1>23. CASE HandleDelete
    <2>1. Begin("delete", None, None) /\ "delete" \in Kind /\ UNCHANGED <<view, modal>> /\ view = "shown"
        BY <1>23 DEF HandleDelete, Kind
    <2>2. QED
        BY <2>1, CallBegun DEF Carried, Under, Kind
<1>24. CASE UNCHANGED vars
    BY <1>24 DEF vars, server, page, dialogs, history, Carried, Under
<1>25. QED
    BY <1>1, <1>2, <1>3, <1>4, <1>5, <1>6, <1>7, <1>8, <1>9, <1>10, <1>11, <1>12,
       <1>13, <1>14, <1>15, <1>16, <1>17, <1>18, <1>19, <1>20, <1>21, <1>22, <1>23,
       <1>24 DEF Next, Settle

\* The status that is stored only moves on while the report is there.
LEMMA RowStep ==
    ASSUME IInv, [Next]_vars
    PROVE  /\ row.n \in Nat /\ row'.n \in Nat
           /\ row.n <= row'.n
           /\ ~stored => ~stored'
<1> DEFINE Goal == row.n <= row'.n /\ (~stored => ~stored')
<1>0. row.n \in Nat
    BY DEF IInv, TypeOK, ServerOK
<1>1. row'.n \in Nat
    BY TypeStep DEF TypeOK, ServerOK
<1>2. CASE row' = row
    BY <1>0, <1>1, <1>2 DEF stored
<1>3. ASSUME NEW k \in Kind, Save(k) PROVE Goal
    <2>1. CASE row' = row
        BY <1>0, <1>1, <2>1 DEF stored
    <2>2. CASE row' # row
        <3>1. calls[k].at = "sent" /\ stored /\ row' = Written(k)
            BY <1>3, <2>2 DEF Save, Accepted
        <3>2. QED
            BY <3>1, Wrote
    <2>3. QED
        BY <2>1, <2>2
<1>4. CASE Others
    <2>1. stored /\ row.n \in Nat
        BY <1>0, <1>4 DEF Others
    <2>2. \A s \in Status : Change(s, row.photo).n = row.n + 1
        BY DEF Change
    <2>3. Gone.n = row.n
        BY DEF Gone
    <2>4. row'.n = row.n + 1 \/ row'.n = row.n
        BY <1>4, <2>2, <2>3 DEF Others
    <2>5. QED
        BY <2>1, <2>4
<1>5. (\E k \in Kind : Save(k)) \/ Others \/ row' = row
    BY DEF Next, Settle, vars, server, ReadRow, ReadHistory, LearnRole, Organisations,
       Loaded, NotLoaded, Moved, Assigned, Resolved, Deleted, Failed, Leave, Unmount, Answer,
       HandleStatusMove, OpenModal, HandleFileChange, HandleSave, HandleRemovePhoto,
       HandleSubmit, CloseModal, AskDelete, HandleDelete
<1>6. QED
    BY <1>0, <1>1, <1>2, <1>3, <1>4, <1>5

\* A call gets at its data only by reading.
LEMMA CallSources == ASSUME IInv, [Next]_vars PROVE 
    \A j \in Kind : 
       \/ calls'[j] = calls[j]
       \/ calls'[j].at \notin {"read", "answered"}
       \/ ReadRow(j) \/ ReadHistory(j)
       \/ j = "delete" /\ Save(j)
<1> DEFINE Goal == 
    \A j \in Kind : 
       \/ calls'[j] = calls[j]
       \/ calls'[j].at \notin {"read", "answered"}
       \/ ReadRow(j) \/ ReadHistory(j)
       \/ j = "delete" /\ Save(j)
<1> SUFFICES Goal
    OBVIOUS
<1> USE DEF IInv
<1>1. ASSUME NEW k \in Kind, Save(k) PROVE Goal
    BY <1>1, Saved
<1>2. ASSUME NEW k \in Kind, ReadRow(k) PROVE Goal
    BY <1>2, RowRead
<1>3. ASSUME NEW k \in Kind, ReadHistory(k) PROVE Goal
    <2>1. k # "delete"
        BY <1>3 DEF ReadHistory, Carried
    <2>2. QED
        BY <1>3, <2>1, HistoryRead
<1>4. CASE Others
    BY <1>4 DEF Others, vars, server, page, dialogs, history, TypeOK
<1>5. CASE LearnRole
    BY <1>5 DEF LearnRole, vars, server, page, dialogs, history, TypeOK
<1>6. CASE Organisations
    BY <1>6 DEF Organisations, vars, server, page, dialogs, history, TypeOK
<1>7. CASE Loaded
    <2>1. Set("load", NoCall) /\ "load" \in Kind
        BY <1>7 DEF Loaded, Answer, Kind
    <2>2. QED
        BY <2>1, CallOver
<1>8. CASE NotLoaded
    <2>1. Set("load", NoCall) /\ "load" \in Kind
        BY <1>8 DEF NotLoaded, Answer, Kind
    <2>2. QED
        BY <2>1, CallOver
<1>9. CASE Moved
    <2>1. Set("move", NoCall) /\ "move" \in Kind
        BY <1>9 DEF Moved, Answer, Kind
    <2>2. QED
        BY <2>1, CallOver
<1>10. CASE Assigned
    <2>1. Set("assign", NoCall) /\ "assign" \in Kind
        BY <1>10 DEF Assigned, Answer, Kind
    <2>2. QED
        BY <2>1, CallOver
<1>11. CASE Resolved
    <2>1. Set("resolve", NoCall) /\ "resolve" \in Kind
        BY <1>11 DEF Resolved, Answer, Kind
    <2>2. QED
        BY <2>1, CallOver
<1>12. CASE Deleted
    <2>1. calls' = [k \in Kind |-> NoCall]
        BY <1>12 DEF Deleted, Unmount
    <2>2. QED
        BY <2>1, IdleCall
<1>13. ASSUME NEW k \in Kind, Failed(k) PROVE Goal
    <2>1. Set(k, NoCall)
        BY <1>13 DEF Failed
    <2>2. QED
        BY <1>13, <2>1, CallOver
<1>14. CASE Leave
    <2>1. calls' = [k \in Kind |-> NoCall]
        BY <1>14 DEF Leave, Unmount
    <2>2. QED
        BY <2>1, IdleCall
<1>15. ASSUME NEW s \in Status, HandleStatusMove(s) PROVE Goal
    <2>1. Begin("move", s, None) /\ "move" \in Kind
        BY <1>15 DEF HandleStatusMove, Kind
    <2>2. QED
        BY <1>15, <2>1, CallBegun
<1>16. ASSUME NEW mode \in {"resolve", "close"}, OpenModal(mode) PROVE Goal
    BY <1>16 DEF OpenModal, vars, server, page, dialogs, history, TypeOK
<1>17. ASSUME NEW type \in {"jpeg", "other"}, HandleFileChange(type) PROVE Goal
    BY <1>17 DEF HandleFileChange, vars, server, page, dialogs, history, TypeOK
<1>18. CASE HandleSave
    <2>1. Begin("assign", None, None) /\ "assign" \in Kind
        BY <1>18 DEF HandleSave, Kind
    <2>2. QED
        BY <1>18, <2>1, CallBegun
<1>19. CASE HandleRemovePhoto
    BY <1>19 DEF HandleRemovePhoto, vars, server, page, dialogs, history, TypeOK
<1>20. CASE HandleSubmit
    BY <1>20, Submitted
<1>21. CASE CloseModal
    BY <1>21 DEF CloseModal, Shut, ShutModal, vars, server, page, dialogs, history,
       TypeOK
<1>22. CASE AskDelete
    BY <1>22 DEF AskDelete, vars, server, page, dialogs, history, TypeOK
<1>23. CASE HandleDelete
    <2>1. Begin("delete", None, None) /\ "delete" \in Kind
        BY <1>23 DEF HandleDelete, Kind
    <2>2. QED
        BY <1>23, <2>1, CallBegun
<1>24. CASE UNCHANGED vars
    BY <1>24 DEF vars, server, page, dialogs, history, TypeOK
<1>25. QED
    BY <1>1, <1>2, <1>3, <1>4, <1>5, <1>6, <1>7, <1>8, <1>9, <1>10, <1>11, <1>12,
       <1>13, <1>14, <1>15, <1>16, <1>17, <1>18, <1>19, <1>20, <1>21, <1>22, <1>23,
       <1>24 DEF Next, Settle

\* The page shows what it showed, nothing, or an answer.
LEMMA ShownSources == ASSUME IInv, [Next]_vars PROVE 
    \/ shown' = shown \/ shown' = None
    \/ \E j \in Kind \ {"delete"} :
         /\ calls[j].at = "answered" /\ shown' = calls[j].snap
         /\ view = "shown" \/ j = "load"
<1> DEFINE Goal == 
    \/ shown' = shown \/ shown' = None
    \/ \E j \in Kind \ {"delete"} :
         /\ calls[j].at = "answered" /\ shown' = calls[j].snap
         /\ view = "shown" \/ j = "load"
<1> SUFFICES Goal
    OBVIOUS
<1>1. ASSUME NEW k \in Kind, Save(k) PROVE Goal
    BY <1>1 DEF Save, vars, server, page, dialogs, history
<1>2. ASSUME NEW k \in Kind, ReadRow(k) PROVE Goal
    BY <1>2 DEF ReadRow, vars, server, page, dialogs, history
<1>3. ASSUME NEW k \in Kind, ReadHistory(k) PROVE Goal
    BY <1>3 DEF ReadHistory, vars, server, page, dialogs, history
<1>4. CASE Others
    BY <1>4 DEF Others, vars, server, page, dialogs, history
<1>5. CASE LearnRole
    BY <1>5 DEF LearnRole, vars, server, page, dialogs, history
<1>6. CASE Organisations
    BY <1>6 DEF Organisations, vars, server, page, dialogs, history
<1>7. CASE Loaded
    BY <1>7 DEF Loaded, Answer, Kind
<1>8. CASE NotLoaded
    BY <1>8 DEF NotLoaded, vars, server, page, dialogs, history
<1>9. CASE Moved
    BY <1>9 DEF Moved, Answer, Kind
<1>10. CASE Assigned
    BY <1>10 DEF Assigned, Answer, Kind
<1>11. CASE Resolved
    BY <1>11 DEF Resolved, Answer, Kind
<1>12. CASE Deleted
    BY <1>12 DEF Deleted, Unmount, ShutModal, vars, server, page, dialogs, history
<1>13. ASSUME NEW k \in Kind, Failed(k) PROVE Goal
    BY <1>13 DEF Failed, vars, server, page, dialogs, history
<1>14. CASE Leave
    BY <1>14 DEF Leave, Unmount, ShutModal, vars, server, page, dialogs, history
<1>15. ASSUME NEW s \in Status, HandleStatusMove(s) PROVE Goal
    BY <1>15 DEF HandleStatusMove, Begin, vars, server, page, dialogs, history
<1>16. ASSUME NEW mode \in {"resolve", "close"}, OpenModal(mode) PROVE Goal
    BY <1>16 DEF OpenModal, vars, server, page, dialogs, history
<1>17. ASSUME NEW type \in {"jpeg", "other"}, HandleFileChange(type) PROVE Goal
    BY <1>17 DEF HandleFileChange, vars, server, page, dialogs, history
<1>18. CASE HandleSave
    BY <1>18 DEF HandleSave, Begin, vars, server, page, dialogs, history
<1>19. CASE HandleRemovePhoto
    BY <1>19 DEF HandleRemovePhoto, vars, server, page, dialogs, history
<1>20. CASE HandleSubmit
    BY <1>20 DEF HandleSubmit, Begin, vars, server, page, dialogs, history
<1>21. CASE CloseModal
    BY <1>21 DEF CloseModal, Shut, ShutModal, vars, server, page, dialogs, history
<1>22. CASE AskDelete
    BY <1>22 DEF AskDelete, vars, server, page, dialogs, history
<1>23. CASE HandleDelete
    BY <1>23 DEF HandleDelete, Begin, vars, server, page, dialogs, history
<1>24. CASE UNCHANGED vars
    BY <1>24 DEF vars, server, page, dialogs, history
<1>25. QED
    BY <1>1, <1>2, <1>3, <1>4, <1>5, <1>6, <1>7, <1>8, <1>9, <1>10, <1>11, <1>12,
       <1>13, <1>14, <1>15, <1>16, <1>17, <1>18, <1>19, <1>20, <1>21, <1>22, <1>23,
       <1>24 DEF Next, Settle

\* What was read stays behind the table, and a timeline reaches the status.
LEMMA ReadStep == ASSUME IInv, [Next]_vars PROVE Read' /\ TimelineReachesStatus'
<1>1. \A k \in Kind : calls[k].at \in {"read", "answered"} /\ k # "delete"
                         => calls[k].snap \in Snapshot
    BY NoneApart DEF IInv, TypeOK, CallsOK, Call
<1>2. /\ row.n \in Nat /\ row'.n \in Nat /\ row.n <= row'.n
      /\ ~stored => ~stored'
    BY RowStep
<1>3. ASSUME NEW k \in Kind \ {"delete"} PROVE ReadAt(k)'
    <2>1. CASE calls'[k] = calls[k]
        <3>1. calls[k].at = "read" => calls[k].snap.n \in Nat
            BY <1>1 DEF Snapshot
        <3>2. ReadAt(k)
            BY DEF IInv, Read
        <3>3. calls'[k].at = "read" => calls'[k].snap.n <= row'.n
            BY <1>2, <2>1, <3>1, <3>2 DEF ReadAt
        <3>4. QED
            BY <1>2, <2>1, <3>2, <3>3 DEF ReadAt
    <2>2. CASE calls'[k].at \notin {"read", "answered"}
        BY <2>2 DEF ReadAt
    <2>3. CASE ReadRow(k)
        <3>1. row' = row
            BY <2>3 DEF ReadRow, server
        <3>2. QED
            BY <1>2, <2>3, <3>1, RowRead DEF IInv, ReadAt, SameReport
    <2>4. CASE ReadHistory(k)
        <3>1. row' = row
            BY <2>4 DEF ReadHistory, server
        <3>2. calls[k].at = "read" /\ calls'[k].at = "answered"
            BY <2>4, HistoryRead DEF IInv
        <3>3. /\ calls'[k].snap.n = calls[k].snap.n
              /\ calls'[k].snap.hist = IF stored THEN row.n ELSE 0
            BY <2>4, HistoryRead DEF IInv
        <3>4. calls[k].snap.n <= row.n /\ calls[k].snap.n \in Nat
            BY <1>1, <3>2 DEF IInv, Read, ReadAt, Snapshot
        <3>5. stored => ~(calls'[k].snap.hist < calls'[k].snap.n)
            BY <1>2, <3>3, <3>4
        <3>6. stored' = stored
            BY <3>1 DEF stored
        <3>7. QED
            BY <3>2, <3>5, <3>6 DEF ReadAt
    <2>5. QED
        BY <2>1, <2>2, <2>3, <2>4, CallSources
<1>4. TimelineReachesStatus'
    <2>1. CASE shown' = shown
        BY <1>2, <2>1 DEF IInv, TimelineReachesStatus, stored
    <2>2. CASE shown' = None
        BY <2>2 DEF TimelineReachesStatus
    <2>3. ASSUME NEW j \in Kind \ {"delete"}, calls[j].at = "answered", shown' = calls[j].snap
          PROVE  TimelineReachesStatus'
        <3>1. ReadAt(j)
            BY DEF IInv, Read
        <3>2. QED
            BY <1>2, <2>3, <3>1 DEF ReadAt, TimelineReachesStatus, stored
    <2>4. QED
        BY <2>1, <2>2, <2>3, ShownSources
<1>5. QED
    BY <1>3, <1>4 DEF Read

\* A call that begins while another is under way is marked as an overlap.
LEMMA CallsBegin == ASSUME IInv, [Next]_vars PROVE 
    \/ overlap' = overlap /\ \A j \in Kind : Under(j)' => Under(j)
    \/ \E i \in Kind :
          /\ ~overlap' => ~overlap /\ \A j \in Kind : ~Under(j)
          /\ \A j \in Kind : j # i => calls'[j] = calls[j]
<1> DEFINE Goal == 
    \/ overlap' = overlap /\ \A j \in Kind : Under(j)' => Under(j)
    \/ \E i \in Kind :
          /\ ~overlap' => ~overlap /\ \A j \in Kind : ~Under(j)
          /\ \A j \in Kind : j # i => calls'[j] = calls[j]
<1> SUFFICES Goal
    OBVIOUS
<1> USE DEF IInv
<1>1. ASSUME NEW k \in Kind, Save(k) PROVE Goal
    <2>1. overlap' = overlap
        BY <1>1 DEF Save, history
    <2>2. QED
        BY <1>1, <2>1, Saved DEF Under
<1>2. ASSUME NEW k \in Kind, ReadRow(k) PROVE Goal
    <2>1. overlap' = overlap
        BY <1>2 DEF ReadRow, history
    <2>2. QED
        BY <1>2, <2>1, RowRead DEF Under
<1>3. ASSUME NEW k \in Kind, ReadHistory(k) PROVE Goal
    <2>1. k # "delete"
        BY <1>3 DEF ReadHistory, Carried
    <2>2. overlap' = overlap
        BY <1>3 DEF ReadHistory, history
    <2>3. QED
        BY <1>3, <2>1, <2>2, HistoryRead DEF Under
<1>4. CASE Others
    BY <1>4 DEF Others, vars, server, page, dialogs, history, TypeOK, Under
<1>5. CASE LearnRole
    BY <1>5 DEF LearnRole, vars, server, page, dialogs, history, TypeOK, Under
<1>6. CASE Organisations
    BY <1>6 DEF Organisations, vars, server, page, dialogs, history, TypeOK, Under
<1>7. CASE Loaded
    <2>1. Set("load", NoCall) /\ "load" \in Kind
        BY <1>7 DEF Loaded, Answer, Kind
    <2>2. overlap' = overlap
        BY <1>7 DEF Loaded, Answer, history
    <2>3. QED
        BY <2>1, <2>2, CallOver DEF Under
<1>8. CASE NotLoaded
    <2>1. Set("load", NoCall) /\ "load" \in Kind
        BY <1>8 DEF NotLoaded, Answer, Kind
    <2>2. overlap' = overlap
        BY <1>8 DEF NotLoaded, Answer, history
    <2>3. QED
        BY <2>1, <2>2, CallOver DEF Under
<1>9. CASE Moved
    <2>1. Set("move", NoCall) /\ "move" \in Kind
        BY <1>9 DEF Moved, Answer, Kind
    <2>2. overlap' = overlap
        BY <1>9 DEF Moved, Answer, history
    <2>3. QED
        BY <2>1, <2>2, CallOver DEF Under
<1>10. CASE Assigned
    <2>1. Set("assign", NoCall) /\ "assign" \in Kind
        BY <1>10 DEF Assigned, Answer, Kind
    <2>2. overlap' = overlap
        BY <1>10 DEF Assigned, Answer, history
    <2>3. QED
        BY <2>1, <2>2, CallOver DEF Under
<1>11. CASE Resolved
    <2>1. Set("resolve", NoCall) /\ "resolve" \in Kind
        BY <1>11 DEF Resolved, Answer, Kind
    <2>2. overlap' = overlap
        BY <1>11 DEF Resolved, Answer, history
    <2>3. QED
        BY <2>1, <2>2, CallOver DEF Under
<1>12. CASE Deleted
    <2>1. calls' = [k \in Kind |-> NoCall] /\ overlap' = overlap
        BY <1>12 DEF Deleted, Unmount, history
    <2>2. QED
        BY <2>1, IdleCall DEF Under
<1>13. ASSUME NEW k \in Kind, Failed(k) PROVE Goal
    <2>1. Set(k, NoCall) /\ overlap' = overlap
        BY <1>13 DEF Failed
    <2>2. QED
        BY <1>13, <2>1, CallOver DEF Under
<1>14. CASE Leave
    <2>1. calls' = [k \in Kind |-> NoCall] /\ overlap' = overlap
        BY <1>14 DEF Leave, Unmount, history
    <2>2. QED
        BY <2>1, IdleCall DEF Under
<1>15. ASSUME NEW s \in Status, HandleStatusMove(s) PROVE Goal
    <2>1. Begin("move", s, None) /\ "move" \in Kind
        BY <1>15 DEF HandleStatusMove, Kind
    <2>2. QED
        BY <1>15, <2>1, CallBegun DEF Under
<1>16. ASSUME NEW mode \in {"resolve", "close"}, OpenModal(mode) PROVE Goal
    BY <1>16 DEF OpenModal, vars, server, page, dialogs, history, TypeOK, Under
<1>17. ASSUME NEW type \in {"jpeg", "other"}, HandleFileChange(type) PROVE Goal
    BY <1>17 DEF HandleFileChange, vars, server, page, dialogs, history, TypeOK, Under
<1>18. CASE HandleSave
    <2>1. Begin("assign", None, None) /\ "assign" \in Kind
        BY <1>18 DEF HandleSave, Kind
    <2>2. QED
        BY <1>18, <2>1, CallBegun DEF Under
<1>19. CASE HandleRemovePhoto
    BY <1>19 DEF HandleRemovePhoto, vars, server, page, dialogs, history, TypeOK, Under
<1>20. CASE HandleSubmit
    <2>1. "resolve" \in Kind
        BY DEF Kind
    <2>2. QED
        BY <1>20, <2>1, Submitted DEF Under
<1>21. CASE CloseModal
    BY <1>21 DEF CloseModal, Shut, ShutModal, vars, server, page, dialogs, history,
       TypeOK, Under
<1>22. CASE AskDelete
    BY <1>22 DEF AskDelete, vars, server, page, dialogs, history, TypeOK, Under
<1>23. CASE HandleDelete
    <2>1. Begin("delete", None, None) /\ "delete" \in Kind
        BY <1>23 DEF HandleDelete, Kind
    <2>2. QED
        BY <1>23, <2>1, CallBegun DEF Under
<1>24. CASE UNCHANGED vars
    BY <1>24 DEF vars, server, page, dialogs, history, TypeOK, Under
<1>25. QED
    BY <1>1, <1>2, <1>3, <1>4, <1>5, <1>6, <1>7, <1>8, <1>9, <1>10, <1>11, <1>12,
       <1>13, <1>14, <1>15, <1>16, <1>17, <1>18, <1>19, <1>20, <1>21, <1>22, <1>23,
       <1>24 DEF Next, Settle

\* Calls that do not overlap come one by one.
LEMMA SoleStep == ASSUME IInv, [Next]_vars PROVE Sole'
    BY CallsBegin DEF IInv, Sole, Under

\* What is quiet after a step was quiet before it.
LEMMA QuietStep == ASSUME IInv, [Next]_vars, Quiet' PROVE Quiet /\ ~Others
<1>1. stored
    BY RowStep DEF Quiet
<1>2. ~overlap
    BY CallsBegin DEF Quiet
<1>3. ~faulty
    BY DEF Quiet, Next, Settle, vars, history, Save, ReadRow, ReadHistory, Others,
       LearnRole,
       Organisations, Loaded, NotLoaded, Moved, Assigned, Resolved, Deleted, Failed, Leave,
       Unmount, Answer, Begin, HandleStatusMove, OpenModal, HandleFileChange, HandleSave,
       HandleRemovePhoto, HandleSubmit, CloseModal, AskDelete, HandleDelete
<1>4. others' = others \/ (Others /\ others' = others + 1)
    BY DEF Quiet, Next, Settle, vars, server, Save, ReadRow, ReadHistory, Others,
       LearnRole,
       Organisations, Loaded, NotLoaded, Moved, Assigned, Resolved, Deleted, Failed, Leave,
       Unmount, Answer, Begin, HandleStatusMove, OpenModal, HandleFileChange, HandleSave,
       HandleRemovePhoto, HandleSubmit, CloseModal, AskDelete, HandleDelete
<1>5. others \in Nat /\ others' = 0
    BY DEF Quiet, IInv, TypeOK, ServerOK
<1>6. ~Others
    BY <1>5 DEF Others
<1>7. QED
    BY <1>1, <1>2, <1>3, <1>4, <1>5, <1>6 DEF Quiet

\* The facts that a quiet step starts from.
LEMMA QuietFacts ==
    ASSUME IInv, [Next]_vars, Quiet'
    PROVE  /\ stored /\ ~Others
           /\ view = "shown" /\ (\A j \in Kind : calls[j].at \in {"idle", "sent", "refused"})
                => SameReport(shown)
           /\ \A j \in Kind : calls[j].at \in {"read", "answered"}
                => j # "delete" /\ SameReport(calls[j].snap)
           /\ \A i, j \in Kind : calls[i].at # "idle" /\ i # j => calls[j].at = "idle"
    BY QuietStep DEF IInv, Fresh, Sole, Quiet, Under

\* An answer that becomes the report shown keeps it the stored one.
LEMMA AnswerFresh ==
    ASSUME IInv, [Next]_vars, NEW k \in Kind, calls[k].at = "answered",
           shown' = calls[k].snap, Set(k, NoCall), row' = row
    PROVE  Fresh'
<1> SUFFICES ASSUME Quiet' PROVE Fresh'
    BY DEF Fresh
<1>1. SameReport(calls[k].snap) /\ \A j \in Kind : j # k => calls[j].at = "idle"
    BY QuietFacts
<1>2. \A j \in Kind : calls'[j].at = "idle"
    BY <1>1, CallOver DEF IInv
<1>3. SameReport(shown)'
    BY <1>1 DEF SameReport
<1>4. QED
    BY <1>2, <1>3 DEF Fresh

\* A call that begins finds the stored report shown.
LEMMA BeginFresh ==
    ASSUME IInv, [Next]_vars, NEW k \in Kind, view = "shown", UNCHANGED <<row, shown>>,
           calls'[k].at = "sent", ~overlap' => \A j \in Kind : calls[j].at = "idle",
           \A j \in Kind : j # k => calls'[j] = calls[j]
    PROVE  Fresh'
<1> SUFFICES ASSUME Quiet' PROVE Fresh'
    BY DEF Fresh
<1>1. \A j \in Kind : calls[j].at = "idle"
    BY DEF Quiet
<1>2. \A j \in Kind : calls'[j].at \in {"idle", "sent"}
    BY <1>1
<1>3. SameReport(shown)
    BY <1>1, QuietFacts
<1>4. SameReport(shown)'
    BY <1>3 DEF SameReport
<1>5. QED
    BY <1>2, <1>4 DEF Fresh

\* A call that ends without an answer leaves the stored report shown.
LEMMA EndFresh ==
    ASSUME IInv, [Next]_vars, NEW k \in Kind, UNCHANGED <<row, shown, view>>,
           Set(k, NoCall), Quiet' => calls[k].at = "refused"
    PROVE  Fresh'
<1> SUFFICES ASSUME Quiet' PROVE Fresh'
    BY DEF Fresh
<1>1. calls[k].at = "refused" /\ \A j \in Kind : j # k => calls[j].at = "idle"
    BY QuietFacts
<1>2. \A j \in Kind : calls'[j].at = "idle"
    BY <1>1, CallOver DEF IInv
<1>3. \A j \in Kind : calls[j].at \in {"idle", "refused"}
    BY <1>1
<1>4. view = "shown" => SameReport(shown)
    BY <1>3, QuietFacts
<1>5. view' = "shown" => SameReport(shown)'
    BY <1>4 DEF SameReport
<1>6. QED
    BY <1>2, <1>5 DEF Fresh

\* The report shown or read is the stored one.
LEMMA FreshStep == ASSUME IInv, [Next]_vars PROVE Fresh'
<1> DEFINE Goal == Fresh'
<1> SUFFICES Goal
    OBVIOUS
<1> USE DEF IInv
<1>1. ASSUME NEW k \in Kind, Save(k) PROVE Goal
    <2> SUFFICES ASSUME Quiet' PROVE Fresh'
        BY DEF Fresh
    <2>1. calls[k].at = "sent" /\ \A j \in Kind : j # k => calls[j].at = "idle"
        BY <1>1, QuietFacts, Saved
    <2>2. /\ calls'[k].at \in {"saved", "answered", "refused"}
          /\ k # "delete" => calls'[k].at # "answered"
          /\ calls'[k].at \in {"saved", "answered"} => row' = Written(k)
          /\ calls'[k].at = "refused" => row' = row
          /\ \A j \in Kind : j # k => calls'[j] = calls[j]
        BY <1>1, Saved
    <2>3. UNCHANGED <<shown, view>>
        BY <1>1 DEF Save, page
    <2>4. calls'[k].at # "answered"
        <3>1. k = "delete" => Written(k).status = "deleted"
            BY <2>1, Wrote
        <3>2. row'.status # "deleted"
            BY DEF Quiet, stored
        <3>3. QED
            BY <2>2, <3>1, <3>2
    <2>5. CASE calls'[k].at = "saved"
        BY <2>1, <2>2, <2>5 DEF Fresh
    <2>6. CASE calls'[k].at = "refused"
        <3>1. \A j \in Kind : calls[j].at \in {"idle", "sent"}
            BY <2>1
        <3>2. view = "shown" => SameReport(shown)
            BY <3>1, QuietFacts
        <3>3. view' = "shown" => SameReport(shown)'
            BY <2>2, <2>3, <2>6, <3>2 DEF SameReport
        <3>4. \A j \in Kind : calls'[j].at \in {"idle", "refused"}
            BY <2>1, <2>2, <2>6
        <3>5. QED
            BY <3>3, <3>4 DEF Fresh
    <2>7. QED
        BY <2>2, <2>4, <2>5, <2>6
<1>2. ASSUME NEW k \in Kind, ReadRow(k) PROVE Goal
    <2> SUFFICES ASSUME Quiet' PROVE Fresh'
        BY DEF Fresh
    <2>1. calls[k].at = "saved" /\ \A j \in Kind : j # k => calls[j].at = "idle"
        BY <1>2, QuietFacts, RowRead
    <2>2. calls'[k].at = "read" /\ SameReport(calls'[k].snap) /\ k # "delete"
        BY <1>2, <2>1, QuietFacts, RowRead DEF Carried
    <2>3. \A j \in Kind : j # k => calls'[j].at = "idle"
        BY <1>2, <2>1, RowRead
    <2>4. row' = row
        BY <1>2 DEF ReadRow, server
    <2>5. SameReport(calls[k].snap)'
        BY <2>2, <2>4 DEF SameReport
    <2>6. QED
        BY <2>2, <2>3, <2>5 DEF Fresh
<1>3. ASSUME NEW k \in Kind, ReadHistory(k) PROVE Goal
    <2> SUFFICES ASSUME Quiet' PROVE Fresh'
        BY DEF Fresh
    <2>1. k # "delete" /\ calls[k].at = "read"
        BY <1>3 DEF ReadHistory, Carried
    <2>2. SameReport(calls[k].snap) /\ \A j \in Kind : j # k => calls[j].at = "idle"
        BY <2>1, QuietFacts
    <2>3. row' = row
        BY <1>3 DEF ReadHistory, server
    <2>4. /\ calls'[k].at = "answered" /\ SameReport(calls[k].snap)'
          /\ \A j \in Kind : j # k => calls'[j].at = "idle"
        BY <1>3, <2>1, <2>2, <2>3, HistoryRead DEF SameReport
    <2>5. QED
        BY <2>1, <2>4 DEF Fresh
<1>4. CASE Others
    <2> SUFFICES ASSUME Quiet' PROVE Fresh'
        BY DEF Fresh
    <2>1. QED
        BY <1>4, QuietFacts
<1>5. CASE LearnRole
    BY <1>5 DEF LearnRole, vars, server, page, dialogs, history, Fresh, Quiet,
       stored, SameReport
<1>6. CASE Organisations
    BY <1>6 DEF Organisations, vars, server, page, dialogs, history, Fresh, Quiet,
       stored, SameReport
<1>7. CASE Loaded
    <2>1. /\ calls["load"].at = "answered" /\ shown' = calls["load"].snap
          /\ Set("load", NoCall) /\ row' = row /\ "load" \in Kind
        BY <1>7 DEF Loaded, Answer, server, Kind
    <2>2. Fresh'
        BY <2>1, AnswerFresh
    <2>3. QED
        BY <2>2
<1>8. CASE NotLoaded
    <2>1. Set("load", NoCall) /\ view' # "shown" /\ "load" \in Kind /\ view = "loading"
        BY <1>8 DEF NotLoaded, Kind
    <2>2. \A j \in Kind : calls'[j].at = "idle"
        BY <2>1, CallOver DEF Carried, Under
    <2>3. QED
        BY <2>1, <2>2 DEF Fresh
<1>9. CASE Moved
    <2>1. /\ calls["move"].at = "answered" /\ shown' = calls["move"].snap
          /\ Set("move", NoCall) /\ row' = row /\ "move" \in Kind
        BY <1>9 DEF Moved, Answer, server, Kind
    <2>2. Fresh'
        BY <2>1, AnswerFresh
    <2>3. QED
        BY <2>2
<1>10. CASE Assigned
    <2>1. /\ calls["assign"].at = "answered" /\ shown' = calls["assign"].snap
          /\ Set("assign", NoCall) /\ row' = row /\ "assign" \in Kind
        BY <1>10 DEF Assigned, Answer, server, Kind
    <2>2. Fresh'
        BY <2>1, AnswerFresh
    <2>3. QED
        BY <2>2
<1>11. CASE Resolved
    <2>1. /\ calls["resolve"].at = "answered" /\ shown' = calls["resolve"].snap
          /\ Set("resolve", NoCall) /\ row' = row /\ "resolve" \in Kind
        BY <1>11 DEF Resolved, Answer, server, Kind
    <2>2. Fresh'
        BY <2>1, AnswerFresh
    <2>3. QED
        BY <2>2
<1>12. CASE Deleted
    <2>1. calls' = [k \in Kind |-> NoCall] /\ view' = "left"
        BY <1>12 DEF Deleted, Unmount
    <2>2. \A j \in Kind : calls'[j].at = "idle"
        BY <2>1, IdleCall
    <2>3. QED
        BY <2>1, <2>2 DEF Fresh
<1>13. ASSUME NEW k \in Kind, Failed(k) PROVE Goal
    <2>1. Set(k, NoCall) /\ UNCHANGED <<row, shown, view>> /\ faulty' = (faulty \/ ~Rejected(k))
        BY <1>13 DEF Failed, server
    <2>2. ASSUME Quiet' PROVE calls[k].at = "refused"
        <3>1. Rejected(k)
            BY <2>1, <2>2 DEF Quiet
        <3>2. ~(k = "delete" /\ calls[k].at = "answered")
            BY <2>2, QuietFacts
        <3>3. QED
            BY <3>1, <3>2 DEF Rejected
    <2>3. QED
        BY <1>13, <2>1, <2>2, EndFresh
<1>14. CASE Leave
    <2>1. calls' = [k \in Kind |-> NoCall] /\ view' = "left"
        BY <1>14 DEF Leave, Unmount
    <2>2. \A j \in Kind : calls'[j].at = "idle"
        BY <2>1, IdleCall
    <2>3. QED
        BY <2>1, <2>2 DEF Fresh
<1>15. ASSUME NEW s \in Status, HandleStatusMove(s) PROVE Goal
    <2>1. Begin("move", s, None) /\ "move" \in Kind /\ view = "shown"
        BY <1>15 DEF HandleStatusMove, Kind
    <2>2. UNCHANGED <<row, shown>>
        BY <1>15 DEF HandleStatusMove, server, page
    <2>3. /\ calls'["move"].at = "sent" /\ (~overlap' => \A j \in Kind : calls[j].at = "idle")
          /\ \A j \in Kind : j # "move" => calls'[j] = calls[j]
        BY <1>15, <2>1, CallBegun
    <2>4. QED
        BY <2>1, <2>2, <2>3, BeginFresh
<1>16. ASSUME NEW mode \in {"resolve", "close"}, OpenModal(mode) PROVE Goal
    BY <1>16 DEF OpenModal, vars, server, page, dialogs, history, Fresh, Quiet,
       stored, SameReport
<1>17. ASSUME NEW type \in {"jpeg", "other"}, HandleFileChange(type) PROVE Goal
    BY <1>17 DEF HandleFileChange, vars, server, page, dialogs, history, Fresh,
       Quiet, stored, SameReport
<1>18. CASE HandleSave
    <2>1. Begin("assign", None, None) /\ "assign" \in Kind /\ view = "shown"
        BY <1>18 DEF HandleSave, Kind
    <2>2. UNCHANGED <<row, shown>>
        BY <1>18 DEF HandleSave, server, page
    <2>3. /\ calls'["assign"].at = "sent" /\ (~overlap' => \A j \in Kind : calls[j].at = "idle")
          /\ \A j \in Kind : j # "assign" => calls'[j] = calls[j]
        BY <1>18, <2>1, CallBegun
    <2>4. QED
        BY <2>1, <2>2, <2>3, BeginFresh
<1>19. CASE HandleRemovePhoto
    BY <1>19 DEF HandleRemovePhoto, vars, server, page, dialogs, history, Fresh,
       Quiet, stored, SameReport
<1>20. CASE HandleSubmit
    <2>1. "resolve" \in Kind /\ view = "shown" /\ UNCHANGED <<row, shown>>
        BY <1>20 DEF HandleSubmit, Kind, server, page
    <2>2. /\ calls'["resolve"].at = "sent"
          /\ ~overlap' => \A j \in Kind : calls[j].at = "idle"
          /\ \A j \in Kind : j # "resolve" => calls'[j] = calls[j]
        BY <1>20, Submitted
    <2>3. QED
        BY <2>1, <2>2, BeginFresh
<1>21. CASE CloseModal
    BY <1>21 DEF CloseModal, Shut, ShutModal, vars, server, page, dialogs, history,
       Fresh, Quiet, stored, SameReport
<1>22. CASE AskDelete
    BY <1>22 DEF AskDelete, vars, server, page, dialogs, history, Fresh, Quiet,
       stored, SameReport
<1>23. CASE HandleDelete
    <2>1. Begin("delete", None, None) /\ "delete" \in Kind /\ view = "shown"
        BY <1>23 DEF HandleDelete, Kind
    <2>2. UNCHANGED <<row, shown>>
        BY <1>23 DEF HandleDelete, server, page
    <2>3. /\ calls'["delete"].at = "sent" /\ (~overlap' => \A j \in Kind : calls[j].at = "idle")
          /\ \A j \in Kind : j # "delete" => calls'[j] = calls[j]
        BY <1>23, <2>1, CallBegun
    <2>4. QED
        BY <2>1, <2>2, <2>3, BeginFresh
<1>24. CASE UNCHANGED vars
    BY <1>24 DEF vars, server, page, dialogs, history, Fresh, Quiet, stored, SameReport
<1>25. QED
    BY <1>1, <1>2, <1>3, <1>4, <1>5, <1>6, <1>7, <1>8, <1>9, <1>10, <1>11, <1>12,
       <1>13, <1>14, <1>15, <1>16, <1>17, <1>18, <1>19, <1>20, <1>21, <1>22, <1>23,
       <1>24 DEF Next, Settle

(***************************************************************************)
(* The theorems.                                                           *)
(***************************************************************************)
\* The invariant holds at first.
LEMMA InitIInv == Init => IInv
<1> SUFFICES ASSUME Init PROVE IInv
    OBVIOUS
<1> DEFINE first == [at |-> "saved", to |-> None, file |-> None, snap |-> None]
<1>1. calls = [k \in Kind |-> IF k = "load" THEN [NoCall EXCEPT !.at = "saved"] ELSE NoCall]
    BY DEF Init
<1>2. [NoCall EXCEPT !.at = "saved"] = first /\ first \in Call
    BY DEF NoCall, Call
<1>3. /\ calls \in [Kind -> Call] /\ calls["load"] = first
      /\ \A k \in Kind : k # "load" => calls[k] = NoCall
    BY <1>1, <1>2, IdleCall DEF Kind
<1> HIDE DEF first
<1>4. first.at = "saved"
    BY DEF first
<1>5. CallsOK /\ Read /\ Sole
    BY <1>3, <1>4, IdleCall DEF CallsOK, Read, ReadAt, Sole, Under
<1>6. Carried
    BY <1>3, <1>4, IdleCall DEF Carried, Under, Init, Kind
<1>7. Fresh
    BY <1>3, <1>4, IdleCall DEF Fresh, Init
<1>8. TimelineReachesStatus
    BY DEF TimelineReachesStatus, Init
<1>9. modal = [open |-> FALSE, mode |-> "resolve", file |-> NoFile]
    BY DEF Init, ShutModal
<1>10. PreviewIsLive
    BY <1>9 DEF PreviewIsLive, Init
<1>11. ServerOK
    <2>1. PICK s \in Start : row = [status |-> s, photo |-> s \in Final,
                                   n |-> IF s = "open" THEN 0 ELSE 1]
        BY DEF Init
    <2>2. s \in Status
        BY DetailAssumption
    <2> DEFINE R == [status : Status \cup {"deleted"}, photo : BOOLEAN, n : Nat]
    <2>3. ASSUME s \in Final PROVE row \in R
        BY <2>1, <2>2, <2>3
    <2>4. ASSUME s \notin Final PROVE row \in R
        BY <2>1, <2>2, <2>4
    <2>6. row \in [status : Status \cup {"deleted"}, photo : BOOLEAN, n : Nat]
        BY <2>3, <2>4
    <2>7. QED
        BY <2>6 DEF ServerOK, Init
<1>12. PageOK
    <2>1. modal \in [open : BOOLEAN, mode : {"resolve", "close"}, file : Preview]
        BY <1>9, NoFileType
    <2>2. QED
        BY <2>1 DEF PageOK, Init
<1>13. FlagsOK
    BY DEF FlagsOK, Init
<1>14. QED
    BY <1>5, <1>6, <1>7, <1>8, <1>10, <1>11, <1>12, <1>13 DEF IInv, TypeOK

\* Every step keeps it.
LEMMA StepIInv == IInv /\ [Next]_vars => IInv'
    BY TypeStep, PreviewStep, CarriedStep, ReadStep, SoleStep, FreshStep DEF IInv

\* The inductive invariant holds in every reachable state.
THEOREM Invariance == Spec => []IInv
    BY InitIInv, StepIInv, PTL DEF Spec

\* Rows, calls, dialogs and flags keep their types.
THEOREM TypeCorrect == Spec => []TypeOK
<1>1. IInv => TypeOK
    BY DEF IInv
<1>2. QED
    BY <1>1, Invariance, PTL

\* ResolveModal never leaks an object URL and never shows a revoked one.
THEOREM PreviewsLive == Spec => []PreviewIsLive
<1>1. IInv => PreviewIsLive
    BY DEF IInv
<1>2. QED
    BY <1>1, Invariance, PTL

\* A timeline that is shown reaches the status that is shown with it: the
\* order of the two statements of get_admin_report_by_id suffices, with no
\* transaction around them.
THEOREM TimelinesReach == Spec => []TimelineReachesStatus
<1>1. IInv => TimelineReachesStatus
    BY DEF IInv
<1>2. QED
    BY <1>1, Invariance, PTL

\* A page whose calls do not overlap shows what is stored.
THEOREM QuietPageIsCurrent == Spec => []QuietIsCurrent
<1>1. IInv => QuietIsCurrent
    BY DEF IInv, Fresh, QuietIsCurrent, Under
<1>2. QED
    BY <1>1, Invariance, PTL

\* A PATCH of the status and a resolution exclude each other.
THEOREM StatusWritersExclude == Spec => []OneStatusWriter
<1>1. IInv => OneStatusWriter
    BY DEF IInv, Carried, OneStatusWriter
<1>2. QED
    BY <1>1, Invariance, PTL

\* What this page writes with a final status has its photo.
THEOREM FinalsHavePhoto == Spec => OwnFinalsHavePhoto
<1> DEFINE Own == row'.status \in Final /\ row' # row /\ others' = others => row'.photo
<1>1. ASSUME IInv, [Next]_vars, row'.status \in Final, row' # row, others' = others
      PROVE  row'.photo
    <2>1. others \in Nat
        BY <1>1 DEF IInv, TypeOK, ServerOK
    <2>2. ~Others
        BY <1>1, <2>1 DEF Others
    <2>3. (\E k \in Kind : Save(k)) \/ Others \/ row' = row
        BY <1>1 DEF Next, Settle, vars, server, ReadRow, ReadHistory, LearnRole,
           Organisations,
           Loaded, NotLoaded, Moved, Assigned, Resolved, Deleted, Failed, Leave, Unmount, Answer,
           HandleStatusMove, OpenModal, HandleFileChange, HandleSave, HandleRemovePhoto,
           HandleSubmit, CloseModal, AskDelete, HandleDelete
    <2>4. PICK k \in Kind : Save(k)
        BY <1>1, <2>2, <2>3
    <2>5. calls[k].at = "sent" /\ row' = Written(k)
        BY <1>1, <2>4 DEF Save
    <2>6. Written(k).status \in Final => Written(k).photo = TRUE
        BY <1>1, <2>5, Wrote
    <2>7. QED
        BY <1>1, <2>5, <2>6, Zenon
<1>2. IInv /\ [Next]_vars => [Own]_vars
    BY <1>1, Zenon
<1>3. QED
    BY <1>2, Invariance, PTL DEF Spec, OwnFinalsHavePhoto

============================================================================
