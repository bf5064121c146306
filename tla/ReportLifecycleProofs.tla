------------------------ MODULE ReportLifecycleProofs ------------------------
(***************************************************************************)
(* Proofs about ReportLifecycle for any number of requests and faults.     *)
(***************************************************************************)
EXTENDS ReportLifecycle, TLAPS

\* A committed change keeps the columns typed.
LEMMA SaveTyped ==
    ASSUME TypeOK, NEW q \in Request, Save(q),
           op[q] \in {"status", "resolve", "assign"}
    PROVE  /\ phase' = phase
           /\ status' \in [Request -> Status]
           /\ evidence' \in [Request -> Request \cup {None}]
           /\ history' \in [Request -> SUBSET Entry]
<1>1. NewStatus(q) \subseteq Status
    BY StatusAssumption DEF NewStatus, Final
<1>2. PICK s \in NewStatus(q) :
          /\ UpdateRow(q, s)
          /\ history' = [history EXCEPT ![target[q]] = @ \cup {EntryOf(q, s)}]
          /\ UNCHANGED phase
    BY DEF Save
<1>3. target[q] \in Request /\ s \in Status
    BY <1>1, <1>2 DEF TypeOK
<1>4. EntryOf(q, s) \in Entry
    BY <1>3 DEF EntryOf, Entry, TypeOK
<1>5. history[target[q]] \cup {EntryOf(q, s)} \in SUBSET Entry
    BY <1>3, <1>4 DEF TypeOK
<1>6. history' \in [Request -> SUBSET Entry]
    BY <1>2, <1>5 DEF TypeOK
<1>7. status' \in [Request -> Status] /\ evidence' \in [Request -> Request \cup {None}]
    BY <1>2, <1>3 DEF UpdateRow, TypeOK
<1>8. QED
    BY <1>2, <1>6, <1>7

\* Every step keeps the types.
LEMMA TypeStep ==
    ASSUME TypeOK, Roles, [Next]_vars
    PROVE  TypeOK'
<1> USE StatusAssumption, MaxFaultsAssumption DEF TypeOK, Progress, Answers, Op
<1>1. ASSUME NEW q \in Request, Receive(q) PROVE TypeOK'
    BY <1>1 DEF Receive, Continue, request, table, columns, Op
<1>2. ASSUME NEW q \in Request, Refuse(q) PROVE TypeOK'
    BY <1>2 DEF Refuse, Answer, request, table, columns
<1>3. ASSUME NEW q \in Request, CheckHash(q) PROVE TypeOK'
    BY <1>3 DEF CheckHash, Answer, Continue, request, table, columns
<1>4. ASSUME NEW q \in Request, WriteImage(q) PROVE TypeOK'
    BY <1>4 DEF WriteImage, Continue, request, table, columns
<1>5. ASSUME NEW q \in Request, Insert(q) PROVE TypeOK'
    BY <1>5 DEF Insert, Answer, Continue, PhotoKnown, request, columns
<1>6. ASSUME NEW q \in Request, AuditOpen(q) PROVE TypeOK'
    <2> DEFINE new == [by |-> q, status |-> "open", at |-> clock + 1]
    <2>1. new \in Entry
        BY DEF Entry
    <2>2. history[q] \cup {new} \in SUBSET Entry
        BY <2>1
    <2>3. history' \in [Request -> SUBSET Entry]
        BY <1>6, <2>2 DEF AuditOpen
    <2>4. QED
        BY <1>6, <2>3 DEF AuditOpen, Answer, request
<1>7. ASSUME NEW q \in Request, WritePhoto(q) PROVE TypeOK'
    BY <1>7 DEF WritePhoto, Continue, request, table, columns
<1>8. ASSUME NEW q \in Request, Begin(q) PROVE TypeOK'
    BY <1>8 DEF Begin, Continue, request, table, columns
<1>9. ASSUME NEW q \in Request, Change(q) PROVE TypeOK'
    <2>1. op[q] \in {"status", "resolve", "assign"}
        BY <1>9 DEF Change, Roles
    <2>2. CASE target[q] \in live
        <3>1. Save(q)
            BY <1>9, <2>2 DEF Change
        <3>2. /\ phase' = phase
              /\ status' \in [Request -> Status]
              /\ evidence' \in [Request -> Request \cup {None}]
              /\ history' \in [Request -> SUBSET Entry]
            BY <2>1, <3>1, SaveTyped
        <3>3. QED
            BY <1>9, <2>2, <3>2 DEF Change, Continue, request
    <2>3. CASE target[q] \notin live
        BY <1>9, <2>3 DEF Change, Answer, request, table, columns
    <2>4. QED
        BY <2>2, <2>3
<1>10. ASSUME NEW q \in Request, RefuseOrg(q) PROVE TypeOK'
    BY <1>10 DEF RefuseOrg, Answer, request, table, columns
<1>r. ASSUME NEW q \in Request, RefuseResolve(q) PROVE TypeOK'
    BY <1>r DEF RefuseResolve, request, table, columns
<1>11. ASSUME NEW q \in Request, RemovePhoto(q) PROVE TypeOK'
    BY <1>11 DEF RemovePhoto, request, table, columns
<1>12. ASSUME NEW q \in Request, Reread(q) PROVE TypeOK'
    BY <1>12 DEF Reread, Answer, request, table, columns
<1>13. ASSUME NEW q \in Request, DeleteRow(q) PROVE TypeOK'
    BY <1>13 DEF DeleteRow, Answer, Continue, DropRow, request, table, columns
<1>14. ASSUME NEW q \in Request, RemoveImage(q) PROVE TypeOK'
    BY <1>14 DEF RemoveImage, Answer, request, table, columns
<1>15. ASSUME NEW q \in Request, ReadFails(q) PROVE TypeOK'
    BY <1>15 DEF ReadFails, Fault, Answer, request, table, columns
<1>16. ASSUME NEW q \in Request, WriteFails(q) PROVE TypeOK'
    BY <1>16 DEF WriteFails, Fault, Answer, request, table, columns
<1>17. ASSUME NEW q \in Request, InsertFails(q) PROVE TypeOK'
    BY <1>17 DEF InsertFails, Fault, Answer, PhotoKnown, request, columns
<1>18. ASSUME NEW q \in Request, AuditFails(q) PROVE TypeOK'
    BY <1>18 DEF AuditFails, Fault, Answer, request, table, columns
<1>19. ASSUME NEW q \in Request, ChangeFails(q) PROVE TypeOK'
    <2>1. op[q] \in {"status", "resolve", "assign"}
        BY <1>19 DEF ChangeFails, Roles
    <2>2. /\ phase' \in [Request -> {"none", "row", "deleted"}]
          /\ status' \in [Request -> Status]
          /\ evidence' \in [Request -> Request \cup {None}]
          /\ history' \in [Request -> SUBSET Entry]
        <3>1. CASE UNCHANGED table
            BY <3>1 DEF table, columns
        <3>2. CASE Save(q)
            <4>1. /\ phase' = phase
                  /\ status' \in [Request -> Status]
                  /\ evidence' \in [Request -> Request \cup {None}]
                  /\ history' \in [Request -> SUBSET Entry]
                BY <2>1, <3>2, SaveTyped
            <4>2. QED
                BY <4>1
        <3>3. (UNCHANGED table) \/ Save(q)
            BY <1>19 DEF ChangeFails
        <3>4. QED
            BY <3>1, <3>2, <3>3
    <2>3. pc' \in [Request -> Progress] /\ answer' \in [Request -> Answers]
        BY <1>19 DEF ChangeFails
    <2>4. faults' \in 0 .. MaxFaults
        BY <1>19 DEF ChangeFails, Fault
    <2>5. UNCHANGED <<request, stamp, files, clock>>
        BY <1>19 DEF ChangeFails
    <2>6. QED
        BY <2>2, <2>3, <2>4, <2>5 DEF request
<1>20. ASSUME NEW q \in Request, DeleteFails(q) PROVE TypeOK'
    BY <1>20 DEF DeleteFails, Fault, Answer, DropRow, request
<1>21. ASSUME NEW q \in Request, RemoveFails(q) PROVE TypeOK'
    BY <1>21 DEF RemoveFails, Fault, Answer, request, table, columns
<1>22. ASSUME NEW q \in Request, Disconnect(q) PROVE TypeOK'
    BY <1>22 DEF Disconnect, Fault, active, request, table, columns
<1>23. CASE Restart
    BY <1>23 DEF Restart, Fault, active, request, table, columns
<1>24. CASE UNCHANGED vars
    BY <1>24 DEF vars, request, table, columns
<1>25. QED
    BY <1>1, <1>2, <1>3, <1>4, <1>5, <1>6, <1>7, <1>8, <1>9, <1>10, <1>11, <1>12, <1>13, <1>14, <1>15, <1>16, <1>17, <1>18, <1>19, <1>20, <1>21, <1>22, <1>23, <1>24, <1>r
    DEF Next, CreateStep, AdminStep, FaultStep

\* Every step keeps the requests in their roles.
LEMMA RolesStep ==
    ASSUME TypeOK, Roles, [Next]_vars
    PROVE  Roles'
<1> USE NoneAssumption DEF TypeOK, Roles
<1>1. ASSUME NEW q \in Request, Receive(q) PROVE Roles'
    BY <1>1 DEF Receive, Continue, request, table, columns, Op
<1>2. ASSUME NEW q \in Request, Refuse(q) PROVE Roles'
    BY <1>2 DEF Refuse, Answer, request, table, columns
<1>3. ASSUME NEW q \in Request, CheckHash(q) PROVE Roles'
    BY <1>3 DEF CheckHash, Answer, Continue, request, table, columns
<1>4. ASSUME NEW q \in Request, WriteImage(q) PROVE Roles'
    BY <1>4 DEF WriteImage, Continue, request, table, columns
<1>5. ASSUME NEW q \in Request, Insert(q) PROVE Roles'
    BY <1>5 DEF Insert, Answer, Continue, PhotoKnown, request, columns
<1>6. ASSUME NEW q \in Request, AuditOpen(q) PROVE Roles'
    BY <1>6 DEF AuditOpen, Answer, request
<1>7. ASSUME NEW q \in Request, WritePhoto(q) PROVE Roles'
    BY <1>7 DEF WritePhoto, Continue, request, table, columns
<1>8. ASSUME NEW q \in Request, Begin(q) PROVE Roles'
    BY <1>8 DEF Begin, Continue, request, table, columns
<1>9. ASSUME NEW q \in Request, Change(q) PROVE Roles'
    BY <1>9 DEF Change, Answer, Continue, Save, UpdateRow, request, table, columns
<1>10. ASSUME NEW q \in Request, RefuseOrg(q) PROVE Roles'
    BY <1>10 DEF RefuseOrg, Answer, request, table, columns
<1>r. ASSUME NEW q \in Request, RefuseResolve(q) PROVE Roles'
    BY <1>r DEF RefuseResolve, request, table, columns
<1>11. ASSUME NEW q \in Request, RemovePhoto(q) PROVE Roles'
    BY <1>11 DEF RemovePhoto, request, table, columns
<1>12. ASSUME NEW q \in Request, Reread(q) PROVE Roles'
    BY <1>12 DEF Reread, Answer, request, table, columns
<1>13. ASSUME NEW q \in Request, DeleteRow(q) PROVE Roles'
    BY <1>13 DEF DeleteRow, live, Answer, Continue, DropRow, request, table, columns
<1>14. ASSUME NEW q \in Request, RemoveImage(q) PROVE Roles'
    BY <1>14 DEF RemoveImage, Answer, request, table, columns
<1>15. ASSUME NEW q \in Request, ReadFails(q) PROVE Roles'
    BY <1>15 DEF ReadFails, Fault, Answer, request, table, columns
<1>16. ASSUME NEW q \in Request, WriteFails(q) PROVE Roles'
    BY <1>16 DEF WriteFails, Fault, Answer, request, table, columns
<1>17. ASSUME NEW q \in Request, InsertFails(q) PROVE Roles'
    BY <1>17 DEF InsertFails, Fault, Answer, PhotoKnown, request, columns
<1>18. ASSUME NEW q \in Request, AuditFails(q) PROVE Roles'
    BY <1>18 DEF AuditFails, Fault, Answer, request, table, columns
<1>19. ASSUME NEW q \in Request, ChangeFails(q) PROVE Roles'
    BY <1>19 DEF ChangeFails, Fault, Save, UpdateRow, request, table, columns
<1>20. ASSUME NEW q \in Request, DeleteFails(q) PROVE Roles'
    BY <1>20 DEF DeleteFails, live, Fault, Answer, DropRow, request
<1>21. ASSUME NEW q \in Request, RemoveFails(q) PROVE Roles'
    BY <1>21 DEF RemoveFails, Fault, Answer, request, table, columns
<1>22. ASSUME NEW q \in Request, Disconnect(q) PROVE Roles'
    BY <1>22 DEF Disconnect, Fault, active, request, table, columns
<1>23. CASE Restart
    BY <1>23 DEF Restart, Fault, active, request, table, columns
<1>24. CASE UNCHANGED vars
    BY <1>24 DEF vars, request, table, columns
<1>25. QED
    BY <1>1, <1>2, <1>3, <1>4, <1>5, <1>6, <1>7, <1>8, <1>9, <1>10, <1>11, <1>12, <1>13, <1>14, <1>15, <1>16, <1>17, <1>18, <1>19, <1>20, <1>21, <1>22, <1>23, <1>24, <1>r
    DEF Next, CreateStep, AdminStep, FaultStep

\* No step takes the image of a report away.
LEMMA ImageStep ==
    ASSUME TypeOK, Roles, ImagePresent, [Next]_vars
    PROVE  ImagePresent'
<1> USE NoneAssumption DEF TypeOK, Roles, ImagePresent, live
<1>1. ASSUME NEW q \in Request, Receive(q) PROVE ImagePresent'
    BY <1>1 DEF Receive, Continue, request, table, columns, Op
<1>2. ASSUME NEW q \in Request, Refuse(q) PROVE ImagePresent'
    BY <1>2 DEF Refuse, Answer, request, table, columns
<1>3. ASSUME NEW q \in Request, CheckHash(q) PROVE ImagePresent'
    BY <1>3 DEF CheckHash, Answer, Continue, request, table, columns
<1>4. ASSUME NEW q \in Request, WriteImage(q) PROVE ImagePresent'
    BY <1>4 DEF WriteImage, Continue, request, table, columns
<1>5. ASSUME NEW q \in Request, Insert(q) PROVE ImagePresent'
    BY <1>5 DEF Insert, Answer, Continue, PhotoKnown, request, columns
<1>6. ASSUME NEW q \in Request, AuditOpen(q) PROVE ImagePresent'
    BY <1>6 DEF AuditOpen, Answer, request
<1>7. ASSUME NEW q \in Request, WritePhoto(q) PROVE ImagePresent'
    BY <1>7 DEF WritePhoto, Continue, request, table, columns
<1>8. ASSUME NEW q \in Request, Begin(q) PROVE ImagePresent'
    BY <1>8 DEF Begin, Continue, request, table, columns
<1>9. ASSUME NEW q \in Request, Change(q) PROVE ImagePresent'
    BY <1>9 DEF Change, Answer, Continue, Save, UpdateRow, request, table, columns
<1>10. ASSUME NEW q \in Request, RefuseOrg(q) PROVE ImagePresent'
    BY <1>10 DEF RefuseOrg, Answer, request, table, columns
<1>r. ASSUME NEW q \in Request, RefuseResolve(q) PROVE ImagePresent'
    BY <1>r DEF RefuseResolve, request, table, columns
<1>11. ASSUME NEW q \in Request, RemovePhoto(q) PROVE ImagePresent'
    BY <1>11 DEF RemovePhoto, request, table, columns
<1>12. ASSUME NEW q \in Request, Reread(q) PROVE ImagePresent'
    BY <1>12 DEF Reread, Answer, request, table, columns
<1>13. ASSUME NEW q \in Request, DeleteRow(q) PROVE ImagePresent'
    BY <1>13 DEF DeleteRow, Answer, Continue, DropRow, request, table, columns
<1>14. ASSUME NEW q \in Request, RemoveImage(q) PROVE ImagePresent'
    BY <1>14 DEF RemoveImage, Answer, request, table, columns
<1>15. ASSUME NEW q \in Request, ReadFails(q) PROVE ImagePresent'
    BY <1>15 DEF ReadFails, Fault, Answer, request, table, columns
<1>16. ASSUME NEW q \in Request, WriteFails(q) PROVE ImagePresent'
    BY <1>16 DEF WriteFails, Fault, Answer, request, table, columns
<1>17. ASSUME NEW q \in Request, InsertFails(q) PROVE ImagePresent'
    BY <1>17 DEF InsertFails, Fault, Answer, PhotoKnown, request, columns
<1>18. ASSUME NEW q \in Request, AuditFails(q) PROVE ImagePresent'
    BY <1>18 DEF AuditFails, Fault, Answer, request, table, columns
<1>19. ASSUME NEW q \in Request, ChangeFails(q) PROVE ImagePresent'
    BY <1>19 DEF ChangeFails, Fault, Save, UpdateRow, request, table, columns
<1>20. ASSUME NEW q \in Request, DeleteFails(q) PROVE ImagePresent'
    BY <1>20 DEF DeleteFails, Fault, Answer, DropRow, request
<1>21. ASSUME NEW q \in Request, RemoveFails(q) PROVE ImagePresent'
    BY <1>21 DEF RemoveFails, Fault, Answer, request, table, columns
<1>22. ASSUME NEW q \in Request, Disconnect(q) PROVE ImagePresent'
    BY <1>22 DEF Disconnect, Fault, active, request, table, columns
<1>23. CASE Restart
    BY <1>23 DEF Restart, Fault, active, request, table, columns
<1>24. CASE UNCHANGED vars
    BY <1>24 DEF vars, request, table, columns
<1>25. QED
    BY <1>1, <1>2, <1>3, <1>4, <1>5, <1>6, <1>7, <1>8, <1>9, <1>10, <1>11, <1>12, <1>13, <1>14, <1>15, <1>16, <1>17, <1>18, <1>19, <1>20, <1>21, <1>22, <1>23, <1>24, <1>r
    DEF Next, CreateStep, AdminStep, FaultStep

\* No step adds a second report with the photo of another.
LEMMA PhotoStep ==
    ASSUME TypeOK, Roles, UniquePhoto, [Next]_vars
    PROVE  UniquePhoto'
<1> USE NoneAssumption DEF TypeOK, Roles, UniquePhoto, live
<1>1. ASSUME NEW q \in Request, Receive(q) PROVE UniquePhoto'
    BY <1>1 DEF Receive, Continue, request, table, columns, Op
<1>2. ASSUME NEW q \in Request, Refuse(q) PROVE UniquePhoto'
    BY <1>2 DEF Refuse, Answer, request, table, columns
<1>3. ASSUME NEW q \in Request, CheckHash(q) PROVE UniquePhoto'
    BY <1>3 DEF CheckHash, Answer, Continue, request, table, columns
<1>4. ASSUME NEW q \in Request, WriteImage(q) PROVE UniquePhoto'
    BY <1>4 DEF WriteImage, Continue, request, table, columns
<1>5. ASSUME NEW q \in Request, Insert(q) PROVE UniquePhoto'
    BY <1>5 DEF Insert, Answer, Continue, PhotoKnown, request, columns
<1>6. ASSUME NEW q \in Request, AuditOpen(q) PROVE UniquePhoto'
    BY <1>6 DEF AuditOpen, Answer, request
<1>7. ASSUME NEW q \in Request, WritePhoto(q) PROVE UniquePhoto'
    BY <1>7 DEF WritePhoto, Continue, request, table, columns
<1>8. ASSUME NEW q \in Request, Begin(q) PROVE UniquePhoto'
    BY <1>8 DEF Begin, Continue, request, table, columns
<1>9. ASSUME NEW q \in Request, Change(q) PROVE UniquePhoto'
    BY <1>9 DEF Change, Answer, Continue, Save, UpdateRow, request, table, columns
<1>10. ASSUME NEW q \in Request, RefuseOrg(q) PROVE UniquePhoto'
    BY <1>10 DEF RefuseOrg, Answer, request, table, columns
<1>r. ASSUME NEW q \in Request, RefuseResolve(q) PROVE UniquePhoto'
    BY <1>r DEF RefuseResolve, request, table, columns
<1>11. ASSUME NEW q \in Request, RemovePhoto(q) PROVE UniquePhoto'
    BY <1>11 DEF RemovePhoto, request, table, columns
<1>12. ASSUME NEW q \in Request, Reread(q) PROVE UniquePhoto'
    BY <1>12 DEF Reread, Answer, request, table, columns
<1>13. ASSUME NEW q \in Request, DeleteRow(q) PROVE UniquePhoto'
    BY <1>13 DEF DeleteRow, Answer, Continue, DropRow, request, table, columns
<1>14. ASSUME NEW q \in Request, RemoveImage(q) PROVE UniquePhoto'
    BY <1>14 DEF RemoveImage, Answer, request, table, columns
<1>15. ASSUME NEW q \in Request, ReadFails(q) PROVE UniquePhoto'
    BY <1>15 DEF ReadFails, Fault, Answer, request, table, columns
<1>16. ASSUME NEW q \in Request, WriteFails(q) PROVE UniquePhoto'
    BY <1>16 DEF WriteFails, Fault, Answer, request, table, columns
<1>17. ASSUME NEW q \in Request, InsertFails(q) PROVE UniquePhoto'
    BY <1>17 DEF InsertFails, Fault, Answer, PhotoKnown, request, columns
<1>18. ASSUME NEW q \in Request, AuditFails(q) PROVE UniquePhoto'
    BY <1>18 DEF AuditFails, Fault, Answer, request, table, columns
<1>19. ASSUME NEW q \in Request, ChangeFails(q) PROVE UniquePhoto'
    BY <1>19 DEF ChangeFails, Fault, Save, UpdateRow, request, table, columns
<1>20. ASSUME NEW q \in Request, DeleteFails(q) PROVE UniquePhoto'
    BY <1>20 DEF DeleteFails, Fault, Answer, DropRow, request
<1>21. ASSUME NEW q \in Request, RemoveFails(q) PROVE UniquePhoto'
    BY <1>21 DEF RemoveFails, Fault, Answer, request, table, columns
<1>22. ASSUME NEW q \in Request, Disconnect(q) PROVE UniquePhoto'
    BY <1>22 DEF Disconnect, Fault, active, request, table, columns
<1>23. CASE Restart
    BY <1>23 DEF Restart, Fault, active, request, table, columns
<1>24. CASE UNCHANGED vars
    BY <1>24 DEF vars, request, table, columns
<1>25. QED
    BY <1>1, <1>2, <1>3, <1>4, <1>5, <1>6, <1>7, <1>8, <1>9, <1>10, <1>11, <1>12, <1>13, <1>14, <1>15, <1>16, <1>17, <1>18, <1>19, <1>20, <1>21, <1>22, <1>23, <1>24, <1>r
    DEF Next, CreateStep, AdminStep, FaultStep

\* No step takes the evidence of a resolution away without an error.
LEMMA EvidenceStep ==
    ASSUME TypeOK, Roles, EvidenceRoles, [Next]_vars
    PROVE  EvidenceRoles'
<1> USE NoneAssumption DEF TypeOK, Roles, EvidenceRoles
<1>1. ASSUME NEW q \in Request, Receive(q) PROVE EvidenceRoles'
    BY <1>1 DEF Receive, Continue, request, table, columns, Op
<1>2. ASSUME NEW q \in Request, Refuse(q) PROVE EvidenceRoles'
    BY <1>2 DEF Refuse, Answer, request, table, columns
<1>3. ASSUME NEW q \in Request, CheckHash(q) PROVE EvidenceRoles'
    BY <1>3 DEF CheckHash, Answer, Continue, request, table, columns
<1>4. ASSUME NEW q \in Request, WriteImage(q) PROVE EvidenceRoles'
    BY <1>4 DEF WriteImage, Continue, request, table, columns
<1>5. ASSUME NEW q \in Request, Insert(q) PROVE EvidenceRoles'
    BY <1>5 DEF Insert, Answer, Continue, PhotoKnown, request, columns
<1>6. ASSUME NEW q \in Request, AuditOpen(q) PROVE EvidenceRoles'
    BY <1>6 DEF AuditOpen, Answer, request
<1>7. ASSUME NEW q \in Request, WritePhoto(q) PROVE EvidenceRoles'
    BY <1>7 DEF WritePhoto, Continue, request, table, columns
<1>8. ASSUME NEW q \in Request, Begin(q) PROVE EvidenceRoles'
    BY <1>8 DEF Begin, Continue, request, table, columns
<1>9. ASSUME NEW q \in Request, Change(q) PROVE EvidenceRoles'
    BY <1>9 DEF Change, Answer, Continue, Save, UpdateRow, request, table, columns
<1>10. ASSUME NEW q \in Request, RefuseOrg(q) PROVE EvidenceRoles'
    BY <1>10 DEF RefuseOrg, Answer, request, table, columns
<1>r. ASSUME NEW q \in Request, RefuseResolve(q) PROVE EvidenceRoles'
    BY <1>r DEF RefuseResolve, request, table, columns
<1>11. ASSUME NEW q \in Request, RemovePhoto(q) PROVE EvidenceRoles'
    BY <1>11 DEF RemovePhoto, request, table, columns
<1>12. ASSUME NEW q \in Request, Reread(q) PROVE EvidenceRoles'
    BY <1>12 DEF Reread, Answer, request, table, columns
<1>13. ASSUME NEW q \in Request, DeleteRow(q) PROVE EvidenceRoles'
    BY <1>13 DEF DeleteRow, Answer, Continue, DropRow, request, table, columns
<1>14. ASSUME NEW q \in Request, RemoveImage(q) PROVE EvidenceRoles'
    BY <1>14 DEF RemoveImage, Answer, request, table, columns
<1>15. ASSUME NEW q \in Request, ReadFails(q) PROVE EvidenceRoles'
    BY <1>15 DEF ReadFails, Fault, Answer, request, table, columns
<1>16. ASSUME NEW q \in Request, WriteFails(q) PROVE EvidenceRoles'
    BY <1>16 DEF WriteFails, Fault, Answer, request, table, columns
<1>17. ASSUME NEW q \in Request, InsertFails(q) PROVE EvidenceRoles'
    BY <1>17 DEF InsertFails, Fault, Answer, PhotoKnown, request, columns
<1>18. ASSUME NEW q \in Request, AuditFails(q) PROVE EvidenceRoles'
    BY <1>18 DEF AuditFails, Fault, Answer, request, table, columns
<1>19. ASSUME NEW q \in Request, ChangeFails(q) PROVE EvidenceRoles'
    BY <1>19 DEF ChangeFails, Fault, Save, UpdateRow, request, table, columns
<1>20. ASSUME NEW q \in Request, DeleteFails(q) PROVE EvidenceRoles'
    BY <1>20 DEF DeleteFails, Fault, Answer, DropRow, request
<1>21. ASSUME NEW q \in Request, RemoveFails(q) PROVE EvidenceRoles'
    BY <1>21 DEF RemoveFails, Fault, Answer, request, table, columns
<1>22. ASSUME NEW q \in Request, Disconnect(q) PROVE EvidenceRoles'
    BY <1>22 DEF Disconnect, Fault, active, request, table, columns
<1>23. CASE Restart
    BY <1>23 DEF Restart, Fault, active, request, table, columns
<1>24. CASE UNCHANGED vars
    BY <1>24 DEF vars, request, table, columns
<1>25. QED
    BY <1>1, <1>2, <1>3, <1>4, <1>5, <1>6, <1>7, <1>8, <1>9, <1>10, <1>11, <1>12, <1>13, <1>14, <1>15, <1>16, <1>17, <1>18, <1>19, <1>20, <1>21, <1>22, <1>23, <1>24, <1>r
    DEF Next, CreateStep, AdminStep, FaultStep


\* No step answers and goes on, but for a clean-up.
LEMMA AnswerStep ==
    ASSUME TypeOK, Unanswered, [Next]_vars
    PROVE  Unanswered'
<1> USE DEF TypeOK, Unanswered
<1>1. ASSUME NEW q \in Request, Receive(q) PROVE Unanswered'
    BY <1>1 DEF Receive, Continue, request, table, columns, Op
<1>2. ASSUME NEW q \in Request, Refuse(q) PROVE Unanswered'
    BY <1>2 DEF Refuse, Answer, request, table, columns
<1>3. ASSUME NEW q \in Request, CheckHash(q) PROVE Unanswered'
    BY <1>3 DEF CheckHash, Answer, Continue, request, table, columns
<1>4. ASSUME NEW q \in Request, WriteImage(q) PROVE Unanswered'
    BY <1>4 DEF WriteImage, Continue, request, table, columns
<1>5. ASSUME NEW q \in Request, Insert(q) PROVE Unanswered'
    BY <1>5 DEF Insert, Answer, Continue, PhotoKnown, request, columns
<1>6. ASSUME NEW q \in Request, AuditOpen(q) PROVE Unanswered'
    BY <1>6 DEF AuditOpen, Answer, request
<1>7. ASSUME NEW q \in Request, WritePhoto(q) PROVE Unanswered'
    BY <1>7 DEF WritePhoto, Continue, request, table, columns
<1>8. ASSUME NEW q \in Request, Begin(q) PROVE Unanswered'
    BY <1>8 DEF Begin, Continue, request, table, columns
<1>9. ASSUME NEW q \in Request, Change(q) PROVE Unanswered'
    BY <1>9 DEF Change, Answer, Continue, Save, UpdateRow, request, table, columns
<1>10. ASSUME NEW q \in Request, RefuseOrg(q) PROVE Unanswered'
    BY <1>10 DEF RefuseOrg, Answer, request, table, columns
<1>r. ASSUME NEW q \in Request, RefuseResolve(q) PROVE Unanswered'
    BY <1>r DEF RefuseResolve, request, table, columns
<1>11. ASSUME NEW q \in Request, RemovePhoto(q) PROVE Unanswered'
    BY <1>11 DEF RemovePhoto, request, table, columns
<1>12. ASSUME NEW q \in Request, Reread(q) PROVE Unanswered'
    BY <1>12 DEF Reread, Answer, request, table, columns
<1>13. ASSUME NEW q \in Request, DeleteRow(q) PROVE Unanswered'
    BY <1>13 DEF DeleteRow, Answer, Continue, DropRow, request, table, columns
<1>14. ASSUME NEW q \in Request, RemoveImage(q) PROVE Unanswered'
    BY <1>14 DEF RemoveImage, Answer, request, table, columns
<1>15. ASSUME NEW q \in Request, ReadFails(q) PROVE Unanswered'
    BY <1>15 DEF ReadFails, Fault, Answer, request, table, columns
<1>16. ASSUME NEW q \in Request, WriteFails(q) PROVE Unanswered'
    BY <1>16 DEF WriteFails, Fault, Answer, request, table, columns
<1>17. ASSUME NEW q \in Request, InsertFails(q) PROVE Unanswered'
    BY <1>17 DEF InsertFails, Fault, Answer, PhotoKnown, request, columns
<1>18. ASSUME NEW q \in Request, AuditFails(q) PROVE Unanswered'
    BY <1>18 DEF AuditFails, Fault, Answer, request, table, columns
<1>19. ASSUME NEW q \in Request, ChangeFails(q) PROVE Unanswered'
    BY <1>19 DEF ChangeFails, Fault, Save, UpdateRow, request, table, columns
<1>20. ASSUME NEW q \in Request, DeleteFails(q) PROVE Unanswered'
    BY <1>20 DEF DeleteFails, Fault, Answer, DropRow, request
<1>21. ASSUME NEW q \in Request, RemoveFails(q) PROVE Unanswered'
    BY <1>21 DEF RemoveFails, Fault, Answer, request, table, columns
<1>22. ASSUME NEW q \in Request, Disconnect(q) PROVE Unanswered'
    BY <1>22 DEF Disconnect, Fault, active, request, table, columns
<1>23. CASE Restart
    BY <1>23 DEF Restart, Fault, active, request, table, columns
<1>24. CASE UNCHANGED vars
    BY <1>24 DEF vars, request, table, columns
<1>25. QED
    BY <1>1, <1>2, <1>3, <1>4, <1>5, <1>6, <1>7, <1>8, <1>9, <1>10, <1>11, <1>12, <1>13, <1>14, <1>15, <1>16, <1>17, <1>18, <1>19, <1>20, <1>21, <1>22, <1>23, <1>24, <1>r
    DEF Next, CreateStep, AdminStep, FaultStep

\* No step writes a row or a file for a request that is told nothing was saved.
LEMMA DeniedStep ==
    ASSUME TypeOK, Roles, Unanswered, Denied, [Next]_vars
    PROVE  Denied'
<1> USE DEF TypeOK, Roles, Unanswered, Denied, Negative
<1>1. ASSUME NEW q \in Request, Receive(q) PROVE Denied'
    BY <1>1 DEF Receive, Continue, request, table, columns, Op
<1>2. ASSUME NEW q \in Request, Refuse(q) PROVE Denied'
    BY <1>2 DEF Refuse, Answer, request, table, columns
<1>3. ASSUME NEW q \in Request, CheckHash(q) PROVE Denied'
    BY <1>3 DEF CheckHash, Answer, Continue, request, table, columns
<1>4. ASSUME NEW q \in Request, WriteImage(q) PROVE Denied'
    BY <1>4 DEF WriteImage, Continue, request, table, columns
<1>5. ASSUME NEW q \in Request, Insert(q) PROVE Denied'
    BY <1>5 DEF Insert, Answer, Continue, PhotoKnown, request, columns
<1>6. ASSUME NEW q \in Request, AuditOpen(q) PROVE Denied'
    BY <1>6 DEF AuditOpen, Answer, request
<1>7. ASSUME NEW q \in Request, WritePhoto(q) PROVE Denied'
    BY <1>7 DEF WritePhoto, Continue, request, table, columns
<1>8. ASSUME NEW q \in Request, Begin(q) PROVE Denied'
    BY <1>8 DEF Begin, Continue, request, table, columns
<1>9. ASSUME NEW q \in Request, Change(q) PROVE Denied'
    BY <1>9 DEF Change, Answer, Continue, Save, UpdateRow, request, table, columns
<1>10. ASSUME NEW q \in Request, RefuseOrg(q) PROVE Denied'
    BY <1>10 DEF RefuseOrg, Answer, request, table, columns
<1>r. ASSUME NEW q \in Request, RefuseResolve(q) PROVE Denied'
    BY <1>r DEF RefuseResolve, request, table, columns
<1>11. ASSUME NEW q \in Request, RemovePhoto(q) PROVE Denied'
    BY <1>11 DEF RemovePhoto, request, table, columns
<1>12. ASSUME NEW q \in Request, Reread(q) PROVE Denied'
    BY <1>12 DEF Reread, Answer, request, table, columns
<1>13. ASSUME NEW q \in Request, DeleteRow(q) PROVE Denied'
    BY <1>13 DEF DeleteRow, live, Answer, Continue, DropRow, request, table, columns
<1>14. ASSUME NEW q \in Request, RemoveImage(q) PROVE Denied'
    BY <1>14 DEF RemoveImage, Answer, request, table, columns
<1>15. ASSUME NEW q \in Request, ReadFails(q) PROVE Denied'
    BY <1>15 DEF ReadFails, Fault, Answer, request, table, columns
<1>16. ASSUME NEW q \in Request, WriteFails(q) PROVE Denied'
    BY <1>16 DEF WriteFails, Fault, Answer, request, table, columns
<1>17. ASSUME NEW q \in Request, InsertFails(q) PROVE Denied'
    BY <1>17 DEF InsertFails, Fault, Answer, PhotoKnown, request, columns
<1>18. ASSUME NEW q \in Request, AuditFails(q) PROVE Denied'
    BY <1>18 DEF AuditFails, Fault, Answer, request, table, columns
<1>19. ASSUME NEW q \in Request, ChangeFails(q) PROVE Denied'
    BY <1>19 DEF ChangeFails, Fault, Save, UpdateRow, request, table, columns
<1>20. ASSUME NEW q \in Request, DeleteFails(q) PROVE Denied'
    BY <1>20 DEF DeleteFails, live, Fault, Answer, DropRow, request
<1>21. ASSUME NEW q \in Request, RemoveFails(q) PROVE Denied'
    BY <1>21 DEF RemoveFails, Fault, Answer, request, table, columns
<1>22. ASSUME NEW q \in Request, Disconnect(q) PROVE Denied'
    BY <1>22 DEF Disconnect, Fault, active, request, table, columns
<1>23. CASE Restart
    BY <1>23 DEF Restart, Fault, active, request, table, columns
<1>24. CASE UNCHANGED vars
    BY <1>24 DEF vars, request, table, columns
<1>25. QED
    BY <1>1, <1>2, <1>3, <1>4, <1>5, <1>6, <1>7, <1>8, <1>9, <1>10, <1>11, <1>12, <1>13, <1>14, <1>15, <1>16, <1>17, <1>18, <1>19, <1>20, <1>21, <1>22, <1>23, <1>24, <1>r
    DEF Next, CreateStep, AdminStep, FaultStep

\* No step changes a status without an entry that explains it.
LEMMA ExplainedStep ==
    ASSUME TypeOK, Roles, Explained, [Next]_vars
    PROVE  Explained'
<1> USE DEF TypeOK, Roles, Explained
<1>a. ASSUME NEW q \in Request, pc[q] = "begun", Save(q) PROVE Explained'
    <2>1. PICK s \in NewStatus(q) :
              /\ UpdateRow(q, s)
              /\ history' = [history EXCEPT ![target[q]] = @ \cup {EntryOf(q, s)}]
        BY <1>a DEF Save
    <2>2. target[q] \in Request /\ q # target[q]
        BY <1>a
    <2>3. status'[target[q]] = s
        BY <2>1, <2>2 DEF UpdateRow
    <2>4. EntryOf(q, s) \in history'[target[q]]
        BY <2>1, <2>2
    <2>5. EntryOf(q, s).by # target[q] /\ EntryOf(q, s).status = status'[target[q]]
        BY <2>2, <2>3 DEF EntryOf
    <2>6. ASSUME NEW r \in Request, r # target[q]
          PROVE  history'[r] = history[r] /\ status'[r] = status[r]
        BY <2>1, <2>2, <2>6 DEF UpdateRow
    <2>7. QED
        BY <2>4, <2>5, <2>6
<1>1. ASSUME NEW q \in Request, Receive(q) PROVE Explained'
    BY <1>1 DEF Receive, Continue, request, table, columns, Op
<1>2. ASSUME NEW q \in Request, Refuse(q) PROVE Explained'
    BY <1>2 DEF Refuse, Answer, request, table, columns
<1>3. ASSUME NEW q \in Request, CheckHash(q) PROVE Explained'
    BY <1>3 DEF CheckHash, Answer, Continue, request, table, columns
<1>4. ASSUME NEW q \in Request, WriteImage(q) PROVE Explained'
    BY <1>4 DEF WriteImage, Continue, request, table, columns
<1>5. ASSUME NEW q \in Request, Insert(q) PROVE Explained'
    BY <1>5 DEF Insert, Answer, Continue, PhotoKnown, request, columns
<1>6. ASSUME NEW q \in Request, AuditOpen(q) PROVE Explained'
    BY <1>6 DEF AuditOpen, Answer, request
<1>7. ASSUME NEW q \in Request, WritePhoto(q) PROVE Explained'
    BY <1>7 DEF WritePhoto, Continue, request, table, columns
<1>8. ASSUME NEW q \in Request, Begin(q) PROVE Explained'
    BY <1>8 DEF Begin, Continue, request, table, columns
<1>9. ASSUME NEW q \in Request, Change(q) PROVE Explained'
    <2>1. CASE target[q] \in live
        BY <1>9, <2>1, <1>a DEF Change
    <2>2. CASE target[q] \notin live
        BY <1>9, <2>2 DEF Change, Answer, request, table, columns
    <2>3. QED
        BY <2>1, <2>2
<1>10. ASSUME NEW q \in Request, RefuseOrg(q) PROVE Explained'
    BY <1>10 DEF RefuseOrg, Answer, request, table, columns
<1>r. ASSUME NEW q \in Request, RefuseResolve(q) PROVE Explained'
    BY <1>r DEF RefuseResolve, request, table, columns
<1>11. ASSUME NEW q \in Request, RemovePhoto(q) PROVE Explained'
    BY <1>11 DEF RemovePhoto, request, table, columns
<1>12. ASSUME NEW q \in Request, Reread(q) PROVE Explained'
    BY <1>12 DEF Reread, Answer, request, table, columns
<1>13. ASSUME NEW q \in Request, DeleteRow(q) PROVE Explained'
    BY <1>13 DEF DeleteRow, Answer, Continue, DropRow, request, table, columns
<1>14. ASSUME NEW q \in Request, RemoveImage(q) PROVE Explained'
    BY <1>14 DEF RemoveImage, Answer, request, table, columns
<1>15. ASSUME NEW q \in Request, ReadFails(q) PROVE Explained'
    BY <1>15 DEF ReadFails, Fault, Answer, request, table, columns
<1>16. ASSUME NEW q \in Request, WriteFails(q) PROVE Explained'
    BY <1>16 DEF WriteFails, Fault, Answer, request, table, columns
<1>17. ASSUME NEW q \in Request, InsertFails(q) PROVE Explained'
    BY <1>17 DEF InsertFails, Fault, Answer, PhotoKnown, request, columns
<1>18. ASSUME NEW q \in Request, AuditFails(q) PROVE Explained'
    BY <1>18 DEF AuditFails, Fault, Answer, request, table, columns
<1>19. ASSUME NEW q \in Request, ChangeFails(q) PROVE Explained'
    <2>1. CASE Save(q)
        BY <1>19, <2>1, <1>a DEF ChangeFails
    <2>2. CASE UNCHANGED table
        BY <2>2 DEF table, columns
    <2>3. QED
        BY <1>19, <2>1, <2>2 DEF ChangeFails
<1>20. ASSUME NEW q \in Request, DeleteFails(q) PROVE Explained'
    BY <1>20 DEF DeleteFails, Fault, Answer, DropRow, request
<1>21. ASSUME NEW q \in Request, RemoveFails(q) PROVE Explained'
    BY <1>21 DEF RemoveFails, Fault, Answer, request, table, columns
<1>22. ASSUME NEW q \in Request, Disconnect(q) PROVE Explained'
    BY <1>22 DEF Disconnect, Fault, active, request, table, columns
<1>23. CASE Restart
    BY <1>23 DEF Restart, Fault, active, request, table, columns
<1>24. CASE UNCHANGED vars
    BY <1>24 DEF vars, request, table, columns
<1>25. QED
    BY <1>1, <1>2, <1>3, <1>4, <1>5, <1>6, <1>7, <1>8, <1>9, <1>10, <1>11, <1>12, <1>13, <1>14, <1>15, <1>16, <1>17, <1>18, <1>19, <1>20, <1>21, <1>22, <1>23, <1>24, <1>r
    DEF Next, CreateStep, AdminStep, FaultStep

\* No step takes the entry of a change away but with its report.
LEMMA RecordedStep ==
    ASSUME TypeOK, Roles, Unanswered, Recorded, [Next]_vars
    PROVE  Recorded'
<1> USE DEF TypeOK, Roles, Unanswered, Recorded, live
<1>a. ASSUME NEW q \in Request, pc[q] = "begun", Save(q), target' = target, op' = op,
             \A x \in Request \ {q} : pc'[x] = pc[x] /\ answer'[x] = answer[x],
             pc'[q] = "saved" \/ (answer'[q] = "error" /\ pc'[q] # "saved")
      PROVE  Recorded'
    <2>1. PICK s \in NewStatus(q) :
              /\ history' = [history EXCEPT ![target[q]] = @ \cup {EntryOf(q, s)}]
              /\ phase' = phase
        BY <1>a DEF Save
    <2>2. EntryOf(q, s) \in history'[target[q]] /\ EntryOf(q, s).by = q
        BY <2>1 DEF EntryOf
    <2>3. \A r \in Request : history[r] \subseteq history'[r]
        BY <2>1
    <2>4. op[q] # "create"
        BY <1>a
    <2>5. ASSUME NEW x \in Request, x # q, pc'[x] = pc[x], answer'[x] = answer[x]
          PROVE  /\ pc'[x] = "saved" => op'[x] # "create"
                 /\ op'[x] # "create" => phase'[target'[x]] # "none"
                 /\ (/\ \/ pc'[x] = "saved"
                        \/ answer'[x] = "ok" /\ op'[x] \in {"status", "resolve", "assign"}
                     /\ target'[x] \in live')
                        => \E e \in history'[target'[x]] : e.by = x
        BY <1>a, <2>1, <2>3, <2>5
    <2>6. QED
        BY <1>a, <2>1, <2>2, <2>4, <2>5
<1>1. ASSUME NEW q \in Request, Receive(q) PROVE Recorded'
    BY <1>1 DEF Receive, Continue, request, table, columns, Op
<1>2. ASSUME NEW q \in Request, Refuse(q) PROVE Recorded'
    BY <1>2 DEF Refuse, Answer, request, table, columns
<1>3. ASSUME NEW q \in Request, CheckHash(q) PROVE Recorded'
    BY <1>3 DEF CheckHash, Answer, Continue, request, table, columns
<1>4. ASSUME NEW q \in Request, WriteImage(q) PROVE Recorded'
    BY <1>4 DEF WriteImage, Continue, request, table, columns
<1>5. ASSUME NEW q \in Request, Insert(q) PROVE Recorded'
    BY <1>5 DEF Insert, Answer, Continue, PhotoKnown, request, columns
<1>6. ASSUME NEW q \in Request, AuditOpen(q) PROVE Recorded'
    BY <1>6 DEF AuditOpen, Answer, request
<1>7. ASSUME NEW q \in Request, WritePhoto(q) PROVE Recorded'
    BY <1>7 DEF WritePhoto, Continue, request, table, columns
<1>8. ASSUME NEW q \in Request, Begin(q) PROVE Recorded'
    BY <1>8 DEF Begin, Continue, request, table, columns
<1>9. ASSUME NEW q \in Request, Change(q) PROVE Recorded'
    <2>1. CASE target[q] \in live
        <3>1. pc[q] = "begun" /\ Save(q) /\ target' = target /\ op' = op
            BY <1>9, <2>1 DEF Change, request
        <3>2. pc' = [pc EXCEPT ![q] = "saved"] /\ answer' = answer
            BY <1>9, <2>1 DEF Change, Continue
        <3>3. pc'[q] = "saved"
            BY <3>2
        <3>4. \A x \in Request \ {q} : pc'[x] = pc[x] /\ answer'[x] = answer[x]
            BY <3>2
        <3>5. QED
            BY <3>1, <3>3, <3>4, <1>a
    <2>2. CASE target[q] \notin live
        BY <1>9, <2>2 DEF Change, Answer, request, table, columns
    <2>3. QED
        BY <2>1, <2>2
<1>10. ASSUME NEW q \in Request, RefuseOrg(q) PROVE Recorded'
    BY <1>10 DEF RefuseOrg, Answer, request, table, columns
<1>r. ASSUME NEW q \in Request, RefuseResolve(q) PROVE Recorded'
    BY <1>r DEF RefuseResolve, request, table, columns
<1>11. ASSUME NEW q \in Request, RemovePhoto(q) PROVE Recorded'
    BY <1>11 DEF RemovePhoto, request, table, columns
<1>12. ASSUME NEW q \in Request, Reread(q) PROVE Recorded'
    BY <1>12 DEF Reread, Answer, request, table, columns
<1>13. ASSUME NEW q \in Request, DeleteRow(q) PROVE Recorded'
    BY <1>13 DEF DeleteRow, Answer, Continue, DropRow, request, table, columns
<1>14. ASSUME NEW q \in Request, RemoveImage(q) PROVE Recorded'
    BY <1>14 DEF RemoveImage, Answer, request, table, columns
<1>15. ASSUME NEW q \in Request, ReadFails(q) PROVE Recorded'
    BY <1>15 DEF ReadFails, Fault, Answer, request, table, columns
<1>16. ASSUME NEW q \in Request, WriteFails(q) PROVE Recorded'
    BY <1>16 DEF WriteFails, Fault, Answer, request, table, columns
<1>17. ASSUME NEW q \in Request, InsertFails(q) PROVE Recorded'
    BY <1>17 DEF InsertFails, Fault, Answer, PhotoKnown, request, columns
<1>18. ASSUME NEW q \in Request, AuditFails(q) PROVE Recorded'
    BY <1>18 DEF AuditFails, Fault, Answer, request, table, columns
<1>19. ASSUME NEW q \in Request, ChangeFails(q) PROVE Recorded'
    <2>1. CASE Save(q)
        BY <1>19, <2>1, <1>a DEF ChangeFails, request
    <2>2. CASE UNCHANGED table
        BY <1>19, <2>2 DEF ChangeFails, request, table, columns
    <2>3. QED
        BY <1>19, <2>1, <2>2 DEF ChangeFails
<1>20. ASSUME NEW q \in Request, DeleteFails(q) PROVE Recorded'
    BY <1>20 DEF DeleteFails, Fault, Answer, DropRow, request
<1>21. ASSUME NEW q \in Request, RemoveFails(q) PROVE Recorded'
    BY <1>21 DEF RemoveFails, Fault, Answer, request, table, columns
<1>22. ASSUME NEW q \in Request, Disconnect(q) PROVE Recorded'
    BY <1>22 DEF Disconnect, Fault, active, request, table, columns
<1>23. CASE Restart
    BY <1>23 DEF Restart, Fault, active, request, table, columns
<1>24. CASE UNCHANGED vars
    BY <1>24 DEF vars, request, table, columns
<1>25. QED
    BY <1>1, <1>2, <1>3, <1>4, <1>5, <1>6, <1>7, <1>8, <1>9, <1>10, <1>11, <1>12, <1>13, <1>14, <1>15, <1>16, <1>17, <1>18, <1>19, <1>20, <1>21, <1>22, <1>23, <1>24, <1>r
    DEF Next, CreateStep, AdminStep, FaultStep

\* No step records a request under a report it is not about.
LEMMA AttributedStep ==
    ASSUME TypeOK, Roles, Attributed, [Next]_vars
    PROVE  Attributed'
<1> USE DEF TypeOK
<1>a. \A r \in Request : \A e \in history[r] : e.by \in Request
    BY DEF Entry
<1>b. ASSUME \A r \in Request : history'[r] \subseteq history[r],
             target' = target, op' = op,
             \A x \in Request : pc[x] # "idle" => pc'[x] # "idle"
      PROVE  Attributed'
    BY <1>a, <1>b DEF Attributed
<1>c. ASSUME NEW q \in Request, NEW r \in Request, NEW e, target[q] = r, e.by = q,
             history' = [history EXCEPT ![r] = @ \cup {e}],
             target' = target, op' = op, pc[q] # "idle",
             \A x \in Request : pc[x] # "idle" => pc'[x] # "idle"
      PROVE  Attributed'
    <2>1. history'[r] = history[r] \cup {e}
        BY <1>c
    <2>2. \A s \in Request : s # r => history'[s] = history[s]
        BY <1>c
    <2>3. \A s \in Request : \A d \in history'[s] : d \in history[s] \/ (s = r /\ d = e)
        BY <2>1, <2>2
    <2>4. QED
        BY <1>a, <1>c, <2>3 DEF Attributed
<1>d. ASSUME NEW q \in Request, pc[q] = "begun", Save(q), target' = target, op' = op,
             \A x \in Request : pc[x] # "idle" => pc'[x] # "idle"
      PROVE  Attributed'
    <2>1. PICK s \in NewStatus(q) :
              history' = [history EXCEPT ![target[q]] = @ \cup {EntryOf(q, s)}]
        BY <1>d DEF Save
    <2>2. EntryOf(q, s).by = q /\ target[q] \in Request
        BY DEF EntryOf
    <2>3. QED
        BY <1>c, <1>d, <2>1, <2>2
<1>1. ASSUME NEW q \in Request, Receive(q) PROVE Attributed'
    <2>1. pc[q] = "idle" /\ history' = history
        BY <1>1 DEF Receive, table, columns
    <2>2. \A x \in Request : x # q => target'[x] = target[x] /\ op'[x] = op[x] /\ pc'[x] = pc[x]
        BY <1>1 DEF Receive, Continue
    <2>3. op'[q] = "create" => target'[q] = q
        BY <1>1 DEF Receive, Attributed, Op
    <2>4. \A r \in Request : \A e \in history[r] : e.by \in Request /\ e.by # q
        BY <1>a, <2>1 DEF Attributed
    <2>5. QED
        BY <2>1, <2>2, <2>3, <2>4 DEF Attributed
<1>2. ASSUME NEW q \in Request, Refuse(q) PROVE Attributed'
    BY <1>2, <1>b DEF Refuse, Answer, request, table, columns
<1>3. ASSUME NEW q \in Request, CheckHash(q) PROVE Attributed'
    BY <1>3, <1>b DEF CheckHash, Answer, Continue, request, table, columns
<1>4. ASSUME NEW q \in Request, WriteImage(q) PROVE Attributed'
    BY <1>4, <1>b DEF WriteImage, Continue, request, table, columns
<1>5. ASSUME NEW q \in Request, Insert(q) PROVE Attributed'
    BY <1>5, <1>b DEF Insert, Answer, Continue, PhotoKnown, request, columns
<1>6. ASSUME NEW q \in Request, AuditOpen(q) PROVE Attributed'
    <2>1. target[q] = q
        BY <1>6 DEF AuditOpen, Roles, Attributed
    <2>2. CASE q \in live
        <3>1. history' = [history EXCEPT ![q] = @ \cup {[by |-> q, status |-> "open", at |-> clock']}]
            BY <1>6, <2>2 DEF AuditOpen
        <3>2. target' = target /\ op' = op /\ pc[q] # "idle"
              /\ \A x \in Request : pc[x] # "idle" => pc'[x] # "idle"
            BY <1>6 DEF AuditOpen, Answer, request
        <3>3. [by |-> q, status |-> "open", at |-> clock'].by = q
            OBVIOUS
        <3>4. QED
            BY <1>c, <2>1, <3>1, <3>2, <3>3
    <2>3. CASE q \notin live
        BY <1>6, <2>3, <1>b DEF AuditOpen, Answer, request
    <2>4. QED
        BY <2>2, <2>3
<1>7. ASSUME NEW q \in Request, WritePhoto(q) PROVE Attributed'
    BY <1>7, <1>b DEF WritePhoto, Continue, request, table, columns
<1>8. ASSUME NEW q \in Request, Begin(q) PROVE Attributed'
    BY <1>8, <1>b DEF Begin, Continue, request, table, columns
<1>9. ASSUME NEW q \in Request, Change(q) PROVE Attributed'
    <2>1. CASE target[q] \in live
        BY <1>9, <2>1, <1>d DEF Change, Continue, request
    <2>2. CASE target[q] \notin live
        BY <1>9, <2>2, <1>b DEF Change, Answer, request, table, columns
    <2>3. QED
        BY <2>1, <2>2
<1>10. ASSUME NEW q \in Request, RefuseOrg(q) PROVE Attributed'
    BY <1>10, <1>b DEF RefuseOrg, Answer, request, table, columns
<1>r. ASSUME NEW q \in Request, RefuseResolve(q) PROVE Attributed'
    BY <1>r, <1>b DEF RefuseResolve, request, table, columns
<1>11. ASSUME NEW q \in Request, RemovePhoto(q) PROVE Attributed'
    BY <1>11, <1>b DEF RemovePhoto, request, table, columns
<1>12. ASSUME NEW q \in Request, Reread(q) PROVE Attributed'
    BY <1>12, <1>b DEF Reread, Answer, request, table, columns
<1>13. ASSUME NEW q \in Request, DeleteRow(q) PROVE Attributed'
    BY <1>13, <1>b DEF DeleteRow, Answer, Continue, DropRow, request, table, columns
<1>14. ASSUME NEW q \in Request, RemoveImage(q) PROVE Attributed'
    BY <1>14, <1>b DEF RemoveImage, Answer, request, table, columns
<1>15. ASSUME NEW q \in Request, ReadFails(q) PROVE Attributed'
    BY <1>15, <1>b DEF ReadFails, Fault, Answer, request, table, columns
<1>16. ASSUME NEW q \in Request, WriteFails(q) PROVE Attributed'
    BY <1>16, <1>b DEF WriteFails, Fault, Answer, request, table, columns
<1>17. ASSUME NEW q \in Request, InsertFails(q) PROVE Attributed'
    BY <1>17, <1>b DEF InsertFails, Fault, Answer, PhotoKnown, request, columns
<1>18. ASSUME NEW q \in Request, AuditFails(q) PROVE Attributed'
    BY <1>18, <1>b DEF AuditFails, Fault, Answer, request, table, columns
<1>19. ASSUME NEW q \in Request, ChangeFails(q) PROVE Attributed'
    <2>1. CASE Save(q)
        BY <1>19, <2>1, <1>d DEF ChangeFails, request
    <2>2. CASE UNCHANGED table
        BY <1>19, <2>2, <1>b DEF ChangeFails, request, table, columns
    <2>3. QED
        BY <1>19, <2>1, <2>2 DEF ChangeFails
<1>20. ASSUME NEW q \in Request, DeleteFails(q) PROVE Attributed'
    BY <1>20, <1>b DEF DeleteFails, Fault, Answer, DropRow, request
<1>21. ASSUME NEW q \in Request, RemoveFails(q) PROVE Attributed'
    BY <1>21, <1>b DEF RemoveFails, Fault, Answer, request, table, columns
<1>22. ASSUME NEW q \in Request, Disconnect(q) PROVE Attributed'
    BY <1>22, <1>b DEF Disconnect, Fault, active, request, table, columns
<1>23. CASE Restart
    BY <1>23, <1>b DEF Restart, Fault, active, request, table, columns
<1>24. CASE UNCHANGED vars
    BY <1>24, <1>b DEF vars, request, table, columns
<1>25. QED
    BY <1>1, <1>2, <1>3, <1>4, <1>5, <1>6, <1>7, <1>8, <1>9, <1>10, <1>11, <1>12, <1>13, <1>14, <1>15, <1>16, <1>17, <1>18, <1>19, <1>20, <1>21, <1>22, <1>23, <1>24, <1>r
    DEF Next, CreateStep, AdminStep, FaultStep

\* Before its effect, or without one, a request is in no history and no evidence.
LEMMA UntouchedStep ==
    ASSUME TypeOK, Roles, Unanswered, EvidenceRoles, Attributed, Untouched, [Next]_vars
    PROVE  Untouched'
<1> USE DEF TypeOK, Negative
<1> DEFINE Before == {"idle", "received", "checked", "written", "begun"}
<1>a. Before = {"idle", "received", "checked", "written", "begun"}
    OBVIOUS
<1> HIDE DEF Before
<1>b. ASSUME \A r \in Request : history'[r] \subseteq history[r] /\ evidence'[r] \in {evidence[r], None},
             \A x \in Request : \/ pc'[x] = pc[x] /\ answer'[x] = answer[x]
                                \/ pc[x] \in Before
                                \/ pc'[x] \notin Before /\ (answer'[x] \in Negative => answer[x] \in Negative)
      PROVE  Untouched'
    BY <1>a, <1>b, NoneAssumption DEF Untouched
<1>d. ASSUME NEW q \in Request, pc[q] = "begun", Save(q),
             \A x \in Request \ {q} : pc'[x] = pc[x] /\ answer'[x] = answer[x],
             pc'[q] \notin Before, answer'[q] \notin Negative
      PROVE  Untouched'
    <2>1. PICK s \in NewStatus(q) :
              /\ UpdateRow(q, s)
              /\ history' = [history EXCEPT ![target[q]] = @ \cup {EntryOf(q, s)}]
        BY <1>d DEF Save
    <2>2. EntryOf(q, s).by = q /\ target[q] \in Request
        BY DEF EntryOf
    <2>3. \A r \in Request : \A e \in history'[r] : e \in history[r] \/ e.by = q
        BY <2>1, <2>2
    <2>4. \A r \in Request : evidence'[r] \in {evidence[r], q}
        BY <2>1, <2>2 DEF UpdateRow
    <2>5. QED
        BY <1>a, <1>d, <2>3, <2>4 DEF Untouched
<1>1. ASSUME NEW q \in Request, Receive(q) PROVE Untouched'
    BY <1>1, <1>a, <1>a, <1>b DEF Receive, Continue, request, table, columns
<1>2. ASSUME NEW q \in Request, Refuse(q) PROVE Untouched'
    BY <1>2, <1>a, <1>b DEF Refuse, Answer, request, table, columns
<1>3. ASSUME NEW q \in Request, CheckHash(q) PROVE Untouched'
    BY <1>3, <1>a, <1>b DEF CheckHash, Answer, Continue, request, table, columns
<1>4. ASSUME NEW q \in Request, WriteImage(q) PROVE Untouched'
    BY <1>4, <1>a, <1>b DEF WriteImage, Continue, request, table, columns
<1>5. ASSUME NEW q \in Request, Insert(q) PROVE Untouched'
    BY <1>5, <1>a, <1>b DEF Insert, Answer, Continue, PhotoKnown, request, columns
<1>6. ASSUME NEW q \in Request, AuditOpen(q) PROVE Untouched'
    <2>1. /\ pc[q] = "inserted" /\ pc'[q] = "done" /\ answer'[q] = "ok" /\ UNCHANGED evidence
          /\ \A x \in Request \ {q} : pc'[x] = pc[x] /\ answer'[x] = answer[x]
        BY <1>6 DEF AuditOpen, Answer
    <2>2. \A r \in Request : \A e \in history'[r] : e \in history[r] \/ e.by = q
        BY <1>6 DEF AuditOpen
    <2>3. QED
        BY <1>a, <2>1, <2>2 DEF Untouched
<1>7. ASSUME NEW q \in Request, WritePhoto(q) PROVE Untouched'
    BY <1>7, <1>a, <1>b DEF WritePhoto, Continue, request, table, columns
<1>8. ASSUME NEW q \in Request, Begin(q) PROVE Untouched'
    BY <1>8, <1>a, <1>b DEF Begin, Continue, request, table, columns
<1>9. ASSUME NEW q \in Request, Change(q) PROVE Untouched'
    <2>1. CASE target[q] \in live
        <3>1. answer[q] = "none" /\ pc[q] = "begun" /\ Save(q) /\ Continue(q, "saved")
            BY <1>9, <2>1 DEF Change, Unanswered
        <3>2. QED
            BY <1>a, <1>d, <3>1 DEF Continue
    <2>2. CASE target[q] \notin live
        BY <1>9, <2>2, <1>a, <1>b DEF Change, Answer, request, table, columns
    <2>3. QED
        BY <2>1, <2>2
<1>10. ASSUME NEW q \in Request, RefuseOrg(q) PROVE Untouched'
    BY <1>10, <1>a, <1>b DEF RefuseOrg, Answer, request, table, columns
<1>r. ASSUME NEW q \in Request, RefuseResolve(q) PROVE Untouched'
    BY <1>r, <1>a, <1>b DEF RefuseResolve, request, table, columns
<1>11. ASSUME NEW q \in Request, RemovePhoto(q) PROVE Untouched'
    BY <1>11, <1>a, <1>b DEF RemovePhoto, request, table, columns
<1>12. ASSUME NEW q \in Request, Reread(q) PROVE Untouched'
    BY <1>12, <1>a, <1>b DEF Reread, Answer, request, table, columns
<1>13. ASSUME NEW q \in Request, DeleteRow(q) PROVE Untouched'
    BY <1>13, <1>a, <1>b DEF DeleteRow, Answer, Continue, DropRow, request, table, columns
<1>14. ASSUME NEW q \in Request, RemoveImage(q) PROVE Untouched'
    BY <1>14, <1>a, <1>b DEF RemoveImage, Answer, request, table, columns
<1>15. ASSUME NEW q \in Request, ReadFails(q) PROVE Untouched'
    BY <1>15, <1>a, <1>b DEF ReadFails, Fault, Answer, request, table, columns
<1>16. ASSUME NEW q \in Request, WriteFails(q) PROVE Untouched'
    BY <1>16, <1>a, <1>b DEF WriteFails, Fault, Answer, request, table, columns
<1>17. ASSUME NEW q \in Request, InsertFails(q) PROVE Untouched'
    BY <1>17, <1>a, <1>b DEF InsertFails, Fault, Answer, PhotoKnown, request, columns
<1>18. ASSUME NEW q \in Request, AuditFails(q) PROVE Untouched'
    BY <1>18, <1>a, <1>b DEF AuditFails, Fault, Answer, request, table, columns
<1>19. ASSUME NEW q \in Request, ChangeFails(q) PROVE Untouched'
    <2>1. CASE Save(q)
        BY <1>19, <2>1, <1>a, <1>d DEF ChangeFails, request
    <2>2. CASE UNCHANGED table
        BY <1>19, <2>2, <1>a, <1>b DEF ChangeFails, request, table, columns
    <2>3. QED
        BY <1>19, <2>1, <2>2 DEF ChangeFails
<1>20. ASSUME NEW q \in Request, DeleteFails(q) PROVE Untouched'
    BY <1>20, <1>a, <1>b DEF DeleteFails, Fault, Answer, DropRow, request
<1>21. ASSUME NEW q \in Request, RemoveFails(q) PROVE Untouched'
    BY <1>21, <1>a, <1>b DEF RemoveFails, Fault, Answer, request, table, columns
<1>22. ASSUME NEW q \in Request, Disconnect(q) PROVE Untouched'
    BY <1>22, <1>a, <1>b DEF Disconnect, Fault, active, request, table, columns
<1>23. CASE Restart
    BY <1>23, <1>a, <1>b DEF Restart, Fault, active, request, table, columns
<1>24. CASE UNCHANGED vars
    BY <1>24, <1>a, <1>b DEF vars, request, table, columns
<1>25. QED
    BY <1>1, <1>2, <1>3, <1>4, <1>5, <1>6, <1>7, <1>8, <1>9, <1>10, <1>11, <1>12, <1>13, <1>14, <1>15, <1>16, <1>17, <1>18, <1>19, <1>20, <1>21, <1>22, <1>23, <1>24, <1>r
    DEF Next, CreateStep, AdminStep, FaultStep

\* Without faults no step leaves a file to nobody.
LEMMA FiledStep ==
    ASSUME TypeOK, Roles, Unanswered, Denied, Recorded, Filed, [Next]_vars
    PROVE  Filed'
<1> USE DEF TypeOK, Roles, Unanswered, Denied, Negative, Filed, NoStrayFile, active
<1>1. ASSUME NEW q \in Request, Receive(q) PROVE Filed'
    BY <1>1 DEF Receive, Continue, request, table, columns, Op
<1>2. ASSUME NEW q \in Request, Refuse(q) PROVE Filed'
    BY <1>2 DEF Refuse, Answer, request, table, columns
<1>3. ASSUME NEW q \in Request, CheckHash(q) PROVE Filed'
    BY <1>3 DEF CheckHash, Answer, Continue, request, table, columns
<1>4. ASSUME NEW q \in Request, WriteImage(q) PROVE Filed'
    BY <1>4 DEF WriteImage, Continue, request, table, columns
<1>5. ASSUME NEW q \in Request, Insert(q) PROVE Filed'
    BY <1>5 DEF Insert, Answer, Continue, PhotoKnown, request, columns
<1>6. ASSUME NEW q \in Request, AuditOpen(q) PROVE Filed'
    BY <1>6 DEF AuditOpen, Answer, request
<1>7. ASSUME NEW q \in Request, WritePhoto(q) PROVE Filed'
    BY <1>7 DEF WritePhoto, Continue, request, table, columns
<1>8. ASSUME NEW q \in Request, Begin(q) PROVE Filed'
    BY <1>8 DEF Begin, Continue, request, table, columns
<1>9. ASSUME NEW q \in Request, Change(q) PROVE Filed'
    BY <1>9 DEF Change, Answer, Continue, Save, UpdateRow, request, table, columns
<1>10. ASSUME NEW q \in Request, RefuseOrg(q) PROVE Filed'
    BY <1>10 DEF RefuseOrg, Answer, request, table, columns
<1>r. ASSUME NEW q \in Request, RefuseResolve(q) PROVE Filed'
    BY <1>r DEF RefuseResolve, request, table, columns
<1>11. ASSUME NEW q \in Request, RemovePhoto(q) PROVE Filed'
    BY <1>11 DEF RemovePhoto, request, table, columns
<1>12. ASSUME NEW q \in Request, Reread(q) PROVE Filed'
    BY <1>12 DEF Reread, Answer, Recorded, request, table, columns, Op
<1>13. ASSUME NEW q \in Request, DeleteRow(q) PROVE Filed'
    BY <1>13 DEF DeleteRow, Answer, Continue, DropRow, request, table, columns
<1>14. ASSUME NEW q \in Request, RemoveImage(q) PROVE Filed'
    BY <1>14 DEF RemoveImage, Answer, request, table, columns
<1>15. ASSUME NEW q \in Request, ReadFails(q) PROVE Filed'
    BY <1>15 DEF ReadFails, Fault, Answer, request, table, columns
<1>16. ASSUME NEW q \in Request, WriteFails(q) PROVE Filed'
    BY <1>16 DEF WriteFails, Fault, Answer, request, table, columns
<1>17. ASSUME NEW q \in Request, InsertFails(q) PROVE Filed'
    BY <1>17 DEF InsertFails, Fault, Answer, PhotoKnown, request, columns
<1>18. ASSUME NEW q \in Request, AuditFails(q) PROVE Filed'
    BY <1>18 DEF AuditFails, Fault, Answer, request, table, columns
<1>19. ASSUME NEW q \in Request, ChangeFails(q) PROVE Filed'
    BY <1>19 DEF ChangeFails, Fault, Save, UpdateRow, request, table, columns
<1>20. ASSUME NEW q \in Request, DeleteFails(q) PROVE Filed'
    BY <1>20 DEF DeleteFails, Fault, Answer, DropRow, request
<1>21. ASSUME NEW q \in Request, RemoveFails(q) PROVE Filed'
    BY <1>21 DEF RemoveFails, Fault, Answer, request, table, columns
<1>22. ASSUME NEW q \in Request, Disconnect(q) PROVE Filed'
    BY <1>22 DEF Disconnect, Fault, active, request, table, columns
<1>23. CASE Restart
    BY <1>23 DEF Restart, Fault, active, request, table, columns
<1>24. CASE UNCHANGED vars
    BY <1>24 DEF vars, request, table, columns
<1>25. QED
    BY <1>1, <1>2, <1>3, <1>4, <1>5, <1>6, <1>7, <1>8, <1>9, <1>10, <1>11, <1>12, <1>13, <1>14, <1>15, <1>16, <1>17, <1>18, <1>19, <1>20, <1>21, <1>22, <1>23, <1>24, <1>r
    DEF Next, CreateStep, AdminStep, FaultStep

(***************************************************************************)
(* The simulation of the abstract register.                                *)
(***************************************************************************)
\* The outcomes of requests under way, and of those that have an answer.
LEMMA OutcomeValues ==
    ASSUME NEW p
    PROVE  /\ OutcomeOf(p, "ok") = "confirmed"
           /\ \A a \in Negative : OutcomeOf(p, a) = "denied"
           /\ \A a \in {"gone", "error"} : OutcomeOf(p, a) = "lost"
           /\ p = "dropped" => OutcomeOf(p, "none") = "lost"
           /\ p \in {"inserted", "saved", "removing"}
                 => OutcomeOf(p, "none") = "effective"
           /\ p \in {"idle", "received", "checked", "written", "begun", "cleanup", "done"}
                 => OutcomeOf(p, "none") = "pending"
<1>1. OutcomeOf(p, "ok") = "confirmed"
    BY DEF OutcomeOf, Negative
<1>2. ASSUME NEW a \in Negative PROVE OutcomeOf(p, a) = "denied"
    BY <1>2 DEF OutcomeOf, Negative
<1>3. ASSUME NEW a \in {"gone", "error"} PROVE OutcomeOf(p, a) = "lost"
    BY <1>3 DEF OutcomeOf, Negative
<1>4. p = "dropped" => OutcomeOf(p, "none") = "lost"
    BY DEF OutcomeOf, Negative
<1>5. p \in {"inserted", "saved", "removing"} => OutcomeOf(p, "none") = "effective"
    BY DEF OutcomeOf, Negative
<1>6. p \in {"idle", "received", "checked", "written", "begun", "cleanup", "done"}
         => OutcomeOf(p, "none") = "pending"
    BY DEF OutcomeOf, Negative
<1>7. QED
    BY <1>1, <1>2, <1>3, <1>4, <1>5, <1>6

\* A request that is still to take effect, and one that did.
LEMMA OutcomeNow ==
    ASSUME TypeOK, Unanswered, NEW q \in Request
    PROVE  /\ pc[q] \in {"idle", "received", "checked", "written", "begun"}
                 => Outcome[q] = "pending"
           /\ pc[q] \in {"inserted", "saved", "removing"}
                 => Outcome[q] = "effective"
<1>1. Outcome[q] = OutcomeOf(pc[q], answer[q])
    BY DEF Outcome
<1>2. CASE pc[q] \in {"idle", "received", "checked", "written", "begun"}
    <2>1. answer[q] = "none"
        BY <1>2 DEF Unanswered
    <2>2. QED
        BY <1>1, <1>2, <2>1, OutcomeValues
<1>3. CASE pc[q] \in {"inserted", "saved", "removing"}
    <2>1. answer[q] = "none"
        BY <1>3 DEF Unanswered
    <2>2. QED
        BY <1>1, <1>3, <2>1, OutcomeValues
<1>4. QED
    BY <1>2, <1>3

\* A step of one request changes the outcome of no other.
LEMMA OutcomeFrame ==
    ASSUME TypeOK, NEW q \in Request, NEW p, NEW a,
           pc' = [pc EXCEPT ![q] = p],
           answer' = answer \/ answer' = [answer EXCEPT ![q] = a]
    PROVE  Outcome' = [Outcome EXCEPT ![q] = OutcomeOf(p, answer'[q])]
<1>1. pc'[q] = p /\ \A r \in Request \ {q} : pc'[r] = pc[r] /\ answer'[r] = answer[r]
    BY DEF TypeOK
<1>2. \A r \in Request : Outcome'[r] = OutcomeOf(pc'[r], answer'[r])
    BY DEF Outcome
<1>3. \A r \in Request \ {q} : Outcome'[r] = Outcome[r]
    BY <1>1, <1>2 DEF Outcome
<1>4. /\ Outcome = [r \in Request |-> Outcome[r]]
      /\ Outcome' = [r \in Request |-> Outcome'[r]]
    BY DEF Outcome
<1> HIDE DEF Outcome
<1>5. Outcome'[q] = OutcomeOf(p, answer'[q])
    BY <1>1, <1>2
<1>6. QED
    BY <1>3, <1>4, <1>5

\* The trail forgets when an entry was made.
LEMMA TrailAdd ==
    ASSUME TypeOK, NEW r \in Request, NEW x \in Entry,
           history' = [history EXCEPT ![r] = @ \cup {x}]
    PROVE  Trail' = [Trail EXCEPT ![r] = @ \cup {[by |-> x.by, status |-> x.status]}]
<1>1. \A s \in Request \ {r} : Trail'[s] = Trail[s]
    BY DEF Trail, TypeOK
<1>2. Trail'[r] = Trail[r] \cup {[by |-> x.by, status |-> x.status]}
    BY DEF Trail, TypeOK
<1>3. QED
    BY <1>1, <1>2 DEF Trail

\* The trail of a deleted report goes with its history.
LEMMA TrailClear ==
    ASSUME TypeOK, NEW r \in Request, history' = [history EXCEPT ![r] = {}]
    PROVE  Trail' = [Trail EXCEPT ![r] = {}]
<1>1. \A s \in Request \ {r} : Trail'[s] = Trail[s]
    BY DEF Trail, TypeOK
<1>2. Trail'[r] = {}
    BY DEF Trail, TypeOK
<1>3. QED
    BY <1>1, <1>2 DEF Trail

\* The trail is a function of the history.
LEMMA TrailSame == ASSUME history' = history PROVE Trail' = Trail
    BY DEF Trail

data == <<photo, phase, status, history>>

Pending == {"idle", "received", "checked", "written", "begun"}

Effective == {"inserted", "saved", "removing"}

\* Going on without an effect is no step of the register.
LEMMA StayStep ==
    ASSUME TypeOK, Unanswered, NEW q \in Request, NEW p,
           pc' = [pc EXCEPT ![q] = p], answer' = answer, UNCHANGED data,
           \/ pc[q] \in Pending /\ p \in Pending
           \/ pc[q] = "cleanup" /\ p = "done"
    PROVE  UNCHANGED Abstract!vars
<1>1. Outcome' = [Outcome EXCEPT ![q] = OutcomeOf(p, answer[q])]
    BY OutcomeFrame
<1>2. OutcomeOf(p, answer[q]) = OutcomeOf(pc[q], answer[q])
    <2>1. CASE pc[q] = "cleanup"
        BY <2>1 DEF OutcomeOf
    <2>2. CASE pc[q] \in Pending /\ p \in Pending
        <3>1. answer[q] = "none"
            BY <2>2 DEF Unanswered, Pending
        <3>2. QED
            BY <2>2, <3>1, OutcomeValues DEF Pending
    <2>3. QED
        BY <2>1, <2>2
<1>3. Outcome' = Outcome
    BY <1>1, <1>2 DEF Outcome
<1>4. QED
    BY <1>3, TrailSame DEF Abstract!vars, data

\* An answer that denies.
LEMMA DenyStep ==
    ASSUME TypeOK, Unanswered, NEW q \in Request, NEW p,
           NEW a \in {"fake", "refused", "notfound"},
           pc[q] \in Pending, UNCHANGED data,
           pc' = [pc EXCEPT ![q] = p], answer' = [answer EXCEPT ![q] = a]
    PROVE  Abstract!Deny(q)
<1>1. answer'[q] = a
    BY DEF TypeOK
<1>2. Outcome' = [Outcome EXCEPT ![q] = OutcomeOf(p, a)]
    BY <1>1, OutcomeFrame
<1>3. Outcome[q] = "pending" /\ OutcomeOf(p, a) = "denied"
    BY OutcomeNow, OutcomeValues DEF Pending, Negative
<1>4. QED
    BY <1>2, <1>3, TrailSame DEF Abstract!Deny, data

\* An answer that leaves everything open.
LEMMA LoseStep ==
    ASSUME TypeOK, Unanswered, NEW q \in Request, NEW p, NEW a \in {"gone", "error"},
           pc[q] \in Pending \cup Effective, UNCHANGED data,
           pc' = [pc EXCEPT ![q] = p], answer' = [answer EXCEPT ![q] = a]
    PROVE  Abstract!Lose
<1>1. answer'[q] = a
    BY DEF TypeOK
<1>2. Outcome' = [Outcome EXCEPT ![q] = OutcomeOf(p, a)]
    BY <1>1, OutcomeFrame
<1>3. Outcome[q] \in {"pending", "effective"} /\ OutcomeOf(p, a) = "lost"
    BY OutcomeNow, OutcomeValues DEF Pending, Effective
<1>4. Outcome' = [r \in Request |-> IF r \in {q} THEN "lost" ELSE Outcome[r]]
    BY <1>2, <1>3 DEF Outcome
<1>5. {q} \in SUBSET {r \in Request : Outcome[r] \in {"pending", "effective"}}
    BY <1>3
<1>6. QED
    BY <1>4, <1>5, TrailSame DEF Abstract!Lose, data

\* Handlers that are dropped.
LEMMA DropStep ==
    ASSUME TypeOK, Unanswered, NEW S \in SUBSET active, UNCHANGED data,
           pc' = [r \in Request |-> IF r \in S THEN "dropped" ELSE pc[r]],
           answer' = answer
    PROVE  Abstract!Lose
<1> DEFINE T == {r \in S : answer[r] = "none"}
<1>1. \A r \in S : r \in Request /\ pc[r] \in {"received", "checked", "written", "inserted",
                                                "begun", "saved", "cleanup", "removing"}
    BY DEF active, TypeOK, Progress
<1>2. \A r \in T : Outcome[r] \in {"pending", "effective"}
    <2> TAKE r \in T
    <2>1. Outcome[r] = OutcomeOf(pc[r], "none")
        BY <1>1 DEF Outcome
    <2>2. QED
        BY <1>1, <2>1, OutcomeValues
<1>3. \A r \in Request : Outcome'[r] = IF r \in T THEN "lost" ELSE Outcome[r]
    <2> TAKE r \in Request
    <2>1. Outcome'[r] = OutcomeOf(pc'[r], answer[r]) /\ Outcome[r] = OutcomeOf(pc[r], answer[r])
        BY DEF Outcome
    <2>2. CASE r \in T
        BY <2>1, <2>2, OutcomeValues
    <2>3. CASE r \in S \ T
        <3>1. answer[r] # "none" /\ answer[r] \in Answers
            BY <2>3 DEF TypeOK
        <3>2. OutcomeOf(pc'[r], answer[r]) = OutcomeOf(pc[r], answer[r])
            BY <3>1 DEF OutcomeOf, Answers, Negative
        <3>3. QED
            BY <2>1, <2>3, <3>2
    <2>4. CASE r \notin S
        BY <2>1, <2>4
    <2>5. QED
        BY <2>2, <2>3, <2>4
<1>4. T \in SUBSET {r \in Request : Outcome[r] \in {"pending", "effective"}}
    BY <1>1, <1>2
<1> HIDE DEF T
<1>5. Outcome' = [r \in Request |-> IF r \in T THEN "lost" ELSE Outcome[r]]
    BY <1>3 DEF Outcome
<1>6. QED
    BY <1>4, <1>5, TrailSame DEF Abstract!Lose, data

\* The step that takes effect.
LEMMA TakeStep ==
    ASSUME TypeOK, Unanswered, NEW q \in Request, NEW p, pc[q] \in Pending,
           Abstract!Register(q) \/ Abstract!Change(q) \/ Abstract!Withdraw(q),
           photo' = photo, pc' = [pc EXCEPT ![q] = p],
           \/ answer' = answer /\ p \in Effective
           \/ \E a \in {"ok", "error"} : answer' = [answer EXCEPT ![q] = a]
    PROVE  Abstract!Take(q)
<1>1. Outcome[q] = "pending"
    BY OutcomeNow DEF Pending
<1>2. Outcome' = [Outcome EXCEPT ![q] = OutcomeOf(p, answer'[q])]
    BY OutcomeFrame
<1>3. OutcomeOf(p, answer'[q]) \in {"effective", "confirmed", "lost"}
    <2>1. CASE answer' = answer /\ p \in Effective
        <3>1. answer[q] = "none"
            BY DEF Unanswered, Pending
        <3>2. QED
            BY <2>1, <3>1, OutcomeValues DEF Effective
    <2>2. CASE \E a \in {"ok", "error"} : answer' = [answer EXCEPT ![q] = a]
        <3>1. answer'[q] \in {"ok", "error"}
            BY <2>2 DEF TypeOK
        <3>2. QED
            BY <3>1, OutcomeValues
    <2>3. QED
        BY <2>1, <2>2
<1>4. QED
    BY <1>1, <1>2, <1>3 DEF Abstract!Take

\* The answer to what took effect.
LEMMA ConfirmStep ==
    ASSUME TypeOK, Unanswered, NEW q \in Request, NEW p, pc[q] \in Effective,
           UNCHANGED <<photo, phase, status>>,
           \/ UNCHANGED history
           \/ /\ phase[q] = "row"
              /\ Trail' = [Trail EXCEPT ![q] = @ \cup {[by |-> q, status |-> "open"]}],
           pc' = [pc EXCEPT ![q] = p], answer' = [answer EXCEPT ![q] = "ok"]
    PROVE  Abstract!Confirm(q)
<1>1. answer'[q] = "ok"
    BY DEF TypeOK
<1>2. Outcome' = [Outcome EXCEPT ![q] = OutcomeOf(p, "ok")]
    BY <1>1, OutcomeFrame
<1>3. Outcome[q] = "effective" /\ OutcomeOf(p, "ok") = "confirmed"
    BY OutcomeNow, OutcomeValues DEF Effective
<1>4. QED
    BY <1>2, <1>3, TrailSame DEF Abstract!Confirm

\* A committed change is a change of the register, with its entry.
LEMMA SaveIsChange ==
    ASSUME TypeOK, NEW q \in Request, Save(q), target[q] \in live,
           op[q] \in {"status", "resolve", "assign"}
    PROVE  Abstract!Change(q)
<1>1. NewStatus(q) \subseteq Status
    BY StatusAssumption DEF NewStatus, Final
<1>2. PICK s \in NewStatus(q) :
          /\ UpdateRow(q, s)
          /\ history' = [history EXCEPT ![target[q]] = @ \cup {EntryOf(q, s)}]
          /\ UNCHANGED phase
    BY DEF Save
<1>3. s \in Status /\ target[q] \in Request
    BY <1>1, <1>2 DEF TypeOK
<1>4. EntryOf(q, s) \in Entry /\ EntryOf(q, s).by = q /\ EntryOf(q, s).status = s
    BY <1>3 DEF EntryOf, Entry, TypeOK
<1>5. Trail' = [Trail EXCEPT ![target[q]] = @ \cup {[by |-> q, status |-> s]}]
    BY <1>2, <1>3, <1>4, TrailAdd
<1>6. status' = [status EXCEPT ![target[q]] = s]
    BY <1>2 DEF UpdateRow
<1>7. target[q] \in Abstract!live
    BY DEF live, Abstract!live
<1>8. QED
    BY <1>2, <1>3, <1>5, <1>6, <1>7 DEF Abstract!Change

\* A deletion takes the report out of the register, with its trail.
LEMMA DropIsWithdraw ==
    ASSUME TypeOK, NEW q \in Request, DropRow(target[q]), target[q] \in live
    PROVE  Abstract!Withdraw(q)
<1>1. Trail' = [Trail EXCEPT ![target[q]] = {}]
    BY TrailClear DEF DropRow, TypeOK
<1>2. target[q] \in Abstract!live
    BY DEF live, Abstract!live
<1>3. QED
    BY <1>1, <1>2 DEF DropRow, Abstract!Withdraw

\* An INSERT that the unique index lets pass registers the report.
LEMMA InsertIsRegister ==
    ASSUME TypeOK, Roles, NEW q \in Request, pc[q] = "written", ~PhotoKnown(q),
           phase' = [phase EXCEPT ![q] = "row"], UNCHANGED <<status, history>>
    PROVE  Abstract!Register(q)
<1>1. phase[q] = "none"
    BY DEF Roles
<1>2. \A r \in Abstract!live : photo[r] # photo[q]
    BY DEF PhotoKnown, live, Abstract!live
<1>3. QED
    BY <1>1, <1>2, TrailSame DEF Abstract!Register

\* Every step of the handlers is a step of the register, or none.
LEMMA Simulates == IInv /\ [Next]_vars => [Abstract!Next]_(Abstract!vars)
<1> SUFFICES ASSUME IInv, [Next]_vars PROVE Abstract!Next \/ UNCHANGED Abstract!vars
    OBVIOUS
<1> DEFINE Goal == Abstract!Next \/ UNCHANGED Abstract!vars
<1>0. TypeOK /\ Unanswered /\ Roles
    BY DEF IInv
<1>a. ASSUME NEW q \in Request, Abstract!Take(q) \/ Abstract!Deny(q) \/ Abstract!Confirm(q)
      PROVE  Goal
    BY <1>a DEF Abstract!Next
<1>b. Abstract!Lose => Goal
    BY DEF Abstract!Next
<1> SUFFICES Goal
    BY DEF Goal
<1> HIDE DEF Goal
<1>1. ASSUME NEW q \in Request, Receive(q) PROVE UNCHANGED Abstract!vars
    <2>1. /\ pc[q] = "idle" /\ pc' = [pc EXCEPT ![q] = "received"]
          /\ answer' = answer /\ UNCHANGED data
        BY <1>1 DEF Receive, Continue, table, columns, data
    <2>2. pc[q] \in Pending /\ "received" \in Pending
        BY <2>1 DEF Pending
    <2>3. QED
        BY <1>0, <2>1, <2>2, StayStep
<1>2. ASSUME NEW q \in Request, Refuse(q) PROVE Abstract!Deny(q)
    <2>1. /\ pc[q] \in Pending /\ UNCHANGED data
          /\ pc' = [pc EXCEPT ![q] = "done"]
          /\ \E a \in {"fake", "refused"} : answer' = [answer EXCEPT ![q] = a]
        BY <1>2 DEF Refuse, Answer, request, table, columns, data, Pending
    <2>2. QED
        BY <1>0, <2>1, DenyStep
<1>3. ASSUME NEW q \in Request, CheckHash(q)
      PROVE  Abstract!Deny(q) \/ UNCHANGED Abstract!vars
    <2>1. pc[q] \in Pending /\ "checked" \in Pending /\ UNCHANGED data
        BY <1>3 DEF CheckHash, request, table, columns, data, Pending
    <2>2. CASE Answer(q, "fake")
        BY <1>0, <2>1, <2>2, DenyStep DEF Answer
    <2>3. CASE Continue(q, "checked")
        BY <1>0, <2>1, <2>3, StayStep DEF Continue
    <2>4. QED
        BY <1>3, <2>2, <2>3 DEF CheckHash
<1>4. ASSUME NEW q \in Request, WriteImage(q) PROVE UNCHANGED Abstract!vars
    <2>1. pc[q] \in Pending /\ "written" \in Pending /\ UNCHANGED data
        BY <1>4 DEF WriteImage, request, table, columns, data, Pending
    <2>2. QED
        BY <1>0, <1>4, <2>1, StayStep DEF WriteImage, Continue
<1>5. ASSUME NEW q \in Request, Insert(q) PROVE Abstract!Lose \/ Abstract!Take(q)
    <2>1. /\ pc[q] = "written" /\ pc[q] \in Pending /\ "inserted" \in Effective
          /\ UNCHANGED <<photo, status, history>>
        BY <1>5 DEF Insert, request, columns, Pending, Effective
    <2>2. CASE PhotoKnown(q)
        <3>1. UNCHANGED data /\ Answer(q, "error")
            BY <1>5, <2>1, <2>2 DEF Insert, data
        <3>2. QED
            BY <1>0, <2>1, <3>1, LoseStep DEF Answer
    <2>3. CASE ~PhotoKnown(q)
        <3>1. phase' = [phase EXCEPT ![q] = "row"]
            BY <1>5, <2>3 DEF Insert
        <3>2. Abstract!Register(q)
            BY <1>0, <2>1, <2>3, <3>1, InsertIsRegister
        <3>3. Continue(q, "inserted") \/ Answer(q, "ok")
            BY <1>5, <2>3 DEF Insert
        <3>4. CASE Continue(q, "inserted")
            BY <1>0, <2>1, <3>2, <3>4, TakeStep DEF Continue
        <3>5. CASE Answer(q, "ok")
            BY <1>0, <2>1, <3>2, <3>5, TakeStep DEF Answer
        <3>6. QED
            BY <3>3, <3>4, <3>5
    <2>4. QED
        BY <2>2, <2>3
<1>6. ASSUME NEW q \in Request, AuditOpen(q) PROVE Abstract!Confirm(q)
    <2>1. /\ pc[q] \in Effective /\ UNCHANGED <<photo, phase, status>>
          /\ pc' = [pc EXCEPT ![q] = "done"] /\ answer' = [answer EXCEPT ![q] = "ok"]
        BY <1>6 DEF AuditOpen, Answer, request, Effective
    <2>2. CASE q \in live
        <3> DEFINE x == [by |-> q, status |-> "open", at |-> clock + 1]
        <3>1. x \in Entry /\ x.by = q /\ x.status = "open"
            BY <1>0, StatusAssumption DEF Entry, TypeOK
        <3>2. history' = [history EXCEPT ![q] = @ \cup {x}]
            BY <1>6, <2>2 DEF AuditOpen
        <3> HIDE DEF x
        <3>3. Trail' = [Trail EXCEPT ![q] = @ \cup {[by |-> q, status |-> "open"]}]
            BY <1>0, <3>1, <3>2, TrailAdd
        <3>4. phase[q] = "row"
            BY <2>2 DEF live
        <3>5. QED
            BY <1>0, <2>1, <3>3, <3>4, ConfirmStep
    <2>3. CASE q \notin live
        <3>1. UNCHANGED history
            BY <1>6, <2>3 DEF AuditOpen
        <3>2. QED
            BY <1>0, <2>1, <3>1, ConfirmStep
    <2>4. QED
        BY <2>2, <2>3
<1>7. ASSUME NEW q \in Request, WritePhoto(q) PROVE UNCHANGED Abstract!vars
    <2>1. pc[q] \in Pending /\ "written" \in Pending /\ UNCHANGED data
        BY <1>7 DEF WritePhoto, request, table, columns, data, Pending
    <2>2. QED
        BY <1>0, <1>7, <2>1, StayStep DEF WritePhoto, Continue
<1>8. ASSUME NEW q \in Request, Begin(q) PROVE UNCHANGED Abstract!vars
    <2>1. pc[q] \in Pending /\ "begun" \in Pending /\ UNCHANGED data
        BY <1>8 DEF Begin, request, table, columns, data, Pending
    <2>2. QED
        BY <1>0, <1>8, <2>1, StayStep DEF Begin, Continue
<1>9. ASSUME NEW q \in Request, Change(q) PROVE Abstract!Deny(q) \/ Abstract!Take(q)
    <2>1. /\ pc[q] = "begun" /\ pc[q] \in Pending /\ "saved" \in Effective
          /\ photo' = photo
        BY <1>9 DEF Change, request, Pending, Effective
    <2>2. CASE target[q] \in live
        <3>1. Save(q) /\ Continue(q, "saved")
            BY <1>9, <2>2 DEF Change
        <3>2. op[q] \in {"status", "resolve", "assign"}
            BY <1>0, <2>1 DEF Roles
        <3>3. Abstract!Change(q)
            BY <1>0, <2>2, <3>1, <3>2, SaveIsChange
        <3>4. QED
            BY <1>0, <2>1, <3>1, <3>3, TakeStep DEF Continue
    <2>3. CASE target[q] \notin live
        <3>1. UNCHANGED data
            BY <1>9, <2>1, <2>3 DEF Change, table, columns, data
        <3>2. \E p \in {"cleanup", "done"} : pc' = [pc EXCEPT ![q] = p]
            BY <1>9, <2>3 DEF Change, Answer
        <3>3. answer' = [answer EXCEPT ![q] = "notfound"]
            BY <1>9, <2>3 DEF Change, Answer
        <3>4. QED
            BY <1>0, <2>1, <3>1, <3>2, <3>3, DenyStep
    <2>4. QED
        BY <2>2, <2>3
<1>10. ASSUME NEW q \in Request, RefuseOrg(q) PROVE Abstract!Deny(q)
    <2>1. pc[q] \in Pending /\ UNCHANGED data
        BY <1>10 DEF RefuseOrg, request, table, columns, data, Pending
    <2>2. QED
        BY <1>0, <1>10, <2>1, DenyStep DEF RefuseOrg, Answer
<1>r. ASSUME NEW q \in Request, RefuseResolve(q) PROVE Abstract!Deny(q)
    <2>1. /\ pc[q] \in Pending /\ UNCHANGED data
          /\ pc' = [pc EXCEPT ![q] = "cleanup"] /\ answer' = [answer EXCEPT ![q] = "refused"]
        BY <1>r DEF RefuseResolve, request, table, columns, data, Pending
    <2>2. QED
        BY <1>0, <2>1, DenyStep
<1>11. ASSUME NEW q \in Request, RemovePhoto(q) PROVE UNCHANGED Abstract!vars
    <2>1. UNCHANGED data
        BY <1>11 DEF RemovePhoto, request, table, columns, data
    <2>2. QED
        BY <1>0, <1>11, <2>1, StayStep DEF RemovePhoto
<1>12. ASSUME NEW q \in Request, Reread(q) PROVE Abstract!Lose \/ Abstract!Confirm(q)
    <2>1. pc[q] \in Effective /\ UNCHANGED data
        BY <1>12 DEF Reread, request, table, columns, data, Effective
    <2>2. CASE Answer(q, "ok")
        BY <1>0, <2>1, <2>2, ConfirmStep DEF Answer, data
    <2>3. CASE Answer(q, "gone")
        BY <1>0, <2>1, <2>3, LoseStep DEF Answer
    <2>4. QED
        BY <1>12, <2>2, <2>3 DEF Reread
<1>13. ASSUME NEW q \in Request, DeleteRow(q) PROVE Abstract!Deny(q) \/ Abstract!Take(q)
    <2>1. pc[q] \in Pending /\ "removing" \in Effective /\ photo' = photo
        BY <1>13 DEF DeleteRow, request, Pending, Effective
    <2>2. CASE target[q] \in live
        <3>1. DropRow(target[q]) /\ Continue(q, "removing")
            BY <1>13, <2>2 DEF DeleteRow
        <3>2. Abstract!Withdraw(q)
            BY <1>0, <2>2, <3>1, DropIsWithdraw
        <3>3. QED
            BY <1>0, <2>1, <3>1, <3>2, TakeStep DEF Continue
    <2>3. CASE target[q] \notin live
        <3>1. UNCHANGED data /\ Answer(q, "notfound")
            BY <1>13, <2>1, <2>3 DEF DeleteRow, table, columns, data
        <3>2. QED
            BY <1>0, <2>1, <3>1, DenyStep DEF Answer
    <2>4. QED
        BY <2>2, <2>3
<1>14. ASSUME NEW q \in Request, RemoveImage(q) PROVE Abstract!Confirm(q)
    <2>1. pc[q] \in Effective /\ UNCHANGED <<photo, phase, status, history>>
        BY <1>14 DEF RemoveImage, request, table, columns, Effective
    <2>2. QED
        BY <1>0, <1>14, <2>1, ConfirmStep DEF RemoveImage, Answer
<1>15. ASSUME NEW q \in Request, ReadFails(q) PROVE Abstract!Lose
    <2>1. pc[q] \in Pending \cup Effective /\ UNCHANGED data
        BY <1>15 DEF ReadFails, request, table, columns, data, Pending, Effective
    <2>2. QED
        BY <1>0, <1>15, <2>1, LoseStep DEF ReadFails, Answer
<1>16. ASSUME NEW q \in Request, WriteFails(q) PROVE Abstract!Lose
    <2>1. pc[q] \in Pending \cup Effective /\ UNCHANGED data
        BY <1>16 DEF WriteFails, request, table, columns, data, Pending
    <2>2. QED
        BY <1>0, <1>16, <2>1, LoseStep DEF WriteFails, Answer
<1>17. ASSUME NEW q \in Request, InsertFails(q) PROVE Abstract!Lose \/ Abstract!Take(q)
    <2>1. /\ pc[q] = "written" /\ pc[q] \in Pending /\ Answer(q, "error")
          /\ UNCHANGED <<photo, status, history>>
        BY <1>17 DEF InsertFails, request, columns, Pending
    <2>2. CASE UNCHANGED phase
        <3>1. UNCHANGED data
            BY <2>1, <2>2 DEF data
        <3>2. QED
            BY <1>0, <2>1, <3>1, LoseStep DEF Answer
    <2>3. CASE ~PhotoKnown(q) /\ phase' = [phase EXCEPT ![q] = "row"]
        <3>1. Abstract!Register(q)
            BY <1>0, <2>1, <2>3, InsertIsRegister
        <3>2. QED
            BY <1>0, <2>1, <3>1, TakeStep DEF Answer
    <2>4. QED
        BY <1>17, <2>2, <2>3 DEF InsertFails
<1>18. ASSUME NEW q \in Request, AuditFails(q) PROVE Abstract!Confirm(q)
    <2>1. pc[q] \in Effective /\ UNCHANGED <<photo, phase, status, history>>
        BY <1>18 DEF AuditFails, request, table, columns, Effective
    <2>2. QED
        BY <1>0, <1>18, <2>1, ConfirmStep DEF AuditFails, Answer
<1>19. ASSUME NEW q \in Request, ChangeFails(q) PROVE Abstract!Lose \/ Abstract!Take(q)
    <2>1. /\ pc[q] = "begun" /\ pc[q] \in Pending /\ photo' = photo
          /\ answer' = [answer EXCEPT ![q] = "error"]
        BY <1>19 DEF ChangeFails, request, Pending
    <2>2. \E p \in {"cleanup", "done"} : pc' = [pc EXCEPT ![q] = p]
        BY <1>19 DEF ChangeFails
    <2>3. CASE UNCHANGED table
        <3>1. UNCHANGED data
            BY <2>1, <2>3 DEF table, columns, data
        <3>2. QED
            BY <1>0, <2>1, <2>2, <3>1, LoseStep
    <2>4. CASE target[q] \in live /\ Save(q)
        <3>1. op[q] \in {"status", "resolve", "assign"}
            BY <1>0, <2>1 DEF Roles
        <3>2. Abstract!Change(q)
            BY <1>0, <2>4, <3>1, SaveIsChange
        <3>3. QED
            BY <1>0, <2>1, <2>2, <3>2, TakeStep
    <2>5. QED
        BY <1>19, <2>3, <2>4 DEF ChangeFails
<1>20. ASSUME NEW q \in Request, DeleteFails(q) PROVE Abstract!Take(q)
    <2>1. pc[q] \in Pending /\ photo' = photo
        BY <1>20 DEF DeleteFails, request, Pending
    <2>2. Abstract!Withdraw(q)
        BY <1>0, <1>20, DropIsWithdraw DEF DeleteFails
    <2>3. QED
        BY <1>0, <1>20, <2>1, <2>2, TakeStep DEF DeleteFails, Answer
<1>21. ASSUME NEW q \in Request, RemoveFails(q)
      PROVE  Abstract!Confirm(q) \/ UNCHANGED Abstract!vars
    <2>1. UNCHANGED data
        BY <1>21 DEF RemoveFails, request, table, columns, data
    <2>2. CASE pc[q] = "removing" /\ Answer(q, "ok")
        <3>1. pc[q] \in Effective
            BY <2>2 DEF Effective
        <3>2. QED
            BY <1>0, <2>1, <2>2, <3>1, ConfirmStep DEF Answer, data
    <2>3. CASE pc[q] = "cleanup" /\ pc' = [pc EXCEPT ![q] = "done"] /\ UNCHANGED answer
        BY <1>0, <2>1, <2>3, StayStep
    <2>4. QED
        BY <1>21, <2>2, <2>3 DEF RemoveFails
<1>22. ASSUME NEW q \in Request, Disconnect(q) PROVE Abstract!Lose
    <2>1. UNCHANGED data /\ answer' = answer /\ {q} \in SUBSET active
        BY <1>22 DEF Disconnect, request, table, columns, data
    <2>2. pc' = [r \in Request |-> IF r \in {q} THEN "dropped" ELSE pc[r]]
        BY <1>0, <1>22 DEF Disconnect, TypeOK
    <2>3. QED
        BY <1>0, <2>1, <2>2, DropStep
<1>23. CASE Restart
    <2>1. UNCHANGED data /\ answer' = answer /\ active \in SUBSET active
        BY <1>23 DEF Restart, request, table, columns, data
    <2>2. pc' = [r \in Request |-> IF r \in active THEN "dropped" ELSE pc[r]]
        BY <1>23 DEF Restart
    <2>3. Abstract!Lose
        BY <1>0, <2>1, <2>2, DropStep
    <2>4. QED
        BY <1>b, <2>3
<1>24. CASE UNCHANGED vars
    <2>1. UNCHANGED <<pc, answer, photo, phase, status, history>>
        BY <1>24 DEF vars, request, table, columns
    <2>2. Outcome' = Outcome /\ Trail' = Trail
        BY <2>1 DEF Outcome, Trail
    <2>3. QED
        BY <2>1, <2>2 DEF Abstract!vars, Goal
<1>25. UNCHANGED Abstract!vars => Goal
    BY DEF Goal
<1>26. ASSUME NEW q \in Request, CreateStep(q) PROVE Goal
    BY <1>26, <1>2, <1>3, <1>4, <1>5, <1>6, <1>25, <1>a, <1>b DEF CreateStep
<1>27. ASSUME NEW q \in Request, AdminStep(q) PROVE Goal
    BY <1>27, <1>r, <1>7, <1>8, <1>9, <1>10, <1>11, <1>12, <1>13, <1>14, <1>25, <1>a, <1>b
    DEF AdminStep
<1>28. ASSUME NEW q \in Request, FaultStep(q) PROVE Goal
    BY <1>28, <1>15, <1>16, <1>17, <1>18, <1>19, <1>20, <1>21, <1>22, <1>25, <1>a, <1>b
    DEF FaultStep
<1>29. ASSUME NEW q \in Request, Receive(q) PROVE Goal
    BY <1>29, <1>1, <1>25
<1>30. QED
    BY <1>26, <1>27, <1>28, <1>29, <1>23, <1>24 DEF Next

(***************************************************************************)
(* The theorems.                                                           *)
(***************************************************************************)
\* The strengthened invariant holds of every behaviour.
THEOREM Invariance == Spec => []IInv
<1>1. Init => IInv
    BY NoneAssumption, StatusAssumption, MaxFaultsAssumption
    DEF Init, IInv, TypeOK, Progress, Answers, Op, Roles, ImagePresent,
        UniquePhoto, EvidenceRoles, Unanswered, live, Denied, Untouched, Negative, Explained, Recorded,
        Attributed, Filed, NoStrayFile
<1>2. IInv /\ [Next]_vars => IInv'
    BY TypeStep, RolesStep, ImageStep, PhotoStep, EvidenceStep, AnswerStep, DeniedStep, UntouchedStep,
       ExplainedStep, RecordedStep, AttributedStep, FiledStep DEF IInv
<1>3. QED
    BY <1>1, <1>2, PTL DEF Spec

\* Types are kept by any number of requests and faults.
THEOREM TypeCorrect == Spec => []TypeOK
<1>1. IInv => TypeOK
    BY DEF IInv
<1>2. QED
    BY <1>1, Invariance, PTL

\* The unique index closes the gap between create_report's check of the hash
\* and its INSERT: no photo is shown twice.
THEOREM NoPhotoTwice == Spec => []UniquePhoto
<1>1. IInv => UniquePhoto
    BY DEF IInv
<1>2. QED
    BY <1>1, Invariance, PTL

\* File before row on creation and row before file on deletion: every report
\* has its image, whatever fails.
THEOREM ImageOnDisk == Spec => []ImagePresent
<1>1. IInv => ImagePresent
    BY DEF IInv
<1>2. QED
    BY <1>1, Invariance, PTL

\* Evidence is missing only after a resolve request was answered with an
\* error for a change that was committed.
THEOREM EvidenceOnDisk == Spec => []EvidencePresent
<1>1. IInv => EvidencePresent
    BY DEF IInv, EvidenceRoles, EvidencePresent, live
<1>2. QED
    BY <1>1, Invariance, PTL

\* A negative answer, and the two successes that are none, leave no report, no entry and
\* no evidence behind, and no file but the photo of a resolution refused after its write
\* (create_report, admin_resolve_report).
THEOREM NothingIsSaved == Spec => []NothingSaved
<1>1. IInv => NothingSaved
    BY DEF IInv, Denied, Untouched, NothingSaved
<1>2. QED
    BY <1>1, Invariance, PTL

\* Without faults every file on disk is accounted for (admin_resolve_report,
\* admin_delete_report).
THEOREM FilesAccounted == Spec => []NoStrayFile
<1>1. IInv => NoStrayFile
    BY DEF IInv, Filed
<1>2. QED
    BY <1>1, Invariance, PTL

\* The history explains the status, for officials and for citizens, holds every
\* change that was confirmed, and nothing else (update_report_status, resolve_report,
\* assign_report_org, get_report_with_detail).
THEOREM TrailHonest == Spec => []AuditTrail
<1>1. ASSUME IInv PROVE AuditTrail
    <2>1. \A r \in live : \/ status[r] = "open"
                         \/ \E e \in history[r] : e.by # r /\ e.status = status[r]
        BY <1>1 DEF IInv, Explained, live
    <2>2. ASSUME NEW r \in live, status[r] # "acknowledged"
          PROVE  \E e \in Timeline(r) : e.label = StatusBadge(r)
        <3>1. CASE PublicHistory(r) = {}
            <4>1. TimelineEntry([status |-> status[r], at |-> 0], TRUE) \in Timeline(r)
                BY <3>1 DEF Timeline
            <4>2. TimelineEntry([status |-> status[r], at |-> 0], TRUE).label = StatusBadge(r)
                BY DEF TimelineEntry, StatusBadge
            <4>3. QED
                BY <4>1, <4>2
        <3>2. CASE PublicHistory(r) # {}
            <4>1. PICK e \in history[r] : e.by # r /\ e.status = status[r]
                BY <1>1, <3>2 DEF IInv, Explained, PublicHistory, live
            <4>2. e \in PublicHistory(r)
                BY <4>1, <2>2 DEF PublicHistory
            <4>3. TimelineEntry(e, \A d \in PublicHistory(r) : d.at <= e.at) \in Timeline(r)
                BY <3>2, <4>2 DEF Timeline
            <4>4. TimelineEntry(e, \A d \in PublicHistory(r) : d.at <= e.at).label = StatusBadge(r)
                BY <4>1 DEF TimelineEntry, StatusBadge
            <4>5. QED
                BY <4>3, <4>4
        <3>3. QED
            BY <3>1, <3>2
    <2>3. QED
        BY <1>1, <2>1, <2>2 DEF IInv, Recorded, Attributed, AuditTrail
<1>2. QED
    BY <1>1, Invariance, PTL

\* The handlers implement the atomic register: every request takes effect at
\* most once, in one step, and its answer agrees with that, whatever else
\* runs, fails or is dropped (create_report and the admin handlers).
THEOREM ImplementsRegister == Spec => Implements
<1>1. Init => Abstract!Init
    <2> SUFFICES ASSUME Init PROVE Abstract!Init
        OBVIOUS
    <2>1. Outcome = [q \in Request |-> "pending"]
        <3>1. \A q \in Request : OutcomeOf(pc[q], answer[q]) = "pending"
            BY OutcomeValues DEF Init
        <3>2. QED
            BY <3>1 DEF Outcome
    <2>2. Trail = [r \in Request |-> {}]
        BY DEF Init, Trail
    <2>3. QED
        BY <2>1, <2>2 DEF Init, Abstract!Init
<1>2. QED
    BY <1>1, Invariance, Simulates, PTL DEF Spec, Implements, Abstract!Spec
==============================================================================
