-------------------------- MODULE AdminAccountsProofs --------------------------
(***************************************************************************)
(* For every number of addresses, backends and calls: the accounts keep    *)
(* their one super-admin, and the users page lists what it was told has    *)
(* succeeded unless two of its fetches overlapped.                         *)
(***************************************************************************)
EXTENDS AdminAccounts, TLAPS

-----------------------------------------------------------------------------
(* The inductive invariant.                                                *)

\* TypeOK in parts.
TableType == rows \subseteq Email /\ off \subseteq Email /\ supers \subseteq Email
PlainType ==
    /\ boot \in [Instance -> {"down", "empty", "up"}]
    /\ me \in Email \cup {None}
    /\ email \in Email \cup {None} /\ apiError \in {"none", "exists", "other"}
    /\ shown \in Tables
    /\ knownOff \subseteq Email /\ knownNew \subseteq Email
FlagType == /\ isLoading \in BOOLEAN /\ fetchError \in BOOLEAN /\ crossed \in BOOLEAN
            /\ isModalOpen \in BOOLEAN /\ isSubmitting \in BOOLEAN
CountType == clicks \in 0 .. MaxClicks /\ faults \in 0 .. MaxFaults
CallType == calls \subseteq Call
Types == TableType /\ PlainType /\ FlagType /\ CountType /\ CallType

\* Flags are flags of rows, and the page is only used by somebody with a row.
Settled == /\ off \subseteq rows /\ supers \subseteq rows
           /\ SuperAdminStands
           /\ me # None => rows # {}
           /\ calls # {} => me # None
           /\ isModalOpen => me # None
           /\ fetchError => me # None

\* What succeeded has happened, and accounts are never removed or reactivated.
Effects == /\ knownOff \subseteq off /\ knownNew \subseteq rows
           /\ \A c \in calls : c.kind # "list" => c.email \in Email
           /\ \A c \in calls : c.step = "done" =>
                 (c.kind = "off" => c.email \in off) /\ (c.kind = "new" => c.email \in rows)

\* Fetches that do not overlap are one, and it was asked after every success.
OneList == ~crossed =>
    \A c \in calls, d \in calls : c.kind = "list" /\ d.kind = "list" => c = d
ListKnows == ~crossed =>
    \A c \in calls : c.kind = "list" /\ c.step = "done" =>
        knownOff \subseteq c.snap.off /\ knownNew \subseteq c.snap.rows

IInv == Types /\ Settled /\ Effects /\ OneList /\ ListKnows /\ ConfirmedIsListed

-----------------------------------------------------------------------------
(* What the steps of a call do to the calls.                               *)

\* A step of a call leaves its kind and its account as they are.
LEMMA MoveEffect ==
    ASSUME CallType, NEW c \in calls,
           NEW step \in {"asked", "read", "done", "refused", "failed"}, NEW snap \in Tables,
           Move(c, step, snap)
    PROVE  /\ CallType'
           /\ calls' = (calls \ {c}) \cup {At(c, step, snap)}
           /\ At(c, step, snap).kind = c.kind /\ At(c, step, snap).email = c.email
           /\ At(c, step, snap).step = step /\ At(c, step, snap).snap = snap
PROOF
  <1>1. c.n \in 1 .. MaxCalls /\ c.kind \in {"list", "off", "new"} /\ c.email \in Email \cup {None}
    BY DEF CallType, Call
  <1>2. At(c, step, snap) \in Call
    BY <1>1, Zenon DEF At, Call
  <1>3. CallType'
    BY <1>2 DEF CallType, Move
  <1> QED BY <1>3 DEF Move, At

\* A call that is asked is new and has no answer.
LEMMA AskingEffect ==
    ASSUME NEW n \in 1 .. MaxCalls, NEW kind \in {"list", "off", "new"}, NEW e \in Email \cup {None}
    PROVE  /\ Asking(n, kind, e) \in Call
           /\ Asking(n, kind, e).kind = kind /\ Asking(n, kind, e).step = "asked"
           /\ Asking(n, kind, e).email = e
PROOF
  <1>1. NoTable \in Tables
    <2>1. {} \in SUBSET Email
      OBVIOUS
    <2> QED BY <2>1, Zenon DEF NoTable, Tables
  <1> QED BY <1>1, Zenon DEF Asking, Call

\* No table is a table.
LEMMA NoTableIsTable == NoTable \in Tables
PROOF
  <1>1. {} \in SUBSET Email
    OBVIOUS
  <1> QED BY <1>1, Zenon DEF NoTable, Tables

\* fetchUsers replaces a call that ended by a list that is asked for.
LEMMA FetchEffect ==
    ASSUME CallType, NEW ended \in SUBSET calls, FetchUsers(ended)
    PROVE  /\ CallType'
           /\ \E d \in Call : /\ d.kind = "list" /\ d.step = "asked"
                            /\ calls' = (calls \ ended) \cup {d}
           /\ crossed' = (\E c \in calls : c.kind = "list")
           /\ isLoading' = TRUE /\ fetchError' = FALSE
PROOF
  <1>1. PICK n \in (1 .. MaxCalls) \ {c.n : c \in calls \ ended} :
            calls' = (calls \ ended) \cup {Asking(n, "list", None)}
    BY Zenon DEF FetchUsers
  <1>2. n \in 1 .. MaxCalls
    BY <1>1
  <1>3. /\ Asking(n, "list", None) \in Call
        /\ Asking(n, "list", None).kind = "list" /\ Asking(n, "list", None).step = "asked"
    BY <1>2, AskingEffect
  <1>4. CallType'
    BY <1>1, <1>3 DEF CallType
  <1>5. crossed' = (\E c \in calls : c.kind = "list")
    BY DEF FetchUsers, Lists
  <1> QED BY <1>1, <1>3, <1>4, <1>5 DEF FetchUsers

\* Another call is added, and it is no list.
LEMMA AskEffect ==
    ASSUME CallType, NEW kind \in {"off", "new"}, NEW e \in Email, Ask(kind, e)
    PROVE  /\ CallType'
           /\ \E d \in Call : /\ d.kind = kind /\ d.step = "asked" /\ d.email = e
                            /\ calls' = calls \cup {d}
PROOF
  <1>1. PICK n \in (1 .. MaxCalls) \ {c.n : c \in calls} : calls' = calls \cup {Asking(n, kind, e)}
    BY Zenon DEF Ask
  <1>2. n \in 1 .. MaxCalls
    BY <1>1
  <1>3. /\ Asking(n, kind, e) \in Call
        /\ Asking(n, kind, e).kind = kind /\ Asking(n, kind, e).step = "asked"
        /\ Asking(n, kind, e).email = e
    BY <1>2, AskingEffect
  <1>4. CallType'
    BY <1>1, <1>3 DEF CallType
  <1> QED BY <1>1, <1>3, <1>4

\* Bounds count up to their limits.
LEMMA CountsCount ==
    /\ CountType /\ Fault /\ UNCHANGED clicks => CountType'
    /\ CountType /\ Click /\ UNCHANGED faults => CountType'
PROOF
  BY AccountsAssumption DEF CountType, Fault, Click


\* Without seeding only the backend changes.
LEMMA SkipSeedKeeps ==
    ASSUME IInv, NEW i \in Instance, SkipSeed(i) PROVE IInv'
PROOF
  <1>11. TableType'
    BY DEF IInv, Types, TableType, SkipSeed, table, listVars, dialogVars, knownVars
  <1>12. PlainType'
    BY DEF IInv, Types, PlainType, SkipSeed, table, listVars, dialogVars, knownVars
  <1>13. FlagType'
    BY Zenon DEF IInv, Types, FlagType, SkipSeed, table, listVars, dialogVars, knownVars
  <1>14. CountType'
    BY DEF IInv, Types, CountType, SkipSeed, table, listVars, dialogVars, knownVars
  <1>15. CallType'
    BY DEF IInv, Types, CallType, SkipSeed, table, listVars, dialogVars, knownVars
  <1>16. Settled'
    BY DEF IInv, Settled, SuperAdminStands, SkipSeed, table, listVars, dialogVars, knownVars
  <1>17. Effects'
    BY DEF IInv, Effects, SkipSeed, table, listVars, dialogVars, knownVars
  <1>18. OneList'
    BY DEF IInv, OneList, SkipSeed, table, listVars, dialogVars, knownVars
  <1>19. ListKnows'
    BY DEF IInv, ListKnows, SkipSeed, table, listVars, dialogVars, knownVars
  <1>20. ConfirmedIsListed'
    BY DEF IInv, ConfirmedIsListed, Lists, SkipSeed, table, listVars, dialogVars, knownVars
  <1> QED BY <1>11, <1>12, <1>13, <1>14, <1>15, <1>16, <1>17,
             <1>18, <1>19, <1>20 DEF IInv, Types

\* Counting writes nothing.
LEMMA CountAdminsKeeps ==
    ASSUME IInv, NEW i \in Instance, CountAdmins(i) PROVE IInv'
PROOF
  <1>11. TableType'
    BY DEF IInv, Types, TableType, CountAdmins, table, listVars, dialogVars, knownVars
  <1>12. PlainType'
    BY DEF IInv, Types, PlainType, CountAdmins, table, listVars, dialogVars, knownVars
  <1>13. FlagType'
    BY Zenon DEF IInv, Types, FlagType, CountAdmins, table, listVars, dialogVars, knownVars
  <1>14. CountType'
    BY DEF IInv, Types, CountType, CountAdmins, table, listVars, dialogVars, knownVars
  <1>15. CallType'
    BY DEF IInv, Types, CallType, CountAdmins, table, listVars, dialogVars, knownVars
  <1>16. Settled'
    BY DEF IInv, Settled, SuperAdminStands, CountAdmins, table, listVars, dialogVars, knownVars
  <1>17. Effects'
    BY DEF IInv, Effects, CountAdmins, table, listVars, dialogVars, knownVars
  <1>18. OneList'
    BY DEF IInv, OneList, CountAdmins, table, listVars, dialogVars, knownVars
  <1>19. ListKnows'
    BY DEF IInv, ListKnows, CountAdmins, table, listVars, dialogVars, knownVars
  <1>20. ConfirmedIsListed'
    BY DEF IInv, ConfirmedIsListed, Lists, CountAdmins, table, listVars, dialogVars, knownVars
  <1> QED BY <1>11, <1>12, <1>13, <1>14, <1>15, <1>16, <1>17,
             <1>18, <1>19, <1>20 DEF IInv, Types

\* Where the seed has no row there is no row at all, so the seed becomes the first.
LEMMA InsertSeedKeeps ==
    ASSUME IInv, NEW i \in Instance, InsertSeed(i) PROVE IInv'
PROOF
  <1>11. TableType'
    BY AccountsAssumption DEF IInv, Types, TableType, InsertSeed, table, listVars, dialogVars, knownVars
  <1>12. PlainType'
    BY DEF IInv, Types, PlainType, InsertSeed, table, listVars, dialogVars, knownVars
  <1>13. FlagType'
    BY Zenon DEF IInv, Types, FlagType, InsertSeed, table, listVars, dialogVars, knownVars
  <1>14. CountType'
    BY DEF IInv, Types, CountType, InsertSeed, table, listVars, dialogVars, knownVars
  <1>15. CallType'
    BY DEF IInv, Types, CallType, InsertSeed, table, listVars, dialogVars, knownVars
  <1>16. Settled'
    BY DEF IInv, Settled, SuperAdminStands, InsertSeed, table, listVars, dialogVars, knownVars
  <1>17. Effects'
    BY DEF IInv, Effects, InsertSeed, table, listVars, dialogVars, knownVars
  <1>18. OneList'
    BY DEF IInv, OneList, InsertSeed, table, listVars, dialogVars, knownVars
  <1>19. ListKnows'
    BY DEF IInv, ListKnows, InsertSeed, table, listVars, dialogVars, knownVars
  <1>20. ConfirmedIsListed'
    BY DEF IInv, ConfirmedIsListed, Lists, InsertSeed, table, listVars, dialogVars, knownVars
  <1> QED BY <1>11, <1>12, <1>13, <1>14, <1>15, <1>16, <1>17,
             <1>18, <1>19, <1>20 DEF IInv, Types

\* A seeding that fails writes nothing.
LEMMA SeedFailsKeeps ==
    ASSUME IInv, NEW i \in Instance, SeedFails(i) PROVE IInv'
PROOF
  <1>11. TableType'
    BY DEF IInv, Types, TableType, SeedFails, table, listVars, dialogVars, knownVars
  <1>12. PlainType'
    BY DEF IInv, Types, PlainType, SeedFails, table, listVars, dialogVars, knownVars
  <1>13. FlagType'
    BY Zenon DEF IInv, Types, FlagType, SeedFails, table, listVars, dialogVars, knownVars
  <1>14. CountType'
    BY CountsCount DEF IInv, Types, CountType, SeedFails, table, listVars, dialogVars, knownVars
  <1>15. CallType'
    BY DEF IInv, Types, CallType, SeedFails, table, listVars, dialogVars, knownVars
  <1>16. Settled'
    BY DEF IInv, Settled, SuperAdminStands, SeedFails, table, listVars, dialogVars, knownVars
  <1>17. Effects'
    BY DEF IInv, Effects, SeedFails, table, listVars, dialogVars, knownVars
  <1>18. OneList'
    BY DEF IInv, OneList, SeedFails, table, listVars, dialogVars, knownVars
  <1>19. ListKnows'
    BY DEF IInv, ListKnows, SeedFails, table, listVars, dialogVars, knownVars
  <1>20. ConfirmedIsListed'
    BY DEF IInv, ConfirmedIsListed, Lists, SeedFails, table, listVars, dialogVars, knownVars
  <1> QED BY <1>11, <1>12, <1>13, <1>14, <1>15, <1>16, <1>17,
             <1>18, <1>19, <1>20 DEF IInv, Types

\* A backend that ends leaves the table.
LEMMA RestartInstanceKeeps ==
    ASSUME IInv, NEW i \in Instance, RestartInstance(i) PROVE IInv'
PROOF
  <1>11. TableType'
    BY DEF IInv, Types, TableType, RestartInstance, table, listVars, dialogVars, knownVars
  <1>12. PlainType'
    BY DEF IInv, Types, PlainType, RestartInstance, table, listVars, dialogVars, knownVars
  <1>13. FlagType'
    BY Zenon DEF IInv, Types, FlagType, RestartInstance, table, listVars, dialogVars, knownVars
  <1>14. CountType'
    BY CountsCount DEF IInv, Types, CountType, RestartInstance, table, listVars, dialogVars, knownVars
  <1>15. CallType'
    BY DEF IInv, Types, CallType, RestartInstance, table, listVars, dialogVars, knownVars
  <1>16. Settled'
    BY DEF IInv, Settled, SuperAdminStands, RestartInstance, table, listVars, dialogVars, knownVars
  <1>17. Effects'
    BY DEF IInv, Effects, RestartInstance, table, listVars, dialogVars, knownVars
  <1>18. OneList'
    BY DEF IInv, OneList, RestartInstance, table, listVars, dialogVars, knownVars
  <1>19. ListKnows'
    BY DEF IInv, ListKnows, RestartInstance, table, listVars, dialogVars, knownVars
  <1>20. ConfirmedIsListed'
    BY DEF IInv, ConfirmedIsListed, Lists, RestartInstance, table, listVars, dialogVars, knownVars
  <1> QED BY <1>11, <1>12, <1>13, <1>14, <1>15, <1>16, <1>17,
             <1>18, <1>19, <1>20 DEF IInv, Types

\* Who signs in has a row.
LEMMA SignInKeeps ==
    ASSUME IInv, NEW e \in Email, SignIn(e) PROVE IInv'
PROOF
  <1>1. FetchUsers({})
    BY DEF SignIn
  <1>2. CallType
    BY DEF IInv, Types
  <1>3. /\ CallType'
        /\ \E d \in Call : /\ d.kind = "list" /\ d.step = "asked"
                         /\ calls' = (calls \ {}) \cup {d}
        /\ crossed' = (\E x \in calls : x.kind = "list")
        /\ isLoading' = TRUE /\ fetchError' = FALSE
    BY <1>1, <1>2, FetchEffect
  <1>4. PICK d \in Call : d.kind = "list" /\ d.step = "asked" /\ calls' = (calls \ {}) \cup {d}
    BY <1>3
  <1>5. \A x \in calls' : x \in calls \/ x = d
    BY <1>4
  <1>6. d \in calls'
    BY <1>4
  <1>11. TableType'
    BY DEF IInv, Types, TableType, SignIn, table, listVars, dialogVars, knownVars
  <1>12. PlainType'
    BY DEF IInv, Types, PlainType, SignIn, table, listVars, dialogVars, knownVars
  <1>13. FlagType'
    BY <1>3 DEF IInv, Types, FlagType, SignIn, table, listVars, dialogVars, knownVars
  <1>14. CountType'
    BY DEF IInv, Types, CountType, SignIn, table, listVars, dialogVars, knownVars
  <1>15. CallType'
    BY <1>3 DEF IInv, Types, CallType, SignIn, table, listVars, dialogVars, knownVars
  <1>16. Settled'
    BY <1>3, AccountsAssumption DEF IInv, Settled, SuperAdminStands, SignIn, table, listVars, dialogVars, knownVars
  <1>17. Effects'
    BY <1>4, <1>5 DEF IInv, Effects, SignIn, table, listVars, dialogVars, knownVars
  <1>18. OneList'
    BY <1>3, <1>4, <1>5 DEF IInv, OneList, SignIn, table, listVars, dialogVars, knownVars
  <1>19. ListKnows'
    BY <1>3, <1>4, <1>5 DEF IInv, ListKnows, SignIn, table, listVars, dialogVars, knownVars
  <1>20. ConfirmedIsListed'
    BY <1>4, <1>6 DEF IInv, ConfirmedIsListed, Lists, SignIn, table, listVars, dialogVars, knownVars
  <1> QED BY <1>11, <1>12, <1>13, <1>14, <1>15, <1>16, <1>17,
             <1>18, <1>19, <1>20 DEF IInv, Types

\* A list is asked for when none is under way, or counts as overlapping.
LEMMA TryToReconnectKeeps ==
    ASSUME IInv, TryToReconnect PROVE IInv'
PROOF
  <1>1. FetchUsers({})
    BY DEF TryToReconnect
  <1>2. CallType
    BY DEF IInv, Types
  <1>3. /\ CallType'
        /\ \E d \in Call : /\ d.kind = "list" /\ d.step = "asked"
                         /\ calls' = (calls \ {}) \cup {d}
        /\ crossed' = (\E x \in calls : x.kind = "list")
        /\ isLoading' = TRUE /\ fetchError' = FALSE
    BY <1>1, <1>2, FetchEffect
  <1>4. PICK d \in Call : d.kind = "list" /\ d.step = "asked" /\ calls' = (calls \ {}) \cup {d}
    BY <1>3
  <1>5. \A x \in calls' : x \in calls \/ x = d
    BY <1>4
  <1>6. d \in calls'
    BY <1>4
  <1>11. TableType'
    BY DEF IInv, Types, TableType, TryToReconnect, table, listVars, dialogVars, knownVars
  <1>12. PlainType'
    BY DEF IInv, Types, PlainType, TryToReconnect, table, listVars, dialogVars, knownVars
  <1>13. FlagType'
    BY <1>3 DEF IInv, Types, FlagType, TryToReconnect, table, listVars, dialogVars, knownVars
  <1>14. CountType'
    BY DEF IInv, Types, CountType, TryToReconnect, table, listVars, dialogVars, knownVars
  <1>15. CallType'
    BY <1>3 DEF IInv, Types, CallType, TryToReconnect, table, listVars, dialogVars, knownVars
  <1>16. Settled'
    BY <1>3 DEF IInv, Settled, SuperAdminStands, TryToReconnect, table, listVars, dialogVars, knownVars
  <1>17. Effects'
    BY <1>4, <1>5 DEF IInv, Effects, TryToReconnect, table, listVars, dialogVars, knownVars
  <1>18. OneList'
    BY <1>3, <1>4, <1>5 DEF IInv, OneList, TryToReconnect, table, listVars, dialogVars, knownVars
  <1>19. ListKnows'
    BY <1>3, <1>4, <1>5 DEF IInv, ListKnows, TryToReconnect, table, listVars, dialogVars, knownVars
  <1>20. ConfirmedIsListed'
    BY <1>4, <1>6 DEF IInv, ConfirmedIsListed, Lists, TryToReconnect, table, listVars, dialogVars, knownVars
  <1> QED BY <1>11, <1>12, <1>13, <1>14, <1>15, <1>16, <1>17,
             <1>18, <1>19, <1>20 DEF IInv, Types

\* A deactivation that is asked for is no list.
LEMMA HandleDeactivateKeeps ==
    ASSUME IInv, NEW e \in Email, HandleDeactivate(e) PROVE IInv'
PROOF
  <1>0. me # None
    BY DEF HandleDeactivate, TableVisible
  <1>1. Ask("off", e)
    BY DEF HandleDeactivate
  <1>2. CallType
    BY DEF IInv, Types
  <1>3. /\ CallType'
        /\ \E d \in Call : d.kind = "off" /\ d.step = "asked" /\ d.email = e /\ calls' = calls \cup {d}
    BY <1>1, <1>2, AskEffect
  <1>4. PICK d \in Call : d.kind = "off" /\ d.step = "asked" /\ d.email = e /\ calls' = calls \cup {d}
    BY <1>3
  <1>11. TableType'
    BY DEF IInv, Types, TableType, HandleDeactivate, table, listVars, dialogVars, knownVars
  <1>12. PlainType'
    BY DEF IInv, Types, PlainType, HandleDeactivate, table, listVars, dialogVars, knownVars
  <1>13. FlagType'
    BY Zenon DEF IInv, Types, FlagType, HandleDeactivate, table, listVars, dialogVars, knownVars
  <1>14. CountType'
    BY CountsCount DEF IInv, Types, CountType, HandleDeactivate, table, listVars, dialogVars, knownVars
  <1>15. CallType'
    BY <1>3 DEF IInv, Types, CallType, HandleDeactivate, table, listVars, dialogVars, knownVars
  <1>16. Settled'
    BY <1>0 DEF IInv, Settled, SuperAdminStands, HandleDeactivate, table, listVars, dialogVars, knownVars
  <1>17. Effects'
    BY <1>4 DEF IInv, Effects, HandleDeactivate, table, listVars, dialogVars, knownVars
  <1>18. OneList'
    BY <1>4 DEF IInv, OneList, HandleDeactivate, table, listVars, dialogVars, knownVars
  <1>19. ListKnows'
    BY <1>4 DEF IInv, ListKnows, HandleDeactivate, table, listVars, dialogVars, knownVars
  <1>20. ConfirmedIsListed'
    BY <1>4 DEF IInv, ConfirmedIsListed, Lists, HandleDeactivate, table, listVars, dialogVars, knownVars
  <1> QED BY <1>11, <1>12, <1>13, <1>14, <1>15, <1>16, <1>17,
             <1>18, <1>19, <1>20 DEF IInv, Types

\* The dialog opens and closes beside the list.
LEMMA OpenModalKeeps ==
    ASSUME IInv, OpenModal PROVE IInv'
PROOF
  <1>11. TableType'
    BY DEF IInv, Types, TableType, OpenModal, table, listVars, dialogVars, knownVars
  <1>12. PlainType'
    BY DEF IInv, Types, PlainType, OpenModal, table, listVars, dialogVars, knownVars
  <1>13. FlagType'
    BY Zenon DEF IInv, Types, FlagType, OpenModal, table, listVars, dialogVars, knownVars
  <1>14. CountType'
    BY CountsCount DEF IInv, Types, CountType, OpenModal, table, listVars, dialogVars, knownVars
  <1>15. CallType'
    BY DEF IInv, Types, CallType, OpenModal, table, listVars, dialogVars, knownVars
  <1>16. Settled'
    BY DEF IInv, Settled, SuperAdminStands, OpenModal, table, listVars, dialogVars, knownVars
  <1>17. Effects'
    BY DEF IInv, Effects, OpenModal, table, listVars, dialogVars, knownVars
  <1>18. OneList'
    BY DEF IInv, OneList, OpenModal, table, listVars, dialogVars, knownVars
  <1>19. ListKnows'
    BY DEF IInv, ListKnows, OpenModal, table, listVars, dialogVars, knownVars
  <1>20. ConfirmedIsListed'
    BY DEF IInv, ConfirmedIsListed, Lists, OpenModal, table, listVars, dialogVars, knownVars
  <1> QED BY <1>11, <1>12, <1>13, <1>14, <1>15, <1>16, <1>17,
             <1>18, <1>19, <1>20 DEF IInv, Types

\* The dialog opens and closes beside the list.
LEMMA HandleModalCloseKeeps ==
    ASSUME IInv, HandleModalClose PROVE IInv'
PROOF
  <1>11. TableType'
    BY DEF IInv, Types, TableType, HandleModalClose, table, listVars, dialogVars, knownVars
  <1>12. PlainType'
    BY DEF IInv, Types, PlainType, HandleModalClose, table, listVars, dialogVars, knownVars
  <1>13. FlagType'
    BY Zenon DEF IInv, Types, FlagType, HandleModalClose, table, listVars, dialogVars, knownVars
  <1>14. CountType'
    BY CountsCount DEF IInv, Types, CountType, HandleModalClose, table, listVars, dialogVars, knownVars
  <1>15. CallType'
    BY DEF IInv, Types, CallType, HandleModalClose, table, listVars, dialogVars, knownVars
  <1>16. Settled'
    BY DEF IInv, Settled, SuperAdminStands, HandleModalClose, table, listVars, dialogVars, knownVars
  <1>17. Effects'
    BY DEF IInv, Effects, HandleModalClose, table, listVars, dialogVars, knownVars
  <1>18. OneList'
    BY DEF IInv, OneList, HandleModalClose, table, listVars, dialogVars, knownVars
  <1>19. ListKnows'
    BY DEF IInv, ListKnows, HandleModalClose, table, listVars, dialogVars, knownVars
  <1>20. ConfirmedIsListed'
    BY DEF IInv, ConfirmedIsListed, Lists, HandleModalClose, table, listVars, dialogVars, knownVars
  <1> QED BY <1>11, <1>12, <1>13, <1>14, <1>15, <1>16, <1>17,
             <1>18, <1>19, <1>20 DEF IInv, Types

\* A field of the dialog changes.
LEMMA SetEmailKeeps ==
    ASSUME IInv, NEW e \in Email, SetEmail(e) PROVE IInv'
PROOF
  <1>11. TableType'
    BY DEF IInv, Types, TableType, SetEmail, table, listVars, dialogVars, knownVars
  <1>12. PlainType'
    BY DEF IInv, Types, PlainType, SetEmail, table, listVars, dialogVars, knownVars
  <1>13. FlagType'
    BY Zenon DEF IInv, Types, FlagType, SetEmail, table, listVars, dialogVars, knownVars
  <1>14. CountType'
    BY DEF IInv, Types, CountType, SetEmail, table, listVars, dialogVars, knownVars
  <1>15. CallType'
    BY DEF IInv, Types, CallType, SetEmail, table, listVars, dialogVars, knownVars
  <1>16. Settled'
    BY DEF IInv, Settled, SuperAdminStands, SetEmail, table, listVars, dialogVars, knownVars
  <1>17. Effects'
    BY DEF IInv, Effects, SetEmail, table, listVars, dialogVars, knownVars
  <1>18. OneList'
    BY DEF IInv, OneList, SetEmail, table, listVars, dialogVars, knownVars
  <1>19. ListKnows'
    BY DEF IInv, ListKnows, SetEmail, table, listVars, dialogVars, knownVars
  <1>20. ConfirmedIsListed'
    BY DEF IInv, ConfirmedIsListed, Lists, SetEmail, table, listVars, dialogVars, knownVars
  <1> QED BY <1>11, <1>12, <1>13, <1>14, <1>15, <1>16, <1>17,
             <1>18, <1>19, <1>20 DEF IInv, Types

\* A submission is no list.
LEMMA HandleSubmitKeeps ==
    ASSUME IInv, HandleSubmit PROVE IInv'
PROOF
  <1>0. email \in Email
    BY DEF IInv, Types, PlainType, HandleSubmit
  <1>1. Ask("new", email)
    BY DEF HandleSubmit
  <1>2. CallType
    BY DEF IInv, Types
  <1>3. /\ CallType'
        /\ \E d \in Call : d.kind = "new" /\ d.step = "asked" /\ d.email = email /\ calls' = calls \cup {d}
    BY <1>1, <1>2, AskEffect, <1>0
  <1>4. PICK d \in Call : d.kind = "new" /\ d.step = "asked" /\ d.email = email /\ calls' = calls \cup {d}
    BY <1>3
  <1>11. TableType'
    BY DEF IInv, Types, TableType, HandleSubmit, table, listVars, dialogVars, knownVars
  <1>12. PlainType'
    BY DEF IInv, Types, PlainType, HandleSubmit, table, listVars, dialogVars, knownVars
  <1>13. FlagType'
    BY Zenon DEF IInv, Types, FlagType, HandleSubmit, table, listVars, dialogVars, knownVars
  <1>14. CountType'
    BY CountsCount DEF IInv, Types, CountType, HandleSubmit, table, listVars, dialogVars, knownVars
  <1>15. CallType'
    BY <1>3 DEF IInv, Types, CallType, HandleSubmit, table, listVars, dialogVars, knownVars
  <1>16. Settled'
    BY DEF IInv, Settled, SuperAdminStands, HandleSubmit, table, listVars, dialogVars, knownVars
  <1>17. Effects'
    BY <1>0, <1>4 DEF IInv, Effects, HandleSubmit, table, listVars, dialogVars, knownVars
  <1>18. OneList'
    BY <1>4 DEF IInv, OneList, HandleSubmit, table, listVars, dialogVars, knownVars
  <1>19. ListKnows'
    BY <1>4 DEF IInv, ListKnows, HandleSubmit, table, listVars, dialogVars, knownVars
  <1>20. ConfirmedIsListed'
    BY <1>4 DEF IInv, ConfirmedIsListed, Lists, HandleSubmit, table, listVars, dialogVars, knownVars
  <1> QED BY <1>11, <1>12, <1>13, <1>14, <1>15, <1>16, <1>17,
             <1>18, <1>19, <1>20 DEF IInv, Types

\* A list that is answered now knows everything that happened.
LEMMA ServeListKeeps ==
    ASSUME IInv, NEW c \in calls, ServeList(c) PROVE IInv'
PROOF
  <1>0. Table \in Tables
    BY Zenon DEF IInv, Types, TableType, Table, Tables
  <1>01. Table.off = off /\ Table.rows = rows
    BY DEF Table
  <1>1. CallType
    BY DEF IInv, Types
  <1>2. PICK step \in {"asked", "read", "done", "refused", "failed"}, snap \in Tables :
            Move(c, step, snap) /\ step = "done" /\ snap = Table /\ c.kind = "list"
    BY NoTableIsTable, <1>0 DEF ServeList
  <1>3. /\ CallType'
        /\ calls' = (calls \ {c}) \cup {At(c, step, snap)}
        /\ At(c, step, snap).kind = c.kind /\ At(c, step, snap).email = c.email
        /\ At(c, step, snap).step = step /\ At(c, step, snap).snap = snap
    BY <1>1, <1>2, MoveEffect
  <1>4. PICK d : d = At(c, step, snap)
    OBVIOUS
  <1>5. /\ calls' = (calls \ {c}) \cup {d}
        /\ d.kind = c.kind /\ d.email = c.email /\ d.step = step /\ d.snap = snap
    BY <1>3, <1>4
  <1>11. TableType'
    BY DEF IInv, Types, TableType, ServeList, table, listVars, dialogVars, knownVars
  <1>12. PlainType'
    BY DEF IInv, Types, PlainType, ServeList, table, listVars, dialogVars, knownVars
  <1>13. FlagType'
    BY Zenon DEF IInv, Types, FlagType, ServeList, table, listVars, dialogVars, knownVars
  <1>14. CountType'
    BY DEF IInv, Types, CountType, ServeList, table, listVars, dialogVars, knownVars
  <1>15. CallType'
    BY <1>3 DEF IInv, Types, CallType, ServeList, table, listVars, dialogVars, knownVars
  <1>16. Settled'
    BY <1>5 DEF IInv, Settled, SuperAdminStands, ServeList, table, listVars, dialogVars, knownVars
  <1>17. Effects'
    BY <1>2, <1>5 DEF IInv, Effects, ServeList, table, listVars, dialogVars, knownVars
  <1>18. OneList'
    BY <1>5 DEF IInv, OneList, ServeList, table, listVars, dialogVars, knownVars
  <1>19. ListKnows'
    <2>1. knownOff \subseteq Table.off /\ knownNew \subseteq Table.rows
      BY <1>01 DEF IInv, Effects
    <2> QED BY <2>1, <1>2, <1>5 DEF IInv, ListKnows, ServeList, listVars, knownVars
  <1>20. ConfirmedIsListed'
    BY <1>5 DEF IInv, ConfirmedIsListed, Lists, ServeList, table, listVars, dialogVars, knownVars
  <1> QED BY <1>11, <1>12, <1>13, <1>14, <1>15, <1>16, <1>17,
             <1>18, <1>19, <1>20 DEF IInv, Types

\* Looking at the target changes nothing.
LEMMA ReadTargetKeeps ==
    ASSUME IInv, NEW c \in calls, ReadTarget(c) PROVE IInv'
PROOF
  <1>1. CallType
    BY DEF IInv, Types
  <1>2. PICK step \in {"asked", "read", "done", "refused", "failed"}, snap \in Tables :
            Move(c, step, snap) /\ step \in {"read", "refused"} /\ c.kind = "off"
    BY NoTableIsTable DEF ReadTarget
  <1>3. /\ CallType'
        /\ calls' = (calls \ {c}) \cup {At(c, step, snap)}
        /\ At(c, step, snap).kind = c.kind /\ At(c, step, snap).email = c.email
        /\ At(c, step, snap).step = step /\ At(c, step, snap).snap = snap
    BY <1>1, <1>2, MoveEffect
  <1>4. PICK d : d = At(c, step, snap)
    OBVIOUS
  <1>5. /\ calls' = (calls \ {c}) \cup {d}
        /\ d.kind = c.kind /\ d.email = c.email /\ d.step = step /\ d.snap = snap
    BY <1>3, <1>4
  <1>11. TableType'
    BY DEF IInv, Types, TableType, ReadTarget, table, listVars, dialogVars, knownVars
  <1>12. PlainType'
    BY DEF IInv, Types, PlainType, ReadTarget, table, listVars, dialogVars, knownVars
  <1>13. FlagType'
    BY Zenon DEF IInv, Types, FlagType, ReadTarget, table, listVars, dialogVars, knownVars
  <1>14. CountType'
    BY DEF IInv, Types, CountType, ReadTarget, table, listVars, dialogVars, knownVars
  <1>15. CallType'
    BY <1>3 DEF IInv, Types, CallType, ReadTarget, table, listVars, dialogVars, knownVars
  <1>16. Settled'
    BY <1>5 DEF IInv, Settled, SuperAdminStands, ReadTarget, table, listVars, dialogVars, knownVars
  <1>17. Effects'
    BY <1>2, <1>5 DEF IInv, Effects, ReadTarget, table, listVars, dialogVars, knownVars
  <1>18. OneList'
    BY <1>5 DEF IInv, OneList, ReadTarget, table, listVars, dialogVars, knownVars
  <1>19. ListKnows'
    BY <1>2, <1>5 DEF IInv, ListKnows, ReadTarget, table, listVars, dialogVars, knownVars
  <1>20. ConfirmedIsListed'
    BY <1>5 DEF IInv, ConfirmedIsListed, Lists, ReadTarget, table, listVars, dialogVars, knownVars
  <1> QED BY <1>11, <1>12, <1>13, <1>14, <1>15, <1>16, <1>17,
             <1>18, <1>19, <1>20 DEF IInv, Types

\* The UPDATE spares the super-admin, and what is done is off.
LEMMA DeactivateKeeps ==
    ASSUME IInv, NEW c \in calls, Deactivate(c) PROVE IInv'
PROOF
  <1>1. CallType
    BY DEF IInv, Types
  <1>2. PICK step \in {"asked", "read", "done", "refused", "failed"}, snap \in Tables :
            Move(c, step, snap) /\ step \in {"done", "failed", "refused"} /\ c.kind = "off" /\ (step = "done" => off' = off \cup {c.email})
    BY NoTableIsTable DEF Deactivate
  <1>3. /\ CallType'
        /\ calls' = (calls \ {c}) \cup {At(c, step, snap)}
        /\ At(c, step, snap).kind = c.kind /\ At(c, step, snap).email = c.email
        /\ At(c, step, snap).step = step /\ At(c, step, snap).snap = snap
    BY <1>1, <1>2, MoveEffect
  <1>4. PICK d : d = At(c, step, snap)
    OBVIOUS
  <1>5. /\ calls' = (calls \ {c}) \cup {d}
        /\ d.kind = c.kind /\ d.email = c.email /\ d.step = step /\ d.snap = snap
    BY <1>3, <1>4
  <1>11. TableType'
    BY <1>2 DEF IInv, Types, TableType, Deactivate, table, listVars, dialogVars, knownVars
  <1>12. PlainType'
    BY DEF IInv, Types, PlainType, Deactivate, table, listVars, dialogVars, knownVars
  <1>13. FlagType'
    BY Zenon DEF IInv, Types, FlagType, Deactivate, table, listVars, dialogVars, knownVars
  <1>14. CountType'
    BY DEF IInv, Types, CountType, Deactivate, table, listVars, dialogVars, knownVars
  <1>15. CallType'
    BY <1>3 DEF IInv, Types, CallType, Deactivate, table, listVars, dialogVars, knownVars
  <1>16. Settled'
    BY <1>2, <1>5 DEF IInv, Settled, SuperAdminStands, Deactivate, table, listVars, dialogVars, knownVars
  <1>17. Effects'
    BY <1>2, <1>5 DEF IInv, Effects, Deactivate, table, listVars, dialogVars, knownVars
  <1>18. OneList'
    BY <1>5 DEF IInv, OneList, Deactivate, table, listVars, dialogVars, knownVars
  <1>19. ListKnows'
    BY <1>2, <1>5 DEF IInv, ListKnows, Deactivate, table, listVars, dialogVars, knownVars
  <1>20. ConfirmedIsListed'
    BY <1>5 DEF IInv, ConfirmedIsListed, Lists, Deactivate, table, listVars, dialogVars, knownVars
  <1> QED BY <1>11, <1>12, <1>13, <1>14, <1>15, <1>16, <1>17,
             <1>18, <1>19, <1>20 DEF IInv, Types

\* Only an email without a row gets one, and the seed has one by then.
LEMMA CreateKeeps ==
    ASSUME IInv, NEW c \in calls, Create(c) PROVE IInv'
PROOF
  <1>1. CallType
    BY DEF IInv, Types
  <1>2. PICK step \in {"asked", "read", "done", "refused", "failed"}, snap \in Tables :
            Move(c, step, snap) /\ step \in {"done", "refused"} /\ c.kind = "new" /\ (step = "done" => rows' = rows \cup {c.email})
    BY NoTableIsTable DEF Create
  <1>3. /\ CallType'
        /\ calls' = (calls \ {c}) \cup {At(c, step, snap)}
        /\ At(c, step, snap).kind = c.kind /\ At(c, step, snap).email = c.email
        /\ At(c, step, snap).step = step /\ At(c, step, snap).snap = snap
    BY <1>1, <1>2, MoveEffect
  <1>4. PICK d : d = At(c, step, snap)
    OBVIOUS
  <1>5. /\ calls' = (calls \ {c}) \cup {d}
        /\ d.kind = c.kind /\ d.email = c.email /\ d.step = step /\ d.snap = snap
    BY <1>3, <1>4
  <1>11. TableType'
    <2>1. c.email \in Email
      BY <1>2 DEF IInv, Effects
    <2> QED BY <2>1 DEF IInv, Types, TableType, Create
  <1>12. PlainType'
    BY DEF IInv, Types, PlainType, Create, table, listVars, dialogVars, knownVars
  <1>13. FlagType'
    BY Zenon DEF IInv, Types, FlagType, Create, table, listVars, dialogVars, knownVars
  <1>14. CountType'
    BY DEF IInv, Types, CountType, Create, table, listVars, dialogVars, knownVars
  <1>15. CallType'
    BY <1>3 DEF IInv, Types, CallType, Create, table, listVars, dialogVars, knownVars
  <1>16. Settled'
    BY <1>2, <1>5 DEF IInv, Settled, SuperAdminStands, Create, table, listVars, dialogVars, knownVars
  <1>17. Effects'
    BY <1>2, <1>5 DEF IInv, Effects, Create, table, listVars, dialogVars, knownVars
  <1>18. OneList'
    BY <1>5 DEF IInv, OneList, Create, table, listVars, dialogVars, knownVars
  <1>19. ListKnows'
    BY <1>2, <1>5 DEF IInv, ListKnows, Create, table, listVars, dialogVars, knownVars
  <1>20. ConfirmedIsListed'
    BY <1>5 DEF IInv, ConfirmedIsListed, Lists, Create, table, listVars, dialogVars, knownVars
  <1> QED BY <1>11, <1>12, <1>13, <1>14, <1>15, <1>16, <1>17,
             <1>18, <1>19, <1>20 DEF IInv, Types

\* A lost answer tells nothing.
LEMMA LoseKeeps ==
    ASSUME IInv, NEW c \in calls, Lose(c) PROVE IInv'
PROOF
  <1>1. CallType
    BY DEF IInv, Types
  <1>2. PICK step \in {"asked", "read", "done", "refused", "failed"}, snap \in Tables :
            Move(c, step, snap) /\ step = "failed"
    BY NoTableIsTable DEF Lose
  <1>3. /\ CallType'
        /\ calls' = (calls \ {c}) \cup {At(c, step, snap)}
        /\ At(c, step, snap).kind = c.kind /\ At(c, step, snap).email = c.email
        /\ At(c, step, snap).step = step /\ At(c, step, snap).snap = snap
    BY <1>1, <1>2, MoveEffect
  <1>4. PICK d : d = At(c, step, snap)
    OBVIOUS
  <1>5. /\ calls' = (calls \ {c}) \cup {d}
        /\ d.kind = c.kind /\ d.email = c.email /\ d.step = step /\ d.snap = snap
    BY <1>3, <1>4
  <1>11. TableType'
    BY DEF IInv, Types, TableType, Lose, table, listVars, dialogVars, knownVars
  <1>12. PlainType'
    BY DEF IInv, Types, PlainType, Lose, table, listVars, dialogVars, knownVars
  <1>13. FlagType'
    BY Zenon DEF IInv, Types, FlagType, Lose, table, listVars, dialogVars, knownVars
  <1>14. CountType'
    BY CountsCount DEF IInv, Types, CountType, Lose, table, listVars, dialogVars, knownVars
  <1>15. CallType'
    BY <1>3 DEF IInv, Types, CallType, Lose, table, listVars, dialogVars, knownVars
  <1>16. Settled'
    BY <1>5 DEF IInv, Settled, SuperAdminStands, Lose, table, listVars, dialogVars, knownVars
  <1>17. Effects'
    BY <1>2, <1>5 DEF IInv, Effects, Lose, table, listVars, dialogVars, knownVars
  <1>18. OneList'
    BY <1>5 DEF IInv, OneList, Lose, table, listVars, dialogVars, knownVars
  <1>19. ListKnows'
    BY <1>2, <1>5 DEF IInv, ListKnows, Lose, table, listVars, dialogVars, knownVars
  <1>20. ConfirmedIsListed'
    BY <1>5 DEF IInv, ConfirmedIsListed, Lists, Lose, table, listVars, dialogVars, knownVars
  <1> QED BY <1>11, <1>12, <1>13, <1>14, <1>15, <1>16, <1>17,
             <1>18, <1>19, <1>20 DEF IInv, Types

\* Another admin's account is one more row.
LEMMA OtherCreatesKeeps ==
    ASSUME IInv, NEW e \in Email, OtherCreates(e) PROVE IInv'
PROOF
  <1>11. TableType'
    BY DEF IInv, Types, TableType, OtherCreates, table, listVars, dialogVars, knownVars
  <1>12. PlainType'
    BY DEF IInv, Types, PlainType, OtherCreates, table, listVars, dialogVars, knownVars
  <1>13. FlagType'
    BY Zenon DEF IInv, Types, FlagType, OtherCreates, table, listVars, dialogVars, knownVars
  <1>14. CountType'
    BY CountsCount DEF IInv, Types, CountType, OtherCreates, table, listVars, dialogVars, knownVars
  <1>15. CallType'
    BY DEF IInv, Types, CallType, OtherCreates, table, listVars, dialogVars, knownVars
  <1>16. Settled'
    BY DEF IInv, Settled, SuperAdminStands, OtherCreates, table, listVars, dialogVars, knownVars
  <1>17. Effects'
    BY DEF IInv, Effects, OtherCreates, table, listVars, dialogVars, knownVars
  <1>18. OneList'
    BY DEF IInv, OneList, OtherCreates, table, listVars, dialogVars, knownVars
  <1>19. ListKnows'
    BY DEF IInv, ListKnows, OtherCreates, table, listVars, dialogVars, knownVars
  <1>20. ConfirmedIsListed'
    BY DEF IInv, ConfirmedIsListed, Lists, OtherCreates, table, listVars, dialogVars, knownVars
  <1> QED BY <1>11, <1>12, <1>13, <1>14, <1>15, <1>16, <1>17,
             <1>18, <1>19, <1>20 DEF IInv, Types

\* Another admin spares the super-admin too.
LEMMA OtherDeactivatesKeeps ==
    ASSUME IInv, NEW e \in Email, OtherDeactivates(e) PROVE IInv'
PROOF
  <1>11. TableType'
    BY DEF IInv, Types, TableType, OtherDeactivates, table, listVars, dialogVars, knownVars
  <1>12. PlainType'
    BY DEF IInv, Types, PlainType, OtherDeactivates, table, listVars, dialogVars, knownVars
  <1>13. FlagType'
    BY Zenon DEF IInv, Types, FlagType, OtherDeactivates, table, listVars, dialogVars, knownVars
  <1>14. CountType'
    BY CountsCount DEF IInv, Types, CountType, OtherDeactivates, table, listVars, dialogVars, knownVars
  <1>15. CallType'
    BY DEF IInv, Types, CallType, OtherDeactivates, table, listVars, dialogVars, knownVars
  <1>16. Settled'
    BY DEF IInv, Settled, SuperAdminStands, OtherDeactivates, table, listVars, dialogVars, knownVars
  <1>17. Effects'
    BY DEF IInv, Effects, OtherDeactivates, table, listVars, dialogVars, knownVars
  <1>18. OneList'
    BY DEF IInv, OneList, OtherDeactivates, table, listVars, dialogVars, knownVars
  <1>19. ListKnows'
    BY DEF IInv, ListKnows, OtherDeactivates, table, listVars, dialogVars, knownVars
  <1>20. ConfirmedIsListed'
    BY DEF IInv, ConfirmedIsListed, Lists, OtherDeactivates, table, listVars, dialogVars, knownVars
  <1> QED BY <1>11, <1>12, <1>13, <1>14, <1>15, <1>16, <1>17,
             <1>18, <1>19, <1>20 DEF IInv, Types

\* The only list under way knows every success.
LEMMA ListedKeeps ==
    ASSUME IInv, NEW c \in calls, Listed(c) PROVE IInv'
PROOF
  <1>11. TableType'
    BY DEF IInv, Types, TableType, Listed, table, listVars, dialogVars, knownVars
  <1>12. PlainType'
    <2>1. c.snap \in Tables
      BY DEF IInv, Types, CallType, Call
    <2> QED BY <2>1 DEF IInv, Types, PlainType, Listed, dialogVars, knownVars
  <1>13. FlagType'
    BY Zenon DEF IInv, Types, FlagType, Listed, table, listVars, dialogVars, knownVars
  <1>14. CountType'
    BY DEF IInv, Types, CountType, Listed, table, listVars, dialogVars, knownVars
  <1>15. CallType'
    BY DEF IInv, Types, CallType, Listed, table, listVars, dialogVars, knownVars
  <1>16. Settled'
    BY DEF IInv, Settled, SuperAdminStands, Listed, table, listVars, dialogVars, knownVars
  <1>17. Effects'
    BY DEF IInv, Effects, Listed, table, listVars, dialogVars, knownVars
  <1>18. OneList'
    BY DEF IInv, OneList, Listed, table, listVars, dialogVars, knownVars
  <1>19. ListKnows'
    BY DEF IInv, ListKnows, Listed, table, listVars, dialogVars, knownVars
  <1>20. ConfirmedIsListed'
    <2>1. ~crossed => knownOff \subseteq c.snap.off /\ knownNew \subseteq c.snap.rows
      BY DEF IInv, ListKnows, Listed
    <2> QED BY <2>1 DEF ConfirmedIsListed, Listed, knownVars
  <1> QED BY <1>11, <1>12, <1>13, <1>14, <1>15, <1>16, <1>17,
             <1>18, <1>19, <1>20 DEF IInv, Types

\* A list that did not come leaves the error card.
LEMMA NotListedKeeps ==
    ASSUME IInv, NEW c \in calls, NotListed(c) PROVE IInv'
PROOF
  <1>11. TableType'
    BY DEF IInv, Types, TableType, NotListed, table, listVars, dialogVars, knownVars
  <1>12. PlainType'
    BY NoTableIsTable DEF IInv, Types, PlainType, NotListed, table, listVars, dialogVars, knownVars
  <1>13. FlagType'
    BY Zenon DEF IInv, Types, FlagType, NotListed, table, listVars, dialogVars, knownVars
  <1>14. CountType'
    BY DEF IInv, Types, CountType, NotListed, table, listVars, dialogVars, knownVars
  <1>15. CallType'
    BY DEF IInv, Types, CallType, NotListed, table, listVars, dialogVars, knownVars
  <1>16. Settled'
    BY DEF IInv, Settled, SuperAdminStands, NotListed, table, listVars, dialogVars, knownVars
  <1>17. Effects'
    BY DEF IInv, Effects, NotListed, table, listVars, dialogVars, knownVars
  <1>18. OneList'
    BY DEF IInv, OneList, NotListed, table, listVars, dialogVars, knownVars
  <1>19. ListKnows'
    BY DEF IInv, ListKnows, NotListed, table, listVars, dialogVars, knownVars
  <1>20. ConfirmedIsListed'
    BY DEF IInv, ConfirmedIsListed, Lists, NotListed, table, listVars, dialogVars, knownVars
  <1> QED BY <1>11, <1>12, <1>13, <1>14, <1>15, <1>16, <1>17,
             <1>18, <1>19, <1>20 DEF IInv, Types

\* Nothing comes of a deactivation that failed.
LEMMA NotDeactivatedKeeps ==
    ASSUME IInv, NEW c \in calls, NotDeactivated(c) PROVE IInv'
PROOF
  <1>11. TableType'
    BY DEF IInv, Types, TableType, NotDeactivated, table, listVars, dialogVars, knownVars
  <1>12. PlainType'
    BY DEF IInv, Types, PlainType, NotDeactivated, table, listVars, dialogVars, knownVars
  <1>13. FlagType'
    BY Zenon DEF IInv, Types, FlagType, NotDeactivated, table, listVars, dialogVars, knownVars
  <1>14. CountType'
    BY DEF IInv, Types, CountType, NotDeactivated, table, listVars, dialogVars, knownVars
  <1>15. CallType'
    BY DEF IInv, Types, CallType, NotDeactivated, table, listVars, dialogVars, knownVars
  <1>16. Settled'
    BY DEF IInv, Settled, SuperAdminStands, NotDeactivated, table, listVars, dialogVars, knownVars
  <1>17. Effects'
    BY DEF IInv, Effects, NotDeactivated, table, listVars, dialogVars, knownVars
  <1>18. OneList'
    BY DEF IInv, OneList, NotDeactivated, table, listVars, dialogVars, knownVars
  <1>19. ListKnows'
    BY DEF IInv, ListKnows, NotDeactivated, table, listVars, dialogVars, knownVars
  <1>20. ConfirmedIsListed'
    BY DEF IInv, ConfirmedIsListed, Lists, NotDeactivated, table, listVars, dialogVars, knownVars
  <1> QED BY <1>11, <1>12, <1>13, <1>14, <1>15, <1>16, <1>17,
             <1>18, <1>19, <1>20 DEF IInv, Types

\* A submission that failed leaves the dialog as it is.
LEMMA NotCreatedKeeps ==
    ASSUME IInv, NEW c \in calls, NotCreated(c) PROVE IInv'
PROOF
  <1>11. TableType'
    BY DEF IInv, Types, TableType, NotCreated, table, listVars, dialogVars, knownVars
  <1>12. PlainType'
    BY DEF IInv, Types, PlainType, NotCreated, table, listVars, dialogVars, knownVars
  <1>13. FlagType'
    BY Zenon DEF IInv, Types, FlagType, NotCreated, table, listVars, dialogVars, knownVars
  <1>14. CountType'
    BY DEF IInv, Types, CountType, NotCreated, table, listVars, dialogVars, knownVars
  <1>15. CallType'
    BY DEF IInv, Types, CallType, NotCreated, table, listVars, dialogVars, knownVars
  <1>16. Settled'
    BY DEF IInv, Settled, SuperAdminStands, NotCreated, table, listVars, dialogVars, knownVars
  <1>17. Effects'
    BY DEF IInv, Effects, NotCreated, table, listVars, dialogVars, knownVars
  <1>18. OneList'
    BY DEF IInv, OneList, NotCreated, table, listVars, dialogVars, knownVars
  <1>19. ListKnows'
    BY DEF IInv, ListKnows, NotCreated, table, listVars, dialogVars, knownVars
  <1>20. ConfirmedIsListed'
    BY DEF IInv, ConfirmedIsListed, Lists, NotCreated, table, listVars, dialogVars, knownVars
  <1> QED BY <1>11, <1>12, <1>13, <1>14, <1>15, <1>16, <1>17,
             <1>18, <1>19, <1>20 DEF IInv, Types

\* The list is asked for again after a success.
LEMMA DeactivatedKeeps ==
    ASSUME IInv, NEW c \in calls, Deactivated(c) PROVE IInv'
PROOF
  <1>0. c.email \in Email /\ c.email \in off /\ c.kind = "off" /\ me # None
    BY DEF IInv, Types, TableType, Effects, Settled, Deactivated
  <1>1. FetchUsers({c})
    BY DEF Deactivated
  <1>2. CallType
    BY DEF IInv, Types
  <1>3. /\ CallType'
        /\ \E d \in Call : /\ d.kind = "list" /\ d.step = "asked"
                         /\ calls' = (calls \ {c}) \cup {d}
        /\ crossed' = (\E x \in calls : x.kind = "list")
        /\ isLoading' = TRUE /\ fetchError' = FALSE
    BY <1>1, <1>2, FetchEffect
  <1>4. PICK d \in Call : d.kind = "list" /\ d.step = "asked" /\ calls' = (calls \ {c}) \cup {d}
    BY <1>3
  <1>5. \A x \in calls' : x \in calls \/ x = d
    BY <1>4
  <1>6. d \in calls'
    BY <1>4
  <1>11. TableType'
    BY DEF IInv, Types, TableType, Deactivated, table, listVars, dialogVars, knownVars
  <1>12. PlainType'
    <2>1. c.email \in Email
      BY <1>0
    <2> QED BY <2>1 DEF IInv, Types, PlainType, Deactivated, dialogVars
  <1>13. FlagType'
    BY <1>3 DEF IInv, Types, FlagType, Deactivated, table, listVars, dialogVars, knownVars
  <1>14. CountType'
    BY DEF IInv, Types, CountType, Deactivated, table, listVars, dialogVars, knownVars
  <1>15. CallType'
    BY <1>3 DEF IInv, Types, CallType, Deactivated, table, listVars, dialogVars, knownVars
  <1>16. Settled'
    BY <1>3, <1>0 DEF IInv, Settled, SuperAdminStands, Deactivated, table, listVars, dialogVars, knownVars
  <1>17. Effects'
    BY <1>0, <1>4, <1>5 DEF IInv, Effects, Deactivated, table, listVars, dialogVars, knownVars
  <1>18. OneList'
    BY <1>3, <1>4, <1>5 DEF IInv, OneList, Deactivated, table, listVars, dialogVars, knownVars
  <1>19. ListKnows'
    BY <1>3, <1>4, <1>5 DEF IInv, ListKnows, Deactivated, table, listVars, dialogVars, knownVars
  <1>20. ConfirmedIsListed'
    BY <1>4, <1>6 DEF IInv, ConfirmedIsListed, Lists, Deactivated, table, listVars, dialogVars, knownVars
  <1> QED BY <1>11, <1>12, <1>13, <1>14, <1>15, <1>16, <1>17,
             <1>18, <1>19, <1>20 DEF IInv, Types

\* The list is asked for again, and the dialog closes.
LEMMA CreatedKeeps ==
    ASSUME IInv, NEW c \in calls, Created(c) PROVE IInv'
PROOF
  <1>0. c.email \in Email /\ c.email \in rows /\ c.kind = "new" /\ me # None
    BY DEF IInv, Types, TableType, Effects, Settled, Created
  <1>1. FetchUsers({c})
    BY DEF Created
  <1>2. CallType
    BY DEF IInv, Types
  <1>3. /\ CallType'
        /\ \E d \in Call : /\ d.kind = "list" /\ d.step = "asked"
                         /\ calls' = (calls \ {c}) \cup {d}
        /\ crossed' = (\E x \in calls : x.kind = "list")
        /\ isLoading' = TRUE /\ fetchError' = FALSE
    BY <1>1, <1>2, FetchEffect
  <1>4. PICK d \in Call : d.kind = "list" /\ d.step = "asked" /\ calls' = (calls \ {c}) \cup {d}
    BY <1>3
  <1>5. \A x \in calls' : x \in calls \/ x = d
    BY <1>4
  <1>6. d \in calls'
    BY <1>4
  <1>11. TableType'
    BY DEF IInv, Types, TableType, Created, table, listVars, dialogVars, knownVars
  <1>12. PlainType'
    <2>1. c.email \in Email
      BY <1>0
    <2> QED BY <2>1 DEF IInv, Types, PlainType, Created, dialogVars
  <1>13. FlagType'
    BY <1>3 DEF IInv, Types, FlagType, Created, table, listVars, dialogVars, knownVars
  <1>14. CountType'
    BY DEF IInv, Types, CountType, Created, table, listVars, dialogVars, knownVars
  <1>15. CallType'
    BY <1>3 DEF IInv, Types, CallType, Created, table, listVars, dialogVars, knownVars
  <1>16. Settled'
    BY <1>3, <1>0 DEF IInv, Settled, SuperAdminStands, Created, table, listVars, dialogVars, knownVars
  <1>17. Effects'
    BY <1>0, <1>4, <1>5 DEF IInv, Effects, Created, table, listVars, dialogVars, knownVars
  <1>18. OneList'
    BY <1>3, <1>4, <1>5 DEF IInv, OneList, Created, table, listVars, dialogVars, knownVars
  <1>19. ListKnows'
    BY <1>3, <1>4, <1>5 DEF IInv, ListKnows, Created, table, listVars, dialogVars, knownVars
  <1>20. ConfirmedIsListed'
    BY <1>4, <1>6 DEF IInv, ConfirmedIsListed, Lists, Created, table, listVars, dialogVars, knownVars
  <1> QED BY <1>11, <1>12, <1>13, <1>14, <1>15, <1>16, <1>17,
             <1>18, <1>19, <1>20 DEF IInv, Types

-----------------------------------------------------------------------------
(* The theorems.                                                           *)

\* TypeOK is its parts.
LEMMA TypeParts == TypeOK <=> Types
PROOF
  BY DEF TypeOK, Types, TableType, PlainType, FlagType, CountType, CallType

\* Before the first backend starts there is nothing.
LEMMA Starts == Init => IInv
PROOF
  <1> SUFFICES ASSUME Init PROVE IInv
    OBVIOUS
  <1>1. TableType /\ CallType /\ FlagType
    BY DEF Init, TableType, CallType, FlagType
  <1>2. PlainType
    BY NoTableIsTable DEF Init, PlainType
  <1>3. CountType
    BY AccountsAssumption DEF Init, CountType
  <1>4. Settled /\ Effects /\ OneList /\ ListKnows /\ ConfirmedIsListed
    BY DEF Init, Settled, SuperAdminStands, Effects, OneList, ListKnows, ConfirmedIsListed
  <1> QED BY <1>1, <1>2, <1>3, <1>4 DEF IInv, Types

\* What stays the same stays right.
LEMMA Stutters == IInv /\ UNCHANGED vars => IInv'
PROOF
  BY DEF IInv, Types, TableType, PlainType, FlagType, CountType, CallType, Settled, SuperAdminStands,
     Effects, OneList, ListKnows, ConfirmedIsListed, Lists, vars, table, listVars, dialogVars, knownVars

\* Every step of the backends, the page and its calls keeps the invariant.
LEMMA Step == IInv /\ [Next]_vars => IInv'
PROOF
  <1> SUFFICES ASSUME IInv, [Next]_vars PROVE IInv'
    OBVIOUS
  <1>1. ASSUME NEW i \in Instance, Seeding(i) PROVE IInv'
    BY <1>1, SkipSeedKeeps, CountAdminsKeeps, InsertSeedKeeps, SeedFailsKeeps, RestartInstanceKeeps
       DEF Seeding
  <1>2. ASSUME NEW e \in Email,
               SignIn(e) \/ HandleDeactivate(e) \/ SetEmail(e) \/ OtherCreates(e) \/ OtherDeactivates(e)
        PROVE IInv'
    BY <1>2, SignInKeeps, HandleDeactivateKeeps, SetEmailKeeps, OtherCreatesKeeps, OtherDeactivatesKeeps
  <1>3. CASE TryToReconnect \/ OpenModal \/ HandleModalClose \/ HandleSubmit
    BY <1>3, TryToReconnectKeeps, OpenModalKeeps, HandleModalCloseKeeps, HandleSubmitKeeps
  <1>4. ASSUME NEW c \in calls, Serving(c) \/ Lose(c) PROVE IInv'
    BY <1>4, ServeListKeeps, ReadTargetKeeps, DeactivateKeeps, CreateKeeps, LoseKeeps DEF Serving
  <1>5. ASSUME NEW c \in calls, Handling(c) PROVE IInv'
    BY <1>5, ListedKeeps, NotListedKeeps, DeactivatedKeeps, NotDeactivatedKeeps, CreatedKeeps, NotCreatedKeeps
       DEF Handling
  <1> QED BY <1>1, <1>2, <1>3, <1>4, <1>5, Stutters DEF Next

\* The invariant holds in every behaviour.
THEOREM Invariance == Spec => []IInv
PROOF
  BY Starts, Step, PTL DEF Spec

\* Every variable keeps its type.
THEOREM TypeCorrect == Spec => []TypeOK
PROOF
  <1>1. IInv => TypeOK
    BY TypeParts DEF IInv
  <1> QED BY <1>1, Invariance, PTL

\* However many backends start, and whatever admins do to each other's accounts, the
\* seed's account stays the one super-admin and active (admin_seed.rs:63, admin.rs:1278).
THEOREM OneSuperAdmin == Spec => []SuperAdminStands
PROOF
  <1>1. IInv => SuperAdminStands
    BY DEF IInv, Settled
  <1> QED BY <1>1, Invariance, PTL

\* The users page lists every success it was told of, unless its own fetches overlapped
\* (users/page.tsx:62, 80).
THEOREM SuccessesListed == Spec => []ConfirmedIsListed
PROOF
  <1>1. IInv => ConfirmedIsListed
    BY DEF IInv
  <1> QED BY <1>1, Invariance, PTL
=============================================================================
