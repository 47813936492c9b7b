--------------------------- MODULE UserTokensProofs ---------------------------
(***************************************************************************)
(* The safety of the token store for every number of users, processes,     *)
(* tokens and rows, from one inductive invariant, UserTokens!IInv.  The    *)
(* step lemmas have one case per action.  Then the refinement: the table   *)
(* implements TokenVault, one slot per user, when one process at a time    *)
(* runs the callback and lookups answer.                                   *)
(***************************************************************************)
EXTENDS UserTokens, TLAPS

USE SaversAreProcs, NullIsNew

\* The initial state satisfies the invariant.
LEMMA InitIInv == Init => IInv
BY DEF Init, IInv, TypeOK, BusyProcesses, CompleteRecords, FilingsKeptApart,
       CreateIsRightUnlessRaced, DuplicatesOnlyByRace, UpdateFindsRow,
       ReadTokenKeepsGrant, Issued, RowsOf, Steps, Replies, WriteKinds, HoldingSteps

\* Every step keeps the types, and keeps busy processes and records complete:
\* a process at a holding step holds a token that was filed under its user.
LEMMA StepBase ==
  ASSUME TypeOK, BusyProcesses, CompleteRecords, FilingsKeptApart, [Next]_vars
  PROVE  TypeOK' /\ BusyProcesses' /\ CompleteRecords' /\ FilingsKeptApart'
<1> USE DEF TypeOK, BusyProcesses, CompleteRecords, FilingsKeptApart, Issued, RowsOf,
        db, provider, local, history, Steps, SaveSteps, MailSteps, Replies,
        WriteKinds, HoldingSteps
<1>1. ASSUME NEW p \in Procs, Begin(p)
      PROVE  TypeOK' /\ BusyProcesses' /\ CompleteRecords' /\ FilingsKeptApart'
  BY <1>1 DEF Begin, Start, UserTokenCallback, RevokeUserToken, TriggerMailAPI,
              ProcessUserMailActivity
<1>2. ASSUME NEW p \in Procs, Exchange(p)
      PROVE  TypeOK' /\ BusyProcesses' /\ CompleteRecords' /\ FilingsKeptApart'
  BY <1>2 DEF Exchange, Issue, Goto, Finish, Leave
<1>3. ASSUME NEW p \in Procs, LookupFound(p) \/ LookupAbsent(p)
      PROVE  TypeOK' /\ BusyProcesses' /\ CompleteRecords' /\ FilingsKeptApart'
  BY <1>3 DEF LookupFound, LookupAbsent, Goto, ReadsRows
<1>4. ASSUME NEW p \in Procs, SaveCreate(p)
      PROVE  TypeOK' /\ BusyProcesses' /\ CompleteRecords' /\ FilingsKeptApart'
  BY <1>4 DEF SaveCreate, Finish, Leave, WritesRows
<1>5. ASSUME NEW p \in Procs, SaveUpdate(p)
      PROVE  TypeOK' /\ BusyProcesses' /\ CompleteRecords' /\ FilingsKeptApart'
  BY <1>5 DEF SaveUpdate, UpdateUserTokens, Finish, Leave, WritesRows
<1>6. ASSUME NEW p \in Procs, DeleteUserToken(p)
      PROVE  TypeOK' /\ BusyProcesses' /\ CompleteRecords' /\ FilingsKeptApart'
  BY <1>6 DEF DeleteUserToken, Finish, Leave, WritesRows
<1>7. ASSUME NEW p \in Procs, HasUserToken(p) \/ GetUserToken(p) \/ TokenReuse(p)
      PROVE  TypeOK' /\ BusyProcesses' /\ CompleteRecords' /\ FilingsKeptApart'
  BY <1>7 DEF HasUserToken, GetUserToken, TokenReuse, Goto, Finish, Leave, ReadsRows
<1>8. ASSUME NEW p \in Procs, TokenRefresh(p)
      PROVE  TypeOK' /\ BusyProcesses' /\ CompleteRecords' /\ FilingsKeptApart'
  BY <1>8 DEF TokenRefresh, Issue, Goto, Finish, Leave
<1>9. ASSUME NEW p \in Procs, UpdateUserToken(p)
      PROVE  TypeOK' /\ BusyProcesses' /\ CompleteRecords' /\ FilingsKeptApart'
  BY <1>9 DEF UpdateUserToken, UpdateUserTokens, Goto, WritesRows
<1>10. ASSUME NEW p \in Procs, GetMailMessages(p) \/ Crash(p)
      PROVE  TypeOK' /\ BusyProcesses' /\ CompleteRecords' /\ FilingsKeptApart'
  BY <1>10 DEF GetMailMessages, Crash, Finish, Leave
<1>11. ASSUME NEW t \in Tokens, Expire(t)
      PROVE  TypeOK' /\ BusyProcesses' /\ CompleteRecords' /\ FilingsKeptApart'
  BY <1>11 DEF Expire
<1>12. CASE UNCHANGED vars
  BY <1>12 DEF vars
<1> QED
  BY <1>1, <1>2, <1>3, <1>4, <1>5, <1>6, <1>7, <1>8, <1>9, <1>10, <1>11, <1>12
     DEF Next, Advance

\* Every step keeps the conditions about saves: a save that found no row still
\* finds none when it inserts, unless raced, and one that found a row updates it
\* unless a revocation came between.
LEMMA StepSaves ==
  ASSUME TypeOK, BusyProcesses, CreateIsRightUnlessRaced, DuplicatesOnlyByRace,
         UpdateFindsRow, [Next]_vars
  PROVE  CreateIsRightUnlessRaced' /\ DuplicatesOnlyByRace' /\ UpdateFindsRow'
<1> DEFINE Saves == CreateIsRightUnlessRaced /\ DuplicatesOnlyByRace /\ UpdateFindsRow
<1> USE DEF TypeOK, BusyProcesses, CreateIsRightUnlessRaced, DuplicatesOnlyByRace,
        UpdateFindsRow, CreatesPending, RowsOf, db, provider, local, history, Steps,
        SaveSteps, MailSteps, WriteKinds, HoldingSteps
<1>1. ASSUME NEW p \in Procs, Begin(p) PROVE Saves'
  BY <1>1 DEF Begin, Start, UserTokenCallback, RevokeUserToken, TriggerMailAPI,
              ProcessUserMailActivity
<1>2. ASSUME NEW p \in Procs, Exchange(p) PROVE Saves'
  BY <1>2 DEF Exchange, Issue, Goto, Finish, Leave
<1>3. ASSUME NEW p \in Procs, LookupFound(p) PROVE Saves'
  BY <1>3 DEF LookupFound, Goto, ReadsRows
<1>4. ASSUME NEW p \in Procs, LookupAbsent(p) PROVE Saves'
  BY <1>4 DEF LookupAbsent, Goto, ReadsRows
<1>5. ASSUME NEW p \in Procs, SaveCreate(p) PROVE Saves'
  BY <1>5 DEF SaveCreate, Finish, Leave, WritesRows
<1>6. ASSUME NEW p \in Procs, SaveUpdate(p) PROVE Saves'
  BY <1>6 DEF SaveUpdate, UpdateUserTokens, Finish, Leave, WritesRows
<1>7. ASSUME NEW p \in Procs, DeleteUserToken(p) PROVE Saves'
  BY <1>7 DEF DeleteUserToken, Finish, Leave, WritesRows
<1>8. ASSUME NEW p \in Procs, HasUserToken(p) \/ GetUserToken(p) \/ TokenReuse(p)
      PROVE  Saves'
  BY <1>8 DEF HasUserToken, GetUserToken, TokenReuse, Goto, Finish, Leave, ReadsRows
<1>9. ASSUME NEW p \in Procs, TokenRefresh(p) PROVE Saves'
  BY <1>9 DEF TokenRefresh, Issue, Goto, Finish, Leave
<1>10. ASSUME NEW p \in Procs, UpdateUserToken(p) PROVE Saves'
  BY <1>10 DEF UpdateUserToken, UpdateUserTokens, Goto, WritesRows
<1>11. ASSUME NEW p \in Procs, GetMailMessages(p) \/ Crash(p) PROVE Saves'
  BY <1>11 DEF GetMailMessages, Crash, Finish, Leave
<1>12. ASSUME NEW t \in Tokens, Expire(t) PROVE Saves'
  BY <1>12 DEF Expire
<1>13. CASE UNCHANGED vars
  BY <1>13 DEF vars
<1> QED
  BY <1>1, <1>2, <1>3, <1>4, <1>5, <1>6, <1>7, <1>8, <1>9, <1>10, <1>11, <1>12, <1>13
     DEF Next, Advance

\* A process that writes its own user's rows, and notes so for the others, leaves
\* the condition about refreshes true: readers of the same user are marked, the
\* rows of other users are as they were.
LEMMA WriterKeepsReaders ==
  ASSUME TypeOK, ReadTokenKeepsGrant,
         NEW p \in Procs, NEW kind \in {"save", "refresh"}, WritesRows(p, kind),
         pc'[p] \notin {"token", "writeback"},
         \A q \in Procs \ {p} : pc'[q] = pc[q] /\ user'[q] = user[q] /\ held'[q] = held[q],
         \A r \in RowIds : rowUser'[r] # user[p] =>
                             rowUser[r] = rowUser'[r] /\ rowTok[r] = rowTok'[r],
         grant' = grant, raced' = raced
  PROVE  ReadTokenKeepsGrant'
<1> SUFFICES ASSUME NEW q \in Procs, pc'[q] \in {"token", "writeback"},
                    user'[q] \notin raced', since'[q] \subseteq {"revoke"},
                    NEW r \in RowIds, rowUser'[r] = user'[q]
             PROVE  grant'[rowTok'[r]] = grant'[held'[q]]
  BY DEF ReadTokenKeepsGrant, RowsOf
<1>1. q # p
  OBVIOUS
<1>2. since'[q] = IF user[q] = user[p] THEN since[q] \cup {kind} ELSE since[q]
  BY <1>1 DEF WritesRows
<1>3. user[q] # user[p] /\ since'[q] = since[q]
  BY <1>2
<1>4. pc[q] = pc'[q] /\ user[q] = user'[q] /\ held[q] = held'[q]
  BY <1>1
<1>5. rowUser[r] = user[q] /\ rowTok[r] = rowTok'[r]
  BY <1>3, <1>4
<1> QED
  BY <1>3, <1>4, <1>5 DEF ReadTokenKeepsGrant, RowsOf

\* Every step keeps the condition about refreshes: what a refresher holds, and
\* what it gets for it, is of the grant that the user's row still holds.
LEMMA StepRefresh ==
  ASSUME TypeOK, BusyProcesses, CompleteRecords, FilingsKeptApart, DuplicatesOnlyByRace,
         ReadTokenKeepsGrant, [Next]_vars
  PROVE  ReadTokenKeepsGrant'
<1> USE DEF TypeOK, BusyProcesses, CompleteRecords, FilingsKeptApart, DuplicatesOnlyByRace,
        ReadTokenKeepsGrant, Issued, RowsOf, db, provider, local, history, Steps,
        SaveSteps, MailSteps, WriteKinds, HoldingSteps
<1>1. ASSUME NEW p \in Procs, Begin(p) PROVE ReadTokenKeepsGrant'
  BY <1>1 DEF Begin, Start, UserTokenCallback, RevokeUserToken, TriggerMailAPI,
              ProcessUserMailActivity
<1>2. ASSUME NEW p \in Procs, Exchange(p) PROVE ReadTokenKeepsGrant'
  BY <1>2 DEF Exchange, Issue, Goto, Finish, Leave
<1>3. ASSUME NEW p \in Procs, LookupFound(p) \/ LookupAbsent(p)
      PROVE  ReadTokenKeepsGrant'
  BY <1>3 DEF LookupFound, LookupAbsent, Goto, ReadsRows
<1>4. ASSUME NEW p \in Procs, SaveCreate(p) PROVE ReadTokenKeepsGrant'
  <2>1. CASE WritesRows(p, "save") /\ Leave(p, "ok")
    BY <1>4, <2>1, WriterKeepsReaders DEF SaveCreate, Leave
  <2>2. CASE UNCHANGED db /\ Finish(p, "error")
    BY <1>4, <2>2 DEF SaveCreate, Finish, Leave
  <2> QED
    BY <1>4, <2>1, <2>2 DEF SaveCreate
<1>5. ASSUME NEW p \in Procs, SaveUpdate(p) PROVE ReadTokenKeepsGrant'
  <2>1. CASE WritesRows(p, "save") /\ UpdateUserTokens(user[p], held[p]) /\ Leave(p, "ok")
    BY <1>5, <2>1, WriterKeepsReaders DEF SaveUpdate, UpdateUserTokens, Leave
  <2>2. CASE UNCHANGED db /\ Finish(p, "error")
    BY <1>5, <2>2 DEF SaveUpdate, Finish, Leave
  <2> QED
    BY <1>5, <2>1, <2>2 DEF SaveUpdate
<1>6. ASSUME NEW p \in Procs, DeleteUserToken(p) PROVE ReadTokenKeepsGrant'
  BY <1>6 DEF DeleteUserToken, Finish, Leave, WritesRows
<1>7. ASSUME NEW p \in Procs, HasUserToken(p) \/ TokenReuse(p)
      PROVE  ReadTokenKeepsGrant'
  BY <1>7 DEF HasUserToken, TokenReuse, Goto, Finish, Leave
<1>8. ASSUME NEW p \in Procs, GetUserToken(p) PROVE ReadTokenKeepsGrant'
  BY <1>8 DEF GetUserToken, Goto, Finish, Leave, ReadsRows
<1>9. ASSUME NEW p \in Procs, TokenRefresh(p) PROVE ReadTokenKeepsGrant'
  BY <1>9 DEF TokenRefresh, Issue, Goto, Finish, Leave
<1>10. ASSUME NEW p \in Procs, UpdateUserToken(p) PROVE ReadTokenKeepsGrant'
  <2>1. CASE WritesRows(p, "refresh") /\ UpdateUserTokens(user[p], held[p])
    BY <1>10, <2>1, WriterKeepsReaders DEF UpdateUserToken, UpdateUserTokens, Goto
  <2>2. CASE UNCHANGED <<db, since>>
    BY <1>10, <2>2 DEF UpdateUserToken, Goto
  <2> QED
    BY <1>10, <2>1, <2>2 DEF UpdateUserToken
<1>11. ASSUME NEW p \in Procs, GetMailMessages(p) \/ Crash(p)
       PROVE  ReadTokenKeepsGrant'
  BY <1>11 DEF GetMailMessages, Crash, Finish, Leave
<1>12. ASSUME NEW t \in Tokens, Expire(t) PROVE ReadTokenKeepsGrant'
  BY <1>12 DEF Expire
<1>13. CASE UNCHANGED vars
  BY <1>13 DEF vars
<1> QED
  BY <1>1, <1>2, <1>3, <1>4, <1>5, <1>6, <1>7, <1>8, <1>9, <1>10, <1>11, <1>12, <1>13
     DEF Next, Advance

\* The invariant holds in every reachable state.
THEOREM Invariance == Spec => []IInv
<1>1. IInv /\ [Next]_vars => IInv'
  BY StepBase, StepSaves, StepRefresh DEF IInv
<1> QED
  BY <1>1, InitIInv, PTL DEF Spec

\* Every variable has its type in every reachable state.
THEOREM TypeCorrect == Spec => []TypeOK
<1>1. IInv => TypeOK
  BY DEF IInv
<1> QED
  BY <1>1, Invariance, PTL

\* No row of the token table ever holds a token of a grant that was filed under
\* another user_id, however saves, refreshes, revocations, expiries and crashes
\* interleave.
THEOREM FilingsStayApart == Spec => []FilingsKeptApart
<1>1. IInv => FilingsKeptApart
  BY DEF IInv
<1> QED
  BY <1>1, Invariance, PTL

\* SaveUserToken's look-then-write keeps one row per user unless its lookup
\* failed over an existing row or two lookups came before either insert.
THEOREM OneRowUnlessRaced == Spec => []DuplicatesOnlyByRace
<1>1. IInv => DuplicatesOnlyByRace
  BY DEF IInv
<1> QED
  BY <1>1, Invariance, PTL

\* A save that took the update branch finds its row, unless a revocation of
\* the same user overlapped it.
THEOREM UpdatesAreNotLost == Spec => []UpdateFindsRow
<1>1. IInv => UpdateFindsRow
  BY DEF IInv
<1> QED
  BY <1>1, Invariance, PTL

\* For a user none of whose saves was misled into a second row, a refresh writes
\* back a successor of the stored grant, unless the user's token was saved or
\* refreshed by another since it was read.
THEOREM RefreshKeepsTheGrant == Spec => []RefreshExtendsStoredGrant
<1>1. IInv => RefreshExtendsStoredGrant
  BY DEF IInv, ReadTokenKeepsGrant, RefreshExtendsStoredGrant
<1> QED
  BY <1>1, Invariance, PTL

\* A user without rows gets one only by a callback of that user: only an insert
\* makes a row, and it makes one of the user whose callback is running.
THEOREM NoRowWithoutCallback == Spec => RowsOnlyFromCallbacks
<1> DEFINE OnlyByCallback ==
      \A u \in Users :
        RowsOf(u) = {} /\ (\A p \in Procs : user[p] = u => pc[p] \notin SaveSteps) => RowsOf(u)' = {}
<1>1. IInv /\ [Next]_vars => OnlyByCallback
  <2> SUFFICES ASSUME IInv, [Next]_vars, NEW u \in Users, RowsOf(u) = {},
                      \A p \in Procs : user[p] = u => pc[p] \notin SaveSteps
               PROVE  RowsOf(u)' = {}
    OBVIOUS
  <2> USE DEF RowsOf
  <2>1. ASSUME rowUser' = rowUser PROVE RowsOf(u)' = {}
    BY <2>1
  <2>2. ASSUME NEW p \in Procs, SaveCreate(p) PROVE RowsOf(u)' = {}
    <3>1. user[p] # u
      BY <2>2 DEF SaveCreate, SaveSteps
    <3>2. rowUser \in [RowIds -> Users \cup {NULL}]
      BY DEF IInv, TypeOK
    <3> QED
      BY <2>2, <3>1, <3>2 DEF SaveCreate, db
  <2>3. ASSUME NEW p \in Procs, DeleteUserToken(p) PROVE RowsOf(u)' = {}
    BY <2>3, NullIsNew DEF DeleteUserToken, db
  <2>4. ASSUME NEW p \in Procs, SaveUpdate(p) \/ UpdateUserToken(p) PROVE rowUser' = rowUser
    BY <2>4 DEF SaveUpdate, UpdateUserToken, UpdateUserTokens, db
  <2>5. ASSUME NEW p \in Procs, Begin(p) \/ Crash(p) PROVE rowUser' = rowUser
    BY <2>5 DEF Begin, UserTokenCallback, RevokeUserToken, TriggerMailAPI, ProcessUserMailActivity,
                Start, Crash, db
  <2>6. ASSUME NEW p \in Procs,
               \/ Exchange(p) \/ LookupFound(p) \/ LookupAbsent(p) \/ HasUserToken(p) \/ GetUserToken(p)
               \/ TokenReuse(p) \/ TokenRefresh(p) \/ GetMailMessages(p)
        PROVE  rowUser' = rowUser
    BY <2>6 DEF Exchange, LookupFound, LookupAbsent, HasUserToken, GetUserToken, TokenReuse,
                TokenRefresh, GetMailMessages, db
  <2>7. ASSUME NEW t \in Tokens, Expire(t) PROVE rowUser' = rowUser
    BY <2>7 DEF Expire, db
  <2>8. CASE UNCHANGED vars
    BY <2>8 DEF vars, db
  <2> QED
    BY <2>1, <2>2, <2>3, <2>4, <2>5, <2>6, <2>7, <2>8 DEF Next, Advance
<1>2. Spec => [][OnlyByCallback]_vars
  BY <1>1, Invariance, PTL DEF Spec
<1> QED
  BY <1>2 DEF RowsOnlyFromCallbacks
-------------------------------------------------------------------------------
(* The refinement: every step of UserTokens is a step of TokenVault or leaves  *)
(* its variables alone.                                                        *)

Serial == LookupFaults = FALSE /\ \A p, q \in Savers : p = q

\* The initial state satisfies the invariant of the serial runs.
LEMMA InitSerial == Init => SerialInv
BY NullIsNew DEF Init, SerialInv, SavesGrantsWritesSuccessors, Issued, SaveSteps

\* What is issued is a first token or a successor, and is held as such.
LEMMA StepSuccessors ==
  ASSUME IInv, SavesGrantsWritesSuccessors, [Next]_vars
  PROVE  SavesGrantsWritesSuccessors'
<1> USE NullIsNew DEF IInv, TypeOK, BusyProcesses, SavesGrantsWritesSuccessors, Issued,
        db, provider, local, history, Steps, SaveSteps, MailSteps, HoldingSteps
<1>1. ASSUME UNCHANGED <<filed, grant>>,
             \A p \in Procs : \/ pc'[p] \notin {"lookup", "create", "update", "writeback"}
                              \/ pc'[p] = pc[p] /\ held'[p] = held[p]
                              \/ pc[p] = "lookup" /\ pc'[p] \in {"create", "update"} /\ held'[p] = held[p]
      PROVE  SavesGrantsWritesSuccessors'
  BY <1>1
<1>2. ASSUME NEW p \in Procs, Exchange(p) PROVE SavesGrantsWritesSuccessors'
  BY <1>2 DEF Exchange, Issue, Goto, Finish, Leave
<1>3. ASSUME NEW p \in Procs, TokenRefresh(p) PROVE SavesGrantsWritesSuccessors'
  BY <1>3 DEF TokenRefresh, Issue, Goto, Finish, Leave
<1>4. ASSUME NEW p \in Procs, Begin(p) \/ Crash(p) \/ GetMailMessages(p) PROVE SavesGrantsWritesSuccessors'
  BY <1>1, <1>4 DEF Begin, Start, UserTokenCallback, RevokeUserToken, TriggerMailAPI,
                    ProcessUserMailActivity, Crash, GetMailMessages, Finish, Leave
<1>5. ASSUME NEW p \in Procs, LookupFound(p) \/ LookupAbsent(p) PROVE SavesGrantsWritesSuccessors'
  BY <1>1, <1>5 DEF LookupFound, LookupAbsent, Goto
<1>6. ASSUME NEW p \in Procs, SaveCreate(p) \/ SaveUpdate(p) \/ DeleteUserToken(p)
      PROVE  SavesGrantsWritesSuccessors'
  BY <1>1, <1>6 DEF SaveCreate, SaveUpdate, DeleteUserToken, Finish, Leave
<1>7. ASSUME NEW p \in Procs,
             HasUserToken(p) \/ GetUserToken(p) \/ TokenReuse(p) \/ UpdateUserToken(p)
      PROVE  SavesGrantsWritesSuccessors'
  BY <1>1, <1>7 DEF HasUserToken, GetUserToken, TokenReuse, UpdateUserToken, Goto, Finish, Leave
<1>8. ASSUME NEW t \in Tokens, Expire(t) PROVE SavesGrantsWritesSuccessors'
  BY <1>1, <1>8 DEF Expire
<1>9. CASE UNCHANGED vars
  BY <1>1, <1>9 DEF vars
<1> QED
  BY <1>2, <1>3, <1>4, <1>5, <1>6, <1>7, <1>8, <1>9 DEF Next, Advance

\* One callback at a time, with lookups that answer, is never raced.
LEMMA StepSerial ==
  ASSUME Serial, IInv, SerialInv, [Next]_vars
  PROVE  SerialInv'
<1> USE DEF IInv, TypeOK, SerialInv, Serial, db, provider, local, history, Steps, SaveSteps,
        MailSteps
<1>1. SavesGrantsWritesSuccessors'
  BY StepSuccessors
<1>2. ASSUME NEW p \in Procs, LookupAbsent(p) PROVE raced' = raced
  <2>1. p \in Savers /\ RowsOf(user[p]) = {} /\ ~CreatesPending(user[p], p)
    BY <1>2 DEF LookupAbsent, CreatesPending
  <2> QED
    BY <1>2, <2>1 DEF LookupAbsent
<1>3. ASSUME NEW p \in Procs,
             /\ pc' = [pc EXCEPT ![p] = pc'[p]]
             /\ pc'[p] \in SaveSteps => pc[p] \in SaveSteps \/ p \in Savers
      PROVE  \A q \in Procs : pc'[q] \in SaveSteps => q \in Savers
  BY <1>3
<1> DEFINE Kept == raced' = raced /\ \A q \in Procs : pc'[q] \in SaveSteps => q \in Savers
<1>4. ASSUME NEW p \in Procs, Begin(p) PROVE Kept
  BY <1>4, <1>3 DEF Begin, Start, UserTokenCallback, RevokeUserToken, TriggerMailAPI,
                    ProcessUserMailActivity
<1>5. ASSUME NEW p \in Procs, Exchange(p) \/ LookupFound(p) \/ LookupAbsent(p) PROVE Kept
  BY <1>2, <1>3, <1>5 DEF Exchange, LookupFound, LookupAbsent, Goto, Finish, Leave
<1>6. ASSUME NEW p \in Procs, SaveCreate(p) \/ SaveUpdate(p) \/ DeleteUserToken(p) PROVE Kept
  BY <1>3, <1>6 DEF SaveCreate, SaveUpdate, DeleteUserToken, Finish, Leave
<1>7. ASSUME NEW p \in Procs,
             \/ HasUserToken(p) \/ GetUserToken(p) \/ TokenReuse(p) \/ TokenRefresh(p)
             \/ UpdateUserToken(p) \/ GetMailMessages(p) \/ Crash(p)
      PROVE  Kept
  BY <1>3, <1>7 DEF HasUserToken, GetUserToken, TokenReuse, TokenRefresh, UpdateUserToken,
                    GetMailMessages, Crash, Goto, Finish, Leave
<1>8. ASSUME NEW t \in Tokens, Expire(t) PROVE Kept
  BY <1>8 DEF Expire
<1>9. ASSUME UNCHANGED vars PROVE Kept
  BY <1>9 DEF vars
<1>10. Kept
  BY <1>4, <1>5, <1>6, <1>7, <1>8, <1>9 DEF Next, Advance
<1>11. raced = {}
  OBVIOUS
<1> QED
  BY <1>1, <1>10, <1>11, Zenon DEF SerialInv

-------------------------------------------------------------------------------
(* The slots.                                                               *)

\* A user whose rows stay as they are keeps the slot.
LEMMA SlotStays ==
  ASSUME NEW u \in Users, RowsOf(u)' = RowsOf(u), \A r \in RowsOf(u) : rowTok'[r] = rowTok[r]
  PROVE  Slot'[u] = Slot[u]
<1>1. RowsOf(u) # {} => (CHOOSE r \in RowsOf(u) : TRUE) \in RowsOf(u)
  OBVIOUS
<1> QED
  BY <1>1 DEF Slot

\* A user all of whose rows hold t has t in the slot.
LEMMA SlotHolds ==
  ASSUME NEW u \in Users, NEW t, RowsOf(u)' # {}, \A r \in RowsOf(u)' : rowTok'[r] = t
  PROVE  Slot'[u] = t
<1>1. (CHOOSE r \in RowsOf(u)' : TRUE) \in RowsOf(u)'
  OBVIOUS
<1> QED
  BY <1>1 DEF Slot

\* When only u's slot changes, it is one slot of the vault that changes.
LEMMA OneSlot ==
  ASSUME NEW u \in Users, NEW t, Slot'[u] = t, \A v \in Users \ {u} : Slot'[v] = Slot[v]
  PROVE  Slot' = [Slot EXCEPT ![u] = t]
<1>1. Slot' = [v \in Users |-> Slot'[v]] /\ Slot = [v \in Users |-> Slot[v]]
  BY DEF Slot
<1> QED
  BY <1>1

LEMMA SlotsStay == ASSUME UNCHANGED db PROVE Slot' = Slot
BY DEF Slot, RowsOf, db

\* "update ... where user_id = u" fills u's slot, or no slot when it is empty.
LEMMA UpdateFillsSlot ==
  ASSUME TypeOK, NEW u \in Users, NEW t, UpdateUserTokens(u, t)
  PROVE  /\ RowsOf(u) = {} => Slot' = Slot
         /\ RowsOf(u) # {} => Slot' = [Slot EXCEPT ![u] = t]
<1>1. RowsOf(u)' = RowsOf(u) /\ \A r \in RowsOf(u) : rowTok'[r] = t
  BY DEF UpdateUserTokens, RowsOf, TypeOK
<1>2. ASSUME NEW v \in Users, v # u \/ RowsOf(u) = {} PROVE Slot'[v] = Slot[v]
  <2>1. RowsOf(v)' = RowsOf(v) /\ \A r \in RowsOf(v) : rowTok'[r] = rowTok[r]
    BY <1>2 DEF UpdateUserTokens, RowsOf, TypeOK
  <2> QED
    BY <2>1, SlotStays
<1>3. RowsOf(u) = {} => Slot' = Slot
  BY <1>2, OneSlot DEF Slot
<1>4. ASSUME RowsOf(u) # {} PROVE Slot' = [Slot EXCEPT ![u] = t]
  BY <1>1, <1>2, <1>4, SlotHolds, OneSlot
<1> QED
  BY <1>3, <1>4

-------------------------------------------------------------------------------
(* The steps.                                                               *)

\* Every step is a step of the vault, or leaves it alone.
LEMMA StepImplements ==
  ASSUME Serial, IInv, SerialInv, [Next]_vars
  PROVE  [Vault!Next]_(Vault!vars)
<1> USE DEF IInv, TypeOK, BusyProcesses, HoldingSteps, provider
<1>1. ASSUME UNCHANGED <<rowUser, rowTok, filed, grant>> PROVE UNCHANGED Vault!vars
  BY <1>1, SlotsStay DEF Vault!vars, db
<1>2. ASSUME NEW p \in Procs, Begin(p) PROVE UNCHANGED Vault!vars
  BY <1>1, <1>2 DEF Begin, Start, UserTokenCallback, RevokeUserToken, TriggerMailAPI,
                    ProcessUserMailActivity, db
<1>3. ASSUME NEW p \in Procs, Exchange(p) PROVE Vault!Next \/ UNCHANGED Vault!vars
  <2>1. UNCHANGED db
    BY <1>3 DEF Exchange
  <2>2. ASSUME NEW t \in Tokens, Issue(t, user[p], t) PROVE Vault!Next
    <3>1. user[p] \in Users
      BY <1>3 DEF Exchange
    <3>2. Vault!Consent(t, user[p])
      BY <2>1, <2>2, SlotsStay DEF Issue, Vault!Consent, Vault!Issue
    <3> QED
      BY <3>1, <3>2 DEF Vault!Next
  <2> QED
    BY <1>1, <1>3, <2>1, <2>2 DEF Exchange, db
<1>4. ASSUME NEW p \in Procs, SaveCreate(p) PROVE Vault!Next \/ UNCHANGED Vault!vars
  <2>1. ASSUME NEW r \in RowIds, rowUser[r] = NULL, rowUser' = [rowUser EXCEPT ![r] = user[p]],
               rowTok' = [rowTok EXCEPT ![r] = held[p]], UNCHANGED provider
        PROVE  Vault!Next
    <3>1. PICK u \in Users, t \in Tokens : u = user[p] /\ t = held[p]
      BY <1>4 DEF SaveCreate
    <3>2. filed[t] = u /\ grant[t] = t /\ RowsOf(u) = {}
      BY <1>4, <3>1 DEF SaveCreate, SerialInv, SavesGrantsWritesSuccessors, CreateIsRightUnlessRaced
    <3>3. RowsOf(u)' = {r} /\ rowTok'[r] = t
      BY <2>1, <3>1, <3>2 DEF RowsOf
    <3>4. ASSUME NEW v \in Users \ {u} PROVE Slot'[v] = Slot[v]
      <4>1. RowsOf(v)' = RowsOf(v) /\ r \notin RowsOf(v)
        BY <2>1, <3>1, NullIsNew DEF RowsOf
      <4>2. \A s \in RowsOf(v) : rowTok'[s] = rowTok[s]
        BY <2>1, <4>1 DEF RowsOf
      <4> QED
        BY <4>1, <4>2, SlotStays
    <3>5. Slot'[u] = t
      BY <3>3, SlotHolds
    <3>6. Slot' = [Slot EXCEPT ![u] = t]
      BY <3>4, <3>5, OneSlot
    <3>7. Vault!Authorize(u, t)
      BY <2>1, <3>2, <3>6 DEF Vault!Authorize, Vault!Put
    <3> QED
      BY <3>7 DEF Vault!Next
  <2> QED
    BY <1>1, <1>4, <2>1 DEF SaveCreate, db
<1>5. ASSUME NEW u \in Users, NEW t \in Tokens, filed[t] = u, RowsOf(u) # {},
             UpdateUserTokens(u, t), UNCHANGED provider
      PROVE  Vault!Next
  <2>1. Slot' = [Slot EXCEPT ![u] = t]
    BY <1>5, UpdateFillsSlot
  <2>2. Slot[u] # NULL
    <3>1. (CHOOSE r \in RowsOf(u) : TRUE) \in RowsOf(u)
      BY <1>5
    <3>2. \A r \in RowsOf(u) : rowTok[r] # NULL
      BY NullIsNew DEF RowsOf, CompleteRecords
    <3> QED
      BY <1>5, <3>1, <3>2 DEF Slot
  <2>3. Vault!Authorize(u, t) \/ Vault!Rotate(u, t)
    BY <1>5, <2>1, <2>2 DEF Vault!Authorize, Vault!Rotate, Vault!Put
  <2> QED
    BY <2>3 DEF Vault!Next
<1>6. ASSUME NEW p \in Procs, SaveUpdate(p) \/ UpdateUserToken(p)
      PROVE  Vault!Next \/ UNCHANGED Vault!vars
  <2>1. user[p] \in Users /\ held[p] \in Tokens /\ filed[held[p]] = user[p]
    BY <1>6 DEF SaveUpdate, UpdateUserToken
  <2>2. UNCHANGED provider /\ (UNCHANGED db \/ UpdateUserTokens(user[p], held[p]))
    BY <1>6 DEF SaveUpdate, UpdateUserToken
  <2>3. CASE UNCHANGED db
    BY <1>1, <2>2, <2>3 DEF db
  <2>4. CASE UpdateUserTokens(user[p], held[p]) /\ RowsOf(user[p]) # {}
    BY <1>5, <2>1, <2>2, <2>4
  <2>5. CASE UpdateUserTokens(user[p], held[p]) /\ RowsOf(user[p]) = {}
    BY <2>1, <2>2, <2>5, UpdateFillsSlot DEF Vault!vars
  <2> QED
    BY <2>2, <2>3, <2>4, <2>5
<1>7. ASSUME NEW p \in Procs, DeleteUserToken(p) PROVE Vault!Next \/ UNCHANGED Vault!vars
  <2>1. PICK u \in Users : u = user[p]
    BY <1>7 DEF DeleteUserToken
  <2>2. UNCHANGED provider
    BY <1>7 DEF DeleteUserToken
  <2>3. ASSUME rowUser' = [r \in RowIds |-> IF r \in RowsOf(u) THEN NULL ELSE rowUser[r]],
               rowTok' = [r \in RowIds |-> IF r \in RowsOf(u) THEN NULL ELSE rowTok[r]]
        PROVE  Vault!Next
    <3>1. RowsOf(u)' = {}
      BY <2>3, NullIsNew DEF RowsOf
    <3>2. ASSUME NEW v \in Users \ {u} PROVE Slot'[v] = Slot[v]
      <4>1. RowsOf(v)' = RowsOf(v) /\ RowsOf(v) \cap RowsOf(u) = {}
        BY <2>3, NullIsNew DEF RowsOf
      <4>2. \A s \in RowsOf(v) : rowTok'[s] = rowTok[s]
        BY <2>3, <4>1 DEF RowsOf
      <4> QED
        BY <4>1, <4>2, SlotStays
    <3>3. Slot'[u] = NULL
      BY <3>1 DEF Slot
    <3>4. Slot' = [Slot EXCEPT ![u] = NULL]
      BY <3>2, <3>3, OneSlot
    <3>5. Vault!Clear(u)
      BY <2>2, <3>4 DEF Vault!Clear
    <3> QED
      BY <3>5 DEF Vault!Next
  <2> QED
    BY <1>1, <1>7, <2>1, <2>2, <2>3 DEF DeleteUserToken, db
<1>8. ASSUME NEW p \in Procs, TokenRefresh(p) PROVE Vault!Next \/ UNCHANGED Vault!vars
  <2>1. UNCHANGED db /\ held[p] \in Tokens /\ filed[held[p]] # NULL
    BY <1>8, NullIsNew DEF TokenRefresh
  <2>2. ASSUME NEW t \in Tokens, Issue(t, filed[held[p]], grant[held[p]]) PROVE Vault!Next
    <3>1. Vault!Extend(t, held[p])
      BY <2>1, <2>2, SlotsStay DEF Issue, Vault!Extend, Vault!Issue
    <3> QED
      BY <2>1, <3>1 DEF Vault!Next
  <2> QED
    BY <1>1, <1>8, <2>1, <2>2 DEF TokenRefresh, db
<1>9. ASSUME NEW p \in Procs,
             \/ LookupFound(p) \/ LookupAbsent(p) \/ HasUserToken(p) \/ GetUserToken(p)
             \/ TokenReuse(p) \/ GetMailMessages(p) \/ Crash(p)
      PROVE  UNCHANGED Vault!vars
  BY <1>1, <1>9 DEF LookupFound, LookupAbsent, HasUserToken, GetUserToken, TokenReuse,
                    GetMailMessages, Crash, db
<1>10. ASSUME NEW t \in Tokens, Expire(t) PROVE UNCHANGED Vault!vars
  BY <1>1, <1>10 DEF Expire, db
<1>11. CASE UNCHANGED vars
  BY <1>1, <1>11 DEF vars, db
<1> QED
  BY <1>2, <1>3, <1>4, <1>6, <1>7, <1>8, <1>9, <1>10, <1>11 DEF Next, Advance

\* The table implements the vault.
THEOREM Refinement == ASSUME Serial PROVE Spec => ImplementsVault
<1>1. Init => Vault!Init
  BY DEF Init, Vault!Init, Slot, RowsOf
<1>2. IInv /\ SerialInv /\ [Next]_vars => SerialInv'
  BY StepSerial
<1>3. IInv /\ SerialInv /\ [Next]_vars => [Vault!Next]_(Vault!vars)
  BY StepImplements
<1> QED
  BY <1>1, <1>2, <1>3, InitSerial, Invariance, PTL DEF Spec, ImplementsVault, Vault!Spec
=============================================================================
