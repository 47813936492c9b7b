---------------------------- MODULE MailRunsProofs ----------------------------
(***************************************************************************)
(* The safety of the scheduled mail job for every number of users, rows    *)
(* and overlapping runs, from the inductive invariant MailRuns!IInv; that  *)
(* runs are short; and that users who keep a token are given turns.        *)
(***************************************************************************)
EXTENDS MailRuns, FiniteSetTheorems, TLAPS

USE RowsAreFinite, CrashesAreBounded, NullIsNew

\* The rows a run took are finitely many, and taking one more counts one more.
LEMMA TakenIsFinite ==
  ASSUME NEW r \in Runs
  PROVE  /\ IsFiniteSet(Taken(r)) /\ IsFiniteSet(Rows)
         /\ Cardinality(Taken(r)) \in Nat /\ Cardinality(Rows) \in Nat
         /\ Cardinality(Taken(r)) <= Cardinality(Rows)
<1>1. Taken(r) \in SUBSET Rows
  BY DEF Taken, ListedRows
<1> QED
  BY <1>1, FS_Subset, FS_CardinalityType

LEMMA RowsCount == Cardinality(Rows) \in Nat /\ 0 \in 0..Cardinality(Rows)
BY FS_CardinalityType

LEMMA TakenGrowsByOne ==
  ASSUME NEW S, IsFiniteSet(S), NEW w, w \notin S
  PROVE  Cardinality(S \cup {w}) = Cardinality(S) + 1
BY FS_AddElement

\* The initial state satisfies the invariant.
LEMMA InitIInv == Init => IInv
<1> SUFFICES ASSUME Init PROVE IInv
  OBVIOUS
<1>1. TypeOK
  BY RowsCount DEF Init, Nobody, TypeOK, Steps, Upsets
<1>2. ASSUME NEW r \in Runs PROVE AddsUp(r) /\ HasCauses(r)
  <2>1. ListedRows(r) = {} /\ Taken(r) = {} /\ ~InTurn(r) /\ UsersAt(r, {}) = {}
    BY DEF Init, Nobody, ListedRows, Taken, InTurn, UsersAt
  <2>2. AddsUp(r)
    BY <2>1, FS_EmptySet DEF Init, AddsUp
  <2>3. HasCauses(r)
    BY <2>1 DEF Init, HasCauses
  <2> QED
    BY <2>2, <2>3
<1> QED
  BY <1>1, <1>2 DEF IInv

\* The types are kept: a count cannot exceed the number of rows, because each
\* row a run took is counted once.
LEMMA StepTypes == IInv /\ [Next]_vars => TypeOK'
<1> SUFFICES ASSUME IInv, [Next]_vars PROVE TypeOK'
  OBVIOUS
<1> USE DEF IInv, TypeOK, Steps, Upsets, run, history
<1>1. ASSUME NEW r \in Runs, Execute(r) \/ Crash(r) PROVE TypeOK'
  <2>1. Nobody \in [Rows -> Users \cup {NULL}]
    BY DEF Nobody
  <2>2. rowUser' = rowUser /\ crashes' \in 0..MaxCrashes
    BY <1>1 DEF Execute, Crash
  <2>3. \E step \in Steps : Reset(r, step)
    BY <1>1 DEF Execute, Crash
  <2> QED
    BY <2>1, <2>2, <2>3, RowsCount DEF Reset
<1>2. ASSUME NEW r \in Runs, GetAllUserIDs(r) PROVE TypeOK'
  <2> DEFINE found == {w \in Rows : rowUser[w] # NULL}
  <2>1. \/ /\ listed' = [listed EXCEPT ![r] = rowUser] /\ todo' = [todo EXCEPT ![r] = found]
           /\ pc' = [pc EXCEPT ![r] = "next"] /\ UNCHANGED <<verdict, upset>>
        \/ /\ pc' = [pc EXCEPT ![r] = "idle"] /\ verdict' = [verdict EXCEPT ![r] = "failed"]
           /\ upset' = [upset EXCEPT ![r] = @ \cup {"fault"}] /\ UNCHANGED <<listed, todo>>
    BY <1>2 DEF GetAllUserIDs, Report
  <2>2. found \in SUBSET Rows
    OBVIOUS
  <2> HIDE DEF found
  <2>3. /\ pc' \in [Runs -> Steps] /\ verdict' \in [Runs -> {"none", "failed", "completed"}]
        /\ listed' \in [Runs -> [Rows -> Users \cup {NULL}]] /\ todo' \in [Runs -> SUBSET Rows]
        /\ upset' \in [Runs -> SUBSET Upsets]
    <3>1. /\ listed' = listed \/ listed' = [listed EXCEPT ![r] = rowUser]
          /\ todo' = todo \/ todo' = [todo EXCEPT ![r] = found]
          /\ pc' = [pc EXCEPT ![r] = "next"] \/ pc' = [pc EXCEPT ![r] = "idle"]
          /\ verdict' = verdict \/ verdict' = [verdict EXCEPT ![r] = "failed"]
          /\ upset' = upset \/ upset' = [upset EXCEPT ![r] = @ \cup {"fault"}]
      BY <2>1, Zenon
    <3>2. /\ listed' \in [Runs -> [Rows -> Users \cup {NULL}]]
      BY <3>1
    <3>3. todo' \in [Runs -> SUBSET Rows]
      BY <3>1, <2>2
    <3>4. pc' \in [Runs -> Steps] /\ verdict' \in [Runs -> {"none", "failed", "completed"}]
      BY <3>1
    <3>5. upset' \in [Runs -> SUBSET Upsets]
      <4>1. upset \in [Runs -> SUBSET Upsets] /\ upset[r] \cup {"fault"} \in SUBSET Upsets
        OBVIOUS
      <4> QED
        BY <3>1, <4>1
    <3> QED
      BY <3>2, <3>3, <3>4, <3>5
  <2>4. UNCHANGED <<rowUser, current, ok, bad, crashes, tried>>
    BY <1>2 DEF GetAllUserIDs
  <2> QED
    BY <2>3, <2>4
<1>3. ASSUME NEW r \in Runs, NextUser(r) PROVE TypeOK'
  <2>1. \A w \in todo[r] : listed[r][w] \in Users
    BY DEF AddsUp, ListedRows
  <2> QED
    BY <1>3, <2>1 DEF NextUser
<1>4. ASSUME NEW r \in Runs, ReadToken(r) \/ GetMailMessages(r) PROVE TypeOK'
  <2>1. InTurn(r) /\ AddsUp(r)
    BY <1>4 DEF ReadToken, GetMailMessages, InTurn
  <2>2. ok[r] \in Nat /\ bad[r] \in Nat
    BY RowsCount
  <2>3. ok[r] + bad[r] + 1 <= Cardinality(Rows)
    BY <2>1, TakenIsFinite DEF AddsUp
  <2>4. ok[r] + 1 \in 0..Cardinality(Rows) /\ bad[r] + 1 \in 0..Cardinality(Rows)
    BY <2>2, <2>3, RowsCount
  <2>5. ok' \in [Runs -> 0..Cardinality(Rows)] /\ bad' \in [Runs -> 0..Cardinality(Rows)]
    BY <1>4, <2>4 DEF ReadToken, GetMailMessages, TurnFails, TurnSucceeds
  <2>6. /\ pc' \in [Runs -> Steps] /\ verdict' \in [Runs -> {"none", "failed", "completed"}]
        /\ upset' \in [Runs -> SUBSET Upsets]
    <3>1. /\ \E step \in Steps : pc' = [pc EXCEPT ![r] = step]
          /\ verdict' = verdict
          /\ upset' = upset \/ upset' = [upset EXCEPT ![r] = @ \cup {"fault"}]
      BY <1>4 DEF ReadToken, GetMailMessages, TurnFails, TurnSucceeds
    <3> QED
      BY <3>1
  <2>7. UNCHANGED <<rowUser, listed, todo, current, crashes, tried>>
    BY <1>4 DEF ReadToken, GetMailMessages
  <2> QED
    BY <2>5, <2>6, <2>7
<1>5. ASSUME NEW r \in Runs, Finish(r) PROVE TypeOK'
  <2>1. pc' \in [Runs -> Steps] /\ verdict' \in [Runs -> {"none", "failed", "completed"}]
    BY <1>5 DEF Finish, Report
  <2>2. UNCHANGED <<rowUser, listed, todo, current, ok, bad, crashes, tried, upset>>
    BY <1>5 DEF Finish
  <2> QED
    BY <2>1, <2>2
<1>6. ASSUME NEW u \in Users, Authorize(u) \/ Revoke(u) PROVE TypeOK'
  <2>1. rowUser' \in [Rows -> Users \cup {NULL}]
    BY <1>6 DEF Authorize, Revoke
  <2>2. upset' \in [Runs -> SUBSET Upsets]
    <3>1. CASE Authorize(u)
      BY <3>1 DEF Authorize
    <3>2. CASE Revoke(u)
      <4> DEFINE hit(r) == pc[r] # "idle" /\ \E w \in Rows : listed[r][w] = u
      <4>1. upset' = [r \in Runs |-> IF hit(r) THEN upset[r] \cup {"revoked"} ELSE upset[r]]
        BY <3>2 DEF Revoke
      <4> HIDE DEF hit
      <4> QED
        BY <4>1
    <3> QED
      BY <1>6, <3>1, <3>2
  <2>3. UNCHANGED <<run, crashes, tried>>
    BY <1>6 DEF Authorize, Revoke
  <2> QED
    BY <2>1, <2>2, <2>3
<1>7. CASE UNCHANGED vars
  BY <1>7 DEF vars
<1> QED
  BY <1>1, <1>2, <1>3, <1>4, <1>5, <1>6, <1>7 DEF Next, Proceed

\* Nothing of run q changes.
Same(q) ==
  /\ pc'[q] = pc[q] /\ listed'[q] = listed[q] /\ todo'[q] = todo[q]
  /\ current'[q] = current[q] /\ ok'[q] = ok[q] /\ bad'[q] = bad[q]
  /\ verdict'[q] = verdict[q] /\ tried'[q] = tried[q] /\ upset'[q] = upset[q]

LEMMA SameKeeps ==
  ASSUME NEW q \in Runs, Same(q)
  PROVE  /\ AddsUp(q) => AddsUp(q)'
         /\ HasCauses(q) /\ rowUser' = rowUser => HasCauses(q)'
<1>1. /\ ListedRows(q)' = ListedRows(q) /\ Taken(q)' = Taken(q) /\ (InTurn(q)' <=> InTurn(q))
      /\ UsersAt(q, Taken(q))' = UsersAt(q, Taken(q))
  BY DEF Same, ListedRows, Taken, InTurn, UsersAt
<1>2. AddsUp(q) => AddsUp(q)'
  BY <1>1 DEF Same, AddsUp
<1>3. HasCauses(q) /\ rowUser' = rowUser => HasCauses(q)'
  BY <1>1 DEF Same, HasCauses, RowsOf
<1> QED
  BY <1>2, <1>3

\* A step of one run leaves the others alone.
LEMMA OthersSame ==
  ASSUME TypeOK, NEW r \in Runs, Execute(r) \/ Proceed(r) \/ Crash(r), NEW q \in Runs \ {r}
  PROVE  Same(q) /\ rowUser' = rowUser
<1> USE DEF TypeOK, Same, run, history
<1>1. CASE Execute(r) \/ Crash(r)
  BY <1>1 DEF Execute, Crash, Reset
<1>2. CASE GetAllUserIDs(r)
  BY <1>2 DEF GetAllUserIDs, Report
<1>3. CASE NextUser(r)
  BY <1>3 DEF NextUser
<1>4. CASE ReadToken(r) \/ GetMailMessages(r)
  BY <1>4 DEF ReadToken, GetMailMessages, TurnFails, TurnSucceeds
<1>5. CASE Finish(r)
  BY <1>5 DEF Finish, Report
<1> QED
  BY <1>1, <1>2, <1>3, <1>4, <1>5 DEF Proceed

\* What a run took and counted stays in step.
LEMMA StepTurns ==
  ASSUME IInv, NEW r \in Runs, Execute(r) \/ Proceed(r) \/ Crash(r)
  PROVE  AddsUp(r)'
<1> USE DEF IInv, TypeOK, run, history
<1>1. CASE Execute(r) \/ Crash(r)
  <2>1. /\ listed'[r] = Nobody /\ todo'[r] = {} /\ tried'[r] = {} /\ ok'[r] = 0 /\ bad'[r] = 0
        /\ verdict'[r] = "none" /\ pc'[r] \in {"list", "idle"}
    BY <1>1 DEF Execute, Crash, Reset
  <2>2. ListedRows(r)' = {} /\ Taken(r)' = {} /\ ~InTurn(r)' /\ UsersAt(r, Taken(r))' = {}
    BY <2>1 DEF ListedRows, Taken, InTurn, Nobody, UsersAt
  <2> QED
    BY <2>1, <2>2, FS_EmptySet DEF AddsUp
<1>2. CASE GetAllUserIDs(r)
  <2>1. /\ \/ listed'[r] = rowUser /\ todo'[r] = {w \in Rows : rowUser[w] # NULL} /\ pc'[r] = "next"
              /\ verdict'[r] = verdict[r]
           \/ listed'[r] = listed[r] /\ todo'[r] = todo[r] /\ pc'[r] = "idle"
        /\ tried'[r] = tried[r] /\ ok'[r] = ok[r] /\ bad'[r] = bad[r]
    BY <1>2 DEF GetAllUserIDs, Report
  <2>2. /\ ListedRows(r) = {} /\ todo[r] = {} /\ Taken(r) = {} /\ verdict[r] = "none" /\ ~InTurn(r)
    BY <1>2 DEF GetAllUserIDs, AddsUp, Taken, InTurn
  <2>3. Taken(r)' = {} /\ ~InTurn(r)' /\ todo'[r] = ListedRows(r)'
    BY <2>1, <2>2 DEF ListedRows, Taken, InTurn
  <2>4. UsersAt(r, Taken(r)) = {} /\ UsersAt(r, Taken(r))' = {}
    BY <2>2, <2>3 DEF UsersAt
  <2> QED
    BY <2>1, <2>2, <2>3, <2>4 DEF AddsUp
<1>3. CASE NextUser(r)
  <2>1. PICK w \in todo[r] :
          /\ todo'[r] = todo[r] \ {w} /\ current'[r] = listed[r][w]
          /\ tried'[r] = tried[r] \cup {listed[r][w]}
    BY <1>3 DEF NextUser
  <2>2. /\ listed'[r] = listed[r] /\ ok'[r] = ok[r] /\ bad'[r] = bad[r] /\ verdict'[r] = verdict[r]
        /\ pc[r] = "next" /\ pc'[r] = "read"
    BY <1>3 DEF NextUser
  <2>3. todo[r] \subseteq ListedRows(r) /\ tried[r] = UsersAt(r, Taken(r)) /\ verdict[r] = "none"
    BY <2>2 DEF AddsUp
  <2>4. /\ ListedRows(r)' = ListedRows(r) /\ Taken(r)' = Taken(r) \cup {w} /\ w \notin Taken(r)
        /\ ~InTurn(r) /\ InTurn(r)'
    BY <2>1, <2>2, <2>3 DEF ListedRows, Taken, InTurn
  <2>5. Cardinality(Taken(r)') = Cardinality(Taken(r)) + 1
    BY <2>4, TakenIsFinite, TakenGrowsByOne
  <2>6. UsersAt(r, Taken(r))' = UsersAt(r, Taken(r)) \cup {listed[r][w]}
    BY <2>2, <2>4 DEF UsersAt
  <2>7. ok[r] + bad[r] = Cardinality(Taken(r)) /\ ok[r] \in Nat /\ bad[r] \in Nat
    BY <2>4, RowsCount DEF AddsUp
  <2> QED
    BY <2>1, <2>2, <2>3, <2>4, <2>5, <2>6, <2>7 DEF AddsUp
<1>4. CASE ReadToken(r) \/ GetMailMessages(r)
  <2>1. /\ listed'[r] = listed[r] /\ todo'[r] = todo[r] /\ tried'[r] = tried[r]
        /\ current'[r] = current[r] /\ verdict'[r] = verdict[r] /\ InTurn(r)
    BY <1>4 DEF ReadToken, GetMailMessages, TurnFails, TurnSucceeds, InTurn
  <2>2. \/ pc'[r] = "call" /\ ok'[r] = ok[r] /\ bad'[r] = bad[r]
        \/ pc'[r] = "next" /\ ok'[r] = ok[r] + 1 /\ bad'[r] = bad[r]
        \/ pc'[r] = "next" /\ ok'[r] = ok[r] /\ bad'[r] = bad[r] + 1
    BY <1>4 DEF ReadToken, GetMailMessages, TurnFails, TurnSucceeds
  <2>3. /\ ListedRows(r)' = ListedRows(r) /\ Taken(r)' = Taken(r)
        /\ UsersAt(r, Taken(r))' = UsersAt(r, Taken(r))
    BY <2>1 DEF ListedRows, Taken, UsersAt
  <2>4. verdict[r] = "none" /\ ok[r] \in Nat /\ bad[r] \in Nat
    BY <2>1, RowsCount DEF AddsUp, InTurn
  <2>5. ok'[r] + bad'[r] + (IF InTurn(r)' THEN 1 ELSE 0) = ok[r] + bad[r] + 1
    BY <2>2, <2>4 DEF InTurn
  <2>6. AddsUp(r)
    OBVIOUS
  <2> QED
    BY <2>1, <2>2, <2>3, <2>4, <2>5, <2>6 DEF AddsUp
<1>5. CASE Finish(r)
  <2>1. /\ listed'[r] = listed[r] /\ todo'[r] = todo[r] /\ tried'[r] = tried[r] /\ todo[r] = {}
        /\ ok'[r] = ok[r] /\ bad'[r] = bad[r] /\ pc'[r] = "idle" /\ pc[r] = "next"
    BY <1>5 DEF Finish, Report
  <2>2. /\ ListedRows(r)' = ListedRows(r) /\ Taken(r)' = Taken(r) /\ ~InTurn(r) /\ ~InTurn(r)'
        /\ UsersAt(r, Taken(r))' = UsersAt(r, Taken(r))
    BY <2>1 DEF ListedRows, Taken, UsersAt, InTurn
  <2> QED
    BY <2>1, <2>2 DEF AddsUp
<1> QED
  BY <1>1, <1>2, <1>3, <1>4, <1>5 DEF Proceed

\* A counted error keeps having a cause: a listed user without a row revoked.
LEMMA StepCauses ==
  ASSUME IInv, NEW r \in Runs, Execute(r) \/ Proceed(r) \/ Crash(r)
  PROVE  HasCauses(r)'
<1> USE DEF IInv, TypeOK, run, history
<1>1. CASE Execute(r) \/ Crash(r)
  <2>1. listed'[r] = Nobody /\ bad'[r] = 0 /\ verdict'[r] = "none"
    BY <1>1 DEF Execute, Crash, Reset
  <2>2. ListedRows(r)' = {}
    BY <2>1 DEF ListedRows, Nobody
  <2> QED
    BY <2>1, <2>2 DEF HasCauses
<1>2. CASE GetAllUserIDs(r)
  <2>1. \/ /\ listed'[r] = rowUser /\ verdict'[r] = verdict[r] /\ upset'[r] = upset[r]
        \/ /\ pc'[r] = "idle" /\ "fault" \in upset'[r]
    <3>1. CASE listed' = [listed EXCEPT ![r] = rowUser] /\ UNCHANGED <<verdict, upset>>
      BY <3>1
    <3>2. CASE Report(r, "failed") /\ upset' = [upset EXCEPT ![r] = @ \cup {"fault"}]
      BY <3>2 DEF Report
    <3> QED
      BY <1>2, <3>1, <3>2 DEF GetAllUserIDs
  <2>2. rowUser' = rowUser /\ bad'[r] = bad[r]
    BY <1>2 DEF GetAllUserIDs
  <2>3. \A w \in Rows : rowUser[w] # NULL => RowsOf(rowUser[w])' # {}
    BY <2>2 DEF RowsOf
  <2> QED
    BY <2>1, <2>2, <2>3 DEF HasCauses, ListedRows
<1>3. CASE NextUser(r)
  BY <1>3 DEF NextUser, HasCauses, ListedRows, RowsOf
<1>4. CASE ReadToken(r) \/ GetMailMessages(r)
  <2>1. RowsOf(current[r]) # {} \/ "revoked" \in upset[r]
    BY <1>4 DEF ReadToken, GetMailMessages, AddsUp, HasCauses, InTurn, Taken
  <2>2. /\ listed'[r] = listed[r] /\ rowUser' = rowUser /\ pc[r] # "idle"
        /\ verdict'[r] = verdict[r] /\ upset[r] \subseteq upset'[r]
    <3>1. upset' = upset \/ upset' = [upset EXCEPT ![r] = @ \cup {"fault"}]
      BY <1>4 DEF ReadToken, GetMailMessages
    <3>2. upset[r] \subseteq upset'[r]
      BY <3>1
    <3> QED
      BY <1>4, <3>2 DEF ReadToken, GetMailMessages, TurnFails, TurnSucceeds
  <2>3. bad'[r] = bad[r] \/ upset'[r] # {}
    <3>1. \/ bad' = bad
          \/ upset' = [upset EXCEPT ![r] = @ \cup {"fault"}]
          \/ RowsOf(current[r]) = {} /\ UNCHANGED upset
      BY <1>4 DEF ReadToken, GetMailMessages, TurnFails, TurnSucceeds
    <3>2. CASE upset' = [upset EXCEPT ![r] = @ \cup {"fault"}]
      BY <3>2
    <3>3. CASE RowsOf(current[r]) = {} /\ UNCHANGED upset
      BY <2>1, <3>3
    <3> QED
      BY <3>1, <3>2, <3>3
  <2>4. \A u \in Users : RowsOf(u)' = RowsOf(u)
    BY <2>2 DEF RowsOf
  <2>5. HasCauses(r)
    OBVIOUS
  <2> QED
    BY <2>2, <2>3, <2>4, <2>5 DEF HasCauses, ListedRows
<1>5. CASE Finish(r)
  BY <1>5 DEF Finish, Report, HasCauses
<1> QED
  BY <1>1, <1>2, <1>3, <1>4, <1>5 DEF Proceed

\* The users' steps: an authorization takes nobody's row, and a revocation
\* befalls every unfinished run that listed the user.
LEMMA StepUsers ==
  ASSUME IInv, NEW u \in Users, Authorize(u) \/ Revoke(u), NEW r \in Runs
  PROVE  AddsUp(r)' /\ HasCauses(r)'
<1> USE DEF IInv, TypeOK, run, history
<1>1. UNCHANGED run /\ tried' = tried
  BY DEF Authorize, Revoke
<1>2. AddsUp(r)'
  <2>1. /\ ListedRows(r)' = ListedRows(r) /\ Taken(r)' = Taken(r) /\ (InTurn(r)' <=> InTurn(r))
        /\ UsersAt(r, Taken(r))' = UsersAt(r, Taken(r))
    BY <1>1 DEF ListedRows, Taken, InTurn, UsersAt
  <2> QED
    BY <1>1, <2>1 DEF AddsUp
<1>3. upset[r] \subseteq upset'[r]
  <2>1. CASE Authorize(u)
    BY <2>1 DEF Authorize
  <2>2. CASE Revoke(u)
    <3>1. upset'[r] = upset[r] \/ upset'[r] = upset[r] \cup {"revoked"}
      BY <2>2 DEF Revoke
    <3> QED
      BY <3>1
  <2> QED
    BY <2>1, <2>2
<1>4. \A v \in Users : RowsOf(v) # {} => RowsOf(v)' # {} \/ (v = u /\ Revoke(u))
  BY DEF Authorize, Revoke, RowsOf
<1>5. Revoke(u) /\ pc[r] # "idle" =>
        \A w \in ListedRows(r) : listed[r][w] = u => "revoked" \in upset'[r]
  BY DEF Revoke, ListedRows
<1>6. \A w \in ListedRows(r) : listed[r][w] \in Users
  BY DEF ListedRows
<1>7. ListedRows(r)' = ListedRows(r)
  BY <1>1 DEF ListedRows
<1>8. HasCauses(r)
  OBVIOUS
<1>9. HasCauses(r)'
  BY <1>1, <1>3, <1>4, <1>5, <1>6, <1>7, <1>8 DEF HasCauses
<1> QED
  BY <1>2, <1>9

\* Every step keeps the invariant.
LEMMA StepIInv == IInv /\ [Next]_vars => IInv'
<1> SUFFICES ASSUME IInv, [Next]_vars PROVE IInv'
  OBVIOUS
<1>1. TypeOK'
  BY StepTypes
<1>2. ASSUME NEW q \in Runs PROVE AddsUp(q)' /\ HasCauses(q)'
  <2>1. ASSUME NEW r \in Runs, Execute(r) \/ Proceed(r) \/ Crash(r)
        PROVE  AddsUp(q)' /\ HasCauses(q)'
    <3>1. CASE q = r
      BY <2>1, <3>1, StepTurns, StepCauses
    <3>2. CASE q # r
      BY <2>1, <3>2, OthersSame, SameKeeps DEF IInv
    <3> QED
      BY <3>1, <3>2
  <2>2. ASSUME NEW u \in Users, Authorize(u) \/ Revoke(u)
        PROVE  AddsUp(q)' /\ HasCauses(q)'
    BY <2>2, StepUsers
  <2>3. CASE UNCHANGED vars
    <3>1. Same(q) /\ rowUser' = rowUser
      BY <2>3 DEF vars, run, history, Same
    <3> QED
      BY <3>1, SameKeeps DEF IInv
  <2> QED
    BY <2>1, <2>2, <2>3 DEF Next
<1> QED
  BY <1>1, <1>2 DEF IInv

\* The invariant holds in every reachable state.
THEOREM Inductive == Spec => []IInv
<1>1. Init => IInv
  BY InitIInv
<1>2. IInv /\ [Next]_vars => IInv'
  BY StepIInv
<1> QED
  BY <1>1, <1>2, PTL DEF Spec

\* The types are correct: no count runs over the number of rows.
THEOREM TypeCorrect == Spec => []TypeOK
<1>1. IInv => TypeOK
  BY DEF IInv
<1> QED
  BY <1>1, Inductive, PTL

\* Nobody's failure and nobody's revocation costs another user the turn.
THEOREM NobodyIsLeftOut == Spec => []EveryListedUserHadATurn
<1>1. IInv => EveryListedUserHadATurn
  <2> SUFFICES ASSUME IInv, NEW r \in Runs, verdict[r] # "none"
               PROVE  /\ tried[r] = UsersAt(r, ListedRows(r))
                      /\ ok[r] + bad[r] = Cardinality(ListedRows(r))
    BY DEF EveryListedUserHadATurn
  <2>1. AddsUp(r) /\ ok[r] \in Nat /\ bad[r] \in Nat
    BY RowsCount DEF IInv, TypeOK
  <2>2. Taken(r) = ListedRows(r) /\ ~InTurn(r)
    BY <2>1 DEF AddsUp, Taken, InTurn
  <2> QED
    BY <2>1, <2>2 DEF AddsUp
<1> QED
  BY <1>1, Inductive, PTL

\* A run reports failure only for a cause.
THEOREM FailuresHaveCauses == Spec => []FailureHasACause
<1>1. IInv => FailureHasACause
  BY DEF IInv, HasCauses, FailureHasACause
<1> QED
  BY <1>1, Inductive, PTL

-------------------------------------------------------------------------------
(* A run that goes on gets shorter.                                         *)

\* What a run may still do: get its list and give every row its turn, a turn
\* being three steps; and report.
Left(r) ==
  CASE pc[r] = "idle" -> 0
    [] pc[r] = "list" -> 3 * Cardinality(Rows) + 2
    [] pc[r] = "next" -> 3 * Cardinality(todo[r]) + 1
    [] pc[r] = "read" -> 3 * Cardinality(todo[r]) + 3
    [] pc[r] = "call" -> 3 * Cardinality(todo[r]) + 2

\* Only a new run has more to do; nothing that users, crashes or other runs do
\* adds to it.
RunsGetShorter ==
  [][\A r \in Runs : /\ Proceed(r) => Left(r)' < Left(r)
                     /\ pc[r] # "idle" => Left(r)' <= Left(r)]_vars

\* The rows left are finitely many.
Sized(r) ==
  /\ IsFiniteSet(todo[r]) /\ Cardinality(todo[r]) \in Nat
  /\ Cardinality(todo[r]) <= Cardinality(Rows)
  /\ Left(r) \in 0..(3 * Cardinality(Rows) + 2)

LEMMA RowsLeft == IInv => \A r \in Runs : Sized(r)
<1> SUFFICES ASSUME IInv, NEW r \in Runs PROVE Sized(r)
  OBVIOUS
<1>1. todo[r] \in SUBSET Rows /\ pc[r] \in Steps
  BY DEF IInv, TypeOK
<1>2. /\ IsFiniteSet(todo[r]) /\ Cardinality(todo[r]) \in Nat
      /\ Cardinality(todo[r]) <= Cardinality(Rows) /\ Cardinality(Rows) \in Nat
  BY <1>1, FS_Subset, FS_CardinalityType
<1>3. InTurn(r) => Cardinality(todo[r]) < Cardinality(Rows)
  <2> SUFFICES ASSUME InTurn(r) PROVE Cardinality(todo[r]) < Cardinality(Rows)
    OBVIOUS
  <2>1. PICK w \in Taken(r) : TRUE
    BY DEF IInv, AddsUp
  <2>2. w \in Rows /\ todo[r] \subseteq Rows \ {w}
    BY <1>1, <2>1 DEF Taken, ListedRows
  <2>3. IsFiniteSet(Rows \ {w}) /\ Cardinality(Rows \ {w}) = Cardinality(Rows) - 1
    BY <2>2, FS_RemoveElement
  <2>4. Cardinality(todo[r]) <= Cardinality(Rows \ {w})
    BY <2>2, <2>3, FS_Subset
  <2> QED
    BY <1>2, <2>3, <2>4
<1>4. Left(r) \in 0..(3 * Cardinality(Rows) + 2)
  BY <1>1, <1>2, <1>3 DEF Left, Steps, InTurn
<1> QED
  BY <1>2, <1>4 DEF Sized

LEMMA RowsLeftNext == IInv' => \A r \in Runs : Sized(r)'
<1>1. IInv' => (\A r \in Runs : Sized(r))'
  BY RowsLeft, PTL
<1> QED
  BY <1>1

LEMMA ProceedShortens ==
  ASSUME IInv, IInv', NEW r \in Runs, Proceed(r)
  PROVE  Left(r)' < Left(r)
<1> DEFINE c == Cardinality(todo[r])
           d == Cardinality(todo'[r])
           n == Cardinality(Rows)
<1>1. c \in Nat /\ d \in Nat /\ n \in Nat /\ c <= n /\ d <= n
  BY RowsLeft, RowsLeftNext, RowsCount DEF Sized
<1>2. pc' = [pc EXCEPT ![r] = pc'[r]] /\ r \in DOMAIN pc
  BY DEF Proceed, GetAllUserIDs, NextUser, ReadToken, GetMailMessages, Finish, Report,
         TurnFails, TurnSucceeds, IInv, TypeOK
<1>3. CASE GetAllUserIDs(r)
  <2>1. pc[r] = "list" /\ pc'[r] \in {"next", "idle"}
    BY <1>2, <1>3 DEF GetAllUserIDs, Report
  <2> QED
    BY <1>1, <2>1 DEF Left
<1>4. CASE NextUser(r)
  <2>1. PICK w \in todo[r] : todo'[r] = todo[r] \ {w}
    BY <1>4 DEF NextUser, IInv, TypeOK
  <2>2. d = c - 1
    BY <2>1, RowsLeft, FS_RemoveElement DEF Sized
  <2>3. pc[r] = "next" /\ pc'[r] = "read"
    BY <1>2, <1>4 DEF NextUser
  <2> QED
    BY <1>1, <2>2, <2>3 DEF Left
<1>5. CASE ReadToken(r)
  <2>1. pc[r] = "read" /\ pc'[r] \in {"next", "call"} /\ todo' = todo
    BY <1>2, <1>5 DEF ReadToken, TurnFails
  <2> QED
    BY <1>1, <2>1 DEF Left
<1>6. CASE GetMailMessages(r)
  <2>1. pc[r] = "call" /\ pc'[r] = "next" /\ todo' = todo
    BY <1>2, <1>6 DEF GetMailMessages, TurnFails, TurnSucceeds
  <2> QED
    BY <1>1, <2>1 DEF Left
<1>7. CASE Finish(r)
  <2>1. pc[r] = "next" /\ pc'[r] = "idle"
    BY <1>2, <1>7 DEF Finish, Report
  <2> QED
    BY <1>1, <2>1 DEF Left
<1> QED
  BY <1>3, <1>4, <1>5, <1>6, <1>7 DEF Proceed

\* A run that nothing ends is at most 3 * Cardinality(Rows) + 2 steps long
\* (ProcessAllUserMailActivity, mail.go:235-289): as many as Left says at its
\* start.
THEOREM RunsAreShort ==
  Spec => RunsGetShorter /\ [](\A r \in Runs : Left(r) \in 0..(3 * Cardinality(Rows) + 2))
<1>1. ASSUME IInv, IInv', [Next]_vars, NEW r \in Runs
      PROVE  /\ Proceed(r) => Left(r)' < Left(r)
             /\ pc[r] # "idle" => Left(r)' <= Left(r)
  <2>1. Left(r) \in Nat /\ Left(r)' \in Nat
    BY <1>1, RowsLeft, RowsLeftNext, RowsCount DEF Sized
  <2>2. CASE Proceed(r)
    BY <1>1, <2>1, <2>2, ProceedShortens
  <2>3. CASE Crash(r)
    <3>1. pc'[r] = "idle" /\ ~Proceed(r)
      BY <1>1, <2>3 DEF Crash, Reset, IInv, TypeOK, Proceed, GetAllUserIDs, NextUser, ReadToken,
                        GetMailMessages, Finish
    <3>2. Left(r)' = 0
      BY <3>1 DEF Left
    <3> QED
      BY <2>1, <3>1, <3>2
  <2>4. CASE Execute(r)
    BY <2>4 DEF Execute, Proceed, GetAllUserIDs, NextUser, ReadToken, GetMailMessages, Finish
  <2>5. CASE ~Proceed(r) /\ ~Crash(r) /\ ~Execute(r)
    <3>1. pc'[r] = pc[r] /\ todo'[r] = todo[r]
      <4>1. CASE \E q \in Runs \ {r} : Execute(q) \/ Proceed(q) \/ Crash(q)
        BY <1>1, <4>1, OthersSame DEF IInv, Same
      <4>2. CASE \E u \in Users : Authorize(u) \/ Revoke(u)
        BY <4>2 DEF Authorize, Revoke, run
      <4>3. CASE UNCHANGED vars
        BY <4>3 DEF vars, run
      <4> QED
        BY <1>1, <2>5, <4>1, <4>2, <4>3 DEF Next
    <3>2. Left(r)' = Left(r)
      BY <3>1 DEF Left
    <3> QED
      BY <2>1, <2>5, <3>2
  <2> QED
    BY <2>2, <2>3, <2>4, <2>5
<1>2. IInv => \A r \in Runs : Left(r) \in 0..(3 * Cardinality(Rows) + 2)
  BY RowsLeft DEF Sized
<1>3. IInv /\ IInv' /\ [Next]_vars =>
        [\A r \in Runs : /\ Proceed(r) => Left(r)' < Left(r)
                         /\ pc[r] # "idle" => Left(r)' <= Left(r)]_vars
  BY <1>1
<1> QED
  BY <1>2, <1>3, Inductive, PTL DEF Spec, RunsGetShorter

-------------------------------------------------------------------------------
(* Tokens are used.                                                         *)

\* r listed a row of u, has not taken it yet, and has given u no turn.
Awaits(r, u) ==
  /\ pc[r] \in {"next", "read", "call"}
  /\ u \notin tried[r]
  /\ \E w \in todo[r] : listed[r][w] = u

GetsATurn(u) == \E r \in Runs : u \notin tried[r] /\ u \in tried'[r]

\* Whoever awaits a turn goes on doing so until it comes, if the run does not
\* crash: a run cannot end before it has taken every row.
LEMMA AwaitsUntilTurn ==
  ASSUME IInv, IInv', [Next]_vars, UNCHANGED crashes, NEW r \in Runs, NEW u \in Users,
         Awaits(r, u), ~<<GetsATurn(u)>>_vars
  PROVE  Awaits(r, u)'
<1> USE DEF IInv, TypeOK
<1>1. u \notin tried'[r]
  BY DEF Awaits, GetsATurn, vars, history
<1>2. CASE \E q \in Runs \ {r} : Execute(q) \/ Proceed(q) \/ Crash(q)
  BY <1>2, OthersSame DEF Same, Awaits
<1>3. ~Crash(r) /\ ~Execute(r) /\ ~GetAllUserIDs(r) /\ ~Finish(r)
  BY DEF Crash, Execute, GetAllUserIDs, Finish, Awaits
<1>4. CASE NextUser(r)
  <2>1. PICK w \in todo[r] : /\ todo'[r] = todo[r] \ {w} /\ listed'[r] = listed[r]
                             /\ tried'[r] = tried[r] \cup {listed[r][w]}
                             /\ pc'[r] = "read"
    BY <1>4 DEF NextUser
  <2>2. listed[r][w] # u
    BY <1>1, <2>1
  <2> QED
    BY <1>1, <2>1, <2>2 DEF Awaits
<1>5. CASE ReadToken(r) \/ GetMailMessages(r)
  <2>1. pc'[r] \in {"next", "call"} /\ UNCHANGED <<todo, listed>>
    BY <1>5 DEF ReadToken, GetMailMessages, TurnFails, TurnSucceeds
  <2> QED
    BY <1>1, <2>1 DEF Awaits
<1>6. CASE \E v \in Users : Authorize(v) \/ Revoke(v)
  <2>1. UNCHANGED run
    BY <1>6 DEF Authorize, Revoke
  <2> QED
    BY <1>1, <2>1 DEF run, Awaits
<1>7. CASE UNCHANGED vars
  BY <1>7 DEF vars, run, history, Awaits
<1> QED
  BY <1>2, <1>3, <1>4, <1>5, <1>6, <1>7 DEF Next, Proceed

\* A list that is got holds every user with a row.
LEMMA ListedAwaits ==
  ASSUME IInv, Listing, NEW u \in Users, RowsOf(u) # {}
  PROVE  \E r \in Runs : Awaits(r, u)'
<1>1. PICK r \in Runs : GetAllUserIDs(r) /\ pc'[r] = "next"
  BY DEF Listing
<1>2. /\ listed'[r] = rowUser /\ todo'[r] = {w \in Rows : rowUser[w] # NULL}
      /\ tried' = tried /\ pc[r] = "list"
  BY <1>1 DEF GetAllUserIDs, Report, IInv, TypeOK
<1>3. tried[r] = {}
  BY <1>2 DEF IInv, AddsUp, Taken, UsersAt
<1>4. PICK w \in Rows : rowUser[w] = u
  BY DEF RowsOf
<1>5. Awaits(r, u)'
  BY <1>1, <1>2, <1>3, <1>4 DEF Awaits
<1> QED
  BY <1>5

\* What the theorem takes from the runs' surroundings: the scheduler starts
\* runs; each run ends, as it does if it goes on (RunsAreShort); lists that are
\* asked for again and again are got again and again; crashes stop.
Starting        == \E r \in Runs : Execute(r)
RunsStart       == []<><<Starting>>_vars
RunEnds(r)      == <>(pc[r] = "idle")
AllRunsEnd      == \A r \in Runs : RunEnds(r)
RunsEnd         == []AllRunsEnd
Asking          == \E r \in Runs : pc[r] = "list"
ListsGetThrough == []<>Asking => []<><<Listing>>_vars
CrashesStop     == <>[][UNCHANGED crashes]_vars

HasToken(u) == RowsOf(u) # {}
TurnComes(u) == <><<GetsATurn(u)>>_vars

\* From where on crashes have stopped and u has a row.
Settled(u) ==
  /\ []IInv /\ [][Next]_vars /\ [][UNCHANGED crashes]_vars
  /\ RunsEnd /\ []HasToken(u)

LEMMA WhoAwaitsGetsTheTurn ==
  ASSUME NEW u \in Users
  PROVE  Settled(u) => ((\E r \in Runs : Awaits(r, u)) => TurnComes(u))
<1>1. ASSUME NEW r \in Runs
      PROVE  Settled(u) /\ Awaits(r, u) => TurnComes(u)
  <2>1. IInv /\ IInv' /\ [Next]_vars /\ [UNCHANGED crashes]_vars /\ Awaits(r, u) =>
          Awaits(r, u)' \/ <<GetsATurn(u)>>_vars
    BY AwaitsUntilTurn DEF vars
  <2>2. Awaits(r, u) => ~(pc[r] = "idle")
    BY DEF Awaits
  <2>3. AllRunsEnd => RunEnds(r)
    BY DEF AllRunsEnd
  <2>4. RunEnds(r) => <>(pc[r] = "idle")
    BY PTL DEF RunEnds
  <2> QED
    BY <2>1, <2>2, <2>3, <2>4, PTL DEF Settled, RunsEnd, TurnComes
<1> QED
  BY <1>1

\* A user who keeps a token is given turns for ever (mail.go:235-289).
THEOREM TokensGetUsed ==
  Spec /\ RunsStart /\ RunsEnd /\ ListsGetThrough /\ CrashesStop => TokensAreUsed
<1>1. ASSUME NEW u \in Users
      PROVE  Spec /\ RunsStart /\ RunsEnd /\ ListsGetThrough /\ CrashesStop =>
               (<>[]HasToken(u) => []<><<GetsATurn(u)>>_vars)
  <2>1. <<Starting>>_vars /\ IInv => Asking'
    BY DEF Starting, Execute, Reset, Asking, IInv, TypeOK
  <2>2. IInv /\ HasToken(u) /\ <<Listing>>_vars => (\E r \in Runs : Awaits(r, u))'
    BY ListedAwaits DEF HasToken
  <2>3. Settled(u) => ((\E r \in Runs : Awaits(r, u)) => TurnComes(u))
    BY WhoAwaitsGetsTheTurn
  <2> QED
    BY <2>1, <2>2, <2>3, Inductive, PTL
    DEF Spec, RunsStart, ListsGetThrough, CrashesStop, Settled, RunsEnd, TurnComes
<1> DEFINE Used(u) == <>[]HasToken(u) => []<><<GetsATurn(u)>>_vars
<1> QED
  BY <1>1 DEF TokensAreUsed, HasToken, GetsATurn

\* A run that is over stays so until the scheduler starts one.
LEMMA OverUntilStarted ==
  ASSUME IInv, [Next]_vars, NEW r \in Runs, pc[r] = "idle", ~<<Execute(r)>>_vars
  PROVE  pc'[r] = "idle"
<1>1. ~Proceed(r) /\ ~Crash(r)
  BY DEF Proceed, GetAllUserIDs, NextUser, ReadToken, GetMailMessages, Finish, Crash
<1>2. CASE Execute(r)
  BY <1>2 DEF Execute, Reset, IInv, TypeOK, vars, run
<1>3. CASE \E q \in Runs \ {r} : Execute(q) \/ Proceed(q) \/ Crash(q)
  BY <1>3, OthersSame DEF IInv, Same
<1>4. CASE \E u \in Users : Authorize(u) \/ Revoke(u)
  BY <1>4 DEF Authorize, Revoke, run
<1>5. CASE UNCHANGED vars
  BY <1>5 DEF vars, run
<1> QED
  BY <1>1, <1>2, <1>3, <1>4, <1>5 DEF Next

\* Under FairSpec the same, if the scheduler can start one of the runs when it
\* is over and a list that is asked for can be got.
CanStart(r) == [](pc[r] = "idle" => ENABLED <<Execute(r)>>_vars)

COROLLARY FairTokensGetUsed ==
  ASSUME NEW r \in Runs
  PROVE  /\ FairSpec /\ RunsEnd /\ CrashesStop
         /\ CanStart(r) /\ [](Asking => ENABLED <<Listing>>_vars)
         => TokensAreUsed
<1>1. (\A q \in Runs : Scheduled(q)) => Scheduled(r)
  OBVIOUS
<1>2. AllRunsEnd => RunEnds(r)
  BY DEF AllRunsEnd
<1>3. RunEnds(r) => <>(pc[r] = "idle")
  BY PTL DEF RunEnds
<1>4. IInv /\ [Next]_vars /\ pc[r] = "idle" => (pc[r] = "idle")' \/ <<Execute(r)>>_vars
  BY OverUntilStarted
<1>5. <<Execute(r)>>_vars => <<Starting>>_vars
  BY DEF Starting
<1>6. Spec /\ RunsEnd /\ CanStart(r) /\ Scheduled(r) => RunsStart
  BY <1>2, <1>3, <1>4, <1>5, Inductive, PTL
  DEF Spec, RunsStart, RunsEnd, CanStart, Scheduled
<1> QED
  BY <1>1, <1>6, TokensGetUsed, PTL DEF FairSpec, Fairness, ListsGetThrough
=============================================================================
