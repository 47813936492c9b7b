--------------------------- MODULE MigrationsProofs ---------------------------
(***************************************************************************)
(* The safety of the migrate commands on either engine, for any number of  *)
(* processes, any arguments, and any order of failures and crashes, from   *)
(* the inductive invariant Migrations!IInv; that no command needs more     *)
(* than nineteen calls, and that commands which go on come to their end.   *)
(***************************************************************************)
EXTENDS Migrations, TLAPS

USE CommandLines DEF NilVersion, Latest, Files, Columns, Schemas

\* Each script takes the schema of its version to that of the next.
LEMMA UpScriptsMatch ==
  ASSUME NEW v \in {-1, 1, 2, 3, 4}, NEW s \in Schemas, NEW t \in Schemas,
         Matches(s, v), UpScript(After(v), s, t)
  PROVE  Matches(t, After(v))
<1>1. CASE v = -1
  BY <1>1 DEF Matches, UpScript, After, CreateTokens
<1>2. CASE v = 1
  BY <1>2 DEF Matches, UpScript, After, CreateSessions
<1>3. CASE v = 2
  BY <1>3 DEF Matches, UpScript, After, CreateIndex
<1>4. CASE v = 3
  BY <1>4 DEF Matches, UpScript, After, CreateLogs
<1>5. CASE v = 4
  BY <1>5 DEF Matches, UpScript, After, WidenTokens
<1> QED
  BY <1>1, <1>2, <1>3, <1>4, <1>5

LEMMA DownScriptsMatch ==
  ASSUME NEW v \in Files, NEW s \in Schemas, NEW t \in Schemas,
         Matches(s, v), DownScript(v, s, t)
  PROVE  Matches(t, Before(v))
<1>1. CASE v = 1
  BY <1>1 DEF Matches, DownScript, Before, DropTokens
<1>2. CASE v = 2
  BY <1>2 DEF Matches, DownScript, Before, DropSessions
<1>3. CASE v = 3
  BY <1>3 DEF Matches, DownScript, Before, DropIndex
<1>4. CASE v = 4
  BY <1>4 DEF Matches, DownScript, Before, DropLogs
<1>5. CASE v = 5
  BY <1>5 DEF Matches, DownScript, Before, NarrowTokens
<1> QED
  BY <1>1, <1>2, <1>3, <1>4, <1>5

\* Tokens of any length suit every version with wide columns.
LEMMA LengthsMatch ==
  ASSUME NEW s \in Schemas, NEW c \in {"text", "long"}, s.tokens \in {"text", "long"},
         NEW v \in Versions
  PROVE  Matches([s EXCEPT !.tokens = c], v) <=> Matches(s, v)
BY DEF Matches

\* The arguments of commands.
LEMMA CommandArguments ==
  ASSUME NEW c \in Commands
  PROVE  /\ c.kind \in {"up", "down", "force", "report"}
         /\ c.kind = "down" => c.arg \in Int
         /\ c.kind = "force" => c.arg \in Versions
BY DEF Commands, Versions

\* The run of process p under the lock, with its schema right before the
\* script, has it right after the script.
LEMMA ScriptsMatch ==
  ASSUME IInv, NEW p \in Procs, pc[p] = "running", NEW t \in Schemas, Script(p, schema, t)
  PROVE  misforced \/ Matches(t, version)
<1>1. /\ misforced \/ Matches(schema, at[p])
      /\ version = Target(p) /\ Known(p, at[p]) /\ schema \in Schemas
      /\ cmd[p].kind = "up" => at[p] # Latest
  BY DEF IInv, OnItsWay, TypeOK
<1>2. CASE cmd[p].kind = "up"
  <2>1. at[p] \in {-1, 1, 2, 3, 4}
    BY <1>1, <1>2 DEF Known
  <2> QED
    BY <1>1, <1>2, <2>1, UpScriptsMatch DEF Script, Target
<1>3. CASE cmd[p].kind # "up"
  <2>1. at[p] \in Files
    BY <1>1, <1>3 DEF Known
  <2> QED
    BY <1>1, <1>3, <2>1, DownScriptsMatch DEF Script, Target
<1> QED
  BY <1>2, <1>3

LEMMA InitIInv == Init => IInv
<1> SUFFICES ASSUME Init PROVE IInv
  OBVIOUS
<1>1. Empty \in Schemas /\ Matches(Empty, -1) /\ Up \in Commands
  BY DEF Empty, Matches, Up, Commands
<1>2. TypeOK
  BY <1>1 DEF Init, TypeOK, Versions, Steps, Locked
<1>3. LockHeld
  BY DEF Init, LockHeld, Locked
<1>4. ASSUME NEW p \in Procs PROVE OnItsWay(p) /\ Begun(p)
  BY DEF Init, OnItsWay, Begun
<1>5. VersionTellsSchema /\ DirtyIsRecoverable /\ AbandonedStaysDirty /\ SuccessIsReal
  BY <1>1 DEF Init, VersionTellsSchema, DirtyIsRecoverable, AbandonedStaysDirty,
                SuccessIsReal, Success
<1> QED
  BY <1>2, <1>3, <1>4, <1>5 DEF IInv

\* The local state a command begins or ends with.
LEMMA BecomeTypes ==
  ASSUME TypeOK, NEW p \in Procs, NEW step \in Steps, NEW c \in Commands, NEW n \in Nat,
         Become(p, step, c, n)
  PROVE  /\ pc' \in [Procs -> Steps] /\ cmd' \in [Procs -> Commands]
         /\ at' \in [Procs -> Versions] /\ left' \in [Procs -> Nat]
         /\ error' \in [Procs -> BOOLEAN] /\ began' \in [Procs -> Versions]
BY DEF TypeOK, Become, Versions

LEMMA EndTypes ==
  ASSUME TypeOK, NEW p \in Procs, End(p)
  PROVE  /\ pc' \in [Procs -> Steps] /\ cmd' \in [Procs -> Commands]
         /\ at' \in [Procs -> Versions] /\ left' \in [Procs -> Nat]
         /\ error' \in [Procs -> BOOLEAN] /\ began' \in [Procs -> Versions]
<1>1. "idle" \in Steps /\ Up \in Commands /\ 0 \in Nat
  BY DEF Steps, Up, Commands
<1> QED
  BY <1>1, BecomeTypes DEF End

\* Types are kept.
LEMMA StepTypes == IInv /\ [Next]_vars => TypeOK'
<1> SUFFICES ASSUME IInv, [Next]_vars PROVE TypeOK'
  OBVIOUS
<1> USE DEF table, local
<1>0. TypeOK
  BY DEF IInv
<1>1. ASSUME NEW p \in Procs, NEW c \in Commands, Start(p, c) PROVE TypeOK'
  <2>1. (IF c.kind = "down" THEN c.arg ELSE 0) \in Nat /\ "opening" \in Steps
    BY <1>1, CommandArguments DEF Start, Steps
  <2> QED
    BY <1>0, <1>1, <2>1, BecomeTypes DEF Start, TypeOK
<1>2. ASSUME NEW p \in Procs, GetMigrator(p) \/ Lock(p) PROVE TypeOK'
  BY <1>0, <1>2 DEF GetMigrator, Lock, TypeOK, Steps, Locked
<1>3. ASSUME NEW p \in Procs, GetMigratorFails(p) \/ LockTimesOut(p) PROVE TypeOK'
  BY <1>0, <1>3, EndTypes DEF GetMigratorFails, LockTimesOut, TypeOK
<1>4. ASSUME NEW p \in Procs, Check(p) PROVE TypeOK'
  BY <1>0, <1>4 DEF Check, TypeOK, Steps, Locked
<1>5. ASSUME NEW p \in Procs, Mark(p) PROVE TypeOK'
  <2>1. Target(p) \in Versions
    BY <1>5 DEF IInv, Mark, OnItsWay, Known, Target, After, Before, Versions
  <2> QED
    BY <1>0, <1>5, <2>1 DEF Mark, TypeOK, Steps, Locked
<1>6. ASSUME NEW p \in Procs, RunScript(p) \/ StepFails(p) PROVE TypeOK'
  BY <1>0, <1>6 DEF RunScript, StepFails, AllOrNothing, TypeOK, Steps, Locked
<1>7. ASSUME NEW p \in Procs, Clean(p) PROVE TypeOK'
  <2>1. left[p] \in Nat /\ (cmd[p].kind = "down" => left[p] >= 1)
    BY <1>0, <1>7 DEF IInv, Clean, OnItsWay, TypeOK
  <2>2. left' \in [Procs -> Nat]
    BY <1>0, <1>7, <2>1 DEF Clean, TypeOK
  <2> QED
    BY <1>0, <1>7, <2>2 DEF Clean, TypeOK, Steps, Locked
<1>8. ASSUME NEW p \in Procs, ForceVersion(p) PROVE TypeOK'
  <2>1. cmd[p] \in Commands /\ cmd[p].kind = "force"
    BY <1>0, <1>8 DEF IInv, ForceVersion, Begun, TypeOK
  <2>2. cmd[p].arg \in Versions
    BY <2>1, CommandArguments
  <2>3. misforced' \in BOOLEAN
    BY <1>8 DEF ForceVersion
  <2> QED
    BY <1>0, <1>8, <2>2, <2>3 DEF ForceVersion, TypeOK, Steps, Locked
<1>9. ASSUME NEW p \in Procs, Unlock(p) \/ Report(p) PROVE TypeOK'
  BY <1>0, <1>9, EndTypes DEF Unlock, Report, TypeOK
<1>10. ASSUME NEW p \in Procs, Crash(p) PROVE TypeOK'
  <2>1. schema' \in Schemas /\ abandoned' \in BOOLEAN /\ lock' \in Procs \cup {None}
    BY <1>0, <1>10 DEF Crash, AllOrNothing, TypeOK
  <2> QED
    BY <1>0, <1>10, <2>1, EndTypes DEF Crash, TypeOK
<1>11. ASSUME LongTokens PROVE TypeOK'
  <2>1. schema' \in Schemas
    BY <1>0, <1>11 DEF LongTokens, TypeOK
  <2> QED
    BY <1>0, <1>11, <2>1 DEF LongTokens, TypeOK
<1>12. ASSUME UNCHANGED vars PROVE TypeOK'
  BY <1>0, <1>12 DEF vars, TypeOK
<1> QED
  BY <1>1, <1>2, <1>3, <1>4, <1>5, <1>6, <1>7, <1>8, <1>9, <1>10, <1>11, <1>12 DEF Next, Proceed

\* A process without the lock is not disturbed by the one that has it.
LEMMA OthersUndisturbed ==
  ASSUME IInv, NEW p \in Procs, NEW q \in Procs, q # p, pc[p] \in Locked,
         pc'[q] = pc[q], cmd'[q] = cmd[q], left'[q] = left[q], error'[q] = error[q]
  PROVE  OnItsWay(q)' /\ Begun(q)' /\ Success(q)'
<1>1. pc[q] \notin Locked
  BY DEF IInv, LockHeld
<1>2. pc'[q] \notin {"checking", "marking", "running", "cleaning", "forcing", "unlocking"}
  BY <1>1 DEF Locked
<1>3. Begun(q)
  BY DEF IInv
<1> QED
  BY <1>2, <1>3 DEF OnItsWay, Begun, Success

\* A step without the lock changes nothing but the process that makes it.
LEMMA OutsideTheLock ==
  ASSUME IInv, NEW p \in Procs, NEW step \in Steps, pc[p] \notin Locked, step \notin Locked,
         TypeOK', UNCHANGED <<table, lock, from, misforced, abandoned>>,
         pc' = [pc EXCEPT ![p] = step], Begun(p)',
         \A q \in Procs \ {p} : /\ cmd'[q] = cmd[q] /\ at'[q] = at[q] /\ left'[q] = left[q]
                                /\ error'[q] = error[q] /\ began'[q] = began[q]
  PROVE  IInv'
<1>1. TypeOK /\ LockHeld
  BY DEF IInv
<1>2. pc'[p] = step /\ \A q \in Procs \ {p} : pc'[q] = pc[q]
  BY <1>1 DEF TypeOK
<1>3. LockHeld'
  BY <1>1, <1>2 DEF LockHeld
<1>4. ASSUME NEW q \in Procs PROVE OnItsWay(q)' /\ Begun(q)' /\ Success(q)'
  <2>1. CASE q = p
    BY <1>2, <2>1 DEF OnItsWay, Success, Locked
  <2>2. CASE q # p
    <3>1. OnItsWay(q) /\ Begun(q) /\ Success(q)
      BY DEF IInv, SuccessIsReal
    <3> QED
      BY <1>2, <2>2, <3>1 DEF OnItsWay, Begun, Success, table, Known, Target
  <2> QED
    BY <2>1, <2>2
<1>5. (VersionTellsSchema /\ DirtyIsRecoverable /\ AbandonedStaysDirty)'
  BY DEF IInv, VersionTellsSchema, DirtyIsRecoverable, AbandonedStaysDirty, table
<1> QED
  BY <1>3, <1>4, <1>5 DEF IInv, SuccessIsReal

\* The whole invariant, from the process that has the lock.
LEMMA UnderTheLock ==
  ASSUME IInv, NEW p \in Procs, pc[p] \in Locked, TypeOK',
         \A q \in Procs \ {p} : /\ pc'[q] = pc[q] /\ cmd'[q] = cmd[q] /\ left'[q] = left[q]
                                /\ error'[q] = error[q],
         lock' = IF pc'[p] \in Locked THEN p ELSE None,
         OnItsWay(p)', Begun(p)', Success(p)',
         (VersionTellsSchema /\ DirtyIsRecoverable /\ AbandonedStaysDirty)'
  PROVE  IInv'
<1>1. LockHeld /\ lock = p
  BY DEF IInv, LockHeld
<1>2. LockHeld'
  BY <1>1 DEF LockHeld, TypeOK
<1>3. \A q \in Procs : OnItsWay(q)' /\ Begun(q)' /\ Success(q)'
  BY OthersUndisturbed
<1> QED
  BY <1>2, <1>3 DEF IInv, SuccessIsReal

\* Starting a command, waiting for its run, and giving up change nothing else.
LEMMA OutsideSteps ==
  ASSUME IInv, TypeOK', NEW p \in Procs, NEW c \in Commands,
         Start(p, c) \/ GetMigrator(p) \/ GetMigratorFails(p) \/ LockTimesOut(p) \/ Report(p)
  PROVE  IInv'
<1>0. TypeOK /\ Begun(p)
  BY DEF IInv
<1> DEFINE Quiet(step) ==
  /\ pc[p] \notin Locked /\ UNCHANGED <<table, lock, from, misforced, abandoned>>
  /\ pc' = [pc EXCEPT ![p] = step] /\ Begun(p)'
  /\ \A q \in Procs \ {p} : /\ cmd'[q] = cmd[q] /\ at'[q] = at[q] /\ left'[q] = left[q]
                            /\ error'[q] = error[q] /\ began'[q] = began[q]
<1>1. ASSUME NEW step \in Steps, step \notin Locked, Quiet(step) PROVE IInv'
  BY <1>1, OutsideTheLock
<1>2. CASE Start(p, c)
  <2>1. /\ pc'[p] = "opening" /\ cmd'[p] = c /\ error'[p] = FALSE
        /\ left'[p] = IF c.kind = "down" THEN c.arg ELSE 0
    BY <1>0, <1>2 DEF Start, Become, TypeOK
  <2>2. Begun(p)'
    BY <1>2, <2>1 DEF Start, Begun
  <2>3. Quiet("opening")
    BY <1>0, <1>2, <2>2 DEF Start, Become, TypeOK, Locked
  <2>4. "opening" \in Steps /\ "opening" \notin Locked
    BY DEF Steps, Locked
  <2> QED
    BY <1>1, <2>3, <2>4
<1>3. CASE GetMigrator(p)
  <2> DEFINE step == IF cmd[p].kind = "report" THEN "reporting" ELSE "locking"
  <2>1. step \in Steps /\ step \notin Locked
    BY DEF Steps, Locked
  <2>2. pc'[p] = step /\ pc[p] = "opening" /\ UNCHANGED <<cmd, left, error>>
    BY <1>0, <1>3 DEF GetMigrator, TypeOK
  <2>3. Begun(p)'
    BY <1>0, <2>2 DEF Begun
  <2>4. Quiet(step)
    BY <1>0, <1>3, <2>3 DEF GetMigrator, TypeOK, Locked
  <2> HIDE DEF step
  <2> QED
    BY <1>1, <2>1, <2>4
<1>4. CASE GetMigratorFails(p) \/ LockTimesOut(p) \/ Report(p)
  <2>1. pc'[p] = "idle"
    BY <1>0, <1>4 DEF GetMigratorFails, LockTimesOut, Report, End, Become, TypeOK
  <2>2. Begun(p)'
    BY <2>1 DEF Begun
  <2>3. Quiet("idle")
    BY <1>0, <1>4, <2>2
       DEF GetMigratorFails, LockTimesOut, Report, End, Become, TypeOK, Locked
  <2>4. "idle" \in Steps /\ "idle" \notin Locked
    BY DEF Steps, Locked
  <2> QED
    BY <1>1, <2>3, <2>4
<1> QED
  BY <1>2, <1>3, <1>4

\* Taking the lock.
LEMMA LockStep ==
  ASSUME IInv, TypeOK', NEW p \in Procs, Lock(p)
  PROVE  IInv'
<1>0. TypeOK /\ LockHeld /\ Begun(p)
  BY DEF IInv
<1>1. pc'[p] = IF cmd[p].kind = "force" THEN "forcing" ELSE "checking"
  BY <1>0 DEF Lock, TypeOK
<1>2. /\ pc[p] = "locking" /\ lock = None /\ lock' = p
      /\ UNCHANGED <<table, cmd, at, left, error, began, from, misforced, abandoned>>
      /\ \A q \in Procs \ {p} : pc'[q] = pc[q]
  BY <1>0 DEF Lock, TypeOK
<1>3. \A q \in Procs : pc[q] \notin Locked
  BY <1>0, <1>2 DEF LockHeld
<1>4. LockHeld'
  BY <1>1, <1>2, <1>3 DEF LockHeld, Locked
<1>5. ASSUME NEW q \in Procs \ {p} PROVE OnItsWay(q)' /\ Begun(q)' /\ Success(q)'
  <2>1. OnItsWay(q) /\ Begun(q) /\ Success(q)
    BY DEF IInv, SuccessIsReal
  <2> QED
    BY <1>2, <2>1 DEF OnItsWay, Begun, Success, table, Known, Target
<1>6. OnItsWay(p)' /\ Success(p)'
  BY <1>1 DEF OnItsWay, Success
<1>7. cmd[p] \in Commands /\ error[p] = error'[p]
  BY <1>0, <1>2 DEF TypeOK
<1>8. Begun(p)'
  BY <1>0, <1>1, <1>2, <1>7, CommandArguments DEF Begun
<1>9. (VersionTellsSchema /\ DirtyIsRecoverable /\ AbandonedStaysDirty)'
  BY <1>2 DEF IInv, VersionTellsSchema, DirtyIsRecoverable, AbandonedStaysDirty, table
<1> QED
  BY <1>4, <1>5, <1>6, <1>8, <1>9 DEF IInv, SuccessIsReal

\* Reading the version.
LEMMA CheckStep ==
  ASSUME IInv, TypeOK', NEW p \in Procs, Check(p)
  PROVE  IInv'
<1>0. TypeOK /\ LockHeld /\ Begun(p) /\ cmd[p] \in Commands
  BY DEF IInv, TypeOK
<1>1. /\ pc[p] = "checking" /\ pc[p] \in Locked /\ lock = p
      /\ UNCHANGED <<table, lock, cmd, left, from, misforced, abandoned>>
      /\ \A q \in Procs \ {p} : pc'[q] = pc[q] /\ error'[q] = error[q]
  BY <1>0 DEF Check, TypeOK, LockHeld, Locked
<1>2. /\ at'[p] = version /\ began'[p] = version
      /\ error'[p] = (dirty \/ ~Known(p, version))
      /\ pc'[p] = IF error'[p] \/ Finished(p, version, left[p]) THEN "unlocking" ELSE "marking"
  BY <1>0 DEF Check, TypeOK
<1>3. pc'[p] \in Locked
  BY <1>2 DEF Locked
<1>4. (VersionTellsSchema /\ DirtyIsRecoverable /\ AbandonedStaysDirty)'
  BY <1>1 DEF IInv, VersionTellsSchema, DirtyIsRecoverable, AbandonedStaysDirty, table
<1>5. cmd[p].kind = "down" => left[p] = cmd[p].arg /\ left[p] >= 1
  BY <1>0, <1>1 DEF Begun
<1>6. cmd[p].kind \in {"up", "down"}
  BY <1>0, <1>1, CommandArguments DEF Begun
<1>7. CASE error'[p] \/ Finished(p, version, left[p])
  <2>1. pc'[p] = "unlocking"
    BY <1>2, <1>7
  <2>2. OnItsWay(p)' /\ Begun(p)'
    BY <2>1 DEF OnItsWay, Begun
  <2>3. ASSUME ~error'[p] PROVE ~dirty /\ cmd[p].kind = "up" /\ version = Latest
    <3>1. ~dirty /\ Finished(p, version, left[p])
      BY <1>2, <1>7, <2>3
    <3> QED
      BY <1>5, <1>6, <3>1 DEF Finished
  <2>4. Success(p)'
    BY <1>1, <2>3 DEF Success, table
  <2> QED
    BY <1>1, <1>3, <1>4, <2>2, <2>4, UnderTheLock
<1>8. CASE ~(error'[p] \/ Finished(p, version, left[p]))
  <2>1. pc'[p] = "marking" /\ ~dirty /\ Known(p, version) /\ ~error'[p]
    BY <1>2, <1>8
  <2>2. ~abandoned
    BY <2>1 DEF IInv, AbandonedStaysDirty
  <2>3. cmd[p].kind = "up" => version # Latest
    BY <1>8 DEF Finished
  <2>4. cmd[p].kind = "down" => version \in Files
    BY <2>1 DEF Known
  <2>5. version \in Versions /\ left[p] \in Nat
    BY <1>0 DEF TypeOK
  <2>6. cmd[p].kind = "down" => began'[p] - at'[p] = cmd[p].arg - left[p]
    BY <1>2, <1>5, <2>4, <2>5
  <2>7. OnItsWay(p)'
    BY <1>1, <1>2, <1>5, <2>1, <2>2, <2>3, <2>4, <2>5, <2>6 DEF OnItsWay, table, Known
  <2>8. Begun(p)' /\ Success(p)'
    BY <1>1, <1>6, <2>1 DEF Begun, Success
  <2> QED
    BY <1>1, <1>3, <1>4, <2>7, <2>8, UnderTheLock
<1> QED
  BY <1>7, <1>8

\* Marking the next version.
LEMMA MarkStep ==
  ASSUME IInv, TypeOK', NEW p \in Procs, Mark(p)
  PROVE  IInv'
<1>0. TypeOK /\ LockHeld /\ OnItsWay(p) /\ Begun(p) /\ VersionTellsSchema
  BY DEF IInv
<1>1. /\ pc[p] = "marking" /\ pc[p] \in Locked /\ lock = p
      /\ version' = Target(p) /\ dirty' = TRUE /\ from' = at[p]
      /\ UNCHANGED <<schema, lock, cmd, at, left, error, began, misforced, abandoned>>
      /\ pc'[p] = "running" /\ \A q \in Procs \ {p} : pc'[q] = pc[q]
  BY <1>0 DEF Mark, TypeOK, LockHeld, Locked
<1>2. misforced \/ Matches(schema, at[p])
  BY <1>0, <1>1 DEF OnItsWay, VersionTellsSchema
<1>3. (VersionTellsSchema /\ DirtyIsRecoverable /\ AbandonedStaysDirty)'
  BY <1>1, <1>2 DEF VersionTellsSchema, DirtyIsRecoverable, AbandonedStaysDirty
<1>4. OnItsWay(p)'
  BY <1>0, <1>1, <1>2 DEF OnItsWay, Target, Known
<1>5. Begun(p)' /\ Success(p)' /\ pc'[p] \in Locked
  BY <1>0, <1>1 DEF Begun, Success, Locked
<1> QED
  BY <1>1, <1>3, <1>4, <1>5, UnderTheLock

\* Running its script.
LEMMA RunScriptStep ==
  ASSUME IInv, TypeOK', NEW p \in Procs, RunScript(p)
  PROVE  IInv'
<1>0. TypeOK /\ LockHeld /\ OnItsWay(p) /\ Begun(p)
  BY DEF IInv
<1>1. /\ pc[p] = "running" /\ pc[p] \in Locked /\ lock = p
      /\ schema' \in Schemas /\ Script(p, schema, schema')
      /\ UNCHANGED <<version, dirty, lock, cmd, at, left, error, began, from, misforced, abandoned>>
      /\ pc'[p] = "cleaning" /\ \A q \in Procs \ {p} : pc'[q] = pc[q]
  BY <1>0 DEF RunScript, TypeOK, LockHeld, Locked
<1>2. misforced \/ Matches(schema', version)
  BY <1>1, ScriptsMatch
<1>3. dirty
  BY <1>0, <1>1 DEF OnItsWay
<1>4. (VersionTellsSchema /\ DirtyIsRecoverable /\ AbandonedStaysDirty)'
  BY <1>1, <1>2, <1>3 DEF VersionTellsSchema, DirtyIsRecoverable, AbandonedStaysDirty
<1>5. OnItsWay(p)'
  BY <1>0, <1>1, <1>2 DEF OnItsWay, Target, Known
<1>6. Begun(p)' /\ Success(p)' /\ pc'[p] \in Locked
  BY <1>0, <1>1 DEF Begun, Success, Locked
<1> QED
  BY <1>1, <1>4, <1>5, <1>6, UnderTheLock

\* Taking the mark off, and going on or ending.
LEMMA CleanStep ==
  ASSUME IInv, TypeOK', NEW p \in Procs, Clean(p)
  PROVE  IInv'
<1>0. TypeOK /\ LockHeld /\ OnItsWay(p) /\ Begun(p) /\ cmd[p] \in Commands /\ left[p] \in Nat
  BY DEF IInv, TypeOK
<1> DEFINE short == cmd[p].kind = "down" /\ version = NilVersion /\ left[p] > 1
           last == short \/ Finished(p, version, left[p] - 1)
<1>1. /\ pc[p] = "cleaning" /\ pc[p] \in Locked /\ lock = p /\ dirty' = FALSE
      /\ UNCHANGED <<version, schema, lock, cmd, began, from, misforced, abandoned>>
      /\ \A q \in Procs \ {p} : pc'[q] = pc[q] /\ error'[q] = error[q] /\ left'[q] = left[q]
  BY <1>0 DEF Clean, TypeOK, LockHeld, Locked
<1>2. /\ at'[p] = version /\ error'[p] = short
      /\ left'[p] = IF cmd[p].kind = "down" THEN left[p] - 1 ELSE left[p]
      /\ pc'[p] = IF last THEN "unlocking" ELSE "marking"
  BY <1>0 DEF Clean, TypeOK
<1>3. /\ misforced \/ Matches(schema, version)
      /\ ~abandoned /\ version = Target(p) /\ Known(p, at[p])
      /\ cmd[p].kind = "up" => at[p] # Latest
      /\ cmd[p].kind = "down" => left[p] >= 1 /\ began[p] \in Files
                                /\ began[p] - at[p] = cmd[p].arg - left[p]
  BY <1>0, <1>1 DEF OnItsWay
<1>4. cmd[p].kind \in {"up", "down"} /\ (cmd[p].kind = "down" => cmd[p].arg \in Int)
  BY <1>0, <1>1, CommandArguments DEF Begun
<1>5. pc'[p] \in Locked
  BY <1>2 DEF Locked
<1>6. (VersionTellsSchema /\ DirtyIsRecoverable /\ AbandonedStaysDirty)'
  BY <1>1, <1>3 DEF VersionTellsSchema, DirtyIsRecoverable, AbandonedStaysDirty
<1>7. CASE cmd[p].kind = "up"
  <2>1. version \in Files
    BY <1>3, <1>7 DEF Known, Target, After
  <2>2. pc'[p] = (IF version = Latest THEN "unlocking" ELSE "marking") /\ ~error'[p]
    BY <1>2, <1>7 DEF Finished
  <2>3. OnItsWay(p)'
    BY <1>0, <1>1, <1>2, <1>3, <1>7, <2>1, <2>2 DEF OnItsWay, Known, Versions, TypeOK
  <2>4. Begun(p)' /\ Success(p)'
    BY <1>1, <1>7, <2>2 DEF Begun, Success
  <2> QED
    BY <1>1, <1>5, <1>6, <2>3, <2>4, UnderTheLock
<1>8. CASE cmd[p].kind = "down"
  <2>1. /\ at[p] \in Files /\ left[p] >= 1 /\ began[p] \in Files /\ cmd[p].arg \in Int
        /\ version = IF at[p] = 1 THEN -1 ELSE at[p] - 1
        /\ began[p] - at[p] = cmd[p].arg - left[p]
    BY <1>3, <1>4, <1>8 DEF Known, Target, Before
  <2>2. left'[p] = left[p] - 1
    BY <1>2, <1>8
  <2>3. Finished(p, version, left[p] - 1) <=> left[p] = 1
    BY <1>0, <1>8 DEF Finished
  <2>4. CASE last
    <3>1. pc'[p] = "unlocking"
      BY <1>2, <2>4
    <3>2. ASSUME ~error'[p]
          PROVE  /\ began[p] \in cmd[p].arg..Latest
                 /\ version = IF began[p] = cmd[p].arg THEN -1 ELSE began[p] - cmd[p].arg
      <4>1. left[p] = 1
        BY <1>2, <2>3, <2>4, <3>2
      <4>2. at[p] \in Int /\ began[p] \in Int /\ cmd[p].arg = (began[p] - at[p]) + 1
        BY <2>1, <4>1
      <4>3. cmd[p].arg <= began[p] /\ (began[p] = cmd[p].arg <=> at[p] = 1)
        BY <2>1, <4>2
      <4>4. began[p] - cmd[p].arg = at[p] - 1
        BY <4>2
      <4>5. began[p] \in cmd[p].arg..Latest
        BY <2>1, <4>3
      <4> QED
        BY <2>1, <4>3, <4>4, <4>5
    <3>3. Success(p)'
      BY <1>1, <1>8, <3>2 DEF Success
    <3>4. OnItsWay(p)' /\ Begun(p)'
      BY <3>1 DEF OnItsWay, Begun
    <3> QED
      BY <1>1, <1>5, <1>6, <3>3, <3>4, UnderTheLock
  <2>5. CASE ~last
    <3>1. pc'[p] = "marking" /\ ~error'[p]
      BY <1>2, <2>5
    <3>2. left[p] # 1 /\ version \in Files /\ version = at[p] - 1
      BY <1>0, <1>8, <2>1, <2>3, <2>5
    <3>3. left'[p] >= 1 /\ began[p] - version = cmd[p].arg - left'[p]
      BY <1>0, <2>1, <2>2, <3>2
    <3>4. OnItsWay(p)'
      BY <1>0, <1>1, <1>2, <1>3, <1>8, <2>1, <3>1, <3>2, <3>3 DEF OnItsWay, Known, Versions, TypeOK
    <3>5. Begun(p)' /\ Success(p)'
      BY <1>1, <1>8, <3>1 DEF Begun, Success
    <3> QED
      BY <1>1, <1>5, <1>6, <3>4, <3>5, UnderTheLock
  <2> QED
    BY <2>4, <2>5
<1> QED
  BY <1>4, <1>7, <1>8

\* What a statement that was cut short can have done to the schema.
LEMMA AllOrNothingMatches ==
  ASSUME IInv, NEW p \in Procs, AllOrNothing(p), UNCHANGED <<version, dirty, from, misforced>>
  PROVE  (VersionTellsSchema /\ DirtyIsRecoverable)'
<1>1. VersionTellsSchema /\ DirtyIsRecoverable /\ OnItsWay(p)
  BY DEF IInv
<1>2. CASE UNCHANGED schema
  BY <1>1, <1>2 DEF VersionTellsSchema, DirtyIsRecoverable
<1>3. CASE pc[p] = "running" /\ schema' \in Schemas /\ Script(p, schema, schema')
  <2>1. dirty /\ (misforced \/ Matches(schema', version))
    BY <1>1, <1>3, ScriptsMatch DEF OnItsWay
  <2> QED
    BY <2>1 DEF VersionTellsSchema, DirtyIsRecoverable
<1> QED
  BY <1>2, <1>3 DEF AllOrNothing

\* A run whose next step fails.
LEMMA StepFailsStep ==
  ASSUME IInv, TypeOK', NEW p \in Procs, StepFails(p)
  PROVE  IInv'
<1>0. TypeOK /\ LockHeld /\ OnItsWay(p) /\ AbandonedStaysDirty
  BY DEF IInv
<1>1. /\ pc[p] \in Locked /\ lock = p /\ pc'[p] = "unlocking" /\ error'[p] = TRUE
      /\ UNCHANGED <<version, dirty, lock, cmd, at, left, began, from, misforced>>
      /\ \A q \in Procs \ {p} : pc'[q] = pc[q] /\ error'[q] = error[q]
  BY <1>0 DEF StepFails, TypeOK, LockHeld, Locked
<1>2. AbandonedStaysDirty'
  <2>1. pc[p] \in {"running", "cleaning"} => dirty
    BY <1>0 DEF OnItsWay
  <2>2. abandoned' <=> (abandoned \/ pc[p] \in {"running", "cleaning"})
    BY DEF StepFails
  <2> QED
    BY <1>0, <1>1, <2>1, <2>2 DEF AbandonedStaysDirty
<1>3. (VersionTellsSchema /\ DirtyIsRecoverable)'
  BY <1>1, AllOrNothingMatches DEF StepFails
<1>4. OnItsWay(p)' /\ Begun(p)' /\ Success(p)' /\ pc'[p] \in Locked
  BY <1>1 DEF OnItsWay, Begun, Success, Locked
<1> QED
  BY <1>1, <1>2, <1>3, <1>4, UnderTheLock

\* Forcing a version: what it asserts is so, or is known not to be.
LEMMA ForceStep ==
  ASSUME IInv, TypeOK', NEW p \in Procs, ForceVersion(p)
  PROVE  IInv'
<1>0. TypeOK /\ LockHeld /\ Begun(p)
  BY DEF IInv
<1>1. /\ pc[p] = "forcing" /\ pc[p] \in Locked /\ lock = p /\ pc'[p] = "unlocking"
      /\ version' = cmd[p].arg /\ dirty' = FALSE /\ abandoned' = FALSE
      /\ misforced' = ~Matches(schema, cmd[p].arg)
      /\ UNCHANGED <<schema, lock, cmd, at, left, error, began>>
      /\ \A q \in Procs \ {p} : pc'[q] = pc[q]
  BY <1>0 DEF ForceVersion, TypeOK, LockHeld, Locked
<1>2. cmd[p].kind = "force"
  BY <1>0, <1>1 DEF Begun
<1>3. (VersionTellsSchema /\ DirtyIsRecoverable /\ AbandonedStaysDirty)'
  BY <1>1 DEF VersionTellsSchema, DirtyIsRecoverable, AbandonedStaysDirty
<1>4. OnItsWay(p)' /\ Begun(p)' /\ Success(p)' /\ pc'[p] \in Locked
  BY <1>1, <1>2 DEF OnItsWay, Begun, Success, Locked
<1> QED
  BY <1>1, <1>3, <1>4, UnderTheLock

\* Letting the lock go.
LEMMA UnlockStep ==
  ASSUME IInv, TypeOK', NEW p \in Procs, Unlock(p)
  PROVE  IInv'
<1>0. TypeOK
  BY DEF IInv
<1>1. /\ pc[p] \in Locked /\ lock' = None /\ pc'[p] = "idle"
      /\ UNCHANGED <<table, from, misforced, abandoned>>
      /\ \A q \in Procs \ {p} : /\ pc'[q] = pc[q] /\ cmd'[q] = cmd[q] /\ left'[q] = left[q]
                                /\ error'[q] = error[q]
  BY <1>0 DEF Unlock, End, Become, TypeOK, Locked
<1>2. (VersionTellsSchema /\ DirtyIsRecoverable /\ AbandonedStaysDirty)'
  BY <1>1 DEF IInv, VersionTellsSchema, DirtyIsRecoverable, AbandonedStaysDirty, table
<1>3. OnItsWay(p)' /\ Begun(p)' /\ Success(p)' /\ pc'[p] \notin Locked
  BY <1>1 DEF OnItsWay, Begun, Success, Locked
<1> QED
  BY <1>1, <1>2, <1>3, UnderTheLock

\* A process that dies, with or without the lock.
LEMMA CrashStep ==
  ASSUME IInv, TypeOK', NEW p \in Procs, Crash(p)
  PROVE  IInv'
<1>0. TypeOK /\ LockHeld /\ OnItsWay(p) /\ AbandonedStaysDirty
  BY DEF IInv
<1>1. /\ pc'[p] = "idle" /\ lock' = IF lock = p THEN None ELSE lock
      /\ UNCHANGED <<version, dirty, from, misforced>>
      /\ \A q \in Procs \ {p} : /\ pc'[q] = pc[q] /\ cmd'[q] = cmd[q] /\ at'[q] = at[q]
                                /\ left'[q] = left[q] /\ error'[q] = error[q]
                                /\ began'[q] = began[q]
  BY <1>0 DEF Crash, End, Become, TypeOK
<1>2. AbandonedStaysDirty'
  <2>1. pc[p] \in {"running", "cleaning"} => dirty
    BY <1>0 DEF OnItsWay
  <2>2. abandoned' <=> (abandoned \/ pc[p] \in {"running", "cleaning"})
    BY DEF Crash
  <2> QED
    BY <1>0, <1>1, <2>1, <2>2 DEF AbandonedStaysDirty
<1>3. (VersionTellsSchema /\ DirtyIsRecoverable)'
  BY <1>1, AllOrNothingMatches DEF Crash
<1>4. OnItsWay(p)' /\ Begun(p)' /\ Success(p)' /\ pc'[p] \notin Locked
  BY <1>1 DEF OnItsWay, Begun, Success, Locked
<1>5. CASE pc[p] \in Locked
  <2>1. lock' = None
    BY <1>0, <1>1, <1>5 DEF LockHeld
  <2> QED
    BY <1>1, <1>2, <1>3, <1>4, <1>5, <2>1, UnderTheLock
<1>6. CASE pc[p] \notin Locked
  <2>1. lock' = lock /\ schema' = schema
    BY <1>0, <1>1, <1>6 DEF LockHeld, Crash, AllOrNothing, Locked
  <2>2. abandoned' = abandoned
    BY <1>0, <1>6 DEF Crash, Locked, TypeOK
  <2>3. pc' = [pc EXCEPT ![p] = "idle"] /\ "idle" \in Steps /\ "idle" \notin Locked
    BY DEF Crash, End, Become, Steps, Locked
  <2> QED
    BY <1>1, <1>4, <1>6, <2>1, <2>2, <2>3, OutsideTheLock DEF table
<1> QED
  BY <1>5, <1>6

\* Tokens that come and go.
LEMMA LongTokensStep ==
  ASSUME IInv, TypeOK', LongTokens
  PROVE  IInv'
<1>0. TypeOK
  BY DEF IInv
<1>1. UNCHANGED <<version, dirty, lock, local, from, misforced, abandoned>>
  BY DEF LongTokens
<1>2. PICK c \in {"text", "long"} :
        schema.tokens \in {"text", "long"} /\ schema' = [schema EXCEPT !.tokens = c]
  BY DEF LongTokens
<1>3. \A v \in Versions : Matches(schema', v) <=> Matches(schema, v)
  BY <1>0, <1>2, LengthsMatch DEF TypeOK
<1>4. LockHeld'
  BY <1>1 DEF IInv, LockHeld, local
<1>5. ASSUME NEW p \in Procs PROVE OnItsWay(p)' /\ Begun(p)' /\ Success(p)'
  <2>1. OnItsWay(p) /\ Begun(p) /\ Success(p)
    BY DEF IInv, SuccessIsReal
  <2>2. at[p] \in Versions /\ version \in Versions
    BY <1>0 DEF TypeOK
  <2>3. OnItsWay(p)'
    BY <1>1, <1>3, <2>1, <2>2 DEF OnItsWay, local, Known, Target
  <2> QED
    BY <1>1, <2>1, <2>3 DEF Begun, Success, local
<1>6. (VersionTellsSchema /\ DirtyIsRecoverable /\ AbandonedStaysDirty)'
  BY <1>0, <1>1, <1>3 DEF IInv, TypeOK, VersionTellsSchema, DirtyIsRecoverable, AbandonedStaysDirty
<1> QED
  BY <1>4, <1>5, <1>6 DEF IInv, SuccessIsReal

\* Every step keeps the invariant.
LEMMA StepIInv == IInv /\ [Next]_vars => IInv'
<1> SUFFICES ASSUME IInv, [Next]_vars PROVE IInv'
  OBVIOUS
<1>0. TypeOK'
  BY StepTypes
<1>1. ASSUME NEW p \in Procs, NEW c \in Commands, Start(p, c) PROVE IInv'
  BY <1>0, <1>1, OutsideSteps
<1>2. ASSUME NEW p \in Procs, Proceed(p) PROVE IInv'
  <2>1. Up \in Commands
    BY DEF Up, Commands
  <2>2. CASE GetMigrator(p) \/ GetMigratorFails(p) \/ LockTimesOut(p) \/ Report(p)
    BY <1>0, <2>1, <2>2, OutsideSteps
  <2> QED
    BY <1>0, <1>2, <2>2, LockStep, CheckStep, MarkStep, RunScriptStep, CleanStep, StepFailsStep,
       ForceStep, UnlockStep DEF Proceed
<1>3. ASSUME NEW p \in Procs, Crash(p) PROVE IInv'
  BY <1>0, <1>3, CrashStep
<1>4. CASE LongTokens
  BY <1>0, <1>4, LongTokensStep
<1>5. CASE UNCHANGED vars
  BY <1>5 DEF vars, table, local, IInv, TypeOK, LockHeld, OnItsWay, Begun, Known, Target,
              VersionTellsSchema, DirtyIsRecoverable, AbandonedStaysDirty, SuccessIsReal, Success
<1> QED
  BY <1>1, <1>2, <1>3, <1>4, <1>5 DEF Next

\* The inductive invariant holds in every reachable state.
THEOREM InvariantHolds == Spec => []IInv
BY InitIInv, StepIInv, PTL DEF Spec

\* Every variable keeps its type: a step count never goes below zero and a
\* version is always one that SetVersion may be given.
THEOREM TypesHold == Spec => []TypeOK
<1>1. IInv => TypeOK
  BY DEF IInv
<1> QED
  BY <1>1, InvariantHolds, PTL

\* A clean version number that nobody forced against the facts tells what is
\* in the database (migrate.go, up and down over any failures and crashes).
THEOREM CleanVersionIsRight == Spec => []VersionTellsSchema
<1>1. IInv => VersionTellsSchema
  BY DEF IInv
<1> QED
  BY <1>1, InvariantHolds, PTL

\* After a failure there is a right number for "migrate force": that of the
\* version or of the one before the step.
THEOREM DirtyHasTwoReadings == Spec => []DirtyIsRecoverable
<1>1. IInv => DirtyIsRecoverable
  BY DEF IInv
<1> QED
  BY <1>1, InvariantHolds, PTL

\* No later run passes over what an abandoned one left.
THEOREM AbandonedIsSeen == Spec => []AbandonedStaysDirty
<1>1. IInv => AbandonedStaysDirty
  BY DEF IInv
<1> QED
  BY <1>1, InvariantHolds, PTL

\* A command that reports success has done what it was asked.
THEOREM ReportedSuccessIsReal == Spec => []SuccessIsReal
<1>1. IInv => SuccessIsReal
  BY DEF IInv
<1> QED
  BY <1>1, InvariantHolds, PTL

-------------------------------------------------------------------------------
(* How far a command is from its end.                                       *)

\* The place of a version among the files.
Position(v) == IF v = NilVersion THEN 0 ELSE v

ScriptsLeft(p) ==
  IF cmd[p].kind = "up" THEN Latest - Position(at[p]) ELSE Position(at[p])

\* The calls that command p makes at most until it is over: three for each
\* script, and those around them.
StepsLeft(p) ==
  CASE pc[p] = "opening"   -> 3 * Latest + 4
    [] pc[p] = "locking"   -> 3 * Latest + 3
    [] pc[p] = "checking"  -> 3 * Latest + 2
    [] pc[p] = "marking"   -> 3 * ScriptsLeft(p) + 1
    [] pc[p] = "running"   -> 3 * ScriptsLeft(p)
    [] pc[p] = "cleaning"  -> 3 * ScriptsLeft(p) - 1
    [] pc[p] = "forcing"   -> 2
    [] pc[p] \in {"unlocking", "reporting"} -> 1
    [] pc[p] = "idle"      -> 0

MostSteps == 3 * Latest + 4

\* A run between or within its scripts has one of the five before it.
LEMMA ScriptsAreLeft ==
  ASSUME IInv, NEW p \in Procs
  PROVE  pc[p] \in {"marking", "running", "cleaning"} => ScriptsLeft(p) \in 1..Latest
BY DEF IInv, TypeOK, OnItsWay, Known, ScriptsLeft, Position, Versions

LEMMA StepsAreFew ==
  ASSUME IInv, NEW p \in Procs
  PROVE  /\ StepsLeft(p) \in 0..MostSteps
         /\ StepsLeft(p) = 0 <=> pc[p] = "idle"
<1>1. pc[p] \in Steps
  BY DEF IInv, TypeOK
<1> QED
  BY <1>1, ScriptsAreLeft DEF StepsLeft, MostSteps, Steps, Locked

\* A step of the command brings it nearer to its end: Clean, too, because the
\* script it comes to is one nearer to the last, or to the first.
LEMMA ProceedingIsProgress ==
  ASSUME IInv, IInv', NEW p \in Procs, Proceed(p)
  PROVE  StepsLeft(p)' < StepsLeft(p)
<1>1. /\ pc \in [Procs -> Steps] /\ cmd \in [Procs -> Commands]
      /\ at \in [Procs -> Versions] /\ left \in [Procs -> Nat] /\ error \in [Procs -> BOOLEAN]
  BY DEF IInv, TypeOK
<1>2. pc[p] \in {"marking", "running", "cleaning"} => ScriptsLeft(p) \in 1..Latest
  BY ScriptsAreLeft
<1>3. /\ pc[p] = "marking" => version = at[p]
      /\ pc[p] \in {"running", "cleaning"} => version = Target(p)
      /\ pc[p] \in {"marking", "running", "cleaning"} => Known(p, at[p])
  BY DEF IInv, OnItsWay
<1>4. CASE GetMigrator(p) \/ Lock(p)
  BY <1>1, <1>4 DEF GetMigrator, Lock, StepsLeft
<1>5. CASE GetMigratorFails(p) \/ LockTimesOut(p) \/ Unlock(p) \/ Report(p)
  BY <1>1, <1>5 DEF GetMigratorFails, LockTimesOut, Unlock, Report, End, Become, StepsLeft
<1>6. CASE Check(p)
  <2>1. (pc[p] = "marking" => ScriptsLeft(p) \in 1..Latest)'
    BY DEF IInv, TypeOK, OnItsWay, Known, ScriptsLeft, Position, Versions
  <2>2. pc'[p] \in {"marking", "unlocking"} /\ StepsLeft(p) = 17
    BY <1>1, <1>6 DEF Check, StepsLeft
  <2>3. StepsLeft(p)' \in 1..16
    BY <2>1, <2>2 DEF StepsLeft
  <2> QED
    BY <2>2, <2>3
<1>7. CASE Mark(p) \/ RunScript(p)
  <2>1. ScriptsLeft(p)' = ScriptsLeft(p)
    BY <1>7 DEF Mark, RunScript, ScriptsLeft
  <2> QED
    BY <1>1, <1>2, <1>7, <2>1 DEF Mark, RunScript, StepsLeft
<1>8. CASE Clean(p)
  <2>1. pc[p] = "cleaning" /\ pc'[p] \in {"unlocking", "marking"}
    BY <1>1, <1>8 DEF Clean
  <2>2. /\ cmd' = cmd /\ at'[p] = version
        /\ pc'[p] = "marking" => at'[p] # NilVersion \/ cmd[p].kind # "up"
    BY <1>1, <1>3, <1>8, <2>1 DEF Clean, Target, After, Known
  <2>3. ScriptsLeft(p)' = ScriptsLeft(p) - 1
    BY <1>1, <1>3, <2>1, <2>2 DEF ScriptsLeft, Position, Target, After, Before, Known
  <2> QED
    BY <1>2, <2>1, <2>3 DEF StepsLeft
<1>9. CASE StepFails(p)
  <2>1. pc'[p] = "unlocking"
    BY <1>1, <1>9 DEF StepFails
  <2>2. StepsLeft(p) > 1
    BY <1>2, <1>9 DEF StepFails, StepsLeft
  <2> QED
    BY <2>1, <2>2 DEF StepsLeft
<1>10. CASE ForceVersion(p)
  BY <1>1, <1>10 DEF ForceVersion, StepsLeft
<1> QED
  BY <1>4, <1>5, <1>6, <1>7, <1>8, <1>9, <1>10 DEF Proceed

\* What others do, and a process that stores tokens, leave it where it was; a
\* crash ends it.
LEMMA NobodySetsItBack ==
  ASSUME IInv, IInv', NEW p \in Procs, pc[p] # "idle", [Next]_vars
  PROVE  StepsLeft(p)' <= StepsLeft(p)
<1>1. StepsLeft(p) \in 0..MostSteps /\ pc \in [Procs -> Steps] /\ TypeOK
  BY StepsAreFew DEF IInv, TypeOK
<1>2. ASSUME pc'[p] = pc[p], cmd'[p] = cmd[p], at'[p] = at[p] PROVE StepsLeft(p)' <= StepsLeft(p)
  <2>1. StepsLeft(p)' = StepsLeft(p)
    BY <1>2 DEF StepsLeft, ScriptsLeft
  <2> QED
    BY <1>1, <2>1 DEF MostSteps
<1>3. ASSUME NEW q \in Procs, Proceed(q) \/ Crash(q) \/ \E c \in Commands : Start(q, c), q # p
      PROVE  pc'[p] = pc[p] /\ cmd'[p] = cmd[p] /\ at'[p] = at[p]
  BY <1>1, <1>3 DEF TypeOK, Proceed, Crash, Start, Become, End, GetMigrator, GetMigratorFails, Lock,
       LockTimesOut, Check, Mark, RunScript, Clean, StepFails, ForceVersion, Unlock, Report
<1>4. CASE Proceed(p)
  <2>1. StepsLeft(p)' < StepsLeft(p)
    BY <1>4, ProceedingIsProgress
  <2>2. (StepsLeft(p) \in 0..MostSteps)'
    BY StepsAreFew, PTL
  <2> QED
    BY <1>1, <2>1, <2>2 DEF MostSteps
<1>5. CASE Crash(p)
  <2>1. pc'[p] = "idle"
    BY <1>1, <1>5 DEF Crash, End, Become
  <2>2. StepsLeft(p)' = 0
    BY <2>1 DEF StepsLeft
  <2> QED
    BY <1>1, <2>2 DEF MostSteps
<1>6. CASE LongTokens \/ UNCHANGED vars
  BY <1>2, <1>6 DEF LongTokens, vars, local
<1> QED
  BY <1>2, <1>3, <1>4, <1>5, <1>6 DEF Next, Start

\* A command is over after at most nineteen calls of its own, whatever other
\* processes do meanwhile: each brings it nearer to its end and nothing else
\* sets it back.
CallsAreCounted ==
  [][\A p \in Procs :
       /\ Proceed(p) => StepsLeft(p)' < StepsLeft(p)
       /\ pc[p] # "idle" => StepsLeft(p)' <= StepsLeft(p)]_vars

\* The commands of cmd/migrate.go need finitely many calls, and no more than
\* nineteen: three for each script and four around them.
THEOREM CommandsAreShort ==
  Spec => CallsAreCounted /\ [](\A p \in Procs : StepsLeft(p) \in 0..19)
<1>1. IInv /\ IInv' /\ [Next]_vars =>
        \A p \in Procs : /\ Proceed(p) => StepsLeft(p)' < StepsLeft(p)
                         /\ pc[p] # "idle" => StepsLeft(p)' <= StepsLeft(p)
  BY ProceedingIsProgress, NobodySetsItBack
<1>2. IInv => \A p \in Procs : StepsLeft(p) \in 0..19
  <2>1. MostSteps = 19
    BY DEF MostSteps
  <2> QED
    BY <2>1, StepsAreFew
<1> QED
  BY <1>1, <1>2, InvariantHolds, PTL DEF Spec, CallsAreCounted

\* What FairSpec says of a command, without the word "enabled": it goes on
\* until it is over.
GoesOn(p) == []<>(pc[p] = "idle") \/ []<><<Proceed(p)>>_vars

\* From n calls before the end, fewer are left some day.
Nearer(p, n) == [](StepsLeft(p) = n => <>(StepsLeft(p) < n))

LEMMA OneNearer ==
  ASSUME NEW p \in Procs, NEW n \in 1..19
  PROVE  Spec /\ GoesOn(p) => Nearer(p, n)
<1>1. IInv /\ IInv' /\ [Next]_vars /\ StepsLeft(p) = n => (StepsLeft(p) = n)' \/ (StepsLeft(p) < n)'
  <2> SUFFICES ASSUME IInv, IInv', [Next]_vars, StepsLeft(p) = n
               PROVE  StepsLeft(p)' = n \/ StepsLeft(p)' < n
    OBVIOUS
  <2>1. pc[p] # "idle"
    BY StepsAreFew
  <2>2. (StepsLeft(p) \in 0..MostSteps)'
    BY StepsAreFew, PTL
  <2>3. StepsLeft(p)' <= StepsLeft(p)
    BY <2>1, NobodySetsItBack
  <2> QED
    BY <2>2, <2>3 DEF MostSteps
<1>2. IInv /\ IInv' /\ <<Proceed(p)>>_vars /\ StepsLeft(p) = n => (StepsLeft(p) < n)'
  BY ProceedingIsProgress
<1>3. IInv /\ StepsLeft(p) = n => ~(pc[p] = "idle")
  BY StepsAreFew
<1> QED
  BY <1>1, <1>2, <1>3, InvariantHolds, PTL DEF Spec, GoesOn, Nearer

Ends(p) == pc[p] = "opening" ~> pc[p] = "idle"

LEMMA CommandEnds ==
  ASSUME NEW p \in Procs
  PROVE  Spec /\ GoesOn(p) => Ends(p)
<1>1. Spec /\ GoesOn(p) => Nearer(p, 1)
  BY OneNearer
<1>2. Spec /\ GoesOn(p) => Nearer(p, 2)
  BY OneNearer
<1>3. Spec /\ GoesOn(p) => Nearer(p, 3)
  BY OneNearer
<1>4. Spec /\ GoesOn(p) => Nearer(p, 4)
  BY OneNearer
<1>5. Spec /\ GoesOn(p) => Nearer(p, 5)
  BY OneNearer
<1>6. Spec /\ GoesOn(p) => Nearer(p, 6)
  BY OneNearer
<1>7. Spec /\ GoesOn(p) => Nearer(p, 7)
  BY OneNearer
<1>8. Spec /\ GoesOn(p) => Nearer(p, 8)
  BY OneNearer
<1>9. Spec /\ GoesOn(p) => Nearer(p, 9)
  BY OneNearer
<1>10. Spec /\ GoesOn(p) => Nearer(p, 10)
  BY OneNearer
<1>11. Spec /\ GoesOn(p) => Nearer(p, 11)
  BY OneNearer
<1>12. Spec /\ GoesOn(p) => Nearer(p, 12)
  BY OneNearer
<1>13. Spec /\ GoesOn(p) => Nearer(p, 13)
  BY OneNearer
<1>14. Spec /\ GoesOn(p) => Nearer(p, 14)
  BY OneNearer
<1>15. Spec /\ GoesOn(p) => Nearer(p, 15)
  BY OneNearer
<1>16. Spec /\ GoesOn(p) => Nearer(p, 16)
  BY OneNearer
<1>17. Spec /\ GoesOn(p) => Nearer(p, 17)
  BY OneNearer
<1>18. Spec /\ GoesOn(p) => Nearer(p, 18)
  BY OneNearer
<1>19. Spec /\ GoesOn(p) => Nearer(p, 19)
  BY OneNearer
<1>20. IInv => /\ StepsLeft(p) < 1 => pc[p] = "idle"
               /\ pc[p] = "opening" => StepsLeft(p) = 19
               /\ StepsLeft(p) \in 0..19
  <2> SUFFICES ASSUME IInv
               PROVE  /\ StepsLeft(p) \in 0..19 /\ (StepsLeft(p) = 0 <=> pc[p] = "idle")
                      /\ pc[p] = "opening" => StepsLeft(p) = 19
    OBVIOUS
  <2>1. MostSteps = 19
    BY DEF MostSteps
  <2>2. pc[p] = "opening" => StepsLeft(p) = 19
    BY DEF StepsLeft
  <2> QED
    BY <2>1, <2>2, StepsAreFew
<1>21. StepsLeft(p) \in 0..19 =>
       /\ StepsLeft(p) < 1 => StepsLeft(p) = 0 \/ StepsLeft(p) < 0
       /\ StepsLeft(p) < 2 => StepsLeft(p) = 1 \/ StepsLeft(p) < 1
       /\ StepsLeft(p) < 3 => StepsLeft(p) = 2 \/ StepsLeft(p) < 2
       /\ StepsLeft(p) < 4 => StepsLeft(p) = 3 \/ StepsLeft(p) < 3
       /\ StepsLeft(p) < 5 => StepsLeft(p) = 4 \/ StepsLeft(p) < 4
       /\ StepsLeft(p) < 6 => StepsLeft(p) = 5 \/ StepsLeft(p) < 5
       /\ StepsLeft(p) < 7 => StepsLeft(p) = 6 \/ StepsLeft(p) < 6
       /\ StepsLeft(p) < 8 => StepsLeft(p) = 7 \/ StepsLeft(p) < 7
       /\ StepsLeft(p) < 9 => StepsLeft(p) = 8 \/ StepsLeft(p) < 8
       /\ StepsLeft(p) < 10 => StepsLeft(p) = 9 \/ StepsLeft(p) < 9
       /\ StepsLeft(p) < 11 => StepsLeft(p) = 10 \/ StepsLeft(p) < 10
       /\ StepsLeft(p) < 12 => StepsLeft(p) = 11 \/ StepsLeft(p) < 11
       /\ StepsLeft(p) < 13 => StepsLeft(p) = 12 \/ StepsLeft(p) < 12
       /\ StepsLeft(p) < 14 => StepsLeft(p) = 13 \/ StepsLeft(p) < 13
       /\ StepsLeft(p) < 15 => StepsLeft(p) = 14 \/ StepsLeft(p) < 14
       /\ StepsLeft(p) < 16 => StepsLeft(p) = 15 \/ StepsLeft(p) < 15
       /\ StepsLeft(p) < 17 => StepsLeft(p) = 16 \/ StepsLeft(p) < 16
       /\ StepsLeft(p) < 18 => StepsLeft(p) = 17 \/ StepsLeft(p) < 17
       /\ StepsLeft(p) < 19 => StepsLeft(p) = 18 \/ StepsLeft(p) < 18
  OBVIOUS
<1> QED
  BY <1>20, <1>21, <1>1, <1>2, <1>3, <1>4, <1>5, <1>6, <1>7, <1>8, <1>9, <1>10, <1>11, <1>12, <1>13, <1>14, <1>15, <1>16, <1>17, <1>18, <1>19, InvariantHolds, PTL DEF Nearer, Ends

\* Every command that was begun ends (cmd/migrate.go), if it goes on.
THEOREM CommandsThatGoOnEnd == Spec /\ (\A p \in Procs : GoesOn(p)) => CommandsEnd
<1>1. Spec /\ (\A p \in Procs : GoesOn(p)) => \A p \in Procs : Ends(p)
  BY CommandEnds
<1> QED
  BY <1>1 DEF CommandsEnd, Ends

\* Proceed is what a command that is not over can always do.
NeverStuck(p) == [](~(pc[p] = "idle") => ENABLED <<Proceed(p)>>_vars)

LEMMA FairnessIsGoingOn ==
  ASSUME NEW p \in Procs
  PROVE  Scheduled(p) /\ NeverStuck(p) => GoesOn(p)
BY PTL DEF Scheduled, NeverStuck, GoesOn

\* Under FairSpec, commands end if they cannot get stuck in a step.
COROLLARY FairCommandsEnd == FairSpec /\ (\A p \in Procs : NeverStuck(p)) => CommandsEnd
BY FairnessIsGoingOn, CommandsThatGoOnEnd DEF FairSpec
=============================================================================
