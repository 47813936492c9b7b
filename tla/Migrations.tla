------------------------------ MODULE Migrations ------------------------------
(***************************************************************************)
(* The "migrate" commands: up, down, force, status and version, run by the *)
(* deployment's migration job (again after a failure, by a new process) or *)
(* by hand, on one database.  golang-migrate takes the advisory lock, and  *)
(* around each script it marks the version dirty and clean again; a script *)
(* may fail and a process may die between any two of these steps.  That    *)
(* the lock excludes is assumed: it belongs to a database session, which a *)
(* proxy that pools transactions would not keep (the chart's values.yaml   *)
(* asks for a direct connection).                                          *)
(***************************************************************************)
EXTENDS Integers

CONSTANTS
  Procs,      \* processes running a migrate command
  None,       \* no process
  DownSteps,  \* arguments given to "migrate down"
  ForceTo,    \* arguments given to "migrate force"
  Engine      \* "mysql" or "postgres"

ASSUME CommandLines ==
  /\ None \notin Procs
  /\ DownSteps \subseteq Int
  /\ ForceTo \subseteq Nat \cup {-1}
  /\ Engine \in {"mysql", "postgres"}

VARIABLES
  version,    \* schema_migrations.version, NilVersion when the table is empty
  dirty,      \* schema_migrations.dirty
  schema,     \* what the scripts have made of the database
  lock,       \* who holds the advisory lock
  pc,         \* the next step of each process
  cmd,        \* the command it runs
  at,         \* up, down: the version its run has come to
  left,       \* down: the steps still to go
  error,      \* it is about to return an error
  from,       \* history: the version before the one that was marked last
  began,      \* history: the version a run began at
  misforced,  \* history: the last force named a version the schema is not at
  abandoned   \* history: a run ended between marking and cleaning

table   == <<version, dirty, schema>>
local   == <<pc, cmd, at, left, error, began>>
vars    == <<table, lock, local, from, misforced, abandoned>>

NilVersion == -1
Latest     == 5
Files      == 1..Latest

\* The columns of user_tokens: absent, VARCHAR(255), TEXT, or TEXT with a
\* row that holds a token of more than 255 characters.
Columns == {"none", "varchar", "text", "long"}

Schemas == [tokens : Columns, sessions : BOOLEAN, index : BOOLEAN, logs : BOOLEAN]

Empty == [tokens |-> "none", sessions |-> FALSE, index |-> FALSE, logs |-> FALSE]

-------------------------------------------------------------------------------
(* The scripts, as relations between the schema before and after.           *)

CreateTokens(s, t)  == s.tokens = "none" /\ t = [s EXCEPT !.tokens = "text"]

DropTokens(s, t)    == t = [s EXCEPT !.tokens = "none"]

CreateSessions(s, t) == ~s.sessions /\ t = [s EXCEPT !.sessions = TRUE]

\* The index goes with its table.
DropSessions(s, t) ==
  t = [tokens |-> s.tokens, sessions |-> FALSE, index |-> FALSE, logs |-> s.logs]

CreateIndex(s, t)   == s.sessions /\ ~s.index /\ t = [s EXCEPT !.index = TRUE]

DropIndex(s, t) ==
  /\ s.index \/ Engine = "postgres"
  /\ t = [s EXCEPT !.index = FALSE]

CreateLogs(s, t)    == ~s.logs /\ t = [s EXCEPT !.logs = TRUE]

DropLogs(s, t)      == t = [s EXCEPT !.logs = FALSE]

WidenTokens(s, t) ==
  /\ s.tokens # "none"
  /\ t = [s EXCEPT !.tokens = IF @ = "varchar" THEN "text" ELSE @]

\* Fails over a row that is too long for the narrow columns.
NarrowTokens(s, t) ==
  /\ s.tokens \in {"varchar", "text"}
  /\ t = [s EXCEPT !.tokens = "varchar"]

UpScript(v, s, t) ==
  \/ v = 1 /\ CreateTokens(s, t)
  \/ v = 2 /\ CreateSessions(s, t)
  \/ v = 3 /\ CreateIndex(s, t)
  \/ v = 4 /\ CreateLogs(s, t)
  \/ v = 5 /\ WidenTokens(s, t)

DownScript(v, s, t) ==
  \/ v = 1 /\ DropTokens(s, t)
  \/ v = 2 /\ DropSessions(s, t)
  \/ v = 3 /\ DropIndex(s, t)
  \/ v = 4 /\ DropLogs(s, t)
  \/ v = 5 /\ NarrowTokens(s, t)

\* Schema s has what version v is to have.  From version 1 on the token
\* columns may be wide; at version 5 they must be.
Matches(s, v) ==
  /\ (s.tokens # "none") <=> (v >= 1)
  /\ s.sessions <=> (v >= 2)
  /\ s.index <=> (v >= 3)
  /\ s.logs <=> (v >= 4)
  /\ v >= 5 => s.tokens # "varchar"

-------------------------------------------------------------------------------
(* Starting a command.                                                      *)

Up == [kind |-> "up", arg |-> 0]

Commands == [kind : {"up", "report"}, arg : {0}]
              \cup [kind : {"down"}, arg : DownSteps]
              \cup [kind : {"force"}, arg : ForceTo]

Init ==
  /\ version = NilVersion /\ dirty = FALSE /\ schema = Empty
  /\ lock = None
  /\ pc    = [p \in Procs |-> "idle"]
  /\ cmd   = [p \in Procs |-> Up]
  /\ at    = [p \in Procs |-> NilVersion]
  /\ left  = [p \in Procs |-> 0]
  /\ error = [p \in Procs |-> FALSE]
  /\ began = [p \in Procs |-> NilVersion]
  /\ from = NilVersion /\ misforced = FALSE /\ abandoned = FALSE

\* A process begins command c, or ends and keeps nothing.
Become(p, step, c, n) ==
  /\ pc'    = [pc EXCEPT ![p] = step]
  /\ cmd'   = [cmd EXCEPT ![p] = c]
  /\ at'    = [at EXCEPT ![p] = NilVersion]
  /\ left'  = [left EXCEPT ![p] = n]
  /\ error' = [error EXCEPT ![p] = FALSE]
  /\ began' = [began EXCEPT ![p] = NilVersion]

End(p) == Become(p, "idle", Up, 0)

\* "down" looks at its number before it opens anything.
Start(p, c) ==
  /\ pc[p] = "idle"
  /\ c.kind = "down" => c.arg >= 1
  /\ Become(p, "opening", c, IF c.kind = "down" THEN c.arg ELSE 0)
  /\ UNCHANGED <<table, lock, from, misforced, abandoned>>

\* getMigrator; the driver takes the lock for a moment to see to its table.
GetMigrator(p) ==
  /\ pc[p] = "opening"
  /\ lock = None
  /\ pc' = [pc EXCEPT ![p] = IF cmd[p].kind = "report" THEN "reporting" ELSE "locking"]
  /\ UNCHANGED <<table, lock, cmd, at, left, error, began, from, misforced, abandoned>>

\* No DSN, no connection, no lock in time, no migration files.
GetMigratorFails(p) ==
  /\ pc[p] = "opening"
  /\ End(p)
  /\ UNCHANGED <<table, lock, from, misforced, abandoned>>

-------------------------------------------------------------------------------
(* A run under the lock, as golang-migrate makes it.                        *)

\* Fault: golang-migrate told not to lock.
LockedByTwo(p) ==
  /\ pc[p] = "locking"
  /\ lock' = p
  /\ pc' = [pc EXCEPT ![p] = IF cmd[p].kind = "force" THEN "forcing" ELSE "checking"]
  /\ UNCHANGED <<table, cmd, at, left, error, began, from, misforced, abandoned>>

Lock(p) ==
  /\ pc[p] = "locking"
  /\ lock = None
  /\ lock' = p
  /\ pc' = [pc EXCEPT ![p] = IF cmd[p].kind = "force" THEN "forcing" ELSE "checking"]
  /\ UNCHANGED <<table, cmd, at, left, error, began, from, misforced, abandoned>>

\* Fault: a wait without a limit.
NeverTimesOut(p) == p \notin Procs /\ UNCHANGED vars

\* golang-migrate waits for the lock for a limited time, MySQL's GET_LOCK likewise.
LockTimesOut(p) ==
  /\ pc[p] = "locking"
  /\ lock # None
  /\ End(p)
  /\ UNCHANGED <<table, lock, from, misforced, abandoned>>

\* Nothing is left to do at version v with n steps to go.
Finished(p, v, n) == IF cmd[p].kind = "up" THEN v = Latest ELSE n = 0

\* A version a run can go on from: one with a file, and for "up" none at all.
Known(p, v) == v \in Files \/ (cmd[p].kind = "up" /\ v = NilVersion)

\* Fault: a dirty version is taken like any other.
CheckedLoosely(p) ==
  /\ pc[p] = "checking"
  /\ at'    = [at EXCEPT ![p] = version]
  /\ began' = [began EXCEPT ![p] = version]
  /\ error' = [error EXCEPT ![p] = ~Known(p, version)]
  /\ pc' = [pc EXCEPT ![p] = IF ~Known(p, version) \/ Finished(p, version, left[p])
                             THEN "unlocking" ELSE "marking"]
  /\ UNCHANGED <<table, lock, cmd, left, from, misforced, abandoned>>

\* Reads the version and refuses a dirty or an unknown one.  "up" takes
\* ErrNoChange for success.
Check(p) ==
  /\ pc[p] = "checking"
  /\ at'    = [at EXCEPT ![p] = version]
  /\ began' = [began EXCEPT ![p] = version]
  /\ LET refused == dirty \/ ~Known(p, version)
     IN /\ error' = [error EXCEPT ![p] = refused]
        /\ pc' = [pc EXCEPT ![p] = IF refused \/ Finished(p, version, left[p])
                                   THEN "unlocking" ELSE "marking"]
  /\ UNCHANGED <<table, lock, cmd, left, from, misforced, abandoned>>

\* The version before v, and the one after it.
Before(v) == IF v = 1 THEN NilVersion ELSE v - 1
After(v)  == IF v = NilVersion THEN 1 ELSE v + 1

Target(p) == IF cmd[p].kind = "up" THEN After(at[p]) ELSE Before(at[p])

\* Fault: the version is written only as it is to be afterwards.
MarkedClean(p) ==
  /\ pc[p] = "marking"
  /\ version' = Target(p)
  /\ from' = at[p]
  /\ pc' = [pc EXCEPT ![p] = "running"]
  /\ UNCHANGED <<dirty, schema, lock, cmd, at, left, error, began, misforced, abandoned>>

\* SetVersion(target, true), in a transaction of its own.
Mark(p) ==
  /\ pc[p] = "marking"
  /\ version' = Target(p) /\ dirty' = TRUE
  /\ from' = at[p]
  /\ pc' = [pc EXCEPT ![p] = "running"]
  /\ UNCHANGED <<schema, lock, cmd, at, left, error, began, misforced, abandoned>>

\* The script of the version that is entered, or left.
Script(p, s, t) ==
  IF cmd[p].kind = "up" THEN UpScript(Target(p), s, t) ELSE DownScript(at[p], s, t)

RunScript(p) ==
  /\ pc[p] = "running"
  /\ schema' \in Schemas
  /\ Script(p, schema, schema')
  /\ pc' = [pc EXCEPT ![p] = "cleaning"]
  /\ UNCHANGED <<version, dirty, lock, cmd, at, left, error, began, from, misforced, abandoned>>

\* Fault: the steps are compared before the one just made is taken off.
CleanedOneMore(p) ==
  /\ pc[p] = "cleaning"
  /\ dirty' = FALSE
  /\ at'   = [at EXCEPT ![p] = version]
  /\ left' = [left EXCEPT ![p] = IF cmd[p].kind = "down" THEN @ - 1 ELSE @]
  /\ pc' = [pc EXCEPT ![p] = IF Finished(p, version, left[p]) \/ version = NilVersion
                             THEN "unlocking" ELSE "marking"]
  /\ UNCHANGED <<version, schema, lock, cmd, error, began, from, misforced, abandoned>>

\* SetVersion(target, false), and on to the next script.  A "down" that has
\* come to the end of the files with steps left returns an error.
Clean(p) ==
  /\ pc[p] = "cleaning"
  /\ dirty' = FALSE
  /\ at'   = [at EXCEPT ![p] = version]
  /\ left' = [left EXCEPT ![p] = IF cmd[p].kind = "down" THEN @ - 1 ELSE @]
  /\ LET short == cmd[p].kind = "down" /\ version = NilVersion /\ left[p] > 1
     IN /\ error' = [error EXCEPT ![p] = short]
        /\ pc' = [pc EXCEPT ![p] = IF short \/ Finished(p, version, left[p] - 1)
                                   THEN "unlocking" ELSE "marking"]
  /\ UNCHANGED <<version, schema, lock, cmd, began, from, misforced, abandoned>>

\* The server runs all of the script or nothing of it: each is one statement.
AllOrNothing(p) ==
  \/ UNCHANGED schema
  \/ pc[p] = "running" /\ schema' \in Schemas /\ Script(p, schema, schema')

\* The database refuses a step, the script does not suit the schema, or the
\* answer is lost.
StepFails(p) ==
  /\ pc[p] \in {"checking", "marking", "running", "cleaning", "forcing"}
  /\ AllOrNothing(p)
  /\ pc'    = [pc EXCEPT ![p] = "unlocking"]
  /\ error' = [error EXCEPT ![p] = TRUE]
  /\ abandoned' = (abandoned \/ pc[p] \in {"running", "cleaning"})
  /\ UNCHANGED <<version, dirty, lock, cmd, at, left, began, from, misforced>>

\* SetVersion(version, false), whatever was there.
ForceVersion(p) ==
  /\ pc[p] = "forcing"
  /\ version' = cmd[p].arg /\ dirty' = FALSE
  /\ misforced' = ~Matches(schema, cmd[p].arg)
  /\ abandoned' = FALSE
  /\ from' = cmd[p].arg
  /\ pc' = [pc EXCEPT ![p] = "unlocking"]
  /\ UNCHANGED <<schema, lock, cmd, at, left, error, began>>

\* A failed unlock is an error of the command; the lock goes anyway, with
\* the connection.
Unlock(p) ==
  /\ pc[p] = "unlocking"
  /\ lock' = None
  /\ End(p)
  /\ UNCHANGED <<table, from, misforced, abandoned>>

-------------------------------------------------------------------------------
(* Reporting, which takes no lock.                                          *)

\* "status" and "version", which print or fail and change nothing.
Report(p) ==
  /\ pc[p] = "reporting"
  /\ End(p)
  /\ UNCHANGED <<table, lock, from, misforced, abandoned>>

-------------------------------------------------------------------------------
(* The environment: processes die, and the application stores tokens.       *)

\* Fault: a lock that outlives the connection that took it.
CrashedLocked(p) ==
  /\ pc[p] # "idle"
  /\ AllOrNothing(p)
  /\ End(p)
  /\ abandoned' = (abandoned \/ pc[p] \in {"running", "cleaning"})
  /\ UNCHANGED <<version, dirty, lock, from, misforced>>

\* The connection goes with the process, and the lock with it, after the
\* server has finished or dropped the statement it was at.
Crash(p) ==
  /\ pc[p] # "idle"
  /\ AllOrNothing(p)
  /\ End(p)
  /\ lock' = IF lock = p THEN None ELSE lock
  /\ abandoned' = (abandoned \/ pc[p] \in {"running", "cleaning"})
  /\ UNCHANGED <<version, dirty, from, misforced>>

\* SaveUserToken with tokens of the usual length, and the removal of such rows.
LongTokens ==
  /\ \/ schema.tokens = "text" /\ schema' = [schema EXCEPT !.tokens = "long"]
     \/ schema.tokens = "long" /\ schema' = [schema EXCEPT !.tokens = "text"]
  /\ UNCHANGED <<version, dirty, lock, local, from, misforced, abandoned>>

Proceed(p) ==
  \/ GetMigrator(p) \/ GetMigratorFails(p)
  \/ Lock(p) \/ LockTimesOut(p) \/ Check(p) \/ Mark(p) \/ RunScript(p) \/ Clean(p)
  \/ StepFails(p) \/ ForceVersion(p) \/ Unlock(p) \/ Report(p)

Next ==
  \/ \E p \in Procs, c \in Commands : Start(p, c)
  \/ \E p \in Procs : Proceed(p) \/ Crash(p)
  \/ LongTokens

Spec == Init /\ [][Next]_vars

\* A command that was begun goes on, every wait in it included: that is more than
\* PostgreSQL ensures, where nothing limits pg_advisory_lock and a command waits
\* as long as another session holds the lock.
Scheduled(p) == WF_vars(Proceed(p))

FairSpec == Spec /\ \A p \in Procs : Scheduled(p)

-------------------------------------------------------------------------------
(* Properties.                                                              *)

Locked == {"checking", "marking", "running", "cleaning", "forcing", "unlocking"}
Steps  == {"idle", "opening", "locking", "reporting"} \cup Locked
Versions == {NilVersion} \cup Nat

\* Every variable has its type.
TypeOK ==
  /\ version \in Versions /\ dirty \in BOOLEAN /\ schema \in Schemas
  /\ lock \in Procs \cup {None}
  /\ pc \in [Procs -> Steps] /\ cmd \in [Procs -> Commands]
  /\ at \in [Procs -> Versions] /\ left \in [Procs -> Nat]
  /\ error \in [Procs -> BOOLEAN] /\ began \in [Procs -> Versions]
  /\ from \in Versions /\ misforced \in BOOLEAN /\ abandoned \in BOOLEAN

\* A clean version number tells what is in the database, over any crashes,
\* failures and overlapping commands, unless somebody forced a number that
\* was not so (migrate.go:131, "use with caution").
VersionTellsSchema ==
  ~dirty /\ ~misforced => Matches(schema, version)

\* A dirty version leaves two possibilities, the version it names and the one
\* before the step, so that there is always a right number to force.
DirtyIsRecoverable ==
  dirty /\ ~misforced => Matches(schema, version) \/ Matches(schema, from)

\* What an abandoned run left behind is noticed: the version stays dirty
\* and no later run passes over it, until somebody forces a number.
AbandonedStaysDirty == abandoned => dirty

\* A command that is about to return without an error has done what it says,
\* and no other has come in between: "up" is at the latest version, "down n"
\* has gone back n versions, "force" is at its number.
Success(p) ==
  pc[p] = "unlocking" /\ ~error[p] =>
    /\ ~dirty
    /\ cmd[p].kind = "up" => version = Latest
    /\ cmd[p].kind = "force" => version = cmd[p].arg
    /\ cmd[p].kind = "down" => began[p] \in cmd[p].arg..Latest
                              /\ version = IF began[p] = cmd[p].arg THEN NilVersion
                                           ELSE began[p] - cmd[p].arg

SuccessIsReal == \A p \in Procs : Success(p)

\* A command that was begun ends, although others keep taking the lock and
\* "up" takes as many steps as there are files.
CommandsEnd == \A p \in Procs : pc[p] = "opening" ~> pc[p] = "idle"

-------------------------------------------------------------------------------
(* The inductive invariant.                                                 *)

\* The lock is held by the process that is at a step under it, and by no other.
LockHeld == \A p \in Procs : pc[p] \in Locked <=> lock = p

\* Between two scripts and within one: what the run knows is what is stored,
\* there is a script to run, and "down" has counted its steps.
OnItsWay(p) ==
  /\ pc[p] = "marking" => ~dirty /\ version = at[p]
  /\ pc[p] \in {"running", "cleaning"} => dirty /\ version = Target(p) /\ from = at[p]
  /\ pc[p] = "running" => misforced \/ Matches(schema, at[p])
  /\ pc[p] = "cleaning" => misforced \/ Matches(schema, version)
  /\ pc[p] \in {"marking", "running", "cleaning"} =>
       /\ ~abandoned /\ ~error[p] /\ began[p] \in Versions
       /\ Known(p, at[p])
       /\ cmd[p].kind = "up" => at[p] # Latest
       /\ cmd[p].kind = "down" => left[p] >= 1 /\ began[p] \in Files
                                 /\ began[p] - at[p] = cmd[p].arg - left[p]

\* What a command has before its run.
Begun(p) ==
  /\ pc[p] \in {"locking", "forcing", "checking", "marking", "running", "cleaning"}
       => cmd[p].kind # "report"
  /\ pc[p] = "forcing" => cmd[p].kind = "force"
  /\ pc[p] \in {"opening", "locking", "forcing"} => ~error[p]
  /\ pc[p] \in {"checking", "marking", "running", "cleaning"} => cmd[p].kind # "force"
  /\ pc[p] \in {"opening", "locking", "checking"} =>
       (cmd[p].kind = "down" => left[p] = cmd[p].arg /\ left[p] >= 1)

\* The inductive invariant: with what a step in progress relies on.
IInv ==
  /\ TypeOK
  /\ LockHeld
  /\ \A p \in Procs : OnItsWay(p) /\ Begun(p)
  /\ VersionTellsSchema /\ DirtyIsRecoverable /\ AbandonedStaysDirty /\ SuccessIsReal
=============================================================================
