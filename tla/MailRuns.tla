------------------------------- MODULE MailRuns -------------------------------
(***************************************************************************)
(* The scheduled mail job of e5renew: runs that list the stored tokens     *)
(* once and then take their users one by one, while users authorize and    *)
(* revoke.  The scheduler starts a run every half hour whether or not the  *)
(* one before it has ended, in every replica, so runs overlap freely.      *)
(* What happens to a user's token during one turn is module UserTokens'.   *)
(***************************************************************************)
EXTENDS Naturals, FiniteSets

CONSTANTS
  Users,       \* user_id values
  Rows,        \* rows of user_tokens; a user may have several (bounds the runs)
  Runs,        \* runs in progress (bounds the overlap)
  MaxCrashes,  \* bounds the crashes
  NULL

ASSUME RowsAreFinite == IsFiniteSet(Rows)
ASSUME CrashesAreBounded == MaxCrashes \in Nat
ASSUME NullIsNew == NULL \notin Users

VARIABLES
  rowUser,   \* column user_id; NULL where there is no row
  pc,        \* what each run is at
  listed,    \* the user of each row as the run listed it
  todo,      \* the listed rows whose turn has not come
  current,   \* the user whose turn it is
  ok, bad,   \* successCount and errorCount
  verdict,   \* what the run reported
  crashes,
  tried,     \* history: users the run called Graph for or failed to
  upset      \* history: what befell the run

run     == <<pc, listed, todo, current, ok, bad, verdict>>
history == <<tried, upset>>
vars    == <<rowUser, run, crashes, history>>

Steps  == {"idle", "list", "next", "read", "call"}
Upsets == {"fault", "revoked"}
Nobody == [w \in Rows |-> NULL]

RowsOf(u) == {w \in Rows : rowUser[w] = u}
ListedRows(r) == {w \in Rows : listed[r][w] # NULL}

Init ==
  /\ rowUser = Nobody
  /\ pc      = [r \in Runs |-> "idle"]
  /\ listed  = [r \in Runs |-> Nobody]
  /\ todo    = [r \in Runs |-> {}]
  /\ current = [r \in Runs |-> NULL]
  /\ ok      = [r \in Runs |-> 0]
  /\ bad     = [r \in Runs |-> 0]
  /\ verdict = [r \in Runs |-> "none"]
  /\ crashes = 0
  /\ tried   = [r \in Runs |-> {}]
  /\ upset   = [r \in Runs |-> {}]

-------------------------------------------------------------------------------
(* A run.                                                                   *)

\* Fault: the counts belong to the service and survive from run to run.
ResetKeepsCounts(r, step) ==
  /\ pc'      = [pc EXCEPT ![r] = step]
  /\ listed'  = [listed EXCEPT ![r] = Nobody]
  /\ todo'    = [todo EXCEPT ![r] = {}]
  /\ current' = [current EXCEPT ![r] = NULL]
  /\ verdict' = [verdict EXCEPT ![r] = "none"]
  /\ tried'   = [tried EXCEPT ![r] = {}]
  /\ upset'   = [upset EXCEPT ![r] = {}]
  /\ UNCHANGED <<ok, bad>>

\* r is set back to how a run begins, at the given step.
Reset(r, step) ==
  /\ pc'      = [pc EXCEPT ![r] = step]
  /\ listed'  = [listed EXCEPT ![r] = Nobody]
  /\ todo'    = [todo EXCEPT ![r] = {}]
  /\ current' = [current EXCEPT ![r] = NULL]
  /\ ok'      = [ok EXCEPT ![r] = 0]
  /\ bad'     = [bad EXCEPT ![r] = 0]
  /\ verdict' = [verdict EXCEPT ![r] = "none"]
  /\ tried'   = [tried EXCEPT ![r] = {}]
  /\ upset'   = [upset EXCEPT ![r] = {}]

Execute(r) ==
  /\ pc[r] = "idle"
  /\ Reset(r, "list")
  /\ UNCHANGED <<rowUser, crashes>>

\* The run is over; an error is all the scheduler gets to see.
Report(r, answer) ==
  /\ pc'      = [pc EXCEPT ![r] = "idle"]
  /\ verdict' = [verdict EXCEPT ![r] = answer]

GetAllUserIDs(r) ==
  /\ pc[r] = "list"
  /\ \/ /\ listed' = [listed EXCEPT ![r] = rowUser]
        /\ todo'   = [todo EXCEPT ![r] = {w \in Rows : rowUser[w] # NULL}]
        /\ pc'     = [pc EXCEPT ![r] = "next"]
        /\ UNCHANGED <<verdict, upset>>
     \/ /\ Report(r, "failed")
        /\ upset' = [upset EXCEPT ![r] = @ \cup {"fault"}]
        /\ UNCHANGED <<listed, todo>>
  /\ UNCHANGED <<rowUser, current, ok, bad, crashes, tried>>

\* The rows come in no particular order; a user with two rows has two turns.
NextUser(r) ==
  /\ pc[r] = "next"
  /\ \E w \in todo[r] :
       /\ todo'    = [todo EXCEPT ![r] = @ \ {w}]
       /\ current' = [current EXCEPT ![r] = listed[r][w]]
       /\ tried'   = [tried EXCEPT ![r] = @ \cup {listed[r][w]}]
  /\ pc' = [pc EXCEPT ![r] = "read"]
  /\ UNCHANGED <<rowUser, listed, ok, bad, verdict, crashes, upset>>

TurnSucceeds(r) ==
  /\ ok' = [ok EXCEPT ![r] = @ + 1]
  /\ pc' = [pc EXCEPT ![r] = "next"]
  /\ UNCHANGED <<bad, verdict>>

\* Fault: the first error ends the run.
TurnFailsAndStops(r) ==
  /\ bad' = [bad EXCEPT ![r] = @ + 1]
  /\ Report(r, "failed")
  /\ UNCHANGED ok

\* An error is counted and logged, and the loop goes on.
TurnFails(r) ==
  /\ bad' = [bad EXCEPT ![r] = @ + 1]
  /\ pc'  = [pc EXCEPT ![r] = "next"]
  /\ UNCHANGED <<ok, verdict>>

\* The user's token is read anew: it may have gone since the list was made.
ReadToken(r) ==
  /\ pc[r] = "read"
  /\ \/ /\ RowsOf(current[r]) # {}
        /\ pc' = [pc EXCEPT ![r] = "call"]
        /\ UNCHANGED <<ok, bad, verdict, upset>>
     \/ /\ RowsOf(current[r]) = {}
        /\ TurnFails(r)
        /\ UNCHANGED upset
     \/ /\ TurnFails(r)
        /\ upset' = [upset EXCEPT ![r] = @ \cup {"fault"}]
  /\ UNCHANGED <<rowUser, listed, todo, current, crashes, tried>>

\* The refresh, if one is due, and the Graph call.
GetMailMessages(r) ==
  /\ pc[r] = "call"
  /\ \/ TurnSucceeds(r) /\ UNCHANGED upset
     \/ /\ TurnFails(r)
        /\ upset' = [upset EXCEPT ![r] = @ \cup {"fault"}]
  /\ UNCHANGED <<rowUser, listed, todo, current, crashes, tried>>

Finish(r) ==
  /\ pc[r] = "next"
  /\ todo[r] = {}
  /\ Report(r, IF bad[r] > 0 THEN "failed" ELSE "completed")
  /\ UNCHANGED <<rowUser, listed, todo, current, ok, bad, crashes, history>>

-------------------------------------------------------------------------------
(* The users, and crashes.                                                  *)

\* An authorization adds a row, even a second one of the user (see UserTokens).
Authorize(u) ==
  /\ \E w \in Rows : rowUser[w] = NULL /\ rowUser' = [rowUser EXCEPT ![w] = u]
  /\ UNCHANGED <<run, crashes, history>>

Revoke(u) ==
  /\ RowsOf(u) # {}
  /\ rowUser' = [w \in Rows |-> IF rowUser[w] = u THEN NULL ELSE rowUser[w]]
  /\ upset' = [r \in Runs |->
                 IF pc[r] # "idle" /\ \E w \in Rows : listed[r][w] = u
                 THEN upset[r] \cup {"revoked"} ELSE upset[r]]
  /\ UNCHANGED <<run, crashes, tried>>

\* The process of a run ends; the schedule goes on after the restart.
Crash(r) ==
  /\ pc[r] # "idle"
  /\ crashes < MaxCrashes
  /\ crashes' = crashes + 1
  /\ Reset(r, "idle")
  /\ UNCHANGED rowUser

-------------------------------------------------------------------------------

Proceed(r) ==
  GetAllUserIDs(r) \/ NextUser(r) \/ ReadToken(r) \/ GetMailMessages(r) \/ Finish(r)

Next ==
  \/ \E r \in Runs : Execute(r) \/ Proceed(r) \/ Crash(r)
  \/ \E u \in Users : Authorize(u) \/ Revoke(u)

Spec == Init /\ [][Next]_vars

\* The scheduler starts runs and a run proceeds; a list query that is retried
\* with every run at last gets through.  Nothing is assumed of the users, and
\* every token read and every Graph call may fail.
Listing == \E r \in Runs : GetAllUserIDs(r) /\ pc'[r] = "next"

Scheduled(r) == WF_vars(Execute(r)) /\ WF_vars(Proceed(r))

Fairness == SF_vars(Listing) /\ \A q \in Runs : Scheduled(q)

FairSpec == Spec /\ Fairness

-------------------------------------------------------------------------------
(* Properties.                                                              *)

\* Every variable has its type.
TypeOK ==
  /\ rowUser \in [Rows -> Users \cup {NULL}]
  /\ pc \in [Runs -> Steps]
  /\ listed \in [Runs -> [Rows -> Users \cup {NULL}]]
  /\ todo \in [Runs -> SUBSET Rows]
  /\ current \in [Runs -> Users \cup {NULL}]
  /\ ok \in [Runs -> 0..Cardinality(Rows)]
  /\ bad \in [Runs -> 0..Cardinality(Rows)]
  /\ verdict \in [Runs -> {"none", "failed", "completed"}]
  /\ crashes \in 0..MaxCrashes
  /\ tried \in [Runs -> SUBSET Users]
  /\ upset \in [Runs -> SUBSET Upsets]

\* The users behind rows of a list.
UsersAt(r, W) == {listed[r][w] : w \in W}

\* A run that got its list and reports has given every listed user a turn and
\* counted every turn once: nobody's failure, and nobody's revocation in the
\* middle of the run, costs another user the turn.
EveryListedUserHadATurn ==
  \A r \in Runs :
    verdict[r] # "none" /\ ListedRows(r) # {} =>
      /\ tried[r] = UsersAt(r, ListedRows(r))
      /\ ok[r] + bad[r] = Cardinality(ListedRows(r))

\* A run reports failure only because a call failed or because a user it had
\* listed revoked before that user's turn was over; overlapping runs,
\* duplicate rows and new authorizations are no reason.
FailureHasACause ==
  \A r \in Runs : verdict[r] = "failed" => upset[r] # {}

\* The rows whose turn is over or going on.
Taken(r) == ListedRows(r) \ todo[r]
InTurn(r) == pc[r] \in {"read", "call"}

\* A run has counted every row it took once, but for the one it is at.
AddsUp(r) ==
  /\ todo[r] \subseteq ListedRows(r)
  /\ tried[r] = UsersAt(r, Taken(r))
  /\ ok[r] + bad[r] + (IF InTurn(r) THEN 1 ELSE 0) = Cardinality(Taken(r))
  /\ InTurn(r) => \E w \in Taken(r) : current[r] = listed[r][w]
  /\ pc[r] = "list" => ListedRows(r) = {}
  /\ verdict[r] # "none" => pc[r] = "idle" /\ todo[r] = {}

\* A user whom an unfinished run listed still has a row or has revoked since,
\* and what the run counted or reported as an error has a cause.
HasCauses(r) ==
  /\ pc[r] # "idle" =>
       \A w \in ListedRows(r) : RowsOf(listed[r][w]) # {} \/ "revoked" \in upset[r]
  /\ bad[r] > 0 \/ verdict[r] = "failed" => upset[r] # {}

\* The inductive invariant behind the safety of the runs.
IInv == TypeOK /\ \A r \in Runs : AddsUp(r) /\ HasCauses(r)

\* A user who keeps a stored token is given turns for ever, whatever fails for
\* whom and however runs overlap.
TokensAreUsed ==
  \A u \in Users :
    <>[](RowsOf(u) # {}) => []<><<\E r \in Runs : u \notin tried[r] /\ u \in tried'[r]>>_vars
=============================================================================
