------------------------------ MODULE UserTokens ------------------------------
(***************************************************************************)
(* The stored OAuth2 tokens of e5renew: the user_tokens table, the service *)
(* that reads and writes it, and the goroutines that use it.  A process is *)
(* one goroutine: an HTTP request (token callback, revocation, manual mail *)
(* trigger) or one user's turn in a scheduled mail run.  Every database    *)
(* call and every call to the identity provider is one atomic step; there  *)
(* are no transactions and no locks, so the steps of different processes   *)
(* interleave freely.  Any call may fail.                                  *)
(***************************************************************************)

CONSTANTS
  Users,        \* session users (claims.Email), the key of the table
  Procs,        \* goroutines, in any number of replicas
  Savers,       \* the processes that may run the authorization callback
  Tokens,       \* what the provider can issue (bounds the runs)
  RowIds,       \* primary keys of user_tokens (bounds the runs)
  LookupFaults, \* TRUE iff SaveUserToken's lookup may fail
  NULL

ASSUME SaversAreProcs == Savers \subseteq Procs
ASSUME LookupFaultsIsBoolean == LookupFaults \in BOOLEAN
ASSUME NullIsNew == NULL \notin Users \cup Tokens

VARIABLES
  rowUser,   \* column user_id; NULL where there is no row
  rowTok,    \* columns access_token, refresh_token and expiry, as one token
  filed,     \* the user_id in whose session a callback brought in the token's
             \* grant (whoever authorized it at the provider: see Exchange)
  grant,     \* provider: the token that the token's grant started with
  expired,   \* tokens whose access token is past its expiry
  pc,        \* the next call of each process
  user,      \* the user a process works for
  held,      \* the token a process has in memory
  reply      \* what the last finished operation of a process answered

(***************************************************************************)
(* History variables: read by properties only, never by a guard.           *)
(***************************************************************************)
VARIABLES
  raced,     \* users one of whose saves was misled into creating a row
  since,     \* what others wrote to a process's user since its last read
  revoked    \* grants that were in the table when it was cleared

db       == <<rowUser, rowTok>>
provider == <<filed, grant, expired>>
local    == <<pc, user, held, reply>>
history  == <<raced, since, revoked>>
vars     == <<db, provider, local, history>>

SaveSteps   == {"exchange", "lookup", "create", "update"}
MailSteps   == {"check", "read", "token", "writeback", "call"}
Steps       == {"idle", "delete"} \cup SaveSteps \cup MailSteps
WriteKinds  == {"save", "refresh", "revoke"}
Replies     == {"none", "ok", "error", "no_token"}

RowsOf(u) == {r \in RowIds : rowUser[r] = u}

\* Tokens the provider has handed out.
Issued == {t \in Tokens : filed[t] # NULL}

Init ==
  /\ rowUser = [r \in RowIds |-> NULL]
  /\ rowTok  = [r \in RowIds |-> NULL]
  /\ filed   = [t \in Tokens |-> NULL]
  /\ grant   = [t \in Tokens |-> NULL]
  /\ expired = {}
  /\ pc      = [p \in Procs |-> "idle"]
  /\ user    = [p \in Procs |-> NULL]
  /\ held    = [p \in Procs |-> NULL]
  /\ reply   = [p \in Procs |-> "none"]
  /\ raced   = {}
  /\ since   = [p \in Procs |-> {}]
  /\ revoked = {}

-------------------------------------------------------------------------------
(* How a process moves.                                                     *)

Start(p, u, step) ==
  /\ pc[p] = "idle"
  /\ pc'    = [pc EXCEPT ![p] = step]
  /\ user'  = [user EXCEPT ![p] = u]
  /\ held'  = [held EXCEPT ![p] = NULL]
  /\ reply' = [reply EXCEPT ![p] = "none"]
  /\ since' = [since EXCEPT ![p] = {}]
  /\ UNCHANGED <<db, provider, raced, revoked>>

Goto(p, step) ==
  /\ pc' = [pc EXCEPT ![p] = step]
  /\ UNCHANGED <<user, reply>>

Leave(p, answer) ==
  /\ pc'    = [pc EXCEPT ![p] = "idle"]
  /\ user'  = [user EXCEPT ![p] = NULL]
  /\ held'  = [held EXCEPT ![p] = NULL]
  /\ reply' = [reply EXCEPT ![p] = answer]

Finish(p, answer) ==
  /\ Leave(p, answer)
  /\ since' = [since EXCEPT ![p] = {}]

\* What the provider does when it issues t: a fresh token of grant g.
Issue(t, u, g) ==
  /\ filed[t] = NULL
  /\ filed' = [filed EXCEPT ![t] = u]
  /\ grant' = [grant EXCEPT ![t] = g]
  /\ UNCHANGED expired

\* History: process p reads, or has just written, its user's rows.
ReadsRows(p) == since' = [since EXCEPT ![p] = {}]

WritesRows(p, kind) ==
  since' = [q \in Procs |->
              IF q = p THEN {}
              ELSE IF user[q] = user[p] THEN since[q] \cup {kind}
              ELSE since[q]]

\* Fault: the update without its where clause.
UpdateEveryRow(u, t) ==
  /\ rowTok' = [r \in RowIds |-> IF rowUser[r] # NULL THEN t ELSE rowTok[r]]
  /\ UNCHANGED rowUser

\* "update user_tokens set ... where user_id = ?": every row of the user, and
\* no row at all without complaint when the user has none.
UpdateUserTokens(u, t) ==
  /\ rowTok' = [r \in RowIds |-> IF r \in RowsOf(u) THEN t ELSE rowTok[r]]
  /\ UNCHANGED rowUser

-------------------------------------------------------------------------------
(* Authorization callback: exchange the code, then look up, then write.     *)

UserTokenCallback(p, u) == p \in Savers /\ Start(p, u, "exchange")

\* Whatever code arrives is exchanged, and what comes back is filed under the
\* user in the session.  Who authorized it at the provider is not looked at here;
\* that this may be somebody else is Sessions' SavedForTheStarter.
Exchange(p) ==
  /\ pc[p] = "exchange"
  /\ \/ \E t \in Tokens :
          /\ Issue(t, user[p], t)
          /\ held' = [held EXCEPT ![p] = t]
          /\ Goto(p, "lookup")
          /\ UNCHANGED since
     \/ /\ Finish(p, "error")
        /\ UNCHANGED provider
  /\ UNCHANGED <<db, raced, revoked>>

\* Fault: the branches of the lookup run together and a found row is inserted again.
LookupFoundInserts(p) ==
  /\ pc[p] = "lookup"
  /\ RowsOf(user[p]) # {}
  /\ Goto(p, "create")
  /\ ReadsRows(p)
  /\ UNCHANGED <<db, provider, held, raced, revoked>>

\* The lookup that decides between insert and update: every error, and not
\* only "no rows", counts as absence.
LookupFound(p) ==
  /\ pc[p] = "lookup"
  /\ RowsOf(user[p]) # {}
  /\ Goto(p, "update")
  /\ ReadsRows(p)
  /\ UNCHANGED <<db, provider, held, raced, revoked>>

CreatesPending(u, p) == \E q \in Procs \ {p} : pc[q] = "create" /\ user[q] = u

\* Fault: an absent row is updated instead of inserted.
LookupAbsentUpdates(p) ==
  /\ pc[p] = "lookup"
  /\ RowsOf(user[p]) = {}
  /\ Goto(p, "update")
  /\ ReadsRows(p)
  /\ UNCHANGED <<db, provider, held, raced, revoked>>

LookupAbsent(p) ==
  /\ pc[p] = "lookup"
  /\ RowsOf(user[p]) = {} \/ LookupFaults
  /\ Goto(p, "create")
  /\ ReadsRows(p)
  /\ raced' = IF RowsOf(user[p]) # {} \/ CreatesPending(user[p], p)
              THEN raced \cup {user[p]} ELSE raced
  /\ UNCHANGED <<db, provider, held, revoked>>

SaveCreate(p) ==
  /\ pc[p] = "create"
  /\ \/ \E r \in RowIds :
          /\ rowUser[r] = NULL
          /\ rowUser' = [rowUser EXCEPT ![r] = user[p]]
          /\ rowTok'  = [rowTok EXCEPT ![r] = held[p]]
          /\ WritesRows(p, "save")
          /\ Leave(p, "ok")
     \/ /\ Finish(p, "error")
        /\ UNCHANGED db
  /\ UNCHANGED <<provider, raced, revoked>>

SaveUpdate(p) ==
  /\ pc[p] = "update"
  /\ \/ /\ UpdateUserTokens(user[p], held[p])
        /\ WritesRows(p, "save")
        /\ Leave(p, "ok")
     \/ /\ Finish(p, "error")
        /\ UNCHANGED db
  /\ UNCHANGED <<provider, raced, revoked>>

-------------------------------------------------------------------------------
(* Revocation: one delete by user_id; the provider is not told.             *)

RevokeUserToken(p, u) == Start(p, u, "delete")

DeleteUserToken(p) ==
  /\ pc[p] = "delete"
  /\ \/ /\ rowUser' = [r \in RowIds |-> IF r \in RowsOf(user[p]) THEN NULL ELSE rowUser[r]]
        /\ rowTok'  = [r \in RowIds |-> IF r \in RowsOf(user[p]) THEN NULL ELSE rowTok[r]]
        /\ revoked' = revoked \cup {grant[rowTok[r]] : r \in RowsOf(user[p])}
        /\ WritesRows(p, "revoke")
        /\ Leave(p, "ok")
     \/ /\ Finish(p, "error")
        /\ UNCHANGED <<db, revoked>>
  /\ UNCHANGED <<provider, raced>>

-------------------------------------------------------------------------------
(* Mail activity: the manual trigger checks first, a scheduled run does not. *)

TriggerMailAPI(p, u) == Start(p, u, "check")

\* Fault: a token kept in memory from an earlier run instead of a fresh read.
ProcessWithCachedToken(p, u) ==
  /\ pc[p] = "idle"
  /\ \E t \in Issued :
       /\ filed[t] = u
       /\ held' = [held EXCEPT ![p] = t]
  /\ pc'    = [pc EXCEPT ![p] = "token"]
  /\ user'  = [user EXCEPT ![p] = u]
  /\ reply' = [reply EXCEPT ![p] = "none"]
  /\ since' = [since EXCEPT ![p] = {}]
  /\ UNCHANGED <<db, provider, raced, revoked>>

ProcessUserMailActivity(p, u) == Start(p, u, "read")

\* A failed lookup is reported as "no token", never as an error.
HasUserToken(p) ==
  /\ pc[p] = "check"
  /\ \/ RowsOf(user[p]) # {} /\ Goto(p, "read") /\ UNCHANGED <<held, since>>
     \/ Finish(p, "no_token")
  /\ UNCHANGED <<db, provider, raced, revoked>>

\* Fault: the select without its where clause.
GetAnyToken(p) ==
  /\ pc[p] = "read"
  /\ \E r \in RowIds :
       /\ rowUser[r] # NULL
       /\ held' = [held EXCEPT ![p] = rowTok[r]]
  /\ Goto(p, "token")
  /\ ReadsRows(p)
  /\ UNCHANGED <<db, provider, raced, revoked>>

\* "limit 1" without an order: any row of the user.  Fails on no row, on a
\* database error and on a value that does not decrypt.
GetUserToken(p) ==
  /\ pc[p] = "read"
  /\ \/ \E r \in RowsOf(user[p]) :
          /\ held' = [held EXCEPT ![p] = rowTok[r]]
          /\ Goto(p, "token")
          /\ ReadsRows(p)
     \/ Finish(p, "error")
  /\ UNCHANGED <<db, provider, raced, revoked>>

\* oauth2's reuseTokenSource: a token that has not expired is used as it is.
TokenReuse(p) ==
  /\ pc[p] = "token"
  /\ held[p] \notin expired
  /\ Goto(p, "call")
  /\ UNCHANGED <<db, provider, held, history>>

\* Otherwise the provider is asked for a new token of the same grant.
TokenRefresh(p) ==
  /\ pc[p] = "token"
  /\ held[p] \in expired
  /\ \/ \E t \in Tokens :
          /\ Issue(t, filed[held[p]], grant[held[p]])
          /\ held' = [held EXCEPT ![p] = t]
          /\ Goto(p, "writeback")
          /\ UNCHANGED since
     \/ /\ Finish(p, "error")
        /\ UNCHANGED provider
  /\ UNCHANGED <<db, raced, revoked>>

\* Fault: the write after a refresh inserts the row when it is gone.
UpsertUserToken(p) ==
  /\ pc[p] = "writeback"
  /\ IF RowsOf(user[p]) # {}
     THEN UpdateUserTokens(user[p], held[p])
     ELSE \E r \in RowIds :
            /\ rowUser[r] = NULL
            /\ rowUser' = [rowUser EXCEPT ![r] = user[p]]
            /\ rowTok'  = [rowTok EXCEPT ![r] = held[p]]
  /\ WritesRows(p, "refresh")
  /\ Goto(p, "call")
  /\ UNCHANGED <<provider, held, raced, revoked>>

\* The refreshed token is written with a fresh background context; a failure
\* is logged and the call goes on with the token in memory.
UpdateUserToken(p) ==
  /\ pc[p] = "writeback"
  /\ \/ UpdateUserTokens(user[p], held[p]) /\ WritesRows(p, "refresh")
     \/ UNCHANGED <<db, since>>
  /\ Goto(p, "call")
  /\ UNCHANGED <<provider, held, raced, revoked>>

GetMailMessages(p) ==
  /\ pc[p] = "call"
  /\ \E answer \in {"ok", "error"} : Finish(p, answer)
  /\ UNCHANGED <<db, provider, raced, revoked>>

-------------------------------------------------------------------------------
(* The environment.                                                         *)

Expire(t) ==
  /\ t \in Issued \ expired
  /\ expired' = expired \cup {t}
  /\ UNCHANGED <<db, filed, grant, local, history>>

\* The pod is killed, or the goroutine panics, between two calls.
Crash(p) ==
  /\ pc[p] # "idle"
  /\ Finish(p, "none")
  /\ UNCHANGED <<db, provider, raced, revoked>>

Begin(p) ==
  \E u \in Users :
    \/ UserTokenCallback(p, u)
    \/ RevokeUserToken(p, u)
    \/ TriggerMailAPI(p, u)
    \/ ProcessUserMailActivity(p, u)

Advance(p) ==
  \/ Exchange(p)
  \/ LookupFound(p)
  \/ LookupAbsent(p)
  \/ SaveCreate(p)
  \/ SaveUpdate(p)
  \/ DeleteUserToken(p)
  \/ HasUserToken(p)
  \/ GetUserToken(p)
  \/ TokenReuse(p)
  \/ TokenRefresh(p)
  \/ UpdateUserToken(p)
  \/ GetMailMessages(p)

Next ==
  \/ \E p \in Procs : Begin(p) \/ Advance(p) \/ Crash(p)
  \/ \E t \in Tokens : Expire(t)

Spec == Init /\ [][Next]_vars

-------------------------------------------------------------------------------
(* Properties.                                                              *)

\* Every variable has its type.
TypeOK ==
  /\ rowUser \in [RowIds -> Users \cup {NULL}]
  /\ rowTok  \in [RowIds -> Tokens \cup {NULL}]
  /\ filed   \in [Tokens -> Users \cup {NULL}]
  /\ grant   \in [Tokens -> Tokens \cup {NULL}]
  /\ expired \subseteq Tokens
  /\ pc      \in [Procs -> Steps]
  /\ user    \in [Procs -> Users \cup {NULL}]
  /\ held    \in [Procs -> Tokens \cup {NULL}]
  /\ reply   \in [Procs -> Replies]
  /\ raced   \subseteq Users
  /\ since   \in [Procs -> SUBSET WriteKinds]
  /\ revoked \subseteq Tokens

\* A row holds only tokens of grants that were brought in under the row's own
\* user_id, whatever saves, refreshes, revocations and crashes overlap and
\* however often tokens are refreshed: no read, refresh or write-back carries a
\* token from one user_id to another.  (It does not say who authorized the
\* grant: the callback files what it exchanged under the session's user.)
FilingsKeptApart ==
  \A r \in RowIds : rowUser[r] # NULL => filed[rowTok[r]] = rowUser[r]

\* A user has a second row only after one of two things happened: a save's
\* lookup failed although a row was there, or two saves of that user both
\* looked before either had created its row.  Nothing else, not a revocation
\* or a refresh in between, duplicates the row of SaveUserToken.
DuplicatesOnlyByRace ==
  \A u \in Users \ raced : \A r1, r2 \in RowsOf(u) : r1 = r2

\* SaveUserToken's update takes an affected-row count of zero for success.
\* It can only affect nothing when a revocation of the same user overlapped
\* the save, so that save-then-revoke explains the outcome.
UpdateFindsRow ==
  \A p \in Procs :
    pc[p] = "update" /\ "revoke" \notin since[p] => RowsOf(user[p]) # {}

\* For a user none of whose saves was misled into a second row (see raced): when
\* nobody saved or refreshed the user's token between a refresher's read and its
\* write, the write replaces a token by a successor of the same grant.  With two
\* rows it does not hold: the read takes either row, the update writes both, and
\* so replaces the other row's grant though nothing was written in between.
RefreshExtendsStoredGrant ==
  \A p \in Procs :
    pc[p] = "writeback" /\ user[p] \notin raced /\ since[p] \subseteq {"revoke"} =>
      \A r \in RowsOf(user[p]) : grant[rowTok[r]] = grant[held[p]]

\* After a revocation a user stays without a row until a new callback of that
\* user runs: refreshes in flight, retries and the scheduler bring none back.
RowsOnlyFromCallbacks ==
  [][\A u \in Users :
       RowsOf(u) = {} /\ (\A p \in Procs : user[p] = u => pc[p] \notin SaveSteps)
         => RowsOf(u)' = {}]_vars

\* What the comment on RevokeUserToken says: a revoked grant is gone, the
\* table does not hold it again.  (The code breaks it.)
RevokedGrantsStayOut ==
  \A r \in RowIds : rowUser[r] # NULL => grant[rowTok[r]] \notin revoked

-------------------------------------------------------------------------------
(* The inductive invariant behind them.                                     *)

HoldingSteps == {"lookup", "create", "update", "token", "writeback", "call"}

\* A busy process works for a user, and what it holds was filed under that user.
BusyProcesses ==
  \A p \in Procs :
    /\ pc[p] # "idle" => user[p] # NULL
    /\ pc[p] \in HoldingSteps => held[p] # NULL /\ filed[held[p]] = user[p]

\* Rows are complete, and so is what the provider knows of a token.
CompleteRecords ==
  /\ \A r \in RowIds : rowUser[r] # NULL => rowTok[r] # NULL
  /\ \A t \in Issued : grant[t] # NULL

\* Short of a race, a save about to insert still finds the user without a row
\* and is the only one about to insert.
CreateIsRightUnlessRaced ==
  \A p \in Procs :
    pc[p] = "create" /\ user[p] \notin raced =>
      RowsOf(user[p]) = {} /\ ~CreatesPending(user[p], p)

\* The premise of RefreshExtendsStoredGrant, from the read on.
ReadTokenKeepsGrant ==
  \A p \in Procs :
    /\ pc[p] \in {"token", "writeback"}
    /\ user[p] \notin raced
    /\ since[p] \subseteq {"revoke"}
    => \A r \in RowsOf(user[p]) : grant[rowTok[r]] = grant[held[p]]

\* The conjunction of all of the above is preserved by every step: a row's
\* token is right because the token in the writer's memory was, and a save
\* inserts at most once because its lookup's answer stays true unless raced.
IInv ==
  /\ TypeOK
  /\ BusyProcesses
  /\ CompleteRecords
  /\ FilingsKeptApart
  /\ CreateIsRightUnlessRaced
  /\ DuplicatesOnlyByRace
  /\ UpdateFindsRow
  /\ ReadTokenKeepsGrant

\* A save holds the first token of its grant, a write-back a later one.
SavesGrantsWritesSuccessors ==
  /\ \A t \in Issued : grant[t] \in Issued
  /\ \A p \in Procs :
       /\ pc[p] \in {"lookup", "create", "update"} => grant[held[p]] = held[p]
       /\ pc[p] = "writeback" => grant[held[p]] # held[p]

\* What holds besides, with callbacks one at a time and lookups that answer:
\* what a process is about to write is what the vault allows it to.
SerialInv ==
  /\ SavesGrantsWritesSuccessors
  /\ \A p \in Procs : pc[p] \in SaveSteps => p \in Savers
  /\ raced = {}

-------------------------------------------------------------------------------
(* Refinement: the table as one slot per user.                              *)

Slot == [u \in Users |->
           IF RowsOf(u) = {} THEN NULL ELSE rowTok[CHOOSE r \in RowsOf(u) : TRUE]]

Vault == INSTANCE TokenVault
           WITH vault <- Slot, filed <- filed, origin <- grant

\* With callbacks one at a time and lookups that answer, the table behaves as
\* one slot per user that a late refresh can overwrite but never refill.
ImplementsVault == Vault!Spec
=============================================================================
