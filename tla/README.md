# e5renew: verification models

e5renew keeps Microsoft 365 developer (E5) subscriptions active.  Users log in with Azure AD and authorize
access to their mail; scheduled jobs then read that mail on their behalf and call the Graph API with the
application's own credentials; every Graph call is logged to a table that users page through.  This directory
holds TLA+ models of the parts of the program where the steps of several goroutines, requests or replicas
meet, or where a step may fail between two others, the TLC runs that check them on small instances, and TLAPS
proofs for every value of the constants: of the safety properties outright, of the liveness properties under hypotheses
that take the place of fairness.

Contents: [inventory](#inventory) · [modules](#modules) · [the models and the code](#the-models-and-the-code) ·
[runs](#runs) · [fairness](#fairness) · [proofs](#proofs) · [where code and comments differ](#where-code-and-comments-differ) ·
[not modelled](#not-modelled) · [plan](#plan)

## Inventory

| part | state | operations | what is hard |
|---|---|---|---|
| User token store (`internal/services/usertoken.go`, `internal/repository/usertoken.go`) | table `user_tokens`, no unique key on `user_id` | save (look up, then insert or update), read, update, delete, list, existence check | no transactions or locks: every pair of calls interleaves; a failed lookup counts as "absent" |
| Token refresh (`internal/services/tokensource.go`, `credential.go`) | the token in memory of one Graph call | reuse, refresh at the provider, write back | the write-back is unconditional and may be late; its failure is ignored |
| Authorization and login (`internal/controller/login.go`, `usertoken.go`) | the browser's session: user, claims, two pending states | login, its callback, authorize, its callback, logout, revoke | a session is loaded whole and committed whole; requests of one browser overlap; sessions expire |
| Mail activity (`internal/services/mail.go`, `internal/jobs/usermail.go`) | the list of users of one run, its counts | scheduled run over all users, manual trigger | the list is read once; runs overlap; one user's failure must not stop the others |
| API logs (`internal/services/apilog.go`, `internal/controller/logs.go`, `internal/jobs/`) | table `api_logs` | asynchronous insert, paging, statistics, retention cleanup | entries arrive late and are lost silently; pages are cut from a moving table |
| Service lifecycle (`cmd/run.go`) | HTTP server, scheduler, database pool, telemetry | startup, signal, drain, stop, exit | timeouts race the work in flight; deferred closes |
| Schema migrations (`cmd/migrate.go`, `migrations/`) | `schema_migrations`, the schema itself, an advisory lock | up, down, force, status, version | a crash or a lost answer in the middle leaves the version dirty; the migration job and an operator may run commands at once |
| Health (`internal/controller/health.go`) and startup (`internal/environment/auth.go`) | none of its own; the kubelet counts | health, ready, live, two discoveries at startup | three checks in a row with limits of their own against a probe with another; the same endpoint decides on restarts and on traffic |
| Logging transport and statistics page (`internal/middleware/apilog.go`, `internal/repository/apilog_store.go`, `controller/logs.go`) | the entries of `api_logs` | classify a call, file it under an endpoint, two aggregate queries on two engines | three writers must say the same of the same outcome; drivers deliver other types; the table moves between the queries |
| Azure AD client configuration (`internal/environment/auth.go`) | none | derive and check two redirect URLs | one check covers URLs that two rules derive |

How they interact: the login flow puts a user in the browser's session; the authorization flow, which needs
one, ends in a save to the token store; mail activity, started by the scheduler or by hand, reads the store,
refreshes the token when it has expired, writes it back and calls Graph; each call leaves a log entry, written
by a goroutine of its own; the daily cleanup and the log page read and shrink that table; the lifecycle starts
all of it and must not close the database under it.  The kubelet watches each pod through the health endpoints,
and a job of the chart migrates the schema before and during all this.  Several replicas share the three tables (tokens, sessions,
logs) and nothing else.

What makes each part correct:

- **Token store.** What was filed under one user's id never reaches another user's row; a user gets a second row only
  for a reason that can be named; a revoked user stays without a row until the next authorization; a refresh of a user's
  only row does not change which grant is stored unless something else wrote in between.
- **Sessions.** A flow that nothing rightly upset is honoured; a logout that destroyed the session ends the flows begun
  before it, and the browser shows no user again but by a login or by what the logout overtook.
- **Mail runs.** Everybody on the list gets a turn and is counted once; failure is reported for a reason; a user
  who keeps a token keeps getting turns.
- **Logs.** A reader who follows the pages misses nothing that was there; one view's numbers agree; entries
  stay for their retention and go after it.
- **Lifecycle.** The pool outlives the work; the shutdown goes in order, and an exit without error is a complete one; a
  signal is followed by an exit even when handlers and jobs hang.
- **Migrations.** The version number tells what is in the database, or is dirty and can be put right; a command that
  reports success has done it; commands end.
- **Health.** A pod is restarted or loses its traffic only for a reason, has traffic only if what it needs answers,
  and gets it back when its dependencies are back.
- **Statistics.** Each call is counted once and as it ended, one operation in one row, the rows add up to the
  totals, and both engines show the same up to the rounding of averages.

`PROJECT.json` lists, under `hazards`, what can go wrong at which line and the property that would show it.

## Modules

| module | what it is |
|---|---|
| `TokenVault` | abstract promise of the token store: one slot per user |
| `UserTokens` | table, service, token refresh, and the processes that use them; refines `TokenVault` |
| `UserTokensProofs` | its safety for all constants; the refinement |
| `Sessions` | browsers, requests, session store, the two redirect flows |
| `SessionsProofs` | their safety for all constants |
| `MailRuns` | scheduled runs over all stored tokens |
| `MailRunsProofs` | their safety and liveness for all constants |
| `ApiLogs` | log entries, cleanup, log page |
| `ApiLogsProofs` | their safety and liveness for all constants |
| `Lifecycle` | one process from start to exit |
| `LifecycleProofs` | its safety and liveness for all constants |
| `Migrations` | the migrate commands, golang-migrate's lock and marking, the five scripts |
| `MigrationsProofs` | their safety and liveness for all constants, on both engines |
| `Pods` | one pod: startup, health endpoints, probes, dependencies; the redirect URLs |
| `PodsProofs` | its safety for all constants; its liveness up to the chart's failure threshold |
| `LogStats` | what an entry says of its call, and the statistics page on both engines |
| `LogStatsProofs` | sums over finite sets; that calls are counted as they ended, rows add up to the totals, and both engines show the same up to the rounding of averages |
| `MC...` | what TLC needs of each: symmetry and the values of structured constants |

`UserTokens` and `MailRuns` look at mail activity at two scales.  `UserTokens` takes one user's turn apart into
its database and provider calls; `MailRuns` takes a run apart into turns, and of a turn keeps what decides its
outcome: is there a row when the turn comes, and does the call succeed.  `Sessions` likewise ends where the
token callback has decided for whom it saves; the save is `UserTokens`'.  `ApiLogs` and `LogStats` share the table: when an
entry is dated, stored and removed is `ApiLogs`', what is in it is `LogStats`'.

Definitions whose comment begins with "Fault:" are not part of any specification.  Each is what a definition
would be under a plausible bug; put in its place it makes a property fail, which shows that the property
depends on the code being as it is (`mutants` in `PROJECT.json`).

## The models and the code

`PROJECT.json` maps every definition to its lines.  In short:

**UserTokens.** `rowUser` and `rowTok` are the columns of `user_tokens`; a token stands for access token, refresh
token and expiry, which the code always writes together.  Two histories say of each token issued under which user its
authorization was brought in (`filed`: the session's user at the callback, whoever gave the consent at the provider) and from which
authorization it descends (`grant`).  A process is a goroutine, in any replica;
`pc` names the next call it makes, and each database or provider call is one step that may fail.  `SaveUserToken`
is `LookupFound`/`LookupAbsent` (line 52: any error, not only "no rows", takes the insert branch; the failing
lookup can be switched off with `LookupFaults`), then `SaveCreate` or `SaveUpdate`.  `UpdateUserTokens` is
`UPDATE ... WHERE user_id = ?`: all rows of the user, or none, without complaint.  `GetUserToken` is
`LIMIT 1` without an order: any row.  `TokenReuse` is oauth2's reuse of a valid token, `TokenRefresh` and
`UpdateUserToken` are `persistentTokenSource.Token`, which logs a failed write and goes on.  Three history
variables (`raced`, `since`, `revoked`) record what overlapped what; no guard reads them.

**Sessions.** scs loads the session when a request comes in and commits the whole of it, if modified, as the
response starts.  A request is therefore `Arrive` (load), a handler working on its copy, `Commit` if it modified that copy, and `Respond`
(cookie and redirect reach the browser); `Abort` is a request that dies or a commit that is refused.  `user`
stands for the keys user, token and claims, which are set together.  The login callback returns before it pops
its state when the provider answers with an error (`CallbackRefused`), the token callback pops first
(`UserTokenCallbackRefused`).  `Logout` destroys the row at once; a request that had loaded it commits it back.  `DestroyFails` is a logout whose deletion
fails, or takes effect without an answer: the handler ignores the error and answers the same redirect, and what was there stays.
`out` and `late` are histories: the browsers that are signed out, and the requests in flight that this has overtaken.

**MailRuns.** `Execute` to `Finish` are `ProcessUserMailTokensJob.Execute` and `ProcessAllUserMailActivity`: one list query,
one turn per row in any order, two counters, an error at the end if any turn failed.  The list holds one entry
per row, so a user with two rows has two turns.

**ApiLogs.** Time is in seconds, the precision of `request_time`, to which the time of the call is rounded.  An
entry is dated at the start of its call and stored after its end, by a goroutine with five seconds and no
retry.  `Listed` is the switch of `LogsController.Index`: job type, else user, else the time range.  `IsPage` is
`ORDER BY request_time DESC LIMIT ? OFFSET ?`, with entries of one second in any order, chosen anew by each query.
The page makes its three queries one after the other over the window it fixed at its start.  Its links lead on (also from
the last page) and back, and it reloads itself (`NextPage`, `PrevPage`, `refreshLogs`).  `missing` is the history of a walk: what its first page's query
matched and no page has listed yet; to load page 1 is to begin anew.

**Lifecycle.** `main` is the goroutine of `Run`, `guard` the goroutine that waits for the signal.  `Startup` is the
list of steps that can fail; the deferred calls run last first (`StopCleaner`, `CloseDB`); the shutdown goroutine
drains the server (30 s), stops the scheduler (waiting for its jobs, with its own limit) and telemetry (10 s).
`late` is a history of the limits that ran out.  `cleaner` is the session store's goroutine, which deletes expired rows
without a limit; to stop it is to wait until it takes the word, which it does between two sweeps.  A job run leaves a logging goroutine behind that nobody
waits for.

**Migrations.** `version` and `dirty` are the one row of `schema_migrations`; `schema` is what the scripts create, with the
width of the token columns and whether a long token is stored.  A command is `Start`, `GetMigrator` (which opens
the database, picks the engine and the directory of scripts), `Lock`, then `Check`, and for each script `Mark` (version,
dirty), `RunScript`, `Clean` (version, not dirty), then `Unlock`; `ForceVersion` only writes a version.  Each script is one statement
and runs whole or not at all (`AllOrNothing`).  (Postgres' script 4 is five statements, which its driver sends as one
query and the server runs as one transaction.)  A step may fail before or after it took effect (`StepFails`), and a process may be
killed at any step (`Crash`), with which the session's lock goes.  `from`, `began`, `misforced` and `abandoned` are histories.

**Pods.** `stage` is how far `Run` has come: the two discoveries of `NewAuthenticator` and `NewUserTokenAuthenticator` (`hung` is one that
waits for an answer without a limit), then the server.  A probe is one request: `Begin`, `checkDatabase` (five seconds),
`checkAzureADIssuer` (eight), `Answer`, or `HangUp` when the prober's time is over; `elapsed` counts seconds.  `Conclude` is the kubelet's count.
The chart gives `/health` to both probes; `Layouts` also has the other two endpoints.  A URL is a record of the parts that the two
validators and the derivation look at; `suffix` tells what `-user-token` was appended to.

**LogStats.** A call ends with a status code, or 0 for none.  The renewal job and the mail service write what the Graph
client's error says (`GraphEntry`), the transport what it sees (`RoundTrip`).  A path is the sequence of its segments.  `Avg`, `Scans` and `asFloat64`
are the average's way from the driver to the page: bytes or a number, `NULL` over no rows.  (The `float64` next to such a number counts
as the number: it is far closer than a fourth decimal.)  A page is `Stats`, `GetAPILogStats`,
`GetAPILogStatsByEndpoint`, `Close`.  An average is a fraction: for MySQL rounded to the four decimals that `AVG` of an integer column has, for PostgreSQL as it is.

## Runs

Passing runs, with deadlock checked throughout; every bound is a constant of the module and is set in the `.cfg`.

| run | shows | bounds, and why they are enough |
|---|---|---|
| `tokens` | `FilingsKeptApart`, `DuplicatesOnlyByRace`, `UpdateFindsRow`, `RefreshExtendsStoredGrant`, `RowsOnlyFromCallbacks`, `IInv` | Two users, two processes, both able to run the callback, failing lookups; three tokens give two authorizations and a refresh, or one and two refreshes; two rows give a duplicate. Proved for all sizes. |
| `tokens_vault` | `UserTokens` implements `TokenVault` when one process at a time runs the callback and lookups answer (`ImplementsVault`) | As above with one saver. The two conditions are needed: without either, one user has two rows. Proved for all sizes. |
| `sessions` | `UndisturbedFlowsAreHonoured`, `LogoutEndsFlows`, `LoggedOutStaysOut`, `IInv` | One browser (browsers share no session), two requests (every overlap is one of two), two session tokens (one and its successor), two flows (of one kind or of both). Proved for all sizes, several browsers included. |
| `mail_runs` | `EveryListedUserHadATurn`, `TokensAreUsed`, `IInv` | Two users, two rows (two users, or one user twice, and a row that comes or goes during a run), two overlapping runs, one crash. Safety proved for all sizes. |
| `logs` | `NothingSkipped`, `ViewAddsUp`, `RetentionIsKept`, `IInv` | Three calls of the application and pages of one entry give walks of three pages, back and forth (`MaxPage`), with a late entry in any position, without a filter and with one by job type; retention 2 and time 3 let the cleanup reach an open view. A walk under a filter sees only the entries that match, so calls made for users and the filter by user add no other order of events; the proof covers them, for all sizes. |
| `logs_live` | `OldEntriesGo` | Two calls; time 5 leaves room for an entry stored late and a cleanup that failed before. No reader: it writes nothing. |
| `lifecycle` | `DatabaseOutlivesWork`, `CleanExitIsComplete`, `ExitFollows`, `IInv` | Two requests, two overlapping runs of each of the three jobs. Safety proved for all sizes. |
| `migrations` | `VersionTellsSchema`, `DirtyIsRecoverable`, `AbandonedStaysDirty`, `SuccessIsReal`, `CommandsEnd`, `IInv` | All five scripts, two processes, `down` by 0 (refused), 2, and 6 (one more than there are), `force` to no version and to 4, the MySQL scripts (whose index cannot be dropped twice). Safety proved for any number of processes, any arguments and both engines. |
| `pods` | `NoGroundlessFailure`, `ReadyIsEarned`, `OneFaultIsAnswered`, `WarningsSuffice`, `TrafficReturns`, `IInv` | The chart's time-outs; threshold 2 instead of 3 (it counts the same failures, one fewer); a slow dependency takes 4 seconds, which is within each check's limit, and twice of which is within the liveness probe's but not the readiness probe's; the chart's probe paths and the ones the program has for the purpose; a redirect URL without a warning and one with. Safety proved for all thresholds, delays and URLs. |
| `log_stats` | `OutcomesAreCounted`, `OperationsShareARow`, `EnginesAgree`, `PageAddsUp`, `IInv` | Three calls (two in one row and one in another, one slower), answers 200, 302 and 404, one operation on two users, both engines. Proved for all sizes. |

`ViewAddsUp`, `PageAddsUp`, `RetentionIsKept` and `RowsOnlyFromCallbacks` are action properties: what a step may never do.
`IInv` is in each module the inductive invariant of the proofs; its first conjunct is the module's `TypeOK`.

What some of them say that one might not expect:

- `DuplicatesOnlyByRace` does not claim that there are no duplicates: there are.  It says that only a
  failed lookup over an existing row, or two lookups before either insert, make one; a revocation or a
  refresh in between never does.
- `UpdateFindsRow`: the update takes zero affected rows for success.  That can only happen when a revocation
  of the same user overlapped the save, so that "saved, then revoked" explains the outcome.
- `FilingsKeptApart` is about the keys of the writes only.  That the one who gave the consent is the user it is filed under is not
  true of the code, as `sessions_starter` shows.
- `RefreshExtendsStoredGrant` has the premise that the user never had two rows (`raced`): a read takes either of two rows and an update
  writes both, so that a refresh of one replaces the other's grant with nothing written in between.
- `LogoutEndsFlows` and `LoggedOutStaysOut` are about logouts that destroyed the session.  One whose deletion fails ends nothing,
  though its answer is the same ([below](#where-code-and-comments-differ)).  What a logout overtook, requests that had loaded the
  session before, may bring the user back, and only that.
- `UndisturbedFlowsAreHonoured` names what may upset a flow: a second flow of its kind, a logout, an expiry, a failed
  request, or two overlapping requests that write.  Pages do not, because they leave the session unmodified, and
  neither does the flow of the other kind, because it has a key of its own.
- `NothingSkipped` holds although pages are cut by offset from a table that moves, and only because the newest come
  first: late entries and the sliding window push the unseen ones to later pages, and the cleanup takes
  the oldest.  It speaks of entries whose second is their own, because tied entries may change places
  between two pages.
- `ViewAddsUp` has the premise that the cleanup has not reached the window: with the largest range, 30 days, that
  equals the retention, a view that is slow enough loses entries between its queries.
- `DatabaseOutlivesWork` says exactly when the pool is closed under work: a time limit ran out, or listening failed.
- `CleanExitIsComplete` has the order of the shutdown in it: nothing is stopped before what depends on it is done or its limit ran out.
- `DirtyIsRecoverable` is why `migrate force` can be used at all: a dirty version leaves two possibilities, the number it
  names and the one before the step.  `VersionTellsSchema` and it speak of databases in which nobody forced a number that
  was wrong; after that nothing is promised ("use with caution", `cmd/migrate.go:111`).
- `NoGroundlessFailure` does not say that a sound process is never restarted, because it is: an issuer that is down
  fails the liveness probe.  It says that there is such a reason behind every failure counted, and that a warning about the
  redirect URL is none.
- `OneFaultIsAnswered` is about the limits: five and eight seconds fit one by one into the probe's ten, together they
  do not.  With both dependencies hanging, the probe gets no answer and the log no line of the second check.
- `EnginesAgree`: counts are equal, averages at most half of the fourth decimal apart.  Shown in whole milliseconds, the two can still
  fall on either side of a half.  It has one exception, an empty window, in which PostgreSQL's average is `NULL` and its page fails
  (see [below](#where-code-and-comments-differ)).
- `PageAddsUp` allows for exactly the entries that came or went between the two queries, and in the time part, which weights averages by
  their counts, for half of the fourth decimal for each call.

Two runs end in a counterexample on purpose; see [below](#where-code-and-comments-differ).

## Fairness

Fairness appears in five runs only and is assumed of the program and its platform, never of its users.

- `MailRuns`: the scheduler starts runs (`WF Execute`), a run that is not killed goes on (`WF Proceed`), and a list query that
  is repeated with every run gets through at last (`SF Listing`).  Reads and Graph calls may fail for ever.  `WF Proceed` assumes that
  each turn ends.
- `ApiLogs`: time passes, the daily job starts its cleanup, and its delete succeeds at last (`SF DeleteOldAPILogs`): it is
  retried every day.  Nothing is assumed of calls, inserts or readers.
- `Lifecycle`: the two goroutines are scheduled and their timers fire (`WF Running`, `WF ShuttingDown`).  No request and no job is
  assumed to end, no signal to come and nothing to fail.  A sweep of the session cleanup is assumed to end (`WF SweepEnds`), and the
  cleanup goroutine, which chooses between its ticker and the word to stop, to take the word at last (`SF StopCleaner`).
- `Migrations`: a command that was begun goes on (`WF Proceed` for each process), its waits included.  Nothing is assumed to succeed, and
  the lock may be taken by another for ever.
- `Pods`: the start goes on (`WF Startup`), the kubelet keeps probing and restarting (`WF Probe`, `WF Restart`), and a request in flight
  goes on, because each of its checks has a limit.  A discovery that hangs in the start is not assumed to end
  (`HungDiscoveryFails` may happen and has no fairness).  `TrafficReturns` has the premise that both dependencies stay up from some time on.

Three of the waits that are so assumed to end have no limit in the code.  A refresh in a turn runs on the background context and the default
HTTP client (`services/tokensource.go:40`, `:97`), so that a provider which never answers would hold up a run for good.  The word to
stop waits for the session cleanup's `DELETE` (`cmd/session_store.go:19`, `:22`), so that one which never returns would hold up the exit.  And
PostgreSQL's `pg_advisory_lock` waits as long as another session holds the lock, with no statement timeout configured: golang-migrate gives up
waiting before a run, but opening the driver takes the same lock without a limit (MySQL's `GET_LOCK` has one), so that `CommandsEnd`
there assumes that whoever holds the lock lets go.

`Migrations` also assumes, in safety as well, that the lock excludes: it is the database session's, and behind a proxy that pools
transactions it would not (`helm/e5renew/values.yaml:77-79` asks for a direct connection).

## Proofs

Each theorem holds for every value of the constants that satisfies the module's named assumptions: finite
sets of rows and calls, positive page size and retention, ranges no longer than the retention, a `NULL`
that is not a user (or token, record, or average), bounds that are natural numbers; for `Pods`, a liveness time-out above the eight
seconds of one check; for `LogStats`, identifiers only where Graph's paths have them.  All rest on an inductive
invariant (`IInv`), which TLC checks too: the properties by themselves are not inductive.

- **UserTokens** (`UserTokensProofs`): `TypeCorrect`, `FilingsStayApart`, `OneRowUnlessRaced`, `UpdatesAreNotLost`,
  `RefreshKeepsTheGrant`, `NoRowWithoutCallback`.  A row's token is right because the token in the writer's memory was
  (`BusyProcesses`); a save inserts at most once because its lookup's answer stays true unless raced
  (`CreateIsRightUnlessRaced`); what a refresher read keeps its grant as long as only revocations intervene and there is
  one row (`ReadTokenKeepsGrant`, for users outside `raced`).
- **TokenVault** (`UserTokensProofs`, second part): `Refinement`, under `Serial` (one saver, no failing lookup).  `SerialInv` adds that a save
  holds the first token of a grant and a write-back a later one, which is what tells `Authorize` from `Rotate`.  Every
  action is then a step of the vault or leaves it alone; an update that finds no row is such a stutter.
- **Sessions** (`SessionsProofs`): `FlowsAreHonoured`, `LogoutIsFinal`, `SessionsEnd`.  `OwnTokens` keeps the browsers apart: a session token is
  drawn once and known to one of them.  `Undivided` is what being alone gives a request: what it loaded is still what the cookie
  leads to.  From these, `Over` (the state of an ended flow is in no session that can still be reached or written) and `Smooth`
  (the state of an undisturbed flow is where its callback will load it, and no request in flight takes it away) hold
  from step to step.  `StatesAtHome` is needed for `Over`: otherwise a logout would leave the state in another browser's session.  `SignedOut` says of
  a signed-out browser that no session its cookie leads to, and none that a request not overtaken holds, has a user.  The
  proof first gives each step a shape, so that the conjuncts see only the fields they speak of.
- **MailRuns** (`MailRunsProofs`): `TypeCorrect`, `NobodyIsLeftOut`, `FailuresHaveCauses`.  `AddsUp` relates what a run counted to the
  rows it took, `HasCauses` says that a listed user has a row or has revoked since.  Even `TypeOK` needs `AddsUp`: the
  counts stay below the number of rows because each row is counted once.
- **ApiLogs** (`ApiLogsProofs`): `TypeCorrect`, `WalkIsComplete`, `ViewsAddUp`, `RetentionKept`.  `WalkAdvances` is the heart: an
  entry not seen after n pages has at least n pages' worth of newer entries before it.  `LeftOutOfPage` shows that
  one more page keeps it so, `UnseenStays` that no insertion, deletion or sliding window takes a newer entry away or
  makes an entry unseen.  `ViewIsWhole` does the same for the queries of one view.
- **Lifecycle** (`LifecycleProofs`): `TypeCorrect`, `PoolOutlivesWork`, `CleanExit`.  `Ordered` says what the shutdown goroutine has
  behind it at each of its stages, work that is done and limits that ran out, and why `Run` unwinds.
- **Migrations** (`MigrationsProofs`): `CleanVersionIsRight`, `DirtyHasTwoReadings`, `AbandonedIsSeen`, `ReportedSuccessIsReal`.  `LockHeld` makes one command at a
  time the only writer; `OnItsWay` says what that one knows of the stored version and of the schema at each of its steps.  Lemmas on
  the scripts show that each takes a schema that matches one version to one that matches the next, on both engines.
- **Pods** (`PodsProofs`): `RestartsHaveReasons`, `TrafficIsEarned`, `OneFaultGetsAnswer`, `RedirectWarnings`.  `InFlight` bounds the time a request has
  taken by what was unwell meanwhile, `Counted` sandwiches the kubelet's count between the two histories.  The theorem on redirect
  URLs follows from the definitions alone, for all URLs.
- **LogStats** (`LogStatsProofs`): `TypeCorrect`, `PageCountsOutcomes`, `OperationsAreOneRow`, `EnginesShowTheSame`, `RowsAddUpToTotals`.  Every
  entry is true of its call, whoever wrote it (`EntriesAreTrue`), no later step changes an entry that was counted, and a refused page has a
  cause (`RefusalsHaveCauses`).  The first part of the module derives what is needed about sums over finite sets (that they exist and are
  unique, take out an element, split over disjoint sets, and count) from the well-founded order of the subsets of
  a finite set (`SubsetInduction`); from these come the sums over the rows of a page, because each
  entry is in the row of its endpoint and in no other (`RowsAddUp`, `SumByParts`), and the bound on what rounding adds to them (`Rounding`,
  `SumsStayNear`).

### Liveness

The prover has no rule for `ENABLED`, so `WF` and `SF` say nothing to it.  The theorems on liveness therefore take `Spec` and, in the place of each
fairness condition, what it says in temporal logic alone: *always again either the step is not due, or it is made*
(`[]<>~Due \/ []<><<A>>_vars`), with a state predicate `Due` written out for each action.  A corollary to each (`Fair...`) starts from `FairSpec` and
has the hypothesis that a step which is due is enabled (`[](Due => ENABLED <<A>>_vars)`).  That hypothesis holds on the instances of the runs; were a process
stuck in a step that is due, the liveness property itself would fail there.  From then on the argument is: which steps lead on, and that no
other process, failure or crash leads back.

- **Migrations**: `CommandsAreShort` counts the calls a command still needs (`StepsLeft`, at most nineteen: three for each of five scripts and four around them) and
  shows that each of its steps takes some away, and that no other process, crash or failure adds to them.  That a command at a step goes on
  includes, on PostgreSQL, that its wait for the lock ends.  `CommandsThatGoOnEnd` follows by going down that count.
- **Lifecycle**: `ExitComes`.  The shutdown goroutine goes through its stages in one direction, Run waits for it or unwinds, and unwinding
  closes at most two things; requests and jobs that never end hold up none of it, because the waits for them have limits.  For the session
  cleanup, whose last sweep Run waits for without one, that sweeps end and that the cleanup takes the word to stop are hypotheses
  (`SweepsEnd`, `CleanerStops`).
- **ApiLogs**: `OverdueEntriesGo`: once an entry is older than the retention, any cleanup begun from then on has a cutoff that reaches it
  (`OverdueStays`), so that the first delete to get through removes it, wherever the clock stands.  `OldEntriesGoAtLast` is the property of the run, for entries that become old
  as the clock goes on; its hypothesis `<>(now = MaxTime)` says that it does.
- **Pods**: `HungStartsAreRestarted` and `TrafficComesBackWithChart`.  When both dependencies are up for good, requests in flight end and the next ones see nothing amiss
  (`Calm`); no start hangs any more (`NoNewHang`), one that did is refused until the count is full and then restarted; a pod past all that
  (`Mended`) stays so, gets up, and is given the traffic by its next readiness probe.  The threshold is at most the chart's three: counting up to
  an arbitrary one needs induction.  `TrafficComesBack` is the same for any threshold, with the end of hung starts as a hypothesis.
- **MailRuns**: `RunsAreShort` (at most three steps for each row and two more, and nobody adds to them) and `TokensGetUsed`: a user with a row when a list is
  read awaits a turn (`Awaits`), and a run cannot end before it has given it.  The hypotheses are that runs are started, that lists asked for again and again get through, that
  crashes stop (the bound `MaxCrashes`), and that each run ends: for a run that goes on this is what `RunsAreShort` amounts to, but going down from an arbitrary number of
  rows is an induction.

Not proved: that a step which is due is enabled, and that a run of the mail job comes to its end with any number of rows; TLC shows both on the instances of
the runs.  The prover has no rule for the first, and temporal induction over an arbitrary number, which the second needs, is out of its reach; so is the end of a hung
start for thresholds above the chart's.  No module declares a `RECURSIVE` operator.

## Where code and comments differ

Each of these two runs checks what a comment says, and TLC shows a run of the code that breaks it.

| run | the comment | what happens |
|---|---|---|
| `tokens_revoked` | `controller/usertoken.go:143` "RevokeUserToken revokes and deletes a user's token" | a refresh in flight over the revocation and a new authorization overwrites the new grant's token with one of the revoked grant |
| `sessions_starter` | `controller/usertoken.go:113` "Check if user is still logged in" | another user logs in between; the token of the first user's authorization is saved for the second |

Others, plain from reading or seen in the models, without a run of their own:

- `controller/login.go:115` ignores the error of `Destroy`: a logout whose deletion fails redirects like any other, and the session, its user and
  the flows begun in it go on (`DestroyFails`).
- `services/usertoken.go:53` "Token doesn't exist, create new one": two callbacks of one user that both look before either inserts
  leave two rows, and so does a lookup that fails (`DuplicatesOnlyByRace` names exactly these cases).
- `controller/logs.go:53` "Time range filter": with a job type or a user set (line 77), the list ignores the time range that the statistics
  beside it use.
- `services/mail.go:115`: an orderly shutdown does not wait for the goroutine that writes a call's entry (line 138).
- `services/usertoken.go:164-169`: `HasUserToken` answers "no token" when its lookup fails, so that its error result is never used.
- `cmd/run.go:231` "forcing exit" is logged at a drain time-out after which the shutdown goes on as before; `cmd/run.go:209-211` counts two
  jobs where three are registered.
- `cmd/migrate.go:100` "DIRTY (migration failed)" is also printed while a migration is merely running, and
  `cmd/migrate.go:92` "No migrations have been applied" also when the rollback of the first script was interrupted and the database is dirty.
- `migrate down n` with n larger than the number of applied migrations rolls all of them back and then reports "rollback failed".
- `000005_increase_token_columns.down.sql` leaves the narrow columns that `000001` never made (it creates them wide already), and fails over a stored
  token of more than 255 characters, after which the version stays dirty.
- `controller/health.go` behind the chart's liveness probe: an outage of the issuer alone restarts every pod, and none
  starts again before the issuer is back, because the start asks it too, without a time limit (`environment/auth.go:43`, `:80`); only the liveness
  probe ends a start that hangs.  The readiness time-out equals the database check's five seconds, so a hanging database never
  gets its 503 through.
- `helm/e5renew/values.yaml:117` sets a `userToken.redirectUri` that nothing reads and that is not the derived route.
- `https:///oauth2/callback`, without a host, passes `validateRedirectURL`.
- `services/apilog.go:180`: the shortest and longest duration are shown as 0, because only an `int32` is taken and the drivers deliver others.
- `services/apilog.go:170`: over an empty window PostgreSQL's `AVG` is `NULL`, which does not go into a `float64`: the statistics page answers 500
  and the log page shows no statistics, where MySQL shows zeros.
- `controller/logs.go:47`: page numbers above 42,949,673 wrap around in 32 bits.
- `middleware/apilog.go`: the logging client is exported and tested, and nothing installs it.

## Not modelled

- **Encryption, validation, error pages, views, translations**: pure functions without state.  The models use that
  reading a token fails or returns what was written, and that a callback with bad parameters is refused.
- **Scopes, issuer URL, cookie flags**: configuration that is passed on.
- **Row scanning and adapters**: sqlc's code and the copies between the engines' row types (`db/stores.go`); each query is
  modelled where it is used, with what the SQL of both engines guarantees.
- **Telemetry**: no effect on state; its shutdown is a step of `Lifecycle`.
- **Frontend test server**: a fixture for browser tests.
- **Inside the libraries**: scs, gocron, oauth2, golang-migrate, `net/http` and the kubelet are modelled by how the code and the chart use them.
- **Listed columns of `api_logs`** (sizes, messages, codes) and the shortest and longest duration, which no query filters or orders by.

## Plan

Done in this order, the most important first: token store and its abstract promise; sessions; log table;
lifecycle; mail runs; their proofs; migrations; the pod and its probes; the statistics page and its writers; the
proofs of these three and of the sessions.

Left, in the order of what it would add:

1. *A composition* of `Sessions` and `UserTokens`, in which the token callback saves for the user its session copy holds while that
   user logs out or revokes.
2. *Several pods* behind one service, with the migration job among them: a rollout in which old and new code meet one schema.
3. *Proofs*: `NothingSkipped` without its premise on ties, once the order is made total; the refinement of `TokenVault` without its
   premise `Serial`, against an abstract store that may hold several rows of a user.
