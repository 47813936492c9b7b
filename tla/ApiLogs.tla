------------------------------- MODULE ApiLogs -------------------------------
(***************************************************************************)
(* The api_logs table of e5renew: the goroutines that write an entry after *)
(* each Graph call, the daily cleanup, and the log page that cuts pages    *)
(* and statistics out of a table that moves while a reader walks through   *)
(* it.  Every database call is one step; time is counted in seconds, the   *)
(* precision of the request_time column.  Whether a call succeeded, its    *)
(* duration and its sizes are left out: nothing depends on them.           *)
(***************************************************************************)
EXTENDS Integers, FiniteSets

CONSTANTS
  Calls,      \* Graph calls, each with the entry it leaves (bounds the runs)
  Users,      \* users whose mail is read; NULL calls for the application
  Limit,      \* entries on a page (50 in the code)
  Retention,  \* age an entry must exceed to be cleaned up (30 days)
  Ranges,     \* the time ranges a reader can ask for (1 hour to 30 days)
  Filters,    \* what a reader can ask for besides
  MaxTime,    \* bounds the runs
  MaxPage,    \* the last page a reader goes to (bounds the runs)
  NULL

ASSUME CallsAreFinite == IsFiniteSet(Calls)
ASSUME LimitIsPositive == Limit \in Nat \ {0}
ASSUME RetentionIsPositive == Retention \in Nat \ {0}
ASSUME RangesAreKept == Ranges \subseteq 1..Retention
ASSUME TimeIsBounded == MaxTime \in Nat
ASSUME PagesAreBounded == MaxPage \in Nat
ASSUME NullIsNew == NULL \notin Users

JobTypes == {"user_mail", "client_credentials"}

ASSUME FiltersAreParameters ==
  Filters \subseteq [job : JobTypes \cup {NULL}, user : Users \cup {NULL}]

VARIABLES
  now,
  stage,     \* where each call and its entry are
  at,        \* column request_time
  who,       \* column user_id; NULL for the application's own calls
  cutoff,    \* the running cleanup's cutoff, NULL when none is running
  phase,     \* the log page: which query it is about to make
  query,     \* its parameters
  rows,      \* the entries it lists
  totals,    \* the number of requests of its statistics, NULL if that failed
  endpoints, \* the sum of its statistics per endpoint, NULL if that failed
  missing    \* history: what the walk's first query matched and no page listed yet

entries == <<stage, at, who>>
view    == <<phase, query, rows, totals, endpoints>>
vars    == <<now, entries, cutoff, view, missing>>

Stages   == {"unused", "logging", "stored", "gone"}
Phases   == {"closed", "list", "stats", "endpoints", "shown"}
JobType(c) == IF who[c] = NULL THEN "client_credentials" ELSE "user_mail"

NoFilter == [job |-> NULL, user |-> NULL]
Queries == [page : Nat \ {0}, range : Ranges, filter : Filters, end : 0..MaxTime]

Stored == {c \in Calls : stage[c] = "stored"}

\* The entries of C are nowhere any more.
Gone(C) ==
  /\ stage' = [c \in Calls |-> IF c \in C THEN "gone" ELSE stage[c]]
  /\ at'    = [c \in Calls |-> IF c \in C THEN NULL ELSE at[c]]
  /\ who'   = [c \in Calls |-> IF c \in C THEN NULL ELSE who[c]]

\* "request_time >= ? AND request_time <= ?"
InRange(q) == {c \in Stored : at[c] >= q.end - q.range /\ at[c] <= q.end}

\* A job type wins over a user, and either of them over the time range.
Listed(q) ==
  IF q.filter.job # NULL THEN {c \in Stored : JobType(c) = q.filter.job}
  ELSE IF q.filter.user # NULL THEN {c \in Stored : who[c] = q.filter.user}
  ELSE InRange(q)

\* Fault: the order by without its DESC.
IsPageOldestFirst(P, S, k) ==
  \E skipped \in SUBSET (S \ P) :
    /\ Cardinality(skipped) = IF k < Cardinality(S) THEN k ELSE Cardinality(S)
    /\ LET rest == Cardinality(S) - Cardinality(skipped) IN
       Cardinality(P) = IF Limit < rest THEN Limit ELSE rest
    /\ \A c \in skipped, d \in S \ skipped : at[c] <= at[d]
    /\ \A c \in P, d \in S \ (P \cup skipped) : at[c] <= at[d]

\* P is a page of S: what "ORDER BY request_time DESC LIMIT Limit OFFSET k" may
\* return.  Entries of one second come in any order, anew for each query.
IsPage(P, S, k) ==
  \E skipped \in SUBSET (S \ P) :
    /\ Cardinality(skipped) = IF k < Cardinality(S) THEN k ELSE Cardinality(S)
    /\ LET rest == Cardinality(S) - Cardinality(skipped) IN
       Cardinality(P) = IF Limit < rest THEN Limit ELSE rest
    /\ \A c \in skipped, d \in S \ skipped : at[c] >= at[d]
    /\ \A c \in P, d \in S \ (P \cup skipped) : at[c] >= at[d]

Init ==
  /\ now       = 0
  /\ stage     = [c \in Calls |-> "unused"]
  /\ at        = [c \in Calls |-> NULL]
  /\ who       = [c \in Calls |-> NULL]
  /\ cutoff    = NULL
  /\ phase     = "closed"
  /\ query     = NULL
  /\ rows      = {}
  /\ totals    = NULL
  /\ endpoints = NULL
  /\ missing   = {}

Tick ==
  /\ now < MaxTime
  /\ now' = now + 1
  /\ UNCHANGED <<entries, cutoff, view, missing>>

-------------------------------------------------------------------------------
(* Writing an entry: the call, then an insert in a goroutine of its own.    *)

\* A Graph call is made now; its entry, timed at its start, is handed to a
\* goroutine when it has answered or failed.  The column rounds the time to
\* the nearest second.
CallGraph(c, u) ==
  /\ stage[c] = "unused"
  /\ stage' = [stage EXCEPT ![c] = "logging"]
  /\ \E t \in {now, now + 1} : at' = [at EXCEPT ![c] = t]
  /\ who' = [who EXCEPT ![c] = u]
  /\ UNCHANGED <<now, cutoff, view, missing>>

LogAPICall(c) ==
  /\ stage[c] = "logging"
  /\ stage' = [stage EXCEPT ![c] = "stored"]
  /\ UNCHANGED <<now, at, who, cutoff, view, missing>>

\* The insert fails or takes more than five seconds, or the process ends:
\* nobody retries and nobody is told.
LogLost(c) ==
  /\ stage[c] = "logging"
  /\ Gone({c})
  /\ UNCHANGED <<now, cutoff, view, missing>>

-------------------------------------------------------------------------------
(* The cleanup: the cutoff is taken first, the delete comes later.          *)

\* Fault: a retention of zero days is not replaced by the default.
CleanupOfEverything ==
  /\ cutoff = NULL
  /\ cutoff' = now
  /\ UNCHANGED <<now, entries, view, missing>>

\* Fault: the retention is subtracted by the job and by the service.
CleanupTwiceAsLate ==
  /\ cutoff = NULL
  /\ cutoff' = now - 2 * Retention
  /\ UNCHANGED <<now, entries, view, missing>>

CleanupStarts ==
  /\ cutoff = NULL
  /\ cutoff' = now - Retention
  /\ UNCHANGED <<now, entries, view, missing>>

DeleteOldAPILogs ==
  /\ cutoff # NULL
  /\ Gone({c \in Stored : at[c] < cutoff})
  /\ cutoff' = NULL
  /\ UNCHANGED <<now, view, missing>>

CleanupFails ==
  /\ cutoff # NULL
  /\ cutoff' = NULL
  /\ UNCHANGED <<now, entries, view, missing>>

-------------------------------------------------------------------------------
(* The log page.                                                            *)

\* Index takes its end time, and so its window, when the request arrives.
Request(page, range, filter) ==
  /\ phase'     = "list"
  /\ query'     = [page |-> page, range |-> range, filter |-> filter, end |-> now]
  /\ rows'      = {}
  /\ totals'    = NULL
  /\ endpoints' = NULL
  /\ UNCHANGED <<now, entries, cutoff>>

OpenLogs(range, filter) ==
  /\ phase \in {"closed", "shown"}
  /\ Request(1, range, filter)
  /\ missing' = {}

\* The links of a page keep its filters.
TurnTo(page) ==
  /\ Request(page, query.range, query.filter)
  /\ UNCHANGED missing

\* The "next" link is there even on the last page.
NextPage == phase = "shown" /\ query.page < MaxPage /\ TurnTo(query.page + 1)

PrevPage == phase = "shown" /\ query.page > 1 /\ TurnTo(query.page - 1)

\* By the button, or every 30 seconds by itself.
refreshLogs == phase = "shown" /\ TurnTo(query.page)

ListLogs ==
  /\ phase = "list"
  /\ \E P \in SUBSET Listed(query) :
       /\ IsPage(P, Listed(query), (query.page - 1) * Limit)
       /\ rows' = P
       /\ missing' = (IF query.page = 1 THEN Listed(query) ELSE missing) \ P
  /\ phase' = "stats"
  /\ UNCHANGED <<now, entries, cutoff, query, totals, endpoints>>

\* Each statistics query counts the window again; one that fails is left out.
GetAPILogStats ==
  /\ phase = "stats"
  /\ totals' \in {Cardinality(InRange(query)), NULL}
  /\ phase' = "endpoints"
  /\ UNCHANGED <<now, entries, cutoff, query, rows, endpoints, missing>>

\* Fault: the endpoint statistics take a window of their own.
StatsByEndpointUntilNow ==
  /\ phase = "endpoints"
  /\ endpoints' \in {Cardinality(InRange([query EXCEPT !.end = now])), NULL}
  /\ phase' = "shown"
  /\ UNCHANGED <<now, entries, cutoff, query, rows, totals, missing>>

GetAPILogStatsByEndpoint ==
  /\ phase = "endpoints"
  /\ endpoints' \in {Cardinality(InRange(query)), NULL}
  /\ phase' = "shown"
  /\ UNCHANGED <<now, entries, cutoff, query, rows, totals, missing>>

\* The list query fails, or the reader leaves: the walk is over.
CloseLogs ==
  /\ phase # "closed"
  /\ phase'     = "closed"
  /\ query'     = NULL
  /\ rows'      = {}
  /\ totals'    = NULL
  /\ endpoints' = NULL
  /\ missing'   = {}
  /\ UNCHANGED <<now, entries, cutoff>>

-------------------------------------------------------------------------------

Writing ==
  \E c \in Calls :
    \/ \E u \in Users \cup {NULL} : CallGraph(c, u)
    \/ LogAPICall(c)
    \/ LogLost(c)

Cleaning == CleanupStarts \/ DeleteOldAPILogs \/ CleanupFails

Reading ==
  \/ \E range \in Ranges, filter \in Filters : OpenLogs(range, filter)
  \/ NextPage
  \/ PrevPage
  \/ refreshLogs
  \/ ListLogs
  \/ GetAPILogStats
  \/ GetAPILogStatsByEndpoint
  \/ CloseLogs

Next == Tick \/ Writing \/ Cleaning \/ Reading

Spec == Init /\ [][Next]_vars

\* Time passes, the daily cleanup runs, and one of its deletes at last gets
\* through: nothing is assumed of the calls, their entries or the reader.
Fairness == WF_vars(Tick) /\ WF_vars(CleanupStarts) /\ SF_vars(DeleteOldAPILogs)

FairSpec == Spec /\ Fairness

-------------------------------------------------------------------------------
(* Properties.                                                              *)

\* Every variable has its type.
TypeOK ==
  /\ now \in 0..MaxTime
  /\ stage \in [Calls -> Stages]
  /\ at \in [Calls -> 0..(MaxTime + 1) \cup {NULL}]
  /\ who \in [Calls -> Users \cup {NULL}]
  /\ cutoff \in Int \cup {NULL}
  /\ phase \in Phases
  /\ IF phase = "closed" THEN query = NULL ELSE query \in Queries
  /\ rows \subseteq Calls
  /\ totals \in Nat \cup {NULL}
  /\ endpoints \in Nat \cup {NULL}
  /\ missing \subseteq Calls

\* No other entry of the table shares c's second.
Untied(c) == \A d \in Stored \ {c} : at[d] # at[c]

\* A reader who follows the "next" links, turns back or reloads on the way, and
\* comes to a page that is not full has seen every entry that the first page's
\* query matched, that still matches, and whose second is its own: entries
\* logged late, entries deleted and the window that slides with each request
\* only push entries onto later pages, because Index orders the newest first.
NothingSkipped ==
  phase \in {"stats", "endpoints", "shown"} /\ Cardinality(rows) < Limit =>
    \A c \in missing \cap Listed(query) : ~Untied(c)

\* Entries are dated from their call on, a cutoff is a retention in the past,
\* and a view ends where its request came in.
Dated ==
  /\ \A c \in Calls : stage[c] \in {"logging", "stored"} => at[c] \in 0..(MaxTime + 1)
  /\ cutoff # NULL => cutoff <= now - Retention
  /\ phase # "closed" => query.end <= now

\* What the walk has not seen though the first page's query could list it.
Unseen == {c \in missing \cap Listed(query) : Untied(c)}
Newer(c) == {d \in Listed(query) : at[d] > at[c]}
PagesListed == IF phase = "list" THEN query.page - 1 ELSE query.page

\* An entry not seen yet has so many newer ones before it as the pages of the
\* walk hold, so that it comes on a later page; a page that is not full had
\* everything that was left.
WalkAdvances ==
  phase # "closed" =>
    /\ \A c \in missing : /\ stage[c] \in {"stored", "gone"}
                          /\ stage[c] = "stored" /\ query.filter = NoFilter => at[c] <= query.end
    /\ \A c \in Unseen : Cardinality(Newer(c)) >= PagesListed * Limit
    /\ phase # "list" /\ Cardinality(rows) < Limit => Unseen = {}

\* As long as the cleanup has not reached the window of the view, what the
\* earlier queries of the view counted is still there.
ViewIsWhole ==
  phase \in {"stats", "endpoints"} /\ now - query.end <= Retention - query.range =>
    /\ query.filter = NoFilter => rows \subseteq InRange(query)
    /\ phase = "endpoints" /\ totals # NULL =>
         /\ query.filter = NoFilter => Cardinality(rows) <= totals
         /\ totals <= Cardinality(InRange(query))

\* The inductive invariant behind the log page and the cleanup.
IInv == TypeOK /\ Dated /\ WalkAdvances /\ ViewIsWhole

\* The three queries of one page run apart, but over one window: the totals
\* count at least what is listed, and the endpoint rows add up to at least the
\* totals, unless the page took so long that the cleanup reached its window.
ViewAddsUp ==
  [][GetAPILogStatsByEndpoint /\ now - query.end <= Retention - query.range =>
       /\ totals # NULL /\ query.filter = NoFilter
            => Cardinality(rows) <= totals
       /\ totals # NULL /\ endpoints' # NULL => totals <= endpoints']_vars

\* The cleanup removes no entry before its retention period is over, however
\* long it runs.
RetentionIsKept ==
  [][\A c \in Calls :
       stage[c] = "stored" /\ stage'[c] # "stored" => now - at[c] > Retention]_vars

\* An entry, even one stored late, is removed once its retention is over.
OldEntriesGo ==
  \A c \in Calls :
    stage[c] = "stored" /\ at[c] < MaxTime - Retention
      ~> stage[c] = "gone"
=============================================================================
