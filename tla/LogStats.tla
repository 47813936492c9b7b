------------------------------ MODULE LogStats ------------------------------
(***************************************************************************)
(* What an entry of api_logs says of the Graph call it was written for, and *)
(* what the statistics page makes of the entries: the three writers (the   *)
(* renewal job, the mail service, the logging transport), the store of     *)
(* each database engine, and a page that is put together from two queries  *)
(* while entries come and go.  When an entry is dated and when it is old   *)
(* enough to be removed is ApiLogs' concern: here a page's window holds    *)
(* the calls made before the page was asked for, and the cleanup removes   *)
(* whichever entries it will.                                              *)
(***************************************************************************)
EXTENDS Integers, FiniteSets, FiniteSetsExt, Sequences

CONSTANTS
  Calls,    \* Graph calls, each with the entry it leaves (bounds the runs)
  Answers,  \* HTTP status codes that calls are answered with; 0 for no answer
            \* at all, or none that the writer can make sense of
  Paths,    \* paths the logging transport is used for, split at the slashes
  Ids,      \* the segments of the paths that name one user or group
  Took,     \* milliseconds each call takes
  NULL

ASSUME CallsAreFinite == IsFiniteSet(Calls)
ASSUME AnswersAreCodes == Answers \subseteq {0} \cup 200..599
ASSUME PathsHaveSegments == Paths \subseteq Seq(STRING \cup Ids) \ {<<>>}
\* A path names a user or a group behind "users" or "groups", or further on.
ASSUME IdsComeSecond ==
  \A path \in Paths : \A i \in 1..Len(path) :
    path[i] \in Ids => (i = 2 /\ path[1] \in {"users", "groups"}) \/ i > 3
ASSUME IdsAreNew == Ids \cap {"users", "groups", "me", "messages", "root", ""} = {}
ASSUME TimesAreCounted == Took \in [Calls -> Nat]
ASSUME NullIsNoAverage ==
  NULL \notin [type : {"[]byte", "float64"}, num : Nat, den : Nat]

VARIABLES
  engine,    \* the engine of the configuration: which store is in use
  call,      \* history: what each call was for and how Graph answered, or NULL
  entry,     \* the entry each call has handed to its goroutine, or NULL
  stage,     \* where that entry is
  phase,     \* the statistics page: the query it is about to make
  window,    \* the calls its time range covers
  stats,     \* the totals it has read
  endpoints, \* the rows per endpoint it has read
  counted,   \* history: the entries the totals were to be taken over
  excuse     \* history: why the last page was not shown, or NULL

calls == <<call, entry, stage>>
page  == <<phase, window, stats, endpoints, counted, excuse>>
vars  == <<engine, calls, page>>

Stages == {"unused", "logging", "stored", "gone"}
Phases == {"closed", "stats", "endpoints", "shown", "failed"}

Stored == {c \in Calls : stage[c] = "stored"}

-------------------------------------------------------------------------------
(* The configured engine, and the endpoint an entry is filed under.         *)

ParseEngine(value) ==
  IF value \in {"postgres", "postgresql", "pg"} THEN "postgres" ELSE "mysql"

\* Fault: the segment that comes first after "users" or "groups" is kept.
EndpointWithId(path) ==
  IF Head(path) = "me" /\ Len(path) > 1 THEN <<"me", path[2]>>
  ELSE IF Head(path) \in {"users", "groups"} /\ Len(path) > 2 THEN <<Head(path), path[2]>>
  ELSE IF Len(path) = 1 /\ Head(path) = "" THEN <<"root">>
  ELSE <<Head(path)>>

\* The path without its version: an operation on one's own data is named after
\* what it reads, one on a user or a group without saying which.
extractEndpoint(path) ==
  IF Head(path) = "me" /\ Len(path) > 1 THEN <<"me", path[2]>>
  ELSE IF Head(path) \in {"users", "groups"} /\ Len(path) > 2 THEN <<Head(path), path[3]>>
  ELSE IF Len(path) = 1 /\ Head(path) = "" THEN <<"root">>
  ELSE <<Head(path)>>

-------------------------------------------------------------------------------
(* The three writers.                                                       *)

Succeeded(answer) == answer \in 200..299

\* Call c for path is answered, and what it leaves is handed to a goroutine.
Hand(c, path, answer, said) ==
  /\ stage[c] = "unused"
  /\ stage' = [stage EXCEPT ![c] = "logging"]
  /\ call'  = [call EXCEPT ![c] = [path |-> path, answer |-> answer]]
  /\ entry' = [entry EXCEPT ![c] = said]
  /\ UNCHANGED <<engine, page>>

\* The Graph client follows redirects, and makes an error of every answer but
\* a 2xx.  (The columns that are only listed, the user, the job, the code and
\* the message, are left out.)
GraphEntry(c, endpoint, answer) ==
  [endpoint |-> endpoint, success |-> Succeeded(answer), duration |-> Took[c]]

GetUsers(c, answer) ==
  /\ answer \notin 300..399
  /\ Hand(c, <<"users">>, answer, GraphEntry(c, <<"users">>, answer))

GetUserMail(c, answer) ==
  /\ answer \notin 300..399
  /\ Hand(c, <<"me", "messages">>, answer, GraphEntry(c, <<"me", "messages">>, answer))

\* Fault: any answer is taken for a success.
RoundTripAnswered(c, path, answer) ==
  Hand(c, path, answer,
       [endpoint |-> extractEndpoint(path), success |-> answer # 0, duration |-> Took[c]])

\* The logging transport sees the code itself, that of a redirect too.
RoundTrip(c, path, answer) ==
  Hand(c, path, answer,
       [endpoint |-> extractEndpoint(path),
        success  |-> Succeeded(answer),
        duration |-> Took[c]])

\* The insert; one that fails is one that never comes.
LogAPICall(c) ==
  /\ stage[c] = "logging"
  /\ stage' = [stage EXCEPT ![c] = "stored"]
  /\ UNCHANGED <<engine, call, entry, page>>

DeleteOldAPILogs ==
  /\ \E old \in (SUBSET Stored) \ {{}} :
       stage' = [c \in Calls |-> IF c \in old THEN "gone" ELSE stage[c]]
  /\ UNCHANGED <<engine, call, entry, page>>

-------------------------------------------------------------------------------
(* What the two queries return over the entries of S, by engine.            *)

Failed(S)     == {c \in S : ~entry[c].success}
Successful(S) == {c \in S : entry[c].success}

\* The milliseconds that the calls of S took, as their entries have it.
Duration(S) == SumFunction([c \in S |-> entry[c].duration])

\* The decimals of MySQL's average of an integer column.
Scale == 10000

\* The fraction n / d, rounded half up to a whole number.
Rounded(n, d) == (2 * n + d) \div (2 * d)

\* AVG(duration_ms) as the driver delivers it: MySQL a text in bytes, of a decimal
\* rounded to four places; Postgres a number, which keeps more digits than a
\* float64 has and counts as exact here; NULL where there is nothing to average.
Avg(e, S) ==
  IF S = {} THEN NULL
  ELSE IF e = "mysql"
       THEN [type |-> "[]byte",
             num  |-> Rounded(Scale * Duration(S), Cardinality(S)), den |-> Scale]
       ELSE [type |-> "float64", num |-> Duration(S), den |-> Cardinality(S)]

\* Fault: the decimal in bytes is not among the types that are converted.
asFloat64OfNumbers(v) ==
  IF v # NULL /\ v.type \in {"float64", "float32", "int64", "int32", "int", "string"}
  THEN [num |-> v.num, den |-> v.den]
  ELSE [num |-> 0, den |-> 1]

\* A number or the text of one becomes the float64 next to it, which tells apart
\* all decimals of four places that the column can average to; anything else,
\* which does not parse, is zero.
asFloat64(v) ==
  IF v # NULL /\ v.type \in {"float64", "float32", "int64", "int32", "int", "[]byte", "string"}
  THEN [num |-> v.num, den |-> v.den]
  ELSE [num |-> 0, den |-> 1]

\* The column goes into a float64 in the Postgres store, which takes no NULL;
\* the MySQL store takes whatever it is and converts it.
Scans(e, v)   == e = "mysql" \/ v # NULL
Average(e, v) == IF e = "mysql" THEN asFloat64(v) ELSE [num |-> v.num, den |-> v.den]

\* One row of counts and average.  (The page's shortest and longest duration
\* are left out: the service shows both as zero, whatever the table holds.)
Row(e, S) ==
  [total |-> Cardinality(S), successful |-> Cardinality(Successful(S)),
   failed |-> Cardinality(Failed(S)), avg |-> Average(e, Avg(e, S))]

\* Fault: failures are left out of the rows per endpoint.
RowsOfSuccesses(e, S) ==
  [x \in {entry[c].endpoint : c \in Successful(S)} |->
     Row(e, {c \in Successful(S) : entry[c].endpoint = x})]

\* "GROUP BY api_endpoint"; the order of the rows is left out.
Rows(e, S) ==
  [x \in {entry[c].endpoint : c \in S} |-> Row(e, {c \in S : entry[c].endpoint = x})]

-------------------------------------------------------------------------------
(* The statistics page.                                                     *)

Init ==
  /\ engine    \in {ParseEngine(value) : value \in {"mysql", "postgres", "pg", ""}}
  /\ call      = [c \in Calls |-> NULL]
  /\ entry     = [c \in Calls |-> NULL]
  /\ stage     = [c \in Calls |-> "unused"]
  /\ phase     = "closed"
  /\ window    = {}
  /\ stats     = NULL
  /\ endpoints = NULL
  /\ counted   = {}
  /\ excuse    = NULL

\* A reader who is logged in asks for the page.
Stats ==
  /\ phase = "closed"
  /\ phase'  = "stats"
  /\ window' = {c \in Calls : stage[c] # "unused"}
  /\ UNCHANGED <<engine, calls, stats, endpoints, counted, excuse>>

\* The page ends with an Internal Server Error.
Fail(why) ==
  /\ phase'  = "failed"
  /\ excuse' = why
  /\ UNCHANGED <<engine, calls, window, stats, endpoints>>

InWindow == window \cap Stored

\* Fault: the totals are taken without the end of the time range.
StatsOfEverything ==
  /\ phase = "stats"
  /\ Scans(engine, Avg(engine, Stored))
  /\ stats'   = Row(engine, Stored)
  /\ counted' = Stored
  /\ phase'   = "endpoints"
  /\ UNCHANGED <<engine, calls, window, endpoints, excuse>>

GetAPILogStats ==
  /\ phase = "stats"
  /\ Scans(engine, Avg(engine, InWindow))
  /\ stats'   = Row(engine, InWindow)
  /\ counted' = InWindow
  /\ phase'   = "endpoints"
  /\ UNCHANGED <<engine, calls, window, endpoints, excuse>>

StatsDoNotScan ==
  /\ phase = "stats"
  /\ ~Scans(engine, Avg(engine, InWindow))
  /\ counted' = InWindow
  /\ Fail("scan")

GetAPILogStatsByEndpoint ==
  /\ phase = "endpoints"
  /\ endpoints' = Rows(engine, InWindow)
  /\ phase'     = "shown"
  /\ UNCHANGED <<engine, calls, window, stats, counted, excuse>>

QueryFails ==
  /\ phase \in {"stats", "endpoints"}
  /\ UNCHANGED counted
  /\ Fail("database")

Close ==
  /\ phase \in {"shown", "failed"}
  /\ phase'     = "closed"
  /\ window'    = {}
  /\ stats'     = NULL
  /\ endpoints' = NULL
  /\ counted'   = {}
  /\ excuse'    = NULL
  /\ UNCHANGED <<engine, calls>>

-------------------------------------------------------------------------------

Writing ==
  \E c \in Calls :
    \/ \E answer \in Answers :
         \/ GetUsers(c, answer)
         \/ GetUserMail(c, answer)
         \/ \E path \in Paths : RoundTrip(c, path, answer)
    \/ LogAPICall(c)

Reading ==
  \/ Stats
  \/ GetAPILogStats
  \/ StatsDoNotScan
  \/ GetAPILogStatsByEndpoint
  \/ QueryFails
  \/ Close

Next == Writing \/ DeleteOldAPILogs \/ Reading

Spec == Init /\ [][Next]_vars

-------------------------------------------------------------------------------
(* Properties.                                                              *)

Averages == [num : Nat, den : Nat \ {0}]
RowType  == [total : Nat, successful : Nat, failed : Nat, avg : Averages]

PathsUsed == Paths \cup {<<"users">>, <<"me", "messages">>}
CallType  == [path : PathsUsed, answer : Answers]
EntryType == [endpoint : {extractEndpoint(path) : path \in PathsUsed},
              success : BOOLEAN, duration : Nat]

\* Every variable has its type, an entry is there once its call has been made,
\* and the two parts of the page are there once they have been read.
TypeOK ==
  /\ engine \in {"mysql", "postgres"}
  /\ stage \in [Calls -> Stages]
  /\ call \in [Calls -> CallType \cup {NULL}]
  /\ entry \in [Calls -> EntryType \cup {NULL}]
  /\ \A c \in Calls : IF stage[c] = "unused" THEN call[c] = NULL /\ entry[c] = NULL
                      ELSE call[c] \in CallType /\ entry[c] \in EntryType
  /\ phase \in Phases
  /\ window \subseteq {c \in Calls : stage[c] # "unused"}
  /\ counted \subseteq window
  /\ phase \in {"closed", "stats"} => stats = NULL
  /\ phase \in {"endpoints", "shown"} => stats \in RowType
  /\ phase = "shown" => \A x \in DOMAIN endpoints : endpoints[x] \in RowType

\* An entry says of its call what the call was for, how it was answered and
\* how long it took.
EntriesAreTrue ==
  \A c \in Calls : stage[c] # "unused" =>
    entry[c] = [endpoint |-> extractEndpoint(call[c].path),
                success  |-> Succeeded(call[c].answer),
                duration |-> Took[c]]

\* The totals are those of the entries they were taken over, also after some
\* of them are gone and others have come.
TotalsAreCounted ==
  /\ phase = "closed" => window = {}
  /\ phase \in {"closed", "stats"} => counted = {}
  /\ phase \in {"endpoints", "shown"} =>
       /\ Scans(engine, Avg(engine, counted))
       /\ stats = Row(engine, counted)

\* A page is refused only when the database fails, or by Postgres because
\* there was nothing in its window.
RefusalsHaveCauses ==
  phase = "failed" => excuse = "database" \/ (engine = "postgres" /\ counted = {})

\* The inductive invariant: entries do not change once they have been made,
\* which keeps the totals true of what they were taken over.
IInv ==
  /\ TypeOK
  /\ EntriesAreTrue
  /\ TotalsAreCounted
  /\ RefusalsHaveCauses

\* Whatever wrote an entry, the page counts a call as successful exactly when
\* Graph answered it with a 2xx, and every other one as failed: none is counted
\* twice and none is left out of both.
OutcomesAreCounted ==
  phase \in {"endpoints", "shown"} =>
    /\ stats.successful = Cardinality({c \in counted : Succeeded(call[c].answer)})
    /\ stats.failed = Cardinality({c \in counted : ~Succeeded(call[c].answer)})
    /\ stats.total = stats.successful + stats.failed

\* Twice the distance of m and n is at most d.
WithinHalf(m, n, d) == 2 * (m - n) <= d /\ 2 * (n - m) <= d

Total(rows, f(_)) == SumFunction([x \in DOMAIN rows |-> f(rows[x])])

\* The time a row stands for by its average, in ten-thousandths of a millisecond.
Spent(row) == (Scale * row.avg.num * row.total) \div row.avg.den

\* The rows per endpoint, read by a query of their own, add up to the totals,
\* but for the entries that came into the window or left it in between: in
\* number, in successes and, with the averages weighted, in time spent, the last
\* up to what rounding adds, half of the fourth decimal for each call counted.
PageAddsUp ==
  [][GetAPILogStatsByEndpoint =>
       LET came == InWindow \ counted
           left == counted \ InWindow
       IN /\ Total(endpoints', LAMBDA row : row.total)
               = stats.total + Cardinality(came) - Cardinality(left)
          /\ Total(endpoints', LAMBDA row : row.successful)
               = stats.successful + Cardinality(Successful(came)) - Cardinality(Successful(left))
          /\ WithinHalf(Total(endpoints', Spent),
                        Spent(stats) + Scale * (Duration(came) - Duration(left)),
                        stats.total + Total(endpoints', LAMBDA row : row.total))]_vars

\* Two paths that name the same operation, on whomever it is carried out.
SameOperation(p, q) ==
  Len(p) = Len(q) /\ \A i \in 1..Len(p) : p[i] = q[i] \/ {p[i], q[i]} \subseteq Ids

\* The page has one row for an operation, whomever it was carried out on, and
\* no row is named after a user or a group: the transport's entries do not
\* split what the page counts, nor tell readers whose data was read.
OperationsShareARow ==
  \A c, d \in Calls :
    stage[c] # "unused" /\ stage[d] # "unused" /\ SameOperation(call[c].path, call[d].path) =>
      /\ entry[c].endpoint = entry[d].endpoint
      /\ \A i \in 1..Len(entry[c].endpoint) : entry[c].endpoint[i] \notin Ids

\* The same counts, and averages no more than half of MySQL's fourth decimal apart.
Alike(r, s) ==
  /\ r.total = s.total /\ r.successful = s.successful /\ r.failed = s.failed
  /\ WithinHalf(Scale * r.avg.num * s.avg.den, Scale * s.avg.num * r.avg.den, r.avg.den * s.avg.den)

\* Of the same entries both engines count the same, in total and for the same
\* endpoints, and average the same up to the rounding of MySQL's decimal, though
\* their drivers deliver the averages in other types and one store converts them.
EnginesAgree ==
  \A S \in (SUBSET InWindow) \ {{}} :
    LET mysql    == Rows("mysql", S)
        postgres == Rows("postgres", S)
    IN /\ Alike(Row("mysql", S), Row("postgres", S))
       /\ DOMAIN mysql = DOMAIN postgres
       /\ \A x \in DOMAIN mysql : Alike(mysql[x], postgres[x])
=============================================================================
