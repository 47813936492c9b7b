---------------------------- MODULE ApiLogsProofs ----------------------------
(***************************************************************************)
(* The log page and the cleanup for every number of calls, page size,      *)
(* retention and time, from the inductive invariant ApiLogs!IInv; and that *)
(* old entries go when cleanups go on.                                     *)
(***************************************************************************)
EXTENDS ApiLogs, FiniteSetTheorems, TLAPS

USE CallsAreFinite, LimitIsPositive, RetentionIsPositive, RangesAreKept, TimeIsBounded

-------------------------------------------------------------------------------
(* Counting entries.                                                        *)

\* A set of entries has a size, and a subset is no larger.
LEMMA Sizes ==
  ASSUME NEW S \in SUBSET Calls, NEW T \in SUBSET S
  PROVE  /\ IsFiniteSet(S) /\ IsFiniteSet(T)
         /\ Cardinality(S) \in Nat /\ Cardinality(T) \in Nat
         /\ Cardinality(T) <= Cardinality(S)
         /\ Cardinality(T) = Cardinality(S) => T = S
<1>1. IsFiniteSet(S)
  BY FS_Subset
<1>2. IsFiniteSet(T) /\ Cardinality(T) <= Cardinality(S) /\ (Cardinality(S) = Cardinality(T) => S = T)
  BY <1>1, FS_Subset
<1> QED
  BY <1>1, <1>2, FS_CardinalityType

\* Sets without a common entry add up.
LEMMA DisjointSizes ==
  ASSUME NEW S \in SUBSET Calls, NEW T \in SUBSET Calls, S \cap T = {}
  PROVE  Cardinality(S \cup T) = Cardinality(S) + Cardinality(T)
<1>1. IsFiniteSet(S) /\ IsFiniteSet(T) /\ Cardinality(S) \in Nat /\ Cardinality(T) \in Nat
  BY Sizes
<1>2. Cardinality(S \cap T) = 0
  BY FS_EmptySet, Zenon
<1>3. Cardinality(S \cup T) = Cardinality(S) + Cardinality(T) - Cardinality(S \cap T)
  BY <1>1, FS_Union
<1> QED
  BY <1>1, <1>2, <1>3

\* Leaving one entry out leaves one fewer.
LEMMA OneFewer ==
  ASSUME NEW S \in SUBSET Calls, NEW c \in S
  PROVE  Cardinality(S \ {c}) = Cardinality(S) - 1
<1>1. Cardinality({c}) = 1
  BY FS_Singleton
<1>2. IsFiniteSet(S) /\ Cardinality(S) \in Nat
  BY Sizes
<1>3. Cardinality(S \ {c}) = Cardinality(S) - Cardinality(S \cap {c})
  BY <1>2, FS_Difference
<1>4. S \cap {c} = {c}
  OBVIOUS
<1> QED
  BY <1>1, <1>3, <1>4

\* An entry of S whose second is its own and that a page leaves out, though k
\* newer ones are there to skip, has k newer ones and a whole page before it.
LEMMA LeftOutOfPage ==
  ASSUME NEW S \in SUBSET Calls, NEW P \in SUBSET S, NEW k \in Nat, IsPage(P, S, k),
         \A d \in S : at[d] \in Int,
         NEW c \in S \ P, \A d \in S \ {c} : at[d] # at[c],
         NEW newer, newer = {d \in S : at[d] > at[c]}, Cardinality(newer) >= k
  PROVE  Cardinality(P) = Limit /\ Cardinality(newer) >= k + Limit
<1>1. PICK skipped \in SUBSET (S \ P) :
        /\ Cardinality(skipped) = IF k < Cardinality(S) THEN k ELSE Cardinality(S)
        /\ Cardinality(P) = IF Limit < Cardinality(S) - Cardinality(skipped)
                            THEN Limit ELSE Cardinality(S) - Cardinality(skipped)
        /\ \A b \in skipped, d \in S \ skipped : at[b] >= at[d]
        /\ \A b \in P, d \in S \ (P \cup skipped) : at[b] >= at[d]
  BY DEF IsPage
<1>2. /\ Cardinality(S) \in Nat /\ Cardinality(skipped) \in Nat /\ Cardinality(P) \in Nat
      /\ Cardinality(newer) \in Nat
  BY Sizes
<1>3. c \notin skipped
  <2> SUFFICES ASSUME c \in skipped PROVE FALSE
    OBVIOUS
  <2>1. newer \subseteq skipped \ {c}
    BY <1>1
  <2>2. Cardinality(newer) <= Cardinality(skipped \ {c})
    BY <2>1, Sizes, skipped \ {c} \in SUBSET Calls
  <2>3. Cardinality(skipped \ {c}) = Cardinality(skipped) - 1
    BY OneFewer
  <2> QED
    BY <1>1, <1>2, <2>2, <2>3
<1>4. Cardinality(skipped) = k
  <2>1. Cardinality(skipped) # Cardinality(S)
    BY <1>3, Sizes
  <2> QED
    BY <1>1, <2>1
<1>5. Cardinality(P \cup skipped) = Cardinality(P) + Cardinality(skipped)
  BY DisjointSizes
<1>6. Cardinality(P) = Limit
  <2>1. Cardinality(P \cup skipped) # Cardinality(S)
    BY <1>3, Sizes, P \cup skipped \in SUBSET S
  <2> QED
    BY <1>1, <1>2, <1>5, <2>1
<1>7. P \cup skipped \subseteq newer
  <2>1. ASSUME NEW d \in P \cup skipped PROVE at[d] > at[c]
    <3>1. at[d] >= at[c] /\ d # c /\ d \in S
      BY <1>1, <1>3
    <3> QED
      BY <3>1
  <2> QED
    BY <2>1
<1>8. Cardinality(P \cup skipped) <= Cardinality(newer)
  BY <1>7, Sizes, newer \in SUBSET Calls
<1> QED
  BY <1>2, <1>4, <1>5, <1>6, <1>8

-------------------------------------------------------------------------------
(* The types, and how entries move.                                         *)

\* The initial state satisfies the invariant.
LEMMA InitIInv == Init => IInv
<1> SUFFICES ASSUME Init PROVE IInv
  OBVIOUS
<1>1. TypeOK
  BY DEF Init, TypeOK, Stages, Phases
<1>2. Dated /\ WalkAdvances /\ ViewIsWhole
  BY DEF Init, Dated, WalkAdvances, ViewIsWhole
<1> QED
  BY <1>1, <1>2 DEF IInv

\* The parts of a query.
LEMMA QueryParts ==
  ASSUME NEW q \in Queries
  PROVE  /\ q.page \in Nat \ {0} /\ q.end \in 0..MaxTime /\ q.filter \in Filters
         /\ q.range \in Ranges /\ q.range \in 1..Retention
<1>1. /\ q.page \in Nat \ {0} /\ q.end \in 0..MaxTime /\ q.filter \in Filters
      /\ q.range \in Ranges
  BY DEF Queries
<1> QED
  BY <1>1

\* A request's parameters are a query.
LEMMA RequestTypes ==
  ASSUME TypeOK, NEW page \in Nat \ {0}, NEW range \in Ranges, NEW filter \in Filters,
         Request(page, range, filter)
  PROVE  /\ phase' \in Phases /\ phase' # "closed" /\ query' \in Queries
         /\ rows' \subseteq Calls /\ totals' \in Nat \cup {NULL} /\ endpoints' \in Nat \cup {NULL}
BY DEF TypeOK, Request, Queries, Phases

\* What a query lists and counts are stored entries.
LEMMA ListedAreStored ==
  ASSUME NEW q
  PROVE  /\ Listed(q) \subseteq Stored /\ InRange(q) \subseteq Stored /\ Stored \subseteq Calls
         /\ Cardinality(InRange(q)) \in Nat
<1>1. Listed(q) \subseteq Stored /\ InRange(q) \subseteq Stored /\ Stored \subseteq Calls
  BY DEF Listed, InRange, Stored
<1> QED
  BY <1>1, Sizes

\* The types are kept.
LEMMA StepTypes == TypeOK /\ [Next]_vars => TypeOK'
<1> SUFFICES ASSUME TypeOK, [Next]_vars PROVE TypeOK'
  OBVIOUS
<1> USE DEF TypeOK, Stages, Phases, entries, view
<1>1. CASE Tick
  BY <1>1 DEF Tick
<1>2. ASSUME NEW c \in Calls, NEW u \in Users \cup {NULL}, CallGraph(c, u) PROVE TypeOK'
  <2>1. PICK t \in {now, now + 1} : at' = [at EXCEPT ![c] = t]
    BY <1>2 DEF CallGraph
  <2>2. t \in 0..(MaxTime + 1)
    OBVIOUS
  <2>3. at' \in [Calls -> 0..(MaxTime + 1) \cup {NULL}]
    BY <2>1, <2>2
  <2> QED
    BY <1>2, <2>3 DEF CallGraph
<1>3. ASSUME NEW c \in Calls, LogAPICall(c) PROVE TypeOK'
  BY <1>3 DEF LogAPICall
<1>4. ASSUME NEW C, Gone(C), UNCHANGED <<now, view, missing>>, cutoff' = cutoff \/ cutoff' = NULL
      PROVE TypeOK'
  <2>1. /\ stage' \in [Calls -> Stages] /\ at' \in [Calls -> 0..(MaxTime + 1) \cup {NULL}]
        /\ who' \in [Calls -> Users \cup {NULL}]
    BY <1>4 DEF Gone
  <2> QED
    BY <1>4, <2>1
<1>5. CASE CleanupStarts
  BY <1>5 DEF CleanupStarts
<1>6. CASE CleanupFails
  BY <1>6 DEF CleanupFails
<1>7. ASSUME NEW range \in Ranges, NEW filter \in Filters, OpenLogs(range, filter) PROVE TypeOK'
  <2>1. Request(1, range, filter)
    BY <1>7 DEF OpenLogs
  <2> QED
    BY <1>7, <2>1, RequestTypes DEF OpenLogs, Request
<1>8. CASE NextPage \/ PrevPage \/ refreshLogs
  <2>1. query \in Queries
    BY <1>8 DEF NextPage, PrevPage, refreshLogs
  <2>2. query.page \in Nat \ {0} /\ query.range \in Ranges /\ query.filter \in Filters
    BY <2>1 DEF Queries
  <2>3. PICK page \in Nat \ {0} : TurnTo(page)
    BY <1>8, <2>2 DEF NextPage, PrevPage, refreshLogs
  <2>4. Request(page, query.range, query.filter) /\ UNCHANGED missing
    BY <2>3 DEF TurnTo
  <2> QED
    BY <2>2, <2>4, RequestTypes DEF Request
<1>9. CASE ListLogs
  BY <1>9, ListedAreStored DEF ListLogs
<1>10. CASE GetAPILogStats \/ GetAPILogStatsByEndpoint
  BY <1>10, ListedAreStored DEF GetAPILogStats, GetAPILogStatsByEndpoint
<1>11. CASE CloseLogs
  BY <1>11 DEF CloseLogs
<1>12. CASE UNCHANGED vars
  BY <1>12 DEF vars
<1>13. ASSUME NEW c \in Calls, LogLost(c) PROVE TypeOK'
  BY <1>13, <1>4 DEF LogLost
<1>14. CASE DeleteOldAPILogs
  BY <1>14, <1>4 DEF DeleteOldAPILogs
<1> QED
  BY <1>1, <1>2, <1>3, <1>5, <1>6, <1>7, <1>8, <1>9, <1>10, <1>11, <1>12, <1>13, <1>14
     DEF Next, Writing, Cleaning, Reading

\* How one step treats entries: a stored one was logging or stored before and
\* keeps its columns; one that leaves the table is older than the cutoff, which
\* none of those that stay is; what is gone does not come back.
Moves ==
  /\ \A c \in Stored' : /\ stage[c] \in {"logging", "stored"}
                        /\ at'[c] = at[c] /\ who'[c] = who[c]
  /\ \A c \in Stored \ Stored' :
       /\ stage'[c] = "gone" /\ cutoff # NULL /\ at[c] < cutoff
       /\ \A d \in Stored \cap Stored' : ~(at[d] < cutoff)
  /\ \A c \in Calls : stage[c] = "gone" => stage'[c] = "gone"

LEMMA StepMoves == TypeOK /\ [Next]_vars => Moves
<1> SUFFICES ASSUME TypeOK, [Next]_vars PROVE Moves
  OBVIOUS
<1> USE DEF TypeOK, Moves, Stored, Stages
<1>1. ASSUME UNCHANGED entries PROVE Moves
  BY <1>1 DEF entries
<1>2. ASSUME NEW c \in Calls, NEW u, CallGraph(c, u) PROVE Moves
  <2>1. /\ stage[c] = "unused" /\ stage' = [stage EXCEPT ![c] = "logging"]
        /\ \A d \in Calls \ {c} : at'[d] = at[d] /\ who'[d] = who[d]
    BY <1>2 DEF CallGraph
  <2> QED
    BY <2>1
<1>3. ASSUME NEW c \in Calls, LogAPICall(c) PROVE Moves
  BY <1>3 DEF LogAPICall
<1>4. ASSUME NEW c \in Calls, LogLost(c) PROVE Moves
  BY <1>4 DEF LogLost, Gone
<1>5. CASE DeleteOldAPILogs
  BY <1>5 DEF DeleteOldAPILogs, Gone
<1> QED
  BY <1>1, <1>2, <1>3, <1>4, <1>5
     DEF Next, Writing, Cleaning, Reading, Tick, CleanupStarts, CleanupFails, OpenLogs, Request,
         NextPage, PrevPage, refreshLogs, TurnTo, ListLogs, GetAPILogStats,
         GetAPILogStatsByEndpoint, CloseLogs, vars

\* Dates, cutoff and the end of a view stay in order.
LEMMA StepDated == TypeOK /\ Dated /\ [Next]_vars => Dated'
<1> SUFFICES ASSUME TypeOK, Dated, [Next]_vars PROVE Dated'
  OBVIOUS
<1> USE DEF TypeOK, Dated, entries, view
<1>1. CASE Tick
  <2>1. phase # "closed" => query.end \in Int
    BY DEF Queries
  <2> QED
    BY <1>1, <2>1 DEF Tick
<1>2. ASSUME NEW c \in Calls, NEW u, CallGraph(c, u) PROVE Dated'
  <2>1. PICK t \in {now, now + 1} : at' = [at EXCEPT ![c] = t]
    BY <1>2 DEF CallGraph
  <2>2. t \in 0..(MaxTime + 1)
    OBVIOUS
  <2> QED
    BY <1>2, <2>1, <2>2 DEF CallGraph
<1>3. ASSUME NEW c \in Calls, LogAPICall(c) PROVE Dated'
  BY <1>3 DEF LogAPICall
<1>4. ASSUME NEW c \in Calls, LogLost(c) PROVE Dated'
  BY <1>4 DEF LogLost, Gone
<1>5. CASE CleanupStarts
  BY <1>5 DEF CleanupStarts
<1>6. CASE CleanupFails
  BY <1>6 DEF CleanupFails
<1>7. CASE DeleteOldAPILogs
  BY <1>7 DEF DeleteOldAPILogs, Gone
<1>8. ASSUME NEW page, NEW range, NEW filter, Request(page, range, filter) PROVE Dated'
  BY <1>8 DEF Request
<1>9. CASE ListLogs \/ GetAPILogStats \/ GetAPILogStatsByEndpoint
  BY <1>9 DEF ListLogs, GetAPILogStats, GetAPILogStatsByEndpoint
<1>10. CASE CloseLogs
  BY <1>10 DEF CloseLogs
<1>11. CASE UNCHANGED vars
  BY <1>11 DEF vars
<1> QED
  BY <1>1, <1>2, <1>3, <1>4, <1>5, <1>6, <1>7, <1>8, <1>9, <1>10, <1>11
     DEF Next, Writing, Cleaning, Reading, OpenLogs, NextPage, PrevPage, refreshLogs, TurnTo

\* What one step does to the log page.
LEMMA StepOfReader ==
  ASSUME [Next]_vars
  PROVE  \/ phase' = "closed"
         \/ phase' = "list" /\ missing' = {}
         \/ NextPage \/ PrevPage \/ refreshLogs \/ ListLogs \/ GetAPILogStats \/ GetAPILogStatsByEndpoint
         \/ UNCHANGED <<view, missing>>
BY DEF Next, Writing, Cleaning, Reading, Tick, CallGraph, LogAPICall, LogLost, CleanupStarts,
       CleanupFails, DeleteOldAPILogs, OpenLogs, Request, CloseLogs, vars

-------------------------------------------------------------------------------
(* The walk through the pages.                                              *)

\* No step that leaves the walk's history alone makes an entry unseen, and
\* none takes a newer one from before it: not a deletion, because it takes the
\* oldest, and not a window that slides.
LEMMA UnseenStays ==
  ASSUME TypeOK, Dated, Moves, WalkAdvances, phase # "closed", query' \in Queries,
         query'.filter = query.filter, query'.range = query.range, query.end <= query'.end,
         missing' = missing, NEW c \in Unseen'
  PROVE  c \in Unseen /\ Newer(c) \subseteq Newer(c)'
<1>1. /\ c \in missing /\ c \in Listed(query)' /\ Untied(c)'
      /\ c \in Calls /\ query \in Queries
  BY DEF Unseen, TypeOK
<1>2. c \in Stored /\ c \in Stored' /\ at'[c] = at[c] /\ who'[c] = who[c]
  <2>1. c \in Stored'
    BY <1>1 DEF Listed, InRange
  <2>2. stage[c] \in {"stored", "gone"} /\ stage[c] \in {"logging", "stored"}
    BY <1>1, <2>1 DEF Moves, WalkAdvances
  <2> QED
    BY <2>1, <2>2, <1>1 DEF Moves, Stored
<1>3. ASSUME NEW d \in Stored PROVE d \in Calls /\ at[d] \in Int
  BY DEF Stored, Dated
<1>4. ASSUME NEW d \in Stored, at[d] >= at[c]
      PROVE  d \in Stored' /\ at'[d] = at[d] /\ who'[d] = who[d]
  <2>1. d \in Stored'
    <3> SUFFICES ASSUME d \notin Stored' PROVE FALSE
      OBVIOUS
    <3>1. cutoff # NULL /\ at[d] < cutoff /\ ~(at[c] < cutoff)
      BY <1>2 DEF Moves
    <3>2. cutoff \in Int
      BY <3>1 DEF TypeOK
    <3> QED
      BY <1>2, <1>3, <1>4, <3>1, <3>2
  <2> QED
    BY <2>1 DEF Moves
<1>5. Untied(c)
  BY <1>1, <1>2, <1>3, <1>4 DEF Untied
<1>6. /\ query.end \in Int /\ query'.end \in Int /\ query.range \in Int
      /\ query.filter \in [job : JobTypes \cup {NULL}, user : Users \cup {NULL}]
  <2>1. query.end \in 0..MaxTime /\ query'.end \in 0..MaxTime /\ query.range \in 1..Retention
    BY <1>1, QueryParts
  <2>2. query.filter \in [job : JobTypes \cup {NULL}, user : Users \cup {NULL}]
    BY <1>1, QueryParts, FiltersAreParameters
  <2> QED
    BY <2>1, <2>2
<1>7. query.filter.job = NULL /\ query.filter.user = NULL => query.filter = NoFilter
  <2>1. query.filter = [job |-> query.filter.job, user |-> query.filter.user]
    BY <1>6
  <2> QED
    BY <2>1 DEF NoFilter
<1>8. c \in Listed(query)
  <2>1. CASE query.filter.job # NULL
    BY <1>1, <1>2, <2>1 DEF Listed, JobType
  <2>2. CASE query.filter.job = NULL /\ query.filter.user # NULL
    BY <1>1, <1>2, <2>2 DEF Listed
  <2>3. CASE query.filter.job = NULL /\ query.filter.user = NULL
    <3>1. at[c] <= query.end
      BY <1>1, <1>2, <1>7, <2>3 DEF WalkAdvances, Stored
    <3>2. at[c] >= query'.end - query.range
      BY <1>1, <1>2, <2>3 DEF Listed, InRange
    <3>3. at[c] >= query.end - query.range
      BY <1>2, <1>3, <1>6, <3>2
    <3> QED
      BY <1>2, <2>3, <3>1, <3>3 DEF Listed, InRange
  <2> QED
    BY <2>1, <2>2, <2>3
<1>9. ASSUME NEW d \in Newer(c) PROVE d \in Newer(c)'
  <2>1. d \in Listed(query) /\ d \in Stored /\ at[d] > at[c]
    BY ListedAreStored DEF Newer
  <2>2. d \in Stored' /\ at'[d] = at[d] /\ who'[d] = who[d]
    BY <1>2, <1>3, <1>4, <2>1
  <2>3. d \in Listed(query)'
    <3>1. CASE query.filter.job # NULL
      BY <2>1, <2>2, <3>1 DEF Listed, JobType
    <3>2. CASE query.filter.job = NULL /\ query.filter.user # NULL
      BY <2>1, <2>2, <3>2 DEF Listed
    <3>3. CASE query.filter.job = NULL /\ query.filter.user = NULL
      <4>1. at[d] <= query.end
        BY <2>1, <3>3 DEF Listed, InRange
      <4>2. at[c] >= query'.end - query.range
        BY <1>1, <1>2, <3>3 DEF Listed, InRange
      <4>3. at[d] >= query'.end - query'.range /\ at[d] <= query'.end
        BY <1>2, <1>3, <1>6, <2>1, <4>1, <4>2
      <4> QED
        BY <2>2, <3>3, <4>3 DEF Listed, InRange
    <3> QED
      BY <3>1, <3>2, <3>3
  <2> QED
    BY <1>2, <2>1, <2>2, <2>3 DEF Newer
<1> QED
  BY <1>1, <1>5, <1>8, <1>9 DEF Unseen

\* What the walk's first query matched stays stored or goes, and keeps its date.
LEMMA MissingStays ==
  ASSUME TypeOK, Dated, Moves, WalkAdvances, phase # "closed", query' \in Queries,
         query'.filter = query.filter, query.end <= query'.end, NEW c \in missing
  PROVE  /\ stage'[c] \in {"stored", "gone"}
         /\ stage'[c] = "stored" /\ query'.filter = NoFilter => at'[c] <= query'.end
<1>1. c \in Calls /\ query \in Queries
  BY DEF TypeOK
<1>2. stage[c] \in {"stored", "gone"} /\ (stage[c] = "stored" /\ query.filter = NoFilter => at[c] <= query.end)
  BY DEF WalkAdvances
<1>3. stage'[c] \in {"stored", "gone"} /\ (stage'[c] = "stored" => stage[c] = "stored" /\ at'[c] = at[c])
  BY <1>1, <1>2 DEF Moves, Stored
<1>4. stage[c] = "stored" => at[c] \in Int
  BY <1>1 DEF Dated
<1>5. query.end \in Int /\ query'.end \in Int
  BY <1>1 DEF Queries
<1> QED
  BY <1>2, <1>3, <1>4, <1>5

\* Fewer pages hold fewer entries.
LEMMA FewerPages ==
  ASSUME NEW m \in Nat, NEW n \in Nat, NEW k \in Nat, m <= n
  PROVE  m * k <= n * k
<1> DEFINE d == n - m
<1>1. d \in Nat /\ n = m + d
  OBVIOUS
<1>2. d * k \in Nat /\ m * k \in Nat
  BY <1>1
<1>3. (m + d) * k = m * k + d * k
  BY <1>1
<1> HIDE DEF d
<1> QED
  BY <1>1, <1>2, <1>3

\* A walk goes on: its pages hold no more than what is newer than the unseen.
LEMMA StepWalk ==
  ASSUME TypeOK, TypeOK', Dated, Moves, WalkAdvances, [Next]_vars
  PROVE  WalkAdvances'
<1>1. ASSUME phase # "closed", phase' # "closed", missing' = missing,
             query'.filter = query.filter, query'.range = query.range, query.end <= query'.end,
             \A c \in Unseen' : Cardinality(Newer(c)) >= PagesListed' * Limit,
             phase' # "list" /\ Cardinality(rows') < Limit => Unseen' = {}
      PROVE  WalkAdvances'
  <2>1. query' \in Queries
    BY <1>1 DEF TypeOK
  <2>2. \A c \in missing' : /\ stage'[c] \in {"stored", "gone"}
                            /\ stage'[c] = "stored" /\ query'.filter = NoFilter => at'[c] <= query'.end
    BY <1>1, <2>1, MissingStays
  <2>3. ASSUME NEW c \in Unseen' PROVE Cardinality(Newer(c)') >= PagesListed' * Limit
    <3>1. Newer(c) \subseteq Newer(c)'
      BY <1>1, <2>1, UnseenStays
    <3>2. Newer(c)' \subseteq Calls
      BY DEF Newer, Listed, InRange, Stored
    <3>3. Cardinality(Newer(c)) <= Cardinality(Newer(c)') /\ Cardinality(Newer(c)) \in Nat
          /\ Cardinality(Newer(c)') \in Nat
      BY <3>1, <3>2, Sizes
    <3>4. PagesListed' * Limit \in Int
      BY <2>1, <1>1 DEF Queries, PagesListed
    <3> QED
      BY <1>1, <3>3, <3>4
  <2> QED
    BY <1>1, <2>2, <2>3 DEF WalkAdvances
<1>2. CASE phase' = "closed"
  BY <1>2 DEF WalkAdvances
<1>3. CASE phase' = "list" /\ missing' = {}
  BY <1>3 DEF WalkAdvances, Unseen
<1>4. ASSUME phase # "closed", phase' # "closed", UNCHANGED <<query, missing, rows>>,
             phase = "list" <=> phase' = "list"
      PROVE  WalkAdvances'
  <2>1. query \in Queries /\ query.end <= query.end
    BY <1>4 DEF TypeOK, Queries
  <2>2. ASSUME NEW c \in Unseen' PROVE c \in Unseen
    BY <1>4, <2>1, <2>2, UnseenStays
  <2>3. PagesListed' = PagesListed
    BY <1>4 DEF PagesListed
  <2>4. \A c \in Unseen' : Cardinality(Newer(c)) >= PagesListed' * Limit
    BY <1>4, <2>2, <2>3 DEF WalkAdvances
  <2>5. phase' # "list" /\ Cardinality(rows') < Limit => Unseen' = {}
    BY <1>4, <2>2 DEF WalkAdvances
  <2> QED
    BY <1>1, <1>4, <2>1, <2>4, <2>5
<1>5. CASE UNCHANGED <<view, missing>>
  BY <1>2, <1>4, <1>5 DEF view
<1>6. CASE GetAPILogStats \/ GetAPILogStatsByEndpoint
  BY <1>4, <1>6 DEF GetAPILogStats, GetAPILogStatsByEndpoint
<1>7. CASE NextPage \/ PrevPage \/ refreshLogs
  <2>1. /\ phase = "shown" /\ phase' = "list" /\ missing' = missing
        /\ query'.range = query.range /\ query'.filter = query.filter /\ query'.end = now
        /\ query'.page \in {query.page - 1, query.page, query.page + 1}
    BY <1>7 DEF NextPage, PrevPage, refreshLogs, TurnTo, Request
  <2>2. query \in Queries /\ query' \in Queries /\ query.end <= now
    BY <2>1 DEF TypeOK, Dated
  <2>3. query.page \in Nat /\ query'.page \in Nat \ {0}
    BY <2>2 DEF Queries
  <2>4. PagesListed \in Nat /\ PagesListed' \in Nat /\ PagesListed' <= PagesListed
    BY <2>1, <2>3 DEF PagesListed
  <2>5. PagesListed' * Limit <= PagesListed * Limit
    BY <2>4, LimitIsPositive, FewerPages
  <2>6. ASSUME NEW c \in Unseen' PROVE Cardinality(Newer(c)) >= PagesListed' * Limit
    <3>1. c \in Unseen
      BY <2>1, <2>2, UnseenStays
    <3>2. Cardinality(Newer(c)) >= PagesListed * Limit
      BY <2>1, <3>1 DEF WalkAdvances
    <3>3. Cardinality(Newer(c)) \in Nat
      <4>1. Newer(c) \subseteq Calls
        BY DEF Newer, Listed, InRange, Stored
      <4> QED
        BY <4>1, Sizes
    <3>4. PagesListed * Limit \in Int /\ PagesListed' * Limit \in Int
      BY <2>4, LimitIsPositive
    <3> QED
      BY <2>5, <3>2, <3>3, <3>4
  <2> QED
    BY <1>1, <2>1, <2>2, <2>6
<1>8. CASE ListLogs
  <2> DEFINE S == Listed(query)
             k == (query.page - 1) * Limit
  <2>1. PICK P \in SUBSET S : IsPage(P, S, k) /\ rows' = P
                             /\ missing' = (IF query.page = 1 THEN S ELSE missing) \ P
    BY <1>8 DEF ListLogs
  <2>2. /\ phase = "list" /\ phase' = "stats" /\ query' = query /\ UNCHANGED entries
    BY <1>8 DEF ListLogs
  <2>3. query \in Queries /\ query.page \in Nat \ {0} /\ query.end \in Int
    BY <2>2 DEF TypeOK, Queries
  <2>4. k \in Nat /\ query.page * Limit = k + Limit
    BY <2>3
  <2>5. S \subseteq Stored /\ S \subseteq Calls
    BY ListedAreStored
  <2>6. /\ PagesListed = query.page - 1 /\ PagesListed' = query.page
        /\ Listed(query)' = S /\ \A c : Newer(c)' = Newer(c)
    BY <2>2 DEF PagesListed, Listed, InRange, Stored, JobType, entries, Newer
  <2>7. \A c \in missing' : /\ stage'[c] \in {"stored", "gone"}
                            /\ stage'[c] = "stored" /\ query'.filter = NoFilter => at'[c] <= query'.end
    <3>1. missing' \subseteq (IF query.page = 1 THEN S ELSE missing)
      BY <2>1
    <3>2. CASE query.page = 1
      BY <2>2, <2>5, <3>1, <3>2 DEF entries, Stored, Listed, InRange, NoFilter
    <3>3. CASE query.page # 1
      BY <2>2, <3>1, <3>3 DEF entries, WalkAdvances
    <3> QED
      BY <3>2, <3>3
  <2>8. ASSUME NEW c \in Unseen'
        PROVE  Cardinality(P) = Limit /\ Cardinality(Newer(c)) >= k + Limit
    <3>1. c \in S \ P /\ (query.page # 1 => c \in missing)
      BY <2>1, <2>6 DEF Unseen
    <3>2. Untied(c)
      BY <2>2 DEF Unseen, Untied, Stored, entries
    <3>3. Newer(c) = {d \in S : at[d] > at[c]}
      BY DEF Newer
    <3>4. Cardinality(Newer(c)) >= k
      <4>1. CASE query.page = 1
        <5>1. Newer(c) \subseteq Calls
          BY <2>5 DEF Newer
        <5>2. Cardinality(Newer(c)) \in Nat
          BY <5>1, Sizes
        <5>3. k = 0
          BY <4>1
        <5> QED
          BY <5>2, <5>3
      <4>2. CASE query.page # 1
        <5>1. c \in Unseen
          BY <2>2, <3>1, <3>2, <4>2 DEF Unseen
        <5> QED
          BY <2>2, <2>6, <5>1 DEF WalkAdvances
      <4> QED
        BY <4>1, <4>2
    <3>5. \A d \in S : at[d] \in Int
      BY <2>5 DEF Dated, Stored
    <3>6. \A d \in S \ {c} : at[d] # at[c]
      BY <2>5, <3>2 DEF Untied
    <3> HIDE DEF S, k
    <3> QED
      BY <2>1, <2>4, <2>5, <3>1, <3>3, <3>4, <3>5, <3>6, LeftOutOfPage
  <2>9. \A c \in Unseen' : Cardinality(Newer(c)') >= PagesListed' * Limit
    BY <2>4, <2>6, <2>8
  <2>10. Cardinality(rows') < Limit => Unseen' = {}
    BY <2>1, <2>8
  <2> QED
    BY <2>2, <2>7, <2>9, <2>10 DEF WalkAdvances
<1> QED
  BY <1>2, <1>3, <1>5, <1>6, <1>7, <1>8, StepOfReader

-------------------------------------------------------------------------------
(* One view, and the invariant.                                             *)

\* The clock does not go back.
LEMMA TimePasses == TypeOK /\ [Next]_vars => now \in Nat /\ now' \in Nat /\ now <= now'
<1> SUFFICES ASSUME TypeOK, [Next]_vars PROVE now \in Nat /\ now' \in Nat /\ now <= now'
  OBVIOUS
<1>1. now' = now \/ now' = now + 1
  BY DEF Next, Writing, Cleaning, Reading, Tick, CallGraph, LogAPICall, LogLost, CleanupStarts,
         CleanupFails, DeleteOldAPILogs, OpenLogs, NextPage, PrevPage, refreshLogs,
         TurnTo, Request, ListLogs, GetAPILogStats, GetAPILogStatsByEndpoint, CloseLogs, vars
<1>2. now \in Nat
  BY DEF TypeOK
<1> QED
  BY <1>1, <1>2

\* A view's window loses no entry while the cleanup has not reached it.
LEMMA WindowStays ==
  ASSUME TypeOK, Dated, Moves, query \in Queries, query' = query,
         now - query.end <= Retention - query.range
  PROVE  /\ InRange(query) \subseteq InRange(query)'
         /\ Cardinality(InRange(query)) <= Cardinality(InRange(query)')
         /\ Cardinality(InRange(query)) \in Nat /\ Cardinality(InRange(query)') \in Nat
<1>1. query.end \in 0..MaxTime /\ query.range \in 1..Retention /\ now \in Nat
  BY QueryParts DEF TypeOK
<1>2. ASSUME NEW d \in InRange(query) PROVE d \in InRange(query)'
  <2>1. d \in Stored /\ at[d] \in Int /\ at[d] >= query.end - query.range /\ at[d] <= query.end
    BY DEF InRange, Stored, Dated
  <2>2. d \in Stored'
    <3> SUFFICES ASSUME d \notin Stored' PROVE FALSE
      OBVIOUS
    <3>1. cutoff # NULL /\ at[d] < cutoff
      BY <2>1 DEF Moves
    <3>2. cutoff \in Int /\ cutoff <= now - Retention
      BY <3>1 DEF TypeOK, Dated
    <3> QED
      BY <1>1, <2>1, <3>1, <3>2
  <2> QED
    BY <2>1, <2>2 DEF InRange, Moves
<1>3. InRange(query)' \subseteq Calls
  BY DEF InRange, Stored
<1> QED
  BY <1>2, <1>3, Sizes

\* What a view counted is still there at its next query.
LEMMA StepView ==
  ASSUME TypeOK, Dated, Moves, ViewIsWhole, [Next]_vars
  PROVE  ViewIsWhole'
<1>1. CASE phase' \in {"closed", "list", "shown"}
  BY <1>1 DEF ViewIsWhole
<1>2. CASE ListLogs
  <2>1. /\ phase' = "stats" /\ query' = query /\ UNCHANGED entries /\ rows' \subseteq Listed(query)
    BY <1>2 DEF ListLogs
  <2>2. InRange(query)' = InRange(query)
    BY <2>1 DEF entries, InRange, Stored
  <2>3. query.filter = NoFilter => Listed(query) = InRange(query)
    BY DEF Listed, NoFilter
  <2> QED
    BY <2>1, <2>2, <2>3 DEF ViewIsWhole
<1>3. CASE GetAPILogStats
  <2>1. /\ phase = "stats" /\ phase' = "endpoints" /\ query' = query /\ rows' = rows
        /\ UNCHANGED <<now, entries>> /\ totals' \in {Cardinality(InRange(query)), NULL}
    BY <1>3 DEF GetAPILogStats
  <2>2. InRange(query)' = InRange(query)
    BY <2>1 DEF entries, InRange, Stored
  <2>3. InRange(query) \subseteq Calls /\ Cardinality(InRange(query)) \in Nat
    BY ListedAreStored
  <2>4. rows \subseteq InRange(query) => Cardinality(rows) <= Cardinality(InRange(query))
    BY <2>3, Sizes
  <2> QED
    BY <2>1, <2>2, <2>3, <2>4 DEF ViewIsWhole
<1>4. CASE UNCHANGED <<view, missing>> /\ phase \in {"stats", "endpoints"}
  <2> SUFFICES ASSUME now' - query.end <= Retention - query.range PROVE ViewIsWhole'
    BY <1>4 DEF ViewIsWhole, view
  <2>1. query \in Queries /\ query' = query
    BY <1>4 DEF TypeOK, view
  <2>2. now - query.end <= Retention - query.range
    <3>1. query.end \in 0..MaxTime /\ query.range \in 1..Retention
      BY <2>1, QueryParts
    <3>2. now \in Nat /\ now' \in Nat /\ now <= now'
      BY TimePasses
    <3> QED
      BY <3>1, <3>2
  <2>3. totals # NULL => totals \in Nat
    BY DEF TypeOK
  <2> QED
    BY <1>4, <2>1, <2>2, <2>3, WindowStays DEF ViewIsWhole, view
<1> QED
  BY <1>1, <1>2, <1>3, <1>4, StepOfReader
     DEF NextPage, PrevPage, refreshLogs, TurnTo, Request, GetAPILogStatsByEndpoint, view,
         TypeOK, Phases

\* Every step keeps the invariant.
LEMMA StepIInv == IInv /\ [Next]_vars => IInv' /\ Moves
BY StepTypes, StepMoves, StepDated, StepWalk, StepView DEF IInv

\* The invariant holds in every reachable state.
THEOREM Inductive == Spec => []IInv
<1>1. IInv /\ [Next]_vars => IInv'
  BY StepIInv
<1> QED
  BY <1>1, InitIInv, PTL DEF Spec

\* The types are correct.
THEOREM TypeCorrect == Spec => []TypeOK
<1>1. IInv => TypeOK
  BY DEF IInv
<1> QED
  BY <1>1, Inductive, PTL

\* A reader who follows the links of the log page to its end misses no entry,
\* whatever is logged late, deleted or slides out of the window meanwhile.
THEOREM WalkIsComplete == Spec => []NothingSkipped
<1>1. IInv => NothingSkipped
  BY DEF IInv, WalkAdvances, NothingSkipped, Unseen
<1> QED
  BY <1>1, Inductive, PTL

\* The queries of one view agree while the cleanup has not reached its window.
THEOREM ViewsAddUp == Spec => ViewAddsUp
<1> DEFINE Agrees ==
      GetAPILogStatsByEndpoint /\ now - query.end <= Retention - query.range =>
        /\ totals # NULL /\ query.filter = NoFilter => Cardinality(rows) <= totals
        /\ totals # NULL /\ endpoints' # NULL => totals <= endpoints'
<1>1. IInv /\ [Next]_vars => Agrees
  BY DEF IInv, ViewIsWhole, GetAPILogStatsByEndpoint
<1>2. Spec => [][Agrees]_vars
  BY <1>1, Inductive, PTL DEF Spec
<1> QED
  BY <1>2 DEF ViewAddsUp

\* No entry goes before its retention is over, however long a cleanup runs.
THEOREM RetentionKept == Spec => RetentionIsKept
<1> DEFINE Kept ==
      \A c \in Calls : stage[c] = "stored" /\ stage'[c] # "stored" => now - at[c] > Retention
<1>1. IInv /\ [Next]_vars => Kept
  <2> SUFFICES ASSUME IInv, [Next]_vars, NEW c \in Calls, stage[c] = "stored", stage'[c] # "stored"
               PROVE  now - at[c] > Retention
    OBVIOUS
  <2>1. cutoff # NULL /\ at[c] < cutoff
    BY StepIInv DEF Moves, Stored
  <2>2. cutoff \in Int /\ cutoff <= now - Retention /\ at[c] \in Int /\ now \in Nat
    BY <2>1 DEF IInv, TypeOK, Dated
  <2> QED
    BY <2>1, <2>2
<1>2. Spec => [][Kept]_vars
  BY <1>1, Inductive, PTL DEF Spec
<1> QED
  BY <1>2 DEF RetentionIsKept

-------------------------------------------------------------------------------
(* Old entries go, if the cleanup goes on.                                  *)

\* The daily job starts cleanups, and a delete that is tried again and again
\* gets through: what Fairness says of the two, without the word "enabled".
CleanupsStart     == []<>(~(cutoff = NULL)) \/ []<><<CleanupStarts>>_vars
DeletesGetThrough == <>[](cutoff = NULL) \/ []<><<DeleteOldAPILogs>>_vars

IsGone(c)  == stage[c] = "gone"
Overdue(c) == stage[c] = "stored" /\ at[c] < now - Retention

\* The running cleanup will take c.
Reached(c) == cutoff # NULL /\ at[c] < cutoff

\* An entry that is overdue stays so until it is gone, and a cutoff taken
\* meanwhile reaches it.
LEMMA OverdueStays ==
  ASSUME IInv, [Next]_vars, NEW c \in Calls, Overdue(c)
  PROVE  /\ Overdue(c)' \/ IsGone(c)'
         /\ cutoff = NULL => cutoff' = NULL \/ Reached(c)'
         /\ Reached(c) => Reached(c)' \/ cutoff' = NULL \/ IsGone(c)'
<1>1. c \in Stored /\ now \in Nat /\ at[c] \in Int
  BY DEF Overdue, Stored, IInv, TypeOK, Dated
<1>2. CASE c \in Stored'
  <2>1. stage'[c] = "stored" /\ at'[c] = at[c]
    BY <1>2, StepIInv DEF Moves, Stored
  <2>2. now' \in Nat /\ now <= now'
    BY TimePasses DEF IInv
  <2>3. at'[c] < now' - Retention
    BY <1>1, <2>1, <2>2, RetentionIsPositive DEF Overdue
  <2>4. cutoff' \in {cutoff, NULL, now - Retention} /\ (cutoff # NULL => cutoff' \in {cutoff, NULL})
    BY DEF Next, Writing, Cleaning, Reading, Tick, CallGraph, LogAPICall, LogLost, CleanupStarts,
           CleanupFails, DeleteOldAPILogs, OpenLogs, NextPage, PrevPage, refreshLogs,
           TurnTo, Request, ListLogs, GetAPILogStats, GetAPILogStatsByEndpoint, CloseLogs, vars
  <2> QED
    BY <2>1, <2>3, <2>4 DEF Overdue, Reached
<1>3. CASE c \notin Stored'
  <2>1. stage'[c] = "gone"
    BY <1>1, <1>3, StepIInv DEF Moves
  <2>2. cutoff # NULL
    BY <1>1, <1>3, StepIInv DEF Moves
  <2> QED
    BY <2>1, <2>2 DEF IsGone
<1> QED
  BY <1>2, <1>3

LEMMA DeleteTakesReached ==
  ASSUME IInv, NEW c \in Calls, Overdue(c), DeleteOldAPILogs
  PROVE  /\ ~(cutoff = NULL) /\ cutoff' = NULL
         /\ Reached(c) => IsGone(c)'
BY DEF DeleteOldAPILogs, Gone, Overdue, Reached, IsGone, Stored

OverdueGoes(c) == Overdue(c) ~> IsGone(c)

\* Of a cleanup that started before c was overdue nothing is known but that it
\* ends; the one after it reaches c, and so does each after that until one of
\* the deletes gets through.
LEMMA CleanupsComeTo ==
  ASSUME NEW c \in Calls
  PROVE  Spec /\ CleanupsStart /\ DeletesGetThrough => OverdueGoes(c)
<1>1. IInv /\ [Next]_vars /\ Overdue(c) =>
        /\ Overdue(c)' \/ IsGone(c)'
        /\ cutoff = NULL => (cutoff = NULL)' \/ Reached(c)'
        /\ Reached(c) => Reached(c)' \/ (cutoff = NULL)' \/ IsGone(c)'
  BY OverdueStays
<1>2. IInv /\ Overdue(c) /\ <<DeleteOldAPILogs>>_vars =>
        /\ ~(cutoff = NULL) /\ (cutoff = NULL)'
        /\ Reached(c) => IsGone(c)'
  BY DeleteTakesReached
<1>3. <<CleanupStarts>>_vars => cutoff = NULL /\ ~(cutoff = NULL)'
  BY DEF CleanupStarts, vars, entries, view
<1>4. Reached(c) => ~(cutoff = NULL)
  BY DEF Reached
<1> QED
  BY <1>1, <1>2, <1>3, <1>4, Inductive, PTL
     DEF Spec, CleanupsStart, DeletesGetThrough, OverdueGoes

\* Every entry goes once its retention is over (internal/jobs/logcleanup.go),
\* however late it was stored and whatever cleanups fail, if cleanups are
\* started and their deletes do not fail for ever.
THEOREM OverdueEntriesGo ==
  Spec /\ CleanupsStart /\ DeletesGetThrough => \A c \in Calls : OverdueGoes(c)
BY CleanupsComeTo

Old(c) == stage[c] = "stored" /\ at[c] < MaxTime - Retention

LEMMA OldStays ==
  ASSUME IInv, IInv', [Next]_vars, NEW c \in Calls
  PROVE  /\ Old(c) => Old(c)' \/ IsGone(c)'
         /\ now = MaxTime => now' = MaxTime
         /\ now = MaxTime /\ Old(c) => Overdue(c)
<1>1. /\ now \in Nat /\ now' \in Nat /\ now <= now' /\ now' \in 0..MaxTime
  BY TimePasses DEF IInv, TypeOK
<1>2. Old(c) => Old(c)' \/ IsGone(c)'
  BY StepIInv DEF Moves, Stored, Old, IsGone
<1> QED
  BY <1>1, <1>2, TimeIsBounded DEF Old, Overdue

GoesAtLast(c) == stage[c] = "stored" /\ at[c] < MaxTime - Retention ~> stage[c] = "gone"

LEMMA OldGoes ==
  ASSUME NEW c \in Calls
  PROVE  Spec /\ <>(now = MaxTime) /\ OverdueGoes(c) => GoesAtLast(c)
<1>1. IInv /\ IInv' /\ [Next]_vars =>
        /\ Old(c) => Old(c)' \/ IsGone(c)'
        /\ now = MaxTime => (now = MaxTime)'
        /\ now = MaxTime /\ Old(c) => Overdue(c)
  BY OldStays
<1>2. Spec /\ <>(now = MaxTime) /\ OverdueGoes(c) => (Old(c) ~> IsGone(c))
  BY <1>1, Inductive, PTL DEF Spec, OverdueGoes
<1> QED
  BY <1>2 DEF GoesAtLast, Old, IsGone

\* The same, of the entries that a run of the bounded clock sees expire.
THEOREM OldEntriesGoAtLast ==
  Spec /\ <>(now = MaxTime) /\ CleanupsStart /\ DeletesGetThrough => OldEntriesGo
<1>1. Spec /\ <>(now = MaxTime) /\ CleanupsStart /\ DeletesGetThrough
        => \A c \in Calls : GoesAtLast(c)
  BY OverdueEntriesGo, OldGoes
<1> QED
  BY <1>1 DEF OldEntriesGo, GoesAtLast

\* Under FairSpec, with time that goes on, entries go if a cleanup that is due
\* can start and one that has started can delete.
COROLLARY FairOldEntriesGo ==
  /\ FairSpec
  /\ <>(now = MaxTime)
  /\ [](cutoff = NULL => ENABLED <<CleanupStarts>>_vars)
  /\ [](~(cutoff = NULL) => ENABLED <<DeleteOldAPILogs>>_vars)
  => OldEntriesGo
BY OldEntriesGoAtLast, PTL DEF FairSpec, Fairness, CleanupsStart, DeletesGetThrough
=============================================================================
