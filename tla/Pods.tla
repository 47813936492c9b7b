--------------------------------- MODULE Pods ---------------------------------
(***************************************************************************)
(* One pod: its start, its health endpoints, and the kubelet that probes   *)
(* them as the chart tells it to.  The database and the OpenID issuer come *)
(* and go meanwhile; each check of a request has its own time limit, and   *)
(* the probe has another.  Pods share nothing but the two dependencies.    *)
(***************************************************************************)
EXTENDS Integers

CONSTANTS
  Redirects,    \* values of azureAD.redirectURL
  Layouts,      \* which path the chart gives to each probe
  SlowAnswers,  \* seconds a slow dependency may take
  Timeout,      \* timeoutSeconds of each probe
  Threshold     \* failureThreshold

Kinds == {"liveness", "readiness"}
Deps  == {"database", "issuer"}
Paths == {"/health", "/health/ready", "/health/live"}

\* A URL as far as the checks look at it.  "suffix" tells what "-user-token"
\* was appended to.
Urls == [scheme : {"https", "http", ""}, host : {"localhost", "public", ""},
         port : BOOLEAN, path : {"/oauth2/callback", "/other", ""}, query : BOOLEAN,
         malformed : BOOLEAN, suffix : {"", "path", "host", "query"}]

ASSUME Configured ==
  /\ Redirects \subseteq {u \in Urls : u.suffix = ""}
  /\ Layouts \subseteq [Kinds -> Paths]

\* The last conjunct is what the chart and the code agree on unsaid: one
\* check's limit is less than the liveness probe's.
ASSUME Limits ==
  /\ SlowAnswers \subseteq Nat
  /\ Threshold \in Nat \ {0}
  /\ Timeout \in [Kinds -> Nat \ {0}]
  /\ Timeout["liveness"] > 8

VARIABLES
  redirect,  \* the configured redirect URL
  path,      \* the path each probe asks for
  unwell,    \* the dependencies that are down or slow
  stage,     \* how far the container has come
  probe,     \* the request of each probe
  streak,    \* failures in a row that the kubelet has counted
  ready,     \* the pod gets traffic
  held,      \* history: the issuer was not up at some time of this start
  sickRow,   \* history: probes in a row with a reason to fail
  dryRow     \* history: probes in a row that some dependency did not answer

config   == <<redirect, path>>
counters == <<streak, ready, sickRow, dryRow>>
vars     == <<config, unwell, stage, probe, counters, held>>

-------------------------------------------------------------------------------
(* The redirect URLs.                                                       *)

Host(u) == <<u.host, u.port, u.suffix = "host">>
Path(u) == <<u.path, u.suffix = "path">>

\* A suffix after a port is no number.
Parses(u) == ~u.malformed /\ ~(u.port /\ u.suffix = "host")

IsEmpty(u) == u.scheme = "" /\ u.host = "" /\ u.path = "" /\ ~u.query

\* Fault: the suffix is appended to the whole text.
DerivedByText(u) ==
  [u EXCEPT !.suffix = IF u.query THEN "query" ELSE IF u.path # "" THEN "path" ELSE "host"]

\* Appended to the path, or to the text when there is none.
DeriveUserTokenRedirectURL(u) ==
  [u EXCEPT !.suffix = IF ~u.malformed /\ (u.path # "" \/ IsEmpty(u)) THEN "path"
                       ELSE IF u.query THEN "query" ELSE "host"]

LoginPath     == <<"/oauth2/callback", FALSE>>
UserTokenPath == <<"/oauth2/callback", TRUE>>

RedirectIssue(u) ==
  \/ IsEmpty(u)
  \/ ~Parses(u)
  \/ u.scheme # "https" /\ u.host # "localhost"
  \/ Path(u) # LoginPath

UserTokenRedirectIssue(u, v) ==
  \/ ~Parses(u) \/ ~Parses(v)
  \/ u.scheme # v.scheme \/ Host(u) # Host(v)
  \/ Path(v) # UserTokenPath

Warned ==
  \/ RedirectIssue(redirect)
  \/ UserTokenRedirectIssue(redirect, DeriveUserTokenRedirectURL(redirect))

-------------------------------------------------------------------------------
(* Probes, as the kubelet makes and counts them.                            *)

NoProbe == [step |-> "idle", elapsed |-> 0, db |-> "none", az |-> "none",
            sick |-> {}, answered |-> {}]

Watched(k) == CASE path[k] = "/health"       -> Deps
                [] path[k] = "/health/ready" -> {"database"}
                [] path[k] = "/health/live"  -> {}

Up1(n) == IF n < Threshold THEN n + 1 ELSE n

Init ==
  /\ redirect \in Redirects /\ path \in Layouts
  /\ unwell = {}
  /\ stage = "stopped"
  /\ probe = [k \in Kinds |-> NoProbe]
  /\ streak = [k \in Kinds |-> 0] /\ ready = FALSE
  /\ held = FALSE
  /\ sickRow = [k \in Kinds |-> 0] /\ dryRow = [k \in Kinds |-> 0]

\* Probe k ends: the kubelet counts failures in a row, forgets them at a
\* success, and gives and takes the traffic.
Conclude(k, success, caused, complete) ==
  /\ probe'   = [probe EXCEPT ![k] = NoProbe]
  /\ streak'  = [streak EXCEPT ![k] = IF success THEN 0 ELSE Up1(@)]
  /\ sickRow' = [sickRow EXCEPT ![k] = IF caused THEN Up1(@) ELSE 0]
  /\ dryRow'  = [dryRow EXCEPT ![k] = IF complete THEN 0 ELSE Up1(@)]
  /\ ready'   = IF k # "readiness" THEN ready
                ELSE success \/ (ready /\ streak[k] + 1 < Threshold)
  /\ UNCHANGED <<config, unwell, stage, held>>

\* The kubelet does not probe a container it is about to restart.
Probing(k) ==
  /\ probe[k].step = "idle"
  /\ streak["liveness"] < Threshold

\* Nobody listens before Run has come that far.  The chart's initial delay
\* leaves time enough for a start that nothing holds up.
Refused(k) ==
  /\ Probing(k)
  /\ \/ stage \in {"login", "usertoken"} /\ "issuer" \in unwell
     \/ stage = "hung"
  /\ Conclude(k, FALSE, held, FALSE)

\* GET of the probe's path; /health/live has nothing to check.
Begin(k) ==
  /\ Probing(k)
  /\ stage = "running"
  /\ probe' = [probe EXCEPT ![k] = [@ EXCEPT
       !.step = IF path[k] = "/health/live" THEN "answer" ELSE "database",
       !.sick = unwell]]
  /\ UNCHANGED <<config, unwell, stage, counters, held>>

PingLimit      == 5
DiscoveryLimit == 8

\* Dependency d answers or fails after t seconds, under a limit: a healthy
\* one at once, an unwell one late or with an error or never.
Tries(d, limit, ok, t) ==
  \/ d \notin unwell /\ ok /\ t = 0
  \/ d \in unwell /\ ok /\ t \in SlowAnswers /\ t < limit
  \/ d \in unwell /\ ~ok /\ t \in {0, limit}

Times == 0..(PingLimit + DiscoveryLimit)

\* The prober has not hung up yet.
InTime(k) == probe[k].elapsed <= Timeout[k]

Pinged(k, ok, t) ==
  [probe[k] EXCEPT !.step     = IF path[k] = "/health" THEN "issuer" ELSE "answer",
                   !.elapsed  = @ + t,
                   !.db       = IF ok THEN "up" ELSE "down",
                   !.answered = IF ok THEN @ \cup {"database"} ELSE @]

checkDatabase(k) ==
  /\ probe[k].step = "database" /\ InTime(k)
  /\ \E ok \in BOOLEAN, t \in Times :
       /\ Tries("database", PingLimit, ok, t)
       /\ probe' = [probe EXCEPT ![k] = Pinged(k, ok, t)]
  /\ UNCHANGED <<config, unwell, stage, counters, held>>

\* A warning about the redirect URLs spoils an issuer that is up.
Discovered(k, ok, t) ==
  [probe[k] EXCEPT !.step     = "answer",
                   !.elapsed  = @ + t,
                   !.az       = IF ~ok THEN "down" ELSE IF Warned THEN "unknown" ELSE "up",
                   !.answered = IF ok THEN @ \cup {"issuer"} ELSE @]

\* Fault: a discovery that may take longer than the probe.
SlowDiscovery(k) ==
  /\ probe[k].step = "issuer" /\ InTime(k)
  /\ \E ok \in BOOLEAN, t \in 0..20 :
       /\ Tries("issuer", 20, ok, t)
       /\ probe' = [probe EXCEPT ![k] = Discovered(k, ok, t)]
  /\ UNCHANGED <<config, unwell, stage, counters, held>>

checkAzureADIssuer(k) ==
  /\ probe[k].step = "issuer" /\ InTime(k)
  /\ \E ok \in BOOLEAN, t \in Times :
       /\ Tries("issuer", DiscoveryLimit, ok, t)
       /\ probe' = [probe EXCEPT ![k] = Discovered(k, ok, t)]
  /\ UNCHANGED <<config, unwell, stage, counters, held>>

checkApplication == "up"

\* Fault: the last check that is not up decides.
LastWins(checks) ==
  IF checks[2] # "up" THEN checks[2] ELSE checks[1]

\* Fault: anything but up is unhealthy.
StrictOverall(checks) ==
  IF \A i \in 1..3 : checks[i] = "up" THEN "up" ELSE "down"

OverallStatus(checks) ==
  IF \E i \in 1..3 : checks[i] = "down" THEN "down"
  ELSE IF \E i \in 1..3 : checks[i] = "unknown" THEN "unknown" ELSE "up"

Health(k) == OverallStatus(<<probe[k].db, probe[k].az, checkApplication>>) # "down"
Ready(k)  == probe[k].db = "up"

StatusOK(k) ==
  \/ path[k] = "/health" /\ Health(k)
  \/ path[k] = "/health/ready" /\ Ready(k)
  \/ path[k] = "/health/live"

Answer(k) ==
  /\ probe[k].step = "answer" /\ InTime(k)
  /\ Conclude(k, StatusOK(k), probe[k].sick \cap Watched(k) # {},
              Watched(k) \subseteq probe[k].answered)

\* The prober hangs up, which cancels the request's context.
HangUp(k) ==
  /\ probe[k].step # "idle" /\ probe[k].elapsed >= Timeout[k]
  /\ Conclude(k, FALSE, probe[k].sick \cap Watched(k) # {}, FALSE)

-------------------------------------------------------------------------------
(* The container.                                                           *)

\* The pod has a container again; Run begins.
StartContainer ==
  /\ stage = "stopped"
  /\ stage' = "login"
  /\ held' = ("issuer" \in unwell)
  /\ UNCHANGED <<config, unwell, probe, counters>>

\* The container is gone, and with it what the kubelet knew of it.
Stop ==
  /\ stage' = "stopped"
  /\ probe' = [k \in Kinds |-> NoProbe]
  /\ streak' = [k \in Kinds |-> 0] /\ ready' = FALSE
  /\ sickRow' = [k \in Kinds |-> 0] /\ dryRow' = [k \in Kinds |-> 0]
  /\ UNCHANGED <<config, unwell, held>>

\* A discovery that is answered, or that hangs: it has no limit of its own.
Discovery(next) ==
  /\ \/ stage' = next
     \/ "issuer" \in unwell /\ stage' = "hung"
  /\ UNCHANGED <<config, unwell, probe, counters, held>>

NewAuthenticator == stage = "login" /\ Discovery("usertoken")

\* The database is not asked before the first query, so that the server
\* listens as soon as the second discovery is done.
NewUserTokenAuthenticator == stage = "usertoken" /\ Discovery("running")

\* Run returns the error of a discovery and the process exits.
StartupFails ==
  /\ stage \in {"login", "usertoken"} /\ "issuer" \in unwell
  /\ Stop

\* A discovery that hung is told at last that there will be no answer.
HungDiscoveryFails ==
  /\ stage = "hung"
  /\ Stop

\* The kubelet restarts a container that has failed too often to look alive.
Restart ==
  /\ stage # "stopped" /\ streak["liveness"] = Threshold
  /\ Stop

\* A dependency fails, or slows down, under the requests in flight.
Worsens(d) ==
  /\ d \notin unwell
  /\ unwell' = unwell \cup {d}
  /\ probe' = [k \in Kinds |-> IF probe[k].step = "idle" THEN probe[k]
                             ELSE [probe[k] EXCEPT !.sick = @ \cup {d}]]
  /\ held' = (held \/ (d = "issuer" /\ stage \in {"login", "usertoken"}))
  /\ UNCHANGED <<config, stage, counters>>

Recovers(d) ==
  /\ d \in unwell
  /\ unwell' = unwell \ {d}
  /\ UNCHANGED <<config, stage, probe, counters, held>>

Probe(k) ==
  \/ Refused(k) \/ Begin(k) \/ checkDatabase(k) \/ checkAzureADIssuer(k)
  \/ Answer(k) \/ HangUp(k)

Startup ==
  StartContainer \/ NewAuthenticator \/ NewUserTokenAuthenticator \/ StartupFails

Next ==
  \/ \E k \in Kinds : Probe(k)
  \/ Startup \/ HungDiscoveryFails \/ Restart
  \/ \E d \in Deps : Worsens(d) \/ Recovers(d)

Spec == Init /\ [][Next]_vars

\* The kubelet keeps probing and restarting, and a request goes on.
Probed(k) == WF_vars(Probe(k))

FairSpec ==
  Spec /\ WF_vars(Startup) /\ WF_vars(Restart) /\ \A k \in Kinds : Probed(k)

-------------------------------------------------------------------------------
(* Properties.                                                              *)

Statuses == {"none", "up", "down", "unknown"}

Probes == [step : {"idle", "database", "issuer", "answer"}, elapsed : Times,
           db : Statuses, az : Statuses, sick : SUBSET Deps, answered : SUBSET Deps]

\* Every variable has its type.
TypeOK ==
  /\ redirect \in Redirects /\ path \in Layouts
  /\ unwell \subseteq Deps
  /\ stage \in {"stopped", "login", "usertoken", "hung", "running"}
  /\ probe \in [Kinds -> Probes]
  /\ streak \in [Kinds -> 0..Threshold] /\ ready \in BOOLEAN /\ held \in BOOLEAN
  /\ sickRow \in [Kinds -> 0..Threshold] /\ dryRow \in [Kinds -> 0..Threshold]

\* The kubelet never counts a failure against the pod (and so never restarts
\* it or takes its traffic) without a reason: in each probe counted, a
\* dependency that its path stands for was unwell at some time.  A warning
\* about the redirect URL is no reason (health.go:278), and under the paths
\* /health/live and /health/ready the issuer is none either.
NoGroundlessFailure == \A k \in Kinds : streak[k] <= sickRow[k]

\* A pod has traffic only if one of the last probes that were allowed to fail
\* found every dependency it asks for answering.
ReadyIsEarned == ready => dryRow["readiness"] < Threshold

\* The limits of the two checks, five and eight seconds, leave time for the
\* answer of one of them alone: the liveness probe gets no answer (rather
\* than a 503) only if both dependencies were unwell during the request.
OneFaultIsAnswered ==
  probe["liveness"].elapsed >= Timeout["liveness"] => probe["liveness"].sick = Deps

\* A redirect URL without a warning sends both flows to the routes the
\* program has for them, at the same host; and the check of the derived URL
\* warns of nothing that the check of the URL itself does not warn of.
WarningsSuffice ==
  LET u == redirect
      v == DeriveUserTokenRedirectURL(redirect)
  IN /\ ~RedirectIssue(u) => /\ Parses(u) /\ Path(u) = LoginPath
                             /\ Parses(v) /\ Path(v) = UserTokenPath
                             /\ <<v.scheme, Host(v)>> = <<u.scheme, Host(u)>>
     /\ UserTokenRedirectIssue(u, v) => RedirectIssue(u)

\* When both dependencies stay up from some time on, the pod gets its
\* traffic and keeps it, wherever it stood, hung in its start included.
TrafficReturns == <>[](unwell = {}) => <>[](stage = "running" /\ ready)

-------------------------------------------------------------------------------
(* The inductive invariant.                                                 *)

\* What the checks found of a request in flight, and how long they took,
\* comes from how the dependencies were meanwhile.
InFlight(k) ==
  LET r == probe[k]
      pinged == IF "database" \in r.sick THEN PingLimit ELSE 0
      asked  == IF "issuer" \in r.sick THEN DiscoveryLimit ELSE 0
  IN /\ r.step = "idle" => r = NoProbe
     /\ r.step # "idle" => stage = "running" /\ unwell \subseteq r.sick
     /\ r.step = "database" => r.elapsed = 0 /\ "database" \in Watched(k)
     /\ r.step = "issuer" => path[k] = "/health" /\ r.elapsed <= pinged
     /\ r.elapsed <= pinged + asked
     /\ path[k] = "/health/live" => r.elapsed = 0
     /\ path[k] = "/health/ready" => r.elapsed <= pinged
     /\ r.db = "down" => "database" \in r.sick
     /\ r.az = "down" => "issuer" \in r.sick
     /\ r.db = "up" => "database" \in r.answered
     /\ r.az \in {"up", "unknown"} => "issuer" \in r.answered
     /\ r.db # "unknown"
     /\ r.step \in {"issuer", "answer"} /\ "database" \in Watched(k) => r.db # "none"
     /\ r.step = "answer" /\ "issuer" \in Watched(k) => r.az # "none"

\* What the kubelet counted lies between the two rows.
Counted(k) ==
  /\ dryRow[k] <= streak[k] /\ streak[k] <= sickRow[k]
  /\ stage = "stopped" => streak[k] = 0

\* A start that has not come to its end yet has something that holds it up.
Started ==
  /\ ready => stage = "running" /\ streak["readiness"] < Threshold
  /\ stage = "hung" => held
  /\ stage \in {"login", "usertoken"} /\ "issuer" \in unwell => held

\* The inductive invariant: with what a step in progress relies on.
IInv ==
  /\ TypeOK
  /\ \A k \in Kinds : InFlight(k) /\ Counted(k)
  /\ Started
===============================================================================
