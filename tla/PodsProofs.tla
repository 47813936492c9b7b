------------------------------ MODULE PodsProofs ------------------------------
(* The safety of Pods for all redirect URLs, probe paths, timeouts, delays  *)
(* and thresholds that the module's assumption admits; and that traffic     *)
(* returns when the dependencies do.                                        *)
EXTENDS Pods, TLAPS

-------------------------------------------------------------------------------
(* The redirect URLs.                                                       *)

\* A URL without a warning has the login callback's path, so that the suffix
\* comes after it and nothing else changes; any warning about the derived URL
\* goes back to one about the URL (health.go:228-236, auth.go:107-114).
LEMMA RedirectsAgree == ASSUME NEW u \in Urls, u.suffix = ""
  PROVE LET v == DeriveUserTokenRedirectURL(u)
        IN /\ ~RedirectIssue(u) => /\ Parses(u) /\ Path(u) = LoginPath
                                   /\ Parses(v) /\ Path(v) = UserTokenPath
                                   /\ <<v.scheme, Host(v)>> = <<u.scheme, Host(u)>>
           /\ UserTokenRedirectIssue(u, v) => RedirectIssue(u)
<1> DEFINE v == DeriveUserTokenRedirectURL(u)
<1>1. CASE RedirectIssue(u)
  BY <1>1
<1>2. CASE ~RedirectIssue(u)
  <2>1. ~IsEmpty(u) /\ Parses(u) /\ u.path = "/oauth2/callback"
    BY <1>2 DEF RedirectIssue, Path, LoginPath
  <2>2. v = [u EXCEPT !.suffix = "path"]
    BY <2>1 DEF DeriveUserTokenRedirectURL, Parses
  <2>3. /\ v.scheme = u.scheme /\ v.host = u.host /\ v.port = u.port
        /\ v.path = u.path /\ v.malformed = u.malformed /\ v.suffix = "path"
    BY <2>2 DEF Urls
  <2>4. Parses(v) /\ Path(v) = UserTokenPath /\ Path(u) = LoginPath /\ Host(v) = Host(u)
    BY <2>1, <2>3 DEF Parses, Path, UserTokenPath, LoginPath, Host
  <2> QED
    BY <1>2, <2>1, <2>3, <2>4 DEF UserTokenRedirectIssue
<1> QED
  BY <1>1, <1>2

-------------------------------------------------------------------------------
(* Counting.                                                                *)

LEMMA NoProbeType == NoProbe \in Probes
BY DEF NoProbe, Probes, Times, PingLimit, DiscoveryLimit, Statuses

\* A probe that is counted rightly, as a success only when everything
\* answered and as a failure only for a cause, keeps the count between the
\* two rows and the traffic with the count.
LEMMA CountsRightly ==
  ASSUME IInv, NEW k \in Kinds, NEW success \in BOOLEAN, NEW caused \in BOOLEAN,
         NEW complete \in BOOLEAN, Conclude(k, success, caused, complete),
         success => complete, ~success => caused,
         success => stage = "running", stage # "stopped"
  PROVE IInv'
<1> USE Limits
<1>1. /\ streak'[k] = (IF success THEN 0 ELSE Up1(streak[k]))
      /\ sickRow'[k] = (IF caused THEN Up1(sickRow[k]) ELSE 0)
      /\ dryRow'[k] = (IF complete THEN 0 ELSE Up1(dryRow[k]))
      /\ \A j \in Kinds \ {k} : streak'[j] = streak[j] /\ sickRow'[j] = sickRow[j]
                                /\ dryRow'[j] = dryRow[j]
  BY DEF IInv, TypeOK, Conclude
<1>2. probe'[k] = NoProbe /\ \A j \in Kinds \ {k} : probe'[j] = probe[j]
  BY DEF IInv, TypeOK, Conclude
<1>3. TypeOK'
  <2>2. \A n \in 0..Threshold : Up1(n) \in 0..Threshold
    BY DEF Up1
  <2>3. probe' \in [Kinds -> Probes]
    BY NoProbeType DEF IInv, TypeOK, Conclude
  <2>4. /\ streak' \in [Kinds -> 0..Threshold] /\ sickRow' \in [Kinds -> 0..Threshold]
        /\ dryRow' \in [Kinds -> 0..Threshold]
    BY <2>2 DEF IInv, TypeOK, Conclude
  <2>5. ready' \in BOOLEAN
    BY DEF IInv, TypeOK, Conclude
  <2> QED
    BY <2>3, <2>4, <2>5 DEF IInv, TypeOK, Conclude, config
<1>4. ASSUME NEW j \in Kinds PROVE InFlight(j)'
  <2>1. CASE j = k
    BY <1>2, <2>1 DEF InFlight, NoProbe, PingLimit, DiscoveryLimit
  <2>2. CASE j # k
    BY <1>2, <2>2 DEF IInv, InFlight, Conclude, config, Watched
  <2> QED
    BY <2>1, <2>2
<1>5. ASSUME NEW j \in Kinds PROVE Counted(j)'
  <2>1. /\ dryRow[j] \in 0..Threshold /\ streak[j] \in 0..Threshold
        /\ sickRow[j] \in 0..Threshold /\ Counted(j)
    BY DEF IInv, TypeOK
  <2>2. CASE j = k
    BY <1>1, <2>1, <2>2 DEF Counted, Conclude, Up1
  <2>3. CASE j # k
    BY <1>1, <2>1, <2>3 DEF Counted, Conclude
  <2> QED
    BY <2>2, <2>3
<1>6. Started'
  <2>1. ready' => stage = "running"
    BY DEF IInv, Started, Conclude
  <2>2. ready' => streak'["readiness"] < Threshold
    <3>1. "readiness" \in Kinds /\ streak["readiness"] \in 0..Threshold
      BY DEF Kinds, IInv, TypeOK
    <3>2. CASE k = "readiness"
      <4>1. ready' => success \/ streak[k] + 1 < Threshold
        BY <3>2 DEF Conclude
      <4> QED
        BY <1>1, <3>1, <3>2, <4>1 DEF Up1
    <3>3. CASE k # "readiness"
      BY <1>1, <3>1, <3>3 DEF IInv, Started, Conclude
    <3> QED
      BY <3>2, <3>3
  <2> QED
    BY <2>1, <2>2 DEF IInv, Started, Conclude
<1> QED
  BY <1>3, <1>4, <1>5, <1>6 DEF IInv

\* A container that is gone leaves nothing to count.
LEMMA StopsClean == ASSUME IInv, Stop PROVE IInv'
<1> USE Limits
<1>1. TypeOK'
  <2>1. probe' \in [Kinds -> Probes]
    BY NoProbeType DEF Stop
  <2>2. /\ streak' \in [Kinds -> 0..Threshold] /\ sickRow' \in [Kinds -> 0..Threshold]
        /\ dryRow' \in [Kinds -> 0..Threshold]
    BY DEF Stop
  <2> QED
    BY <2>1, <2>2 DEF IInv, TypeOK, Stop, config
<1>2. ASSUME NEW k \in Kinds PROVE InFlight(k)' /\ Counted(k)'
  BY DEF Stop, InFlight, Counted, NoProbe, PingLimit, DiscoveryLimit
<1>3. Started'
  BY DEF Stop, Started
<1> QED
  BY <1>1, <1>2, <1>3 DEF IInv
-------------------------------------------------------------------------------
(* The steps.                                                               *)

\* What a request in flight has of its type.
LEMMA ProbeTypes == ASSUME IInv, NEW k \in Kinds
  PROVE /\ probe[k] \in Probes
        /\ probe[k].step \in {"idle", "database", "issuer", "answer"}
        /\ probe[k].elapsed \in Times /\ probe[k].elapsed \in Nat
        /\ probe[k].db \in Statuses /\ probe[k].az \in Statuses
        /\ probe[k].sick \subseteq Deps /\ probe[k].answered \subseteq Deps
        /\ path[k] \in Paths
<1>1. probe[k] \in Probes
  BY DEF IInv, TypeOK
<1>2. path[k] \in Paths
  BY Configured DEF IInv, TypeOK
<1>3. \A n \in Times : n \in Nat
  BY DEF Times, PingLimit, DiscoveryLimit
<1> QED
  BY <1>1, <1>2, <1>3 DEF Probes

LEMMA WatchedBy == ASSUME NEW k \in Kinds, path[k] \in Paths
  PROVE /\ path[k] = "/health" => Watched(k) = Deps
        /\ path[k] = "/health/ready" => Watched(k) = {"database"}
        /\ path[k] = "/health/live" => Watched(k) = {}
BY DEF Watched, Paths

\* The step of one request, which leaves the others and the counts alone.
LEMMA OnlyThisRequest ==
  ASSUME IInv, NEW k \in Kinds, NEW r \in Probes,
         probe' = [probe EXCEPT ![k] = r],
         UNCHANGED <<config, unwell, stage, counters, held>>,
         InFlight(k)'
  PROVE IInv'
<1>1. TypeOK'
  BY DEF IInv, TypeOK, config, counters
<1>2. ASSUME NEW j \in Kinds PROVE InFlight(j)' /\ Counted(j)'
  <2>1. probe[j] = probe'[j] \/ j = k
    BY DEF IInv, TypeOK
  <2>2. Counted(j)'
    BY DEF IInv, Counted, counters
  <2>3. CASE j # k
    BY <2>1, <2>2, <2>3 DEF IInv, InFlight, Watched, config
  <2> QED
    BY <2>2, <2>3
<1>3. Started'
  BY DEF IInv, Started, counters
<1> QED
  BY <1>1, <1>2, <1>3 DEF IInv

LEMMA BeginStep == ASSUME IInv, NEW k \in Kinds, Begin(k) PROVE IInv'
<1> DEFINE r == [probe[k] EXCEPT !.step = IF path[k] = "/health/live" THEN "answer" ELSE "database",
                                 !.sick = unwell]
<1>1. probe[k] = NoProbe
  BY DEF IInv, InFlight, Begin, Probing
<1>2. r \in Probes /\ probe' = [probe EXCEPT ![k] = r] /\ probe'[k] = r
  BY <1>1, ProbeTypes DEF Begin, IInv, TypeOK, Probes, NoProbe
<1>3. /\ r.step = IF path[k] = "/health/live" THEN "answer" ELSE "database"
      /\ r.sick = unwell /\ r.elapsed = 0 /\ r.db = "none" /\ r.az = "none"
  BY <1>1 DEF NoProbe
<1>4. /\ path' = path /\ Watched(k)' = Watched(k) /\ path[k] \in Paths
      /\ unwell' = unwell /\ stage' = "running"
  BY ProbeTypes DEF Begin, config, Watched
<1>5. InFlight(k)'
  <2>1. path[k] # "/health/live" => "database" \in Watched(k)
    BY <1>4, WatchedBy DEF Paths, Deps
  <2>2. path[k] = "/health/live" => Watched(k) = {}
    BY <1>4, WatchedBy
  <2> HIDE DEF r
  <2> QED
    BY <1>2, <1>3, <1>4, <2>1, <2>2 DEF InFlight, PingLimit, DiscoveryLimit
<1> QED
  BY <1>2, <1>5, OnlyThisRequest DEF Begin

LEMMA DatabaseStep == ASSUME IInv, NEW k \in Kinds, checkDatabase(k) PROVE IInv'
<1>1. PICK ok \in BOOLEAN, t \in Times :
        /\ Tries("database", PingLimit, ok, t)
        /\ probe' = [probe EXCEPT ![k] = Pinged(k, ok, t)]
  BY DEF checkDatabase
<1> DEFINE q == probe[k]
           r == Pinged(k, ok, t)
<1>2. /\ q.step = "database" /\ q.elapsed = 0 /\ stage = "running" /\ unwell \subseteq q.sick
      /\ "database" \in Watched(k)
      /\ q.az = "down" => "issuer" \in q.sick
      /\ q.az \in {"up", "unknown"} => "issuer" \in q.answered
  BY DEF checkDatabase, IInv, InFlight
<1>3. t <= IF "database" \in q.sick THEN PingLimit ELSE 0
  BY <1>1, <1>2 DEF Tries, PingLimit, Times
<1>4. ~ok => "database" \in q.sick
  BY <1>1, <1>2 DEF Tries
<1>5. /\ probe' = [probe EXCEPT ![k] = r] /\ probe'[k] = r
      /\ r.step = (IF path[k] = "/health" THEN "issuer" ELSE "answer") /\ r.elapsed = q.elapsed + t
      /\ r.db = (IF ok THEN "up" ELSE "down") /\ r.az = q.az /\ r.sick = q.sick
      /\ r.answered = IF ok THEN q.answered \cup {"database"} ELSE q.answered
  <2>1. probe' = [probe EXCEPT ![k] = r]
    BY <1>1
  <2>2. k \in DOMAIN probe /\ q \in Probes
    BY ProbeTypes DEF IInv, TypeOK
  <2> QED
    BY <2>1, <2>2 DEF Probes, Pinged
<1>6. r \in Probes
  <2>1. q.elapsed + t \in Times
    BY <1>1, <1>2 DEF Times, PingLimit, DiscoveryLimit
  <2>2. q.az \in Statuses /\ q.sick \subseteq Deps /\ q.answered \cup {"database"} \subseteq Deps
    BY ProbeTypes DEF Deps
  <2>3. q \in Probes
    BY ProbeTypes
  <2>4. (IF path[k] = "/health" THEN "issuer" ELSE "answer")
          \in {"idle", "database", "issuer", "answer"}
    OBVIOUS
  <2>5. (IF ok THEN "up" ELSE "down") \in Statuses
    BY DEF Statuses
  <2> QED
    BY <2>1, <2>2, <2>3, <2>4, <2>5 DEF Probes, Pinged
<1>7. /\ path' = path /\ Watched(k)' = Watched(k) /\ path[k] \in Paths
      /\ unwell' = unwell /\ stage' = "running"
  BY <1>2, ProbeTypes DEF checkDatabase, config, Watched
<1>8. InFlight(k)'
  <2>1. path[k] # "/health/live" /\ (path[k] = "/health/ready" => "issuer" \notin Watched(k))
    BY <1>2, <1>7, WatchedBy
  <2>2. t \in Nat
    BY DEF Times, PingLimit, DiscoveryLimit
  <2> HIDE DEF r
  <2> QED
    BY <1>2, <1>3, <1>4, <1>5, <1>7, <2>1, <2>2 DEF InFlight, PingLimit, DiscoveryLimit, Paths
<1> QED
  BY <1>5, <1>6, <1>8, OnlyThisRequest DEF checkDatabase

LEMMA IssuerStep == ASSUME IInv, NEW k \in Kinds, checkAzureADIssuer(k) PROVE IInv'
<1>1. PICK ok \in BOOLEAN, t \in Times :
        /\ Tries("issuer", DiscoveryLimit, ok, t)
        /\ probe' = [probe EXCEPT ![k] = Discovered(k, ok, t)]
  BY DEF checkAzureADIssuer
<1> DEFINE q == probe[k]
           found == IF ~ok THEN "down" ELSE IF Warned THEN "unknown" ELSE "up"
           r == Discovered(k, ok, t)
<1> HIDE DEF found
<1>2. /\ q.step = "issuer" /\ stage = "running" /\ unwell \subseteq q.sick
      /\ path[k] = "/health"
      /\ q.elapsed <= IF "database" \in q.sick THEN PingLimit ELSE 0
      /\ q.db = "down" => "database" \in q.sick
      /\ q.db = "up" => "database" \in q.answered
      /\ q.db # "unknown" /\ ("database" \in Watched(k) => q.db # "none")
  BY DEF checkAzureADIssuer, IInv, InFlight
<1>3. t <= IF "issuer" \in q.sick THEN DiscoveryLimit ELSE 0
  BY <1>1, <1>2 DEF Tries, DiscoveryLimit, PingLimit, Times
<1>4. /\ found \in {"up", "down", "unknown"}
      /\ found = "down" => "issuer" \in q.sick
      /\ found # "down" => ok
  BY <1>1, <1>2 DEF Tries, found
<1>5. /\ probe' = [probe EXCEPT ![k] = r] /\ probe'[k] = r
      /\ r.step = "answer" /\ r.elapsed = q.elapsed + t
      /\ r.db = q.db /\ r.az = found /\ r.sick = q.sick
      /\ r.answered = IF ok THEN q.answered \cup {"issuer"} ELSE q.answered
  <2>1. probe' = [probe EXCEPT ![k] = r]
    BY <1>1
  <2>2. k \in DOMAIN probe /\ q \in Probes
    BY ProbeTypes DEF IInv, TypeOK
  <2> QED
    BY <2>1, <2>2 DEF Probes, Discovered, found
<1>6. r \in Probes
  <2>1. q.elapsed + t \in Times
    <3>1. q.elapsed \in Nat /\ t \in Nat
      BY ProbeTypes DEF Times, PingLimit, DiscoveryLimit
    <3>2. q.elapsed <= 5 /\ t <= 8
      BY <1>2, <1>3, <3>1 DEF PingLimit, DiscoveryLimit
    <3> QED
      BY <3>1, <3>2 DEF Times, PingLimit, DiscoveryLimit
  <2>2. q.db \in Statuses /\ q.sick \subseteq Deps /\ q.answered \cup {"issuer"} \subseteq Deps
    BY ProbeTypes DEF Deps
  <2>3. found \in Statuses
    BY <1>4 DEF Statuses
  <2> QED
    BY <2>1, <2>2, <2>3, ProbeTypes DEF Probes, Discovered, found
<1>7. /\ path' = path /\ Watched(k)' = Watched(k)
      /\ unwell' = unwell /\ stage' = "running"
  BY <1>2 DEF checkAzureADIssuer, config, Watched
<1>8. InFlight(k)'
  <2>1. q.elapsed \in Nat /\ t \in Nat
    BY ProbeTypes DEF Times, PingLimit, DiscoveryLimit
  <2> HIDE DEF r
  <2> QED
    BY <1>2, <1>3, <1>4, <1>5, <1>7, <2>1 DEF InFlight, PingLimit, DiscoveryLimit
<1> QED
  BY <1>5, <1>6, <1>8, OnlyThisRequest DEF checkAzureADIssuer

\* The status of the answer tells what was found.
LEMMA AnswerIsRight == ASSUME IInv, NEW k \in Kinds, probe[k].step = "answer"
  PROVE /\ StatusOK(k) => Watched(k) \subseteq probe[k].answered
        /\ ~StatusOK(k) => probe[k].sick \cap Watched(k) # {}
<1>1. /\ probe[k].db \in Statuses /\ probe[k].az \in Statuses /\ path[k] \in Paths
      /\ probe[k].db = "down" => "database" \in probe[k].sick
      /\ probe[k].az = "down" => "issuer" \in probe[k].sick
      /\ probe[k].db = "up" => "database" \in probe[k].answered
      /\ probe[k].az \in {"up", "unknown"} => "issuer" \in probe[k].answered
      /\ probe[k].db # "unknown"
      /\ "database" \in Watched(k) => probe[k].db # "none"
      /\ "issuer" \in Watched(k) => probe[k].az # "none"
  BY ProbeTypes DEF IInv, InFlight
<1>2. CASE path[k] = "/health"
  <2>1. Watched(k) = Deps
    BY <1>1, <1>2, WatchedBy
  <2>2. Health(k) <=> probe[k].db # "down" /\ probe[k].az # "down"
    BY DEF Health, OverallStatus, checkApplication
  <2> QED
    BY <1>1, <1>2, <2>1, <2>2 DEF StatusOK, Deps, Statuses
<1>3. CASE path[k] = "/health/ready"
  BY <1>1, <1>3, WatchedBy DEF StatusOK, Ready, Statuses
<1>4. CASE path[k] = "/health/live"
  BY <1>1, <1>4, WatchedBy DEF StatusOK
<1> QED
  BY <1>1, <1>2, <1>3, <1>4 DEF Paths

\* A request that has taken time had to wait for a dependency its path asks for.
LEMMA WaitingHasACause ==
  ASSUME IInv, NEW k \in Kinds, probe[k].elapsed >= Timeout[k]
  PROVE probe[k].sick \cap Watched(k) # {}
<1>1. probe[k].elapsed \in Nat /\ probe[k].elapsed > 0 /\ path[k] \in Paths
  <2>1. probe[k].elapsed \in Nat /\ path[k] \in Paths
    BY ProbeTypes
  <2>2. Timeout[k] \in Nat \ {0}
    BY Limits
  <2> QED
    BY <2>1, <2>2
<1>2. InFlight(k)
  BY DEF IInv
<1>3. CASE path[k] = "/health"
  <2>1. probe[k].sick \subseteq Deps
    BY ProbeTypes
  <2>2. "database" \in probe[k].sick \/ "issuer" \in probe[k].sick
    BY <1>1, <1>2 DEF InFlight
  <2> QED
    BY <1>1, <1>3, <2>1, <2>2, WatchedBy
<1>4. CASE path[k] = "/health/ready"
  BY <1>1, <1>2, <1>4, WatchedBy DEF InFlight
<1>5. CASE path[k] = "/health/live"
  BY <1>1, <1>2, <1>5 DEF InFlight
<1> QED
  BY <1>1, <1>3, <1>4, <1>5 DEF Paths
LEMMA AnswerStep == ASSUME IInv, NEW k \in Kinds, Answer(k) PROVE IInv'
<1> DEFINE ok       == StatusOK(k)
           caused   == probe[k].sick \cap Watched(k) # {}
           complete == Watched(k) \subseteq probe[k].answered
<1>1. /\ ok \in BOOLEAN /\ caused \in BOOLEAN /\ complete \in BOOLEAN
  BY DEF StatusOK, Health, Ready
<1>2. (ok => complete) /\ (~ok => caused)
  BY AnswerIsRight DEF Answer
<1>3. stage = "running"
  BY DEF IInv, InFlight, Answer
<1>4. Conclude(k, ok, caused, complete)
  BY DEF Answer
<1> HIDE DEF ok, caused, complete
<1> QED
  BY <1>1, <1>2, <1>3, <1>4, CountsRightly

LEMMA HangUpStep == ASSUME IInv, NEW k \in Kinds, HangUp(k) PROVE IInv'
<1> DEFINE caused == probe[k].sick \cap Watched(k) # {}
<1>1. caused = TRUE
  BY WaitingHasACause DEF HangUp
<1>2. stage = "running"
  BY DEF IInv, InFlight, HangUp
<1>3. Conclude(k, FALSE, TRUE, FALSE)
  BY <1>1 DEF HangUp
<1> QED
  BY <1>2, <1>3, CountsRightly

\* Nothing listens yet, and the issuer has been the reason for it.
LEMMA RefusedStep == ASSUME IInv, NEW k \in Kinds, Refused(k) PROVE IInv'
<1>1. held = TRUE /\ stage # "stopped"
  BY DEF IInv, TypeOK, Started, Refused
<1>2. Conclude(k, FALSE, TRUE, FALSE)
  BY <1>1 DEF Refused
<1> QED
  BY <1>1, <1>2, CountsRightly

\* A step of the container alone, while no request is in flight.
LEMMA ContainerStep ==
  ASSUME IInv, UNCHANGED <<config, unwell, probe, counters>>,
         stage # "running", stage' \in {"login", "usertoken", "hung", "running"},
         held' \in BOOLEAN,
         stage' = "hung" => held',
         stage' \in {"login", "usertoken"} /\ "issuer" \in unwell => held'
  PROVE IInv'
<1>1. TypeOK'
  BY DEF IInv, TypeOK, config, counters
<1>2. ASSUME NEW k \in Kinds PROVE InFlight(k)' /\ Counted(k)'
  <2>1. InFlight(k) /\ Counted(k) /\ probe[k].step = "idle"
    BY DEF IInv, InFlight
  <2>2. InFlight(k)'
    BY <2>1 DEF InFlight, config, Watched
  <2>3. Counted(k)'
    BY <2>1 DEF Counted, counters
  <2> QED
    BY <2>2, <2>3
<1>3. Started'
  BY DEF IInv, Started, counters
<1> QED
  BY <1>1, <1>2, <1>3 DEF IInv

LEMMA StartupStep == ASSUME IInv, Startup PROVE IInv'
<1>1. CASE StartContainer
  <2>1. held' \in BOOLEAN /\ ("issuer" \in unwell => held')
    <3>1. held' = ("issuer" \in unwell)
      BY <1>1 DEF StartContainer
    <3>2. ("issuer" \in unwell) \in BOOLEAN
      OBVIOUS
    <3> QED
      BY <3>1, <3>2, Zenon
  <2>2. stage # "running" /\ stage' = "login"
    BY <1>1 DEF StartContainer
  <2>3. UNCHANGED <<config, unwell, probe, counters>>
    BY <1>1 DEF StartContainer
  <2> QED
    BY <2>1, <2>2, <2>3, ContainerStep
<1>2. CASE NewAuthenticator
  BY <1>2, ContainerStep DEF NewAuthenticator, Discovery, IInv, TypeOK, Started
<1>3. CASE NewUserTokenAuthenticator
  BY <1>3, ContainerStep DEF NewUserTokenAuthenticator, Discovery, IInv, TypeOK, Started
<1>4. CASE StartupFails
  BY <1>4, StopsClean DEF StartupFails
<1> QED
  BY <1>1, <1>2, <1>3, <1>4 DEF Startup

\* A dependency that worsens is noted with every request in flight.
LEMMA WorsensStep == ASSUME IInv, NEW d \in Deps, Worsens(d) PROVE IInv'
<1>1. ASSUME NEW k \in Kinds
      PROVE /\ probe'[k] = IF probe[k].step = "idle" THEN probe[k]
                           ELSE [probe[k] EXCEPT !.sick = @ \cup {d}]
            /\ probe[k] \in Probes /\ probe'[k] \in Probes
  BY ProbeTypes DEF Worsens, Probes
<1>2. TypeOK'
  <2>1. probe' \in [Kinds -> Probes]
    BY <1>1 DEF Worsens
  <2> QED
    BY <2>1 DEF IInv, TypeOK, Worsens, config, counters
<1>3. ASSUME NEW k \in Kinds PROVE InFlight(k)' /\ Counted(k)'
  <2>1. /\ InFlight(k) /\ Counted(k) /\ Watched(k)' = Watched(k) /\ path' = path
        /\ stage' = stage /\ unwell' = unwell \cup {d}
    BY DEF IInv, Worsens, config, Watched
  <2>2. Counted(k)'
    BY <2>1 DEF Worsens, Counted, counters
  <2>3. CASE probe[k].step = "idle"
    <3>1. probe'[k] = probe[k]
      BY <1>1, <2>3
    <3> QED
      BY <2>1, <2>2, <2>3, <3>1 DEF InFlight
  <2>4. CASE probe[k].step # "idle"
    <3> DEFINE r == probe'[k]
    <3>1. /\ r.step = probe[k].step /\ r.elapsed = probe[k].elapsed
          /\ r.db = probe[k].db /\ r.az = probe[k].az
          /\ r.sick = probe[k].sick \cup {d} /\ r.answered = probe[k].answered
          /\ r.elapsed \in Nat
      BY <1>1, <2>4, ProbeTypes DEF Probes
    <3> HIDE DEF r
    <3>2. /\ "database" \in probe[k].sick => "database" \in r.sick
          /\ "issuer" \in probe[k].sick => "issuer" \in r.sick
      BY <3>1
    <3>3. InFlight(k)'
      BY <2>1, <2>4, <3>1, <3>2 DEF InFlight, r, PingLimit, DiscoveryLimit
    <3> QED
      BY <2>2, <3>3
  <2> QED
    BY <2>3, <2>4
<1>4. Started'
  BY DEF IInv, TypeOK, Started, Worsens, counters
<1> QED
  BY <1>2, <1>3, <1>4 DEF IInv

LEMMA RecoversStep == ASSUME IInv, NEW d \in Deps, Recovers(d) PROVE IInv'
<1>1. TypeOK'
  BY DEF IInv, TypeOK, Recovers, config, counters
<1>2. ASSUME NEW k \in Kinds PROVE InFlight(k)' /\ Counted(k)'
  <2>1. InFlight(k) /\ Counted(k) /\ Watched(k)' = Watched(k)
    BY DEF IInv, Recovers, config, Watched
  <2>2. InFlight(k)'
    BY <2>1 DEF InFlight, Recovers, config
  <2>3. Counted(k)'
    BY <2>1 DEF Counted, Recovers, counters
  <2> QED
    BY <2>2, <2>3
<1>3. Started'
  BY DEF IInv, Started, Recovers, counters
<1> QED
  BY <1>1, <1>2, <1>3 DEF IInv

-------------------------------------------------------------------------------
(* The invariant, and what it says.                                         *)

LEMMA InitIInv == Init => IInv
<1> SUFFICES ASSUME Init PROVE IInv
  OBVIOUS
<1> USE Limits
<1>1. TypeOK
  <2>1. probe \in [Kinds -> Probes]
    BY NoProbeType DEF Init
  <2>2. /\ streak \in [Kinds -> 0..Threshold] /\ sickRow \in [Kinds -> 0..Threshold]
        /\ dryRow \in [Kinds -> 0..Threshold]
    BY DEF Init
  <2> QED
    BY <2>1, <2>2 DEF Init, TypeOK
<1>2. ASSUME NEW k \in Kinds PROVE InFlight(k) /\ Counted(k)
  <2>1. probe[k] = NoProbe /\ streak[k] = 0 /\ sickRow[k] = 0 /\ dryRow[k] = 0
    BY DEF Init
  <2> QED
    BY <2>1 DEF InFlight, Counted, NoProbe, PingLimit, DiscoveryLimit
<1>3. Started
  BY DEF Init, Started
<1> QED
  BY <1>1, <1>2, <1>3 DEF IInv

LEMMA StepIInv == IInv /\ [Next]_vars => IInv'
<1> SUFFICES ASSUME IInv, [Next]_vars PROVE IInv'
  OBVIOUS
<1>1. ASSUME NEW k \in Kinds, Probe(k) PROVE IInv'
  BY <1>1, BeginStep, DatabaseStep, IssuerStep, AnswerStep, HangUpStep, RefusedStep DEF Probe
<1>2. CASE Startup
  BY <1>2, StartupStep
<1>3. CASE HungDiscoveryFails \/ Restart
  BY <1>3, StopsClean DEF HungDiscoveryFails, Restart
<1>4. ASSUME NEW d \in Deps, Worsens(d) \/ Recovers(d) PROVE IInv'
  BY <1>4, WorsensStep, RecoversStep
<1>5. CASE UNCHANGED vars
  <2>1. UNCHANGED <<redirect, path, unwell, stage, probe, streak, ready, held, sickRow, dryRow>>
    BY <1>5 DEF vars, config, counters
  <2>2. TypeOK' /\ Started'
    BY <2>1 DEF IInv, TypeOK, Started
  <2>3. ASSUME NEW k \in Kinds PROVE InFlight(k)'
    <3>1. InFlight(k)
      BY DEF IInv
    <3>2. Watched(k)' = Watched(k)
      BY <2>1 DEF Watched
    <3> QED
      BY <2>1, <3>1, <3>2 DEF InFlight
  <2>4. \A k \in Kinds : Counted(k)'
    BY <2>1 DEF IInv, Counted
  <2> QED
    BY <2>2, <2>3, <2>4 DEF IInv
<1> QED
  BY <1>1, <1>2, <1>3, <1>4, <1>5 DEF Next

\* The invariant that the following rest on.
THEOREM InvariantHolds == Spec => []IInv
BY InitIInv, StepIInv, PTL DEF Spec

\* Every variable keeps its type; in particular no request lasts longer than
\* the two limits together.
THEOREM TypesHold == Spec => []TypeOK
<1>1. IInv => TypeOK
  BY DEF IInv
<1> QED
  BY <1>1, InvariantHolds, PTL

\* Neither a restart nor a loss of traffic without a dependency that failed in
\* each of the probes that led to it (health.go:71-102).
THEOREM RestartsHaveReasons == Spec => []NoGroundlessFailure
<1>1. IInv => NoGroundlessFailure
  BY DEF IInv, Counted, NoGroundlessFailure
<1> QED
  BY <1>1, InvariantHolds, PTL

\* Traffic only after a recent probe in which everything answered.
THEOREM TrafficIsEarned == Spec => []ReadyIsEarned
<1>1. IInv => ReadyIsEarned
  <2> SUFFICES ASSUME IInv PROVE ReadyIsEarned
    OBVIOUS
  <2>1. /\ streak["readiness"] \in 0..Threshold /\ dryRow["readiness"] \in 0..Threshold
        /\ dryRow["readiness"] <= streak["readiness"]
    BY DEF IInv, TypeOK, Counted, Kinds
  <2> QED
    BY <2>1, Limits DEF IInv, Started, ReadyIsEarned
<1> QED
  BY <1>1, InvariantHolds, PTL

\* The limits of health.go:158 and :253 fit the chart's liveness timeout one
\* by one, though not together.
THEOREM OneFaultGetsAnswer == Spec => []OneFaultIsAnswered
<1>1. IInv => OneFaultIsAnswered
  <2> SUFFICES ASSUME IInv, probe["liveness"].elapsed >= Timeout["liveness"]
               PROVE  probe["liveness"].sick = Deps
    BY DEF OneFaultIsAnswered
  <2>1. "liveness" \in Kinds
    BY DEF Kinds
  <2>2. probe["liveness"].elapsed \in Nat /\ probe["liveness"].sick \subseteq Deps
    BY <2>1, ProbeTypes
  <2>3. Timeout["liveness"] \in Nat /\ Timeout["liveness"] > 8
    BY <2>1, Limits
  <2>4. InFlight("liveness")
    BY <2>1 DEF IInv
  <2>5. "database" \in probe["liveness"].sick /\ "issuer" \in probe["liveness"].sick
    BY <2>2, <2>3, <2>4 DEF InFlight, PingLimit, DiscoveryLimit
  <2> QED
    BY <2>2, <2>5 DEF Deps
<1> QED
  BY <1>1, InvariantHolds, PTL

\* For every redirect URL, not only those of the small instance.
THEOREM RedirectWarnings == Spec => []WarningsSuffice
<1>1. IInv => WarningsSuffice
  <2> SUFFICES ASSUME IInv PROVE WarningsSuffice
    OBVIOUS
  <2>1. redirect \in Urls /\ redirect.suffix = ""
    BY Configured DEF IInv, TypeOK
  <2> QED
    BY <2>1, RedirectsAgree DEF WarningsSuffice
<1> QED
  BY <1>1, InvariantHolds, PTL

-------------------------------------------------------------------------------
(* Traffic returns, if probes, starts and restarts go on.                   *)

Well    == unwell = {}
Calm(k) == probe[k].sick = {}
Below   == streak["liveness"] < Threshold

\* The steps that are due whatever the dependencies do: a request goes on; a
\* probe begins where it is answered, and the liveness probe also where it is
\* refused; a container starts; one that has failed too often is restarted.
ProbeIsDue(k) ==
  \/ probe[k].step # "idle"
  \/ Below /\ (stage = "running" \/ (stage = "hung" /\ k = "liveness"))
StartIsDue    == stage \in {"stopped", "login", "usertoken"}
RestartIsDue  == stage # "stopped" /\ streak["liveness"] = Threshold

\* What FairSpec says of them, without the word "enabled".
ProbeGoesOn(k)  == []<>(~ProbeIsDue(k)) \/ []<><<Probe(k)>>_vars
StartGoesOn     == []<>(~StartIsDue) \/ []<><<Startup>>_vars
RestartFollows  == []<>(~RestartIsDue) \/ []<><<Restart>>_vars

\* What the counting of failures is for.
HungStartsEnd == stage = "hung" ~> ~(stage = "hung")

\* The two ways a probe ends.
LEMMA Concluded ==
  ASSUME IInv, NEW k \in Kinds, NEW success, NEW caused, NEW complete,
         Conclude(k, success, caused, complete)
  PROVE  /\ probe'[k] = NoProbe /\ \A j \in Kinds \ {k} : probe'[j] = probe[j]
         /\ streak'[k] = IF success THEN 0 ELSE Up1(streak[k])
         /\ \A j \in Kinds \ {k} : streak'[j] = streak[j]
         /\ k # "readiness" => ready' = ready
         /\ success /\ k = "readiness" => ready'
         /\ UNCHANGED <<unwell, stage, path>>
BY DEF IInv, TypeOK, Conclude, config

\* A request that found nothing amiss is answered in time, and well.
LEMMA CalmIsAnswered ==
  ASSUME IInv, NEW k \in Kinds, Calm(k)
  PROVE  /\ ~HangUp(k)
         /\ Answer(k) => StatusOK(k)
<1>1. probe[k].sick \cap Watched(k) = {}
  BY DEF Calm
<1>2. ~HangUp(k)
  BY <1>1, WaitingHasACause DEF HangUp
<1>3. Answer(k) => StatusOK(k)
  BY <1>1, AnswerIsRight DEF Answer
<1> QED
  BY <1>2, <1>3

\* What a step of a probe does to its request.
LEMMA ProbeMoves ==
  ASSUME IInv, NEW k \in Kinds, Probe(k)
  PROVE  /\ \A j \in Kinds \ {k} : probe'[j] = probe[j]
         /\ UNCHANGED <<unwell, stage, path>>
         /\ \/ /\ probe[k].step = "idle" /\ probe'[k].step \in {"database", "answer"}
               /\ probe'[k].sick = unwell /\ stage = "running"
               /\ UNCHANGED <<streak, ready>>
            \/ /\ <<probe[k].step, probe'[k].step>> \in
                    {<<"database", "issuer">>, <<"database", "answer">>, <<"issuer", "answer">>}
               /\ probe'[k].sick = probe[k].sick
               /\ UNCHANGED <<streak, ready>>
            \/ /\ Answer(k) \/ HangUp(k) \/ Refused(k)
               /\ probe'[k] = NoProbe
<1>1. CASE Refused(k)
  BY <1>1, Concluded DEF Refused
<1>2. CASE Begin(k)
  <2>1. probe[k] \in Probes
    BY ProbeTypes
  <2> QED
    BY <1>2, <2>1 DEF Begin, Probing, Probes, counters, config, IInv, TypeOK
<1>3. CASE checkDatabase(k)
  <2>1. probe[k] \in Probes
    BY ProbeTypes
  <2>2. PICK ok \in BOOLEAN, t \in Times : probe' = [probe EXCEPT ![k] = Pinged(k, ok, t)]
    BY <1>3 DEF checkDatabase
  <2>3. Pinged(k, ok, t).step \in {"issuer", "answer"} /\ Pinged(k, ok, t).sick = probe[k].sick
    BY <2>1 DEF Pinged, Probes
  <2> QED
    BY <1>3, <2>2, <2>3 DEF checkDatabase, counters, config, IInv, TypeOK
<1>4. CASE checkAzureADIssuer(k)
  <2>1. probe[k] \in Probes
    BY ProbeTypes
  <2>2. PICK ok \in BOOLEAN, t \in Times : probe' = [probe EXCEPT ![k] = Discovered(k, ok, t)]
    BY <1>4 DEF checkAzureADIssuer
  <2>3. Discovered(k, ok, t).step = "answer" /\ Discovered(k, ok, t).sick = probe[k].sick
    BY <2>1 DEF Discovered, Probes
  <2> QED
    BY <1>4, <2>2, <2>3 DEF checkAzureADIssuer, counters, config, IInv, TypeOK
<1>5. CASE Answer(k)
  BY <1>5, Concluded DEF Answer
<1>6. CASE HangUp(k)
  BY <1>6, Concluded DEF HangUp
<1> QED
  BY <1>1, <1>2, <1>3, <1>4, <1>5, <1>6 DEF Probe

\* What the container's own steps do.
LEMMA StartMoves ==
  ASSUME IInv, Startup, Well
  PROVE  /\ <<stage, stage'>> \in {<<"stopped", "login">>, <<"login", "usertoken">>,
                                   <<"usertoken", "running">>}
         /\ UNCHANGED <<probe, streak, ready>>
BY DEF Startup, StartContainer, NewAuthenticator, NewUserTokenAuthenticator, Discovery,
       StartupFails, Well, counters

LEMMA StopMoves ==
  ASSUME Stop
  PROVE  /\ stage' = "stopped" /\ Below'
         /\ \A k \in Kinds : Calm(k)' /\ probe'[k] = NoProbe
<1>1. /\ stage' = "stopped" /\ streak' = [k \in Kinds |-> 0]
      /\ probe' = [k \in Kinds |-> NoProbe]
  BY DEF Stop
<1>2. streak'["liveness"] < Threshold
  BY <1>1, Limits DEF Kinds
<1>3. NoProbe.sick = {}
  BY DEF NoProbe
<1> QED
  BY <1>1, <1>2, <1>3 DEF Below, Calm

\* The steps that are left while the dependencies stay up.
LEMMA StepsWhileWell ==
  ASSUME Well, Well', [Next]_vars
  PROVE  (\E k \in Kinds : Probe(k)) \/ Startup \/ HungDiscoveryFails \/ Restart \/ UNCHANGED vars
BY DEF Next, Well, Worsens, Recovers

\* A start that nothing holds up does not hang.
LEMMA NoNewHang ==
  ASSUME IInv, [Next]_vars, Well, Well', stage # "hung"
  PROVE  stage' # "hung"
<1>1. CASE \E k \in Kinds : Probe(k)
  BY <1>1, ProbeMoves
<1>2. CASE Startup
  BY <1>2, StartMoves
<1>3. CASE HungDiscoveryFails \/ Restart
  BY <1>3, StopMoves DEF HungDiscoveryFails, Restart
<1> QED
  BY <1>1, <1>2, <1>3, StepsWhileWell DEF vars

\* A probe that finds everything up stays calm, and so do the next ones.
LEMMA CalmStays ==
  ASSUME IInv, [Next]_vars, Well, Well', NEW k \in Kinds, Calm(k)
  PROVE  Calm(k)'
<1>1. CASE \E j \in Kinds : Probe(j)
  <2>1. PICK j \in Kinds : Probe(j)
    BY <1>1
  <2>2. CASE k = j
    <3>1. NoProbe.sick = {}
      BY DEF NoProbe
    <3> QED
      BY <2>1, <2>2, <3>1, ProbeMoves DEF Calm, Well
  <2>3. CASE k # j
    BY <2>1, <2>3, ProbeMoves DEF Calm
  <2> QED
    BY <2>2, <2>3
<1>2. CASE Startup
  BY <1>2, StartMoves DEF Calm
<1>3. CASE HungDiscoveryFails \/ Restart
  BY <1>3, StopMoves DEF HungDiscoveryFails, Restart
<1> QED
  BY <1>1, <1>2, <1>3, StepsWhileWell DEF vars, Calm

\* No probe is refused, or given up, any more.
LEMMA OnlySuccess ==
  ASSUME IInv, Well, stage # "hung", NEW k \in Kinds, Calm(k), Probe(k)
  PROVE  /\ streak'["liveness"] \in {0, streak["liveness"]}
         /\ ready => ready'
         /\ UNCHANGED stage
<1>1. ~HangUp(k) /\ (Answer(k) => StatusOK(k))
  BY CalmIsAnswered
<1>2. ~Refused(k)
  BY DEF Refused, Well
<1>3. CASE Answer(k)
  <2>1. Conclude(k, StatusOK(k), probe[k].sick \cap Watched(k) # {},
                 Watched(k) \subseteq probe[k].answered)
    BY <1>3 DEF Answer
  <2>2. /\ streak'[k] = 0 /\ \A j \in Kinds \ {k} : streak'[j] = streak[j]
        /\ k # "readiness" => ready' = ready
        /\ k = "readiness" => ready'
        /\ UNCHANGED stage
    BY <1>1, <1>3, <2>1, Concluded
  <2> QED
    BY <2>2 DEF Kinds
<1>4. CASE ~Answer(k)
  BY <1>1, <1>2, <1>4, ProbeMoves
<1> QED
  BY <1>3, <1>4

\* The pod is past what came of the failure.
Mended == stage # "hung" /\ Below /\ \A k \in Kinds : Calm(k)

LEMMA MendedStays ==
  ASSUME IInv, [Next]_vars, Well, Well', Mended
  PROVE  /\ Mended'
         /\ stage = "running" => stage' = "running"
         /\ stage = "running" /\ ready => ready'
<1>1. stage' # "hung" /\ \A k \in Kinds : Calm(k)'
  BY NoNewHang, CalmStays DEF Mended
<1>2. CASE \E j \in Kinds : Probe(j)
  <2>1. PICK j \in Kinds : Probe(j)
    BY <1>2
  <2>2. /\ streak'["liveness"] \in {0, streak["liveness"]}
        /\ ready => ready'
        /\ UNCHANGED stage
    BY <2>1, OnlySuccess DEF Mended
  <2>3. Below'
    BY <2>2, Limits DEF Mended, Below
  <2> QED
    BY <1>1, <2>2, <2>3 DEF Mended
<1>3. CASE Startup
  BY <1>1, <1>3, StartMoves DEF Mended, Below
<1>4. ~HungDiscoveryFails /\ ~Restart
  BY Limits DEF HungDiscoveryFails, Restart, Mended, Below
<1>5. CASE UNCHANGED vars
  BY <1>1, <1>5 DEF vars, counters, Mended, Below
<1> QED
  BY <1>2, <1>3, <1>4, <1>5, StepsWhileWell

\* A probe in flight comes to its end.
CalmComes(k) == <>[]Well => <>[](Well /\ Calm(k))

LEMMA EveryCalmComes ==
  ASSUME NEW k \in Kinds
  PROVE  Spec /\ ProbeGoesOn(k) => CalmComes(k)
<1> DEFINE At(s) == probe[k].step = s
<1>1. IInv => \/ Calm(k) \/ At("database") \/ At("issuer") \/ At("answer")
  <2> SUFFICES ASSUME IInv, At("idle") PROVE Calm(k)
    BY ProbeTypes
  <2>1. probe[k] = NoProbe
    BY DEF IInv, InFlight
  <2> QED
    BY <2>1 DEF Calm, NoProbe
<1>2. At("database") \/ At("issuer") \/ At("answer") => ProbeIsDue(k)
  BY DEF ProbeIsDue
<1>3. NoProbe.sick = {}
  BY DEF NoProbe
<1>4. IInv /\ <<Probe(k)>>_vars =>
        /\ At("database") => At("issuer")' \/ At("answer")' \/ Calm(k)'
        /\ At("issuer") => At("answer")' \/ Calm(k)'
        /\ At("answer") => Calm(k)'
  BY <1>3, ProbeMoves DEF Calm
<1>5. IInv /\ [Next]_vars /\ Well /\ Well' =>
        /\ At("database") => At("database")' \/ At("issuer")' \/ At("answer")' \/ Calm(k)'
        /\ At("issuer") => At("issuer")' \/ At("answer")' \/ Calm(k)'
        /\ At("answer") => At("answer")' \/ Calm(k)'
  <2> SUFFICES ASSUME IInv, [Next]_vars, Well, Well'
               PROVE \/ Calm(k)' \/ probe'[k] = probe[k]
                     \/ <<probe[k].step, probe'[k].step>> \in
                          {<<"database", "issuer">>, <<"database", "answer">>, <<"issuer", "answer">>}
                     \/ probe[k].step = "idle"
    OBVIOUS
  <2>1. CASE \E j \in Kinds : Probe(j)
    BY <1>3, <2>1, ProbeMoves DEF Calm
  <2>2. CASE Startup
    BY <2>2, StartMoves
  <2>3. CASE HungDiscoveryFails \/ Restart
    BY <2>3, StopMoves DEF HungDiscoveryFails, Restart
  <2> QED
    BY <2>1, <2>2, <2>3, StepsWhileWell DEF vars
<1>6. IInv /\ [Next]_vars /\ Well /\ Well' /\ Calm(k) => Calm(k)'
  BY CalmStays
<1> HIDE DEF At
<1> QED
  BY <1>1, <1>2, <1>4, <1>5, <1>6, InvariantHolds, PTL
  DEF Spec, ProbeGoesOn, CalmComes

\* What makes the pod dead or unable to start comes to an end.
LEMMA MendedComes ==
  /\ Spec /\ RestartFollows /\ HungStartsEnd
  /\ ProbeGoesOn("liveness") /\ ProbeGoesOn("readiness")
  => (<>[]Well => <>[](Well /\ Mended))
<1>1. Spec /\ ProbeGoesOn("liveness") => CalmComes("liveness")
  BY EveryCalmComes DEF Kinds
<1>2. Spec /\ ProbeGoesOn("readiness") => CalmComes("readiness")
  BY EveryCalmComes DEF Kinds
<1>3. IInv /\ [Next]_vars /\ Well /\ Well' /\ ~(stage = "hung") => ~(stage = "hung")'
  BY NoNewHang
<1>4. IInv /\ ~Below => RestartIsDue
  BY Limits DEF IInv, TypeOK, Counted, Kinds, Below, RestartIsDue
<1>5. <<Restart>>_vars => Below'
  BY StopMoves DEF Restart
<1>6. Mended <=> ~(stage = "hung") /\ Below /\ Calm("liveness") /\ Calm("readiness")
  BY DEF Mended, Kinds
<1>7. IInv /\ [Next]_vars /\ Well /\ Well' /\ Mended => Mended'
  BY MendedStays
<1> QED
  BY <1>1, <1>2, <1>3, <1>4, <1>5, <1>6, <1>7, InvariantHolds, PTL
  DEF Spec, RestartFollows, HungStartsEnd, CalmComes

\* A pod that is past it gets up,
LEMMA RunningComes ==
  Spec /\ StartGoesOn => (<>[](Well /\ Mended) => <>[](Well /\ Mended /\ stage = "running"))
<1>1. IInv /\ Mended => \/ stage = "stopped" \/ stage = "login" \/ stage = "usertoken"
                        \/ stage = "running"
  BY DEF IInv, TypeOK, Mended
<1>2. IInv /\ [Next]_vars /\ Well /\ Well' /\ Mended =>
        /\ stage = "stopped" => (stage = "stopped")' \/ (stage = "login")'
        /\ stage = "login" => (stage = "login")' \/ (stage = "usertoken")'
        /\ stage = "usertoken" => (stage = "usertoken")' \/ (stage = "running")'
        /\ stage = "running" => (stage = "running")'
  <2> SUFFICES ASSUME IInv, [Next]_vars, Well, Well', Mended
               PROVE  UNCHANGED stage \/ Startup
    BY StartMoves
  <2>1. CASE \E j \in Kinds : Probe(j)
    BY <2>1, ProbeMoves
  <2>2. ~HungDiscoveryFails /\ ~Restart
    BY Limits DEF HungDiscoveryFails, Restart, Mended, Below
  <2> QED
    BY <2>1, <2>2, StepsWhileWell DEF vars
<1>3. IInv /\ Well /\ <<Startup>>_vars =>
        /\ stage = "stopped" => (stage = "login")'
        /\ stage = "login" => (stage = "usertoken")'
        /\ stage = "usertoken" => (stage = "running")'
  BY StartMoves
<1>4. stage = "stopped" \/ stage = "login" \/ stage = "usertoken" => StartIsDue
  BY DEF StartIsDue
<1> QED
  BY <1>1, <1>2, <1>3, <1>4, InvariantHolds, PTL DEF Spec, StartGoesOn

\* and the next readiness probe gives it the traffic, for good.
LEMMA ReadyComes ==
  Spec /\ ProbeGoesOn("readiness") =>
    (<>[](Well /\ Mended /\ stage = "running") => <>[](stage = "running" /\ ready))
<1> DEFINE At(s) == probe["readiness"].step = s
<1>1. IInv => \/ At("idle") \/ At("database") \/ At("issuer") \/ At("answer")
  BY ProbeTypes DEF Kinds
<1>2. Mended /\ stage = "running" => ProbeIsDue("readiness")
  BY DEF Mended, ProbeIsDue
<1>3. ASSUME IInv, Well, Mended, stage = "running", Probe("readiness")
      PROVE  ready' \/ <<probe["readiness"].step, probe'["readiness"].step>> \in
                {<<"idle", "database">>, <<"idle", "answer">>, <<"database", "issuer">>,
                 <<"database", "answer">>, <<"issuer", "answer">>}
  <2>1. "readiness" \in Kinds /\ Calm("readiness")
    BY <1>3 DEF Mended, Kinds
  <2>2. ~HangUp("readiness") /\ (Answer("readiness") => StatusOK("readiness"))
    BY <1>3, <2>1, CalmIsAnswered
  <2>3. ~Refused("readiness")
    BY <1>3 DEF Refused, Well
  <2>4. CASE Answer("readiness")
    <3>1. Conclude("readiness", StatusOK("readiness"),
                   probe["readiness"].sick \cap Watched("readiness") # {},
                   Watched("readiness") \subseteq probe["readiness"].answered)
      BY <2>4 DEF Answer
    <3> QED
      BY <1>3, <2>1, <2>2, <2>4, <3>1, Concluded
  <2>5. CASE ~Answer("readiness")
    BY <1>3, <2>1, <2>2, <2>3, <2>5, ProbeMoves
  <2> QED
    BY <2>4, <2>5
<1>4. ASSUME IInv, [Next]_vars, Well, Well', Mended, stage = "running", ~Probe("readiness")
      PROVE  probe'["readiness"] = probe["readiness"]
  <2>1. CASE \E j \in Kinds : Probe(j)
    BY <1>4, <2>1, ProbeMoves DEF Kinds
  <2>2. ~HungDiscoveryFails /\ ~Restart
    BY <1>4, Limits DEF HungDiscoveryFails, Restart, Mended, Below
  <2> QED
    BY <1>4, <2>1, <2>2, StartMoves, StepsWhileWell DEF vars
<1>5. IInv /\ Well /\ Mended /\ stage = "running" /\ <<Probe("readiness")>>_vars =>
        \/ ready'
        \/ At("idle") /\ (At("database")' \/ At("answer")')
        \/ At("database") /\ (At("issuer")' \/ At("answer")')
        \/ At("issuer") /\ At("answer")'
  BY <1>3
<1>6. IInv /\ [Next]_vars /\ Well /\ Well' /\ Mended /\ stage = "running" =>
        \/ ready'
        \/ At("idle")
        \/ At("database") /\ (At("database")' \/ At("issuer")' \/ At("answer")')
        \/ At("issuer") /\ (At("issuer")' \/ At("answer")')
        \/ At("answer") /\ At("answer")'
  BY <1>1, <1>3, <1>4
<1>7. IInv /\ [Next]_vars /\ Well /\ Well' /\ Mended /\ stage = "running" => (ready => ready')
  BY MendedStays
<1>8. ~(At("idle") /\ At("database")) /\ ~(At("idle") /\ At("issuer")) /\ ~(At("idle") /\ At("answer"))
      /\ ~(At("database") /\ At("issuer")) /\ ~(At("database") /\ At("answer")) /\ ~(At("issuer") /\ At("answer"))
  OBVIOUS
<1> HIDE DEF At
<1> QED
  BY <1>1, <1>2, <1>5, <1>6, <1>7, <1>8, InvariantHolds, PTL DEF Spec, ProbeGoesOn

\* A hung start has no probe in flight, and each further one counts as a
\* failure.
LEMMA HungMoves ==
  ASSUME IInv, [Next]_vars, stage = "hung", stage' = "hung"
  PROVE  /\ streak'["liveness"] \in {streak["liveness"], streak["liveness"] + 1}
         /\ Probe("liveness") => streak'["liveness"] = streak["liveness"] + 1
         /\ ~Restart
<1>1. \A k \in Kinds : probe[k].step = "idle" /\ streak[k] \in 0..Threshold
  BY DEF IInv, TypeOK, InFlight
<1>2. ~Stop
  BY DEF Stop
<1>3. ASSUME NEW k \in Kinds, Probe(k)
      PROVE  /\ k = "liveness" => streak'[k] = streak[k] + 1
             /\ \A j \in Kinds \ {k} : streak'[j] = streak[j]
  <2>1. Probing(k) /\ Refused(k)
    BY <1>1, <1>3 DEF Probe, Refused, Begin, checkDatabase, checkAzureADIssuer, Answer, HangUp
  <2> QED
    BY <1>1, <2>1, Concluded, Limits DEF Refused, Probing, Up1
<1>4. ~Startup /\ ~HungDiscoveryFails /\ ~Restart
  BY <1>2 DEF Startup, StartContainer, NewAuthenticator, NewUserTokenAuthenticator,
              Discovery, StartupFails, HungDiscoveryFails, Restart
<1>5. CASE \E k \in Kinds : Probe(k)
  BY <1>3, <1>4, <1>5 DEF Kinds
<1>6. CASE UNCHANGED streak /\ ~\E k \in Kinds : Probe(k)
  BY <1>4, <1>6 DEF Kinds
<1> QED
  BY <1>4, <1>5, <1>6 DEF Next, Worsens, Recovers, counters, vars

\* A hung start is given up, although its discovery has no limit: after at
\* most three refused probes, as the chart has it (deployment.yaml:47), the
\* kubelet restarts the container.
THEOREM HungStartsAreRestarted ==
  ASSUME Threshold <= 3
  PROVE  Spec /\ ProbeGoesOn("liveness") /\ RestartFollows => HungStartsEnd
<1> DEFINE Hung == stage = "hung"
           At(n) == streak["liveness"] = n
<1>1. IInv => \/ Below /\ (At(0) \/ At(1) \/ At(2))
              \/ ~Below /\ streak["liveness"] = Threshold
  <2>1. Threshold \in {1, 2, 3}
    BY Limits
  <2>2. IInv => streak["liveness"] \in 0..Threshold
    BY DEF IInv, TypeOK, Kinds
  <2> QED
    BY <2>1, <2>2 DEF Below
<1>2. Hung /\ Below => ProbeIsDue("liveness")
  BY DEF ProbeIsDue
<1>3. Hung /\ streak["liveness"] = Threshold => RestartIsDue
  BY DEF RestartIsDue
<1>4. IInv /\ [Next]_vars /\ Hung =>
        /\ At(0) => ~Hung' \/ At(0)' \/ At(1)'
        /\ At(1) => ~Hung' \/ At(1)' \/ At(2)'
        /\ At(2) => ~Hung' \/ At(2)' \/ At(3)'
  BY HungMoves
<1>5. IInv /\ [Next]_vars /\ <<Probe("liveness")>>_vars /\ Hung =>
        /\ At(0) => ~Hung' \/ At(1)'
        /\ At(1) => ~Hung' \/ At(2)'
        /\ At(2) => ~Hung' \/ At(3)'
  BY HungMoves
<1>6. IInv /\ [Next]_vars /\ <<Restart>>_vars /\ Hung => ~Hung'
  BY HungMoves
<1>7. At(3) => ~At(0) /\ ~At(1) /\ ~At(2)
  OBVIOUS
<1>8. At(0) => ~At(1) /\ ~At(2)
  OBVIOUS
<1>9. At(1) => ~At(2)
  OBVIOUS
<1>10. IInv /\ [Next]_vars /\ Hung /\ ~Below => ~Hung' \/ ~Below'
  <2> SUFFICES ASSUME IInv, [Next]_vars, Hung, ~Below, Hung' PROVE ~Below'
    OBVIOUS
  <2>1. streak["liveness"] \in 0..Threshold
    BY DEF IInv, TypeOK, Kinds
  <2> QED
    BY <2>1, HungMoves, Limits DEF Below
<1> HIDE DEF Hung, At
<1>11. Spec /\ ProbeGoesOn("liveness") /\ RestartFollows => (Hung ~> ~Hung)
  BY <1>1, <1>2, <1>3, <1>4, <1>5, <1>6, <1>7, <1>8, <1>9, <1>10, InvariantHolds, PTL
  DEF Spec, ProbeGoesOn, RestartFollows
<1> QED
  BY <1>11 DEF HungStartsEnd, Hung

\* Traffic returns when both dependencies stay up, for any threshold, if a
\* start that hangs comes to its end,
THEOREM TrafficComesBack ==
  /\ Spec /\ ProbeGoesOn("liveness") /\ ProbeGoesOn("readiness")
  /\ StartGoesOn /\ RestartFollows /\ HungStartsEnd
  => TrafficReturns
<1>1. Well <=> unwell = {}
  BY DEF Well
<1> QED
  BY <1>1, MendedComes, RunningComes, ReadyComes, PTL DEF TrafficReturns

\* which it does at the chart's threshold: all it takes is that the kubelet
\* and the process make the steps that are due.
THEOREM TrafficComesBackWithChart ==
  ASSUME Threshold <= 3
  PROVE  /\ Spec /\ ProbeGoesOn("liveness") /\ ProbeGoesOn("readiness")
         /\ StartGoesOn /\ RestartFollows
         => TrafficReturns
BY HungStartsAreRestarted, TrafficComesBack, PTL

\* Under FairSpec the same, if a step that is due can be made.
CanProbe(k) == [](ProbeIsDue(k) => ENABLED <<Probe(k)>>_vars)

LEMMA ProbedGoesOn ==
  ASSUME NEW k \in Kinds
  PROVE  Probed(k) /\ CanProbe(k) => ProbeGoesOn(k)
BY PTL DEF Probed, CanProbe, ProbeGoesOn

COROLLARY FairTrafficComesBack ==
  ASSUME Threshold <= 3
  PROVE  /\ FairSpec
         /\ CanProbe("liveness") /\ CanProbe("readiness")
         /\ [](StartIsDue => ENABLED <<Startup>>_vars)
         /\ [](RestartIsDue => ENABLED <<Restart>>_vars)
         => TrafficReturns
<1>1. (\A k \in Kinds : Probed(k)) => Probed("liveness") /\ Probed("readiness")
  BY DEF Kinds
<1>2. Probed("liveness") /\ CanProbe("liveness") => ProbeGoesOn("liveness")
  BY ProbedGoesOn DEF Kinds
<1>3. Probed("readiness") /\ CanProbe("readiness") => ProbeGoesOn("readiness")
  BY ProbedGoesOn DEF Kinds
<1> QED
  BY <1>1, <1>2, <1>3, TrafficComesBackWithChart, PTL
  DEF FairSpec, StartGoesOn, RestartFollows
=============================================================================
