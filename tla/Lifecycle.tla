------------------------------ MODULE Lifecycle ------------------------------
(***************************************************************************)
(* One e5renew process from start to exit: the goroutine of Run, which     *)
(* starts everything up, listens, waits and unwinds its deferred calls;    *)
(* the goroutine that a signal wakes, which shuts everything down under    *)
(* three time limits; and the work they must not cut off: HTTP handlers,   *)
(* scheduled job runs and the goroutines that log a job's Graph call.      *)
(***************************************************************************)
EXTENDS Naturals, Sequences

CONSTANTS
  Handlers,  \* HTTP requests in progress (bounds the runs)
  Slots      \* overlapping runs of one job (bounds the runs)

VARIABLES
  main,      \* what Run is at
  step,      \* the next step of its startup
  failed,    \* Run returns an error
  db,        \* the connection pool is open
  cleaner,   \* the session store's cleanup goroutine: off, idle or sweeping
  otel,      \* the telemetry provider takes spans
  server,    \* the HTTP server
  sched,     \* the job scheduler
  guard,     \* the shutdown goroutine
  handlers,  \* requests being handled
  jobs,      \* job runs in progress
  logging,   \* job runs whose log entry is being written
  late       \* history: what was not waited for to the end

resources == <<db, cleaner, otel>>
work      == <<handlers, jobs, logging>>
control   == <<main, step, failed, server, sched, guard, late>>
vars      == <<control, resources, work>>

Jobs == {"e5_renewal_client_scope", "process_user_mail_tokens", "log_cleanup"}

\* Run's startup, step by step; each can fail, and Run then returns.
Startup ==
  << "telemetry", "metrics", "database", "session_store", "templates", "i18n",
     "authenticator", "user_token_authenticator", "encryption",
     "e5_renewal_client_scope", "process_user_mail_tokens", "log_cleanup" >>

Registered == {Startup[i] : i \in 1..(step - 1)} \cap Jobs

Init ==
  /\ main = "startup" /\ step = 1 /\ failed = FALSE
  /\ db = FALSE /\ cleaner = "off" /\ otel = FALSE
  /\ server = "new" /\ sched = "new" /\ guard = "none"
  /\ handlers = {} /\ jobs = {} /\ logging = {}
  /\ late = {}

-------------------------------------------------------------------------------
(* Run: startup, listening, the wait for the shutdown, the deferred calls.  *)

StartupStep ==
  /\ main = "startup"
  /\ step <= Len(Startup)
  /\ step'    = step + 1
  /\ otel'    = (otel \/ Startup[step] = "telemetry")
  /\ db'      = (db \/ Startup[step] = "database")
  /\ cleaner' = IF Startup[step] = "session_store" THEN "idle" ELSE cleaner
  /\ UNCHANGED <<main, failed, server, sched, guard, late, work>>

StartupFails ==
  /\ main = "startup"
  /\ step <= Len(Startup)
  /\ main'   = "unwind"
  /\ failed' = TRUE
  /\ UNCHANGED <<step, server, sched, guard, late, resources, work>>

\* The scheduler starts before the server listens.
StartService ==
  /\ main = "startup"
  /\ step > Len(Startup)
  /\ main'  = "serve"
  /\ sched' = "running"
  /\ guard' = "waiting"
  /\ UNCHANGED <<step, failed, server, late, resources, work>>

Listen ==
  /\ main = "serve"
  /\ server = "new"
  /\ server' = "listening"
  /\ UNCHANGED <<main, step, failed, sched, guard, late, resources, work>>

\* The address is taken, or accepting fails later.
ListenFails ==
  /\ main = "serve"
  /\ server # "shut"
  /\ main'   = "unwind"
  /\ failed' = TRUE
  /\ server' = "failed"
  /\ late'   = late \cup {"listen"}
  /\ UNCHANGED <<step, sched, guard, resources, work>>

\* ListenAndServe returns as soon as the shutdown begins, long before the
\* handlers are done; Run waits for the shutdown goroutine.
ListenReturns ==
  /\ main = "serve"
  /\ server = "shut"
  /\ main' = "wait"
  /\ UNCHANGED <<step, failed, server, sched, guard, late, resources, work>>

\* Fault: Run returns without waiting for the shutdown goroutine.
ReturnWithoutWaiting ==
  /\ main = "wait"
  /\ main' = "unwind"
  /\ UNCHANGED <<step, failed, server, sched, guard, late, resources, work>>

WaitForShutdown ==
  /\ main = "wait"
  /\ guard = "done"
  /\ main' = "unwind"
  /\ UNCHANGED <<step, failed, server, sched, guard, late, resources, work>>

\* The deferred calls, last first: the session store's cleanup, the pool.  The
\* cleanup goroutine takes the word only between two sweeps, and Run waits for it.
StopCleaner ==
  /\ main = "unwind"
  /\ cleaner = "idle"
  /\ cleaner' = "off"
  /\ UNCHANGED <<control, db, otel, work>>

CloseDB ==
  /\ main = "unwind"
  /\ db
  /\ cleaner = "off"
  /\ db' = FALSE
  /\ UNCHANGED <<control, cleaner, otel, work>>

\* Run returns and the process ends with it.
Exit ==
  /\ main = "unwind"
  /\ ~db
  /\ main'    = "exited"
  /\ logging' = {}
  /\ UNCHANGED <<step, failed, server, sched, guard, late, resources, handlers, jobs>>

-------------------------------------------------------------------------------
(* The shutdown goroutine.                                                  *)

Guarding(from, to) ==
  /\ main # "exited"
  /\ guard = from
  /\ guard' = to
  /\ UNCHANGED <<main, step, failed, otel, db, cleaner, work>>

\* The first signal; the channel takes no second one.
Signal ==
  /\ Guarding("waiting", "drain")
  /\ server' = IF server = "failed" THEN server ELSE "shut"
  /\ UNCHANGED <<sched, late>>

DrainEnds ==
  /\ Guarding("drain", "stop")
  /\ handlers = {}
  /\ UNCHANGED <<server, sched, late>>

\* Fault: the drain has no time limit.
DrainNeverTimesOut == Guarding("drain", "stop") /\ handlers = {} /\ UNCHANGED <<server, sched, late>>

\* Fault: the time limit ends the shutdown at once.
DrainTimeoutEndsShutdown ==
  /\ Guarding("drain", "done")
  /\ handlers # {}
  /\ late' = late \cup {"drain"}
  /\ UNCHANGED <<server, sched>>

\* Thirty seconds are over: the handlers go on, and so does the shutdown.
DrainTimesOut ==
  /\ Guarding("drain", "stop")
  /\ handlers # {}
  /\ late' = late \cup {"drain"}
  /\ UNCHANGED <<server, sched>>

\* The scheduler starts no further run and waits for those in progress.
StopScheduler ==
  /\ Guarding("stop", "await_jobs")
  /\ sched' = "stopped"
  /\ UNCHANGED <<server, late>>

JobsEnd ==
  /\ Guarding("await_jobs", "flush")
  /\ jobs = {}
  /\ UNCHANGED <<server, sched, late>>

JobsTimeOut ==
  /\ Guarding("await_jobs", "flush")
  /\ jobs # {}
  /\ late' = late \cup {"jobs"}
  /\ UNCHANGED <<server, sched>>

\* Telemetry is flushed, or ten seconds are over.
ShutdownTelemetry ==
  /\ main # "exited"
  /\ guard = "flush"
  /\ guard' = "done"
  /\ otel'  = FALSE
  /\ UNCHANGED <<main, step, failed, server, sched, late, db, cleaner, work>>

-------------------------------------------------------------------------------
(* The work.                                                                *)

Working == main # "exited" /\ UNCHANGED <<control, resources>>

BeginRequest(h) ==
  /\ Working
  /\ server = "listening"
  /\ h \notin handlers
  /\ handlers' = handlers \cup {h}
  /\ UNCHANGED <<jobs, logging>>

EndRequest(h) ==
  /\ Working
  /\ h \in handlers
  /\ handlers' = handlers \ {h}
  /\ UNCHANGED <<jobs, logging>>

\* A job starts on schedule, even while an earlier run of it is in progress.
BeginJob(r) ==
  /\ Working
  /\ sched = "running"
  /\ r[1] \in Registered
  /\ r \notin jobs \cup logging
  /\ jobs' = jobs \cup {r}
  /\ UNCHANGED <<handlers, logging>>

\* A run ends without waiting for the goroutine that logs its Graph call.
EndJob(r) ==
  /\ Working
  /\ r \in jobs
  /\ jobs' = jobs \ {r}
  /\ logging' = IF r[1] = "log_cleanup" THEN logging ELSE logging \cup {r}
  /\ UNCHANGED handlers

LogEntryDone(r) ==
  /\ Working
  /\ r \in logging
  /\ logging' = logging \ {r}
  /\ UNCHANGED <<handlers, jobs>>

\* The cleanup goroutine deletes the expired sessions, without a time limit.
Sweeping(from, to) ==
  /\ main # "exited"
  /\ cleaner = from
  /\ cleaner' = to
  /\ UNCHANGED <<control, db, otel, work>>

Sweep     == Sweeping("idle", "sweeping")
SweepEnds == Sweeping("sweeping", "idle")

-------------------------------------------------------------------------------

Running ==
  \/ StartupStep \/ StartService
  \/ Listen \/ ListenReturns \/ WaitForShutdown
  \/ StopCleaner \/ CloseDB \/ Exit

Failing == StartupFails \/ ListenFails

ShuttingDown ==
  \/ DrainEnds \/ DrainTimesOut
  \/ StopScheduler \/ JobsEnd \/ JobsTimeOut
  \/ ShutdownTelemetry

DoingWork ==
  \/ \E h \in Handlers : BeginRequest(h) \/ EndRequest(h)
  \/ \E r \in Jobs \X Slots : BeginJob(r) \/ EndJob(r) \/ LogEntryDone(r)
  \/ Sweep \/ SweepEnds

Exited == main = "exited" /\ UNCHANGED vars

Next == Running \/ Failing \/ Signal \/ ShuttingDown \/ DoingWork \/ Exited

Spec == Init /\ [][Next]_vars

\* Run and the shutdown goroutine are scheduled and their timers fire; a sweep
\* of the session cleanup comes to its end, for which the code has no limit, and
\* the cleanup goroutine does not for ever prefer another sweep to the word to
\* stop.  No handler and no job is assumed ever to end.
Fairness ==
  /\ WF_vars(Running)
  /\ WF_vars(ShuttingDown)
  /\ WF_vars(SweepEnds)
  /\ SF_vars(StopCleaner)

FairSpec == Spec /\ Fairness

-------------------------------------------------------------------------------
(* Properties.                                                              *)

StartupSteps == 1..(Len(Startup) + 1)

\* Every variable has its type.
TypeOK ==
  /\ main \in {"startup", "serve", "wait", "unwind", "exited"}
  /\ step \in StartupSteps
  /\ failed \in BOOLEAN /\ db \in BOOLEAN /\ otel \in BOOLEAN
  /\ cleaner \in {"off", "idle", "sweeping"}
  /\ server \in {"new", "listening", "shut", "failed"}
  /\ sched \in {"new", "running", "stopped"}
  /\ guard \in {"none", "waiting", "drain", "stop", "await_jobs", "flush", "done"}
  /\ handlers \subseteq Handlers
  /\ jobs \subseteq Jobs \X Slots /\ logging \subseteq Jobs \X Slots
  /\ late \subseteq {"listen", "drain", "jobs"}

\* The pool outlives the work: it is closed under a handler only if the drain
\* timed out or the server failed, under a job run only if waiting for the
\* jobs timed out or the server failed, and never under the session cleanup.
DatabaseOutlivesWork ==
  ~db =>
    /\ handlers # {} => late \cap {"listen", "drain"} # {}
    /\ jobs # {} => late \cap {"listen", "jobs"} # {}
    /\ cleaner = "off"

\* The shutdown goes in order: the scheduler is stopped only when the server takes
\* nothing more and its requests are done, the telemetry shut only when the jobs
\* are done too, unless a limit ran out; and Run returns without an error only
\* after all of it, with no request and no job left but for such a limit.
CleanExitIsComplete ==
  /\ sched = "stopped" =>
       server \in {"shut", "failed"} /\ (handlers = {} \/ "drain" \in late)
  /\ guard # "none" /\ ~otel => sched = "stopped" /\ (jobs = {} \/ "jobs" \in late)
  /\ main \in {"unwind", "exited"} /\ ~failed =>
       /\ server = "shut" /\ sched = "stopped" /\ ~otel
       /\ late = {} => handlers = {} /\ jobs = {}
       /\ main = "exited" => ~db /\ cleaner = "off"

\* Before the scheduler starts there is no shutdown goroutine, no request and
\* no job run, and after that the pool is open until Run unwinds.
NothingBeforeService ==
  /\ main = "startup" => guard = "none" /\ (step > 3 => db) /\ (step > 1 => otel)
  /\ main \in {"serve", "wait"} => db /\ guard # "none"
  /\ guard = "none" => server = "new" /\ sched = "new"
  /\ server = "new" => handlers = {}
  /\ sched = "new" => jobs = {}

\* What the shutdown goroutine has behind it is done, or did not wait.
ShutdownInOrder ==
  /\ guard \in {"drain", "stop", "await_jobs", "flush", "done"} => server \in {"shut", "failed"}
  /\ guard \in {"stop", "await_jobs", "flush", "done"} => handlers = {} \/ "drain" \in late
  /\ guard \in {"await_jobs", "flush", "done"} <=> sched = "stopped"
  /\ guard \in {"flush", "done"} => jobs = {} \/ "jobs" \in late
  /\ guard # "none" => (guard = "done" <=> ~otel)

\* Run unwinds after a failed startup, a failed server or the whole shutdown.
WhyRunUnwinds ==
  /\ server = "failed" => failed /\ "listen" \in late
  /\ failed => main \in {"unwind", "exited"}
  /\ main = "wait" => server = "shut"
  /\ main \in {"unwind", "exited"} =>
       IF failed THEN guard = "none" \/ server = "failed"
                 ELSE guard = "done" /\ server = "shut"

\* What orders startup and shutdown.
Ordered ==
  /\ NothingBeforeService
  /\ ShutdownInOrder
  /\ WhyRunUnwinds
  /\ cleaner # "off" => db
  /\ main = "exited" => ~db

\* The inductive invariant behind the safety of the shutdown.
IInv == TypeOK /\ Ordered

\* After a signal, or any failure, the process exits, even when handlers and
\* jobs hang for good, as long as a sweep of the session cleanup does not.
ExitFollows == (guard = "drain" \/ failed) ~> main = "exited"
=============================================================================
