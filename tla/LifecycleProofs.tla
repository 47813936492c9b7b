--------------------------- MODULE LifecycleProofs ---------------------------
(***************************************************************************)
(* The safety of startup and shutdown for every number of requests and     *)
(* overlapping job runs, from the inductive invariant Lifecycle!IInv; and  *)
(* that the exit follows a signal or a failure.                            *)
(***************************************************************************)
EXTENDS Lifecycle, TLAPS

\* The startup has twelve steps.
LEMMA StartupLength == Len(Startup) = 12
BY DEF Startup

\* The pool is opened before the session store that uses it.
LEMMA StartupOrder ==
  ASSUME NEW i \in 1..12
  PROVE  /\ Startup[i] = "session_store" => i > 3
         /\ i = 3 => Startup[i] = "database"
         /\ i = 1 => Startup[i] = "telemetry"
BY DEF Startup

\* The initial state satisfies the invariant.
LEMMA InitIInv == Init => IInv
<1> SUFFICES ASSUME Init PROVE IInv
  OBVIOUS
<1>1. TypeOK
  <2>1. step \in StartupSteps
    BY StartupLength DEF Init, StartupSteps
  <2> QED
    BY <2>1 DEF Init, TypeOK
<1>2. Ordered
  BY DEF Init, Ordered, NothingBeforeService, ShutdownInOrder, WhyRunUnwinds
<1> QED
  BY <1>1, <1>2 DEF IInv

\* The types are kept.
LEMMA StepTypes == TypeOK /\ [Next]_vars => TypeOK'
<1> SUFFICES ASSUME TypeOK, [Next]_vars PROVE TypeOK'
  OBVIOUS
<1> USE DEF TypeOK, resources, work, control
<1>1. CASE StartupStep
  BY <1>1, StartupLength DEF StartupStep, StartupSteps
<1>2. CASE StartupFails
  BY <1>2 DEF StartupFails
<1>3. CASE StartService
  BY <1>3 DEF StartService
<1>4. CASE Listen \/ ListenFails \/ ListenReturns
  BY <1>4 DEF Listen, ListenFails, ListenReturns
<1>5. CASE WaitForShutdown
  BY <1>5 DEF WaitForShutdown
<1>6. CASE StopCleaner \/ CloseDB
  BY <1>6 DEF StopCleaner, CloseDB
<1>7. CASE Exit
  BY <1>7 DEF Exit
<1>8. CASE Signal
  BY <1>8 DEF Signal, Guarding
<1>9. CASE DrainEnds \/ DrainTimesOut
  <2>1. late' \subseteq {"listen", "drain", "jobs"} /\ guard' = "stop"
    BY <1>9 DEF DrainEnds, DrainTimesOut, Guarding
  <2> QED
    BY <1>9, <2>1 DEF DrainEnds, DrainTimesOut, Guarding
<1>10. CASE StopScheduler
  BY <1>10 DEF StopScheduler, Guarding
<1>11. CASE JobsEnd \/ JobsTimeOut
  <2>1. late' \subseteq {"listen", "drain", "jobs"} /\ guard' = "flush"
    BY <1>11 DEF JobsEnd, JobsTimeOut, Guarding
  <2> QED
    BY <1>11, <2>1 DEF JobsEnd, JobsTimeOut, Guarding
<1>12. CASE ShutdownTelemetry
  BY <1>12 DEF ShutdownTelemetry
<1>13. ASSUME NEW h \in Handlers, BeginRequest(h) \/ EndRequest(h) PROVE TypeOK'
  <2>1. handlers' \subseteq Handlers
    BY <1>13 DEF BeginRequest, EndRequest
  <2>2. UNCHANGED <<main, step, failed, server, sched, guard, late, db, cleaner, otel>>
    BY <1>13 DEF BeginRequest, EndRequest, Working
  <2>3. UNCHANGED <<jobs, logging>>
    BY <1>13 DEF BeginRequest, EndRequest
  <2> QED
    BY <2>1, <2>2, <2>3
<1>14. ASSUME NEW r \in Jobs \X Slots, BeginJob(r) \/ EndJob(r) \/ LogEntryDone(r)
       PROVE  TypeOK'
  <2>1. jobs' \subseteq Jobs \X Slots /\ logging' \subseteq Jobs \X Slots
    BY <1>14 DEF BeginJob, EndJob, LogEntryDone
  <2>2. UNCHANGED <<main, step, failed, server, sched, guard, late, db, cleaner, otel>>
    BY <1>14 DEF BeginJob, EndJob, LogEntryDone, Working
  <2>3. UNCHANGED handlers
    BY <1>14 DEF BeginJob, EndJob, LogEntryDone
  <2> QED
    BY <2>1, <2>2, <2>3
<1>15. CASE Sweep \/ SweepEnds
  BY <1>15 DEF Sweep, SweepEnds, Sweeping
<1>16. CASE UNCHANGED vars
  BY <1>16 DEF vars
<1> QED
  BY <1>1, <1>2, <1>3, <1>4, <1>5, <1>6, <1>7, <1>8, <1>9, <1>10, <1>11, <1>12,
     <1>13, <1>14, <1>15, <1>16
     DEF Next, Running, Failing, ShuttingDown, DoingWork, Exited

\* What orders startup and shutdown is kept.
LEMMA StepOrder == IInv /\ [Next]_vars => Ordered'
<1> SUFFICES ASSUME IInv, [Next]_vars PROVE Ordered'
  OBVIOUS
<1> USE DEF IInv, TypeOK, Ordered, NothingBeforeService, ShutdownInOrder, WhyRunUnwinds,
        resources, work, control
<1>1. CASE StartupStep
  <2>1. step \in 1..12
    BY <1>1, StartupLength DEF StartupStep, StartupSteps
  <2>2. /\ Startup[step] = "session_store" => step > 3
        /\ step = 3 => Startup[step] = "database"
        /\ step = 1 => Startup[step] = "telemetry"
    BY <2>1, StartupOrder
  <2>3. NothingBeforeService'
    <3>1. (db => db') /\ (otel => otel') /\ (step = 1 => otel')
      BY <1>1, <2>2 DEF StartupStep
    <3>2. step = 3 => db'
      BY <1>1, <2>2 DEF StartupStep
    <3>3. (step' > 3 => step > 3 \/ step = 3) /\ (step > 1 \/ step = 1)
      BY <1>1, <2>1 DEF StartupStep
    <3> QED
      BY <1>1, <3>1, <3>2, <3>3 DEF StartupStep
  <2>4. ShutdownInOrder' /\ WhyRunUnwinds'
    BY <1>1 DEF StartupStep
  <2>5. cleaner' # "off" => db'
    BY <1>1, <2>1, <2>2 DEF StartupStep
  <2>6. main' # "exited"
    BY <1>1 DEF StartupStep
  <2> QED
    BY <2>3, <2>4, <2>5, <2>6
<1>2. CASE StartupFails
  BY <1>2 DEF StartupFails
<1>3. CASE StartService
  BY <1>3, StartupLength DEF StartService, StartupSteps
<1>4. CASE Listen \/ ListenFails \/ ListenReturns
  BY <1>4 DEF Listen, ListenFails, ListenReturns
<1>5. CASE WaitForShutdown
  BY <1>5 DEF WaitForShutdown
<1>6. CASE StopCleaner \/ CloseDB
  BY <1>6 DEF StopCleaner, CloseDB
<1>7. CASE Exit
  BY <1>7 DEF Exit
<1>8. CASE Signal
  BY <1>8 DEF Signal, Guarding
<1>9. CASE DrainEnds \/ DrainTimesOut
  BY <1>9 DEF DrainEnds, DrainTimesOut, Guarding
<1>10. CASE StopScheduler
  BY <1>10 DEF StopScheduler, Guarding
<1>11. CASE JobsEnd \/ JobsTimeOut
  BY <1>11 DEF JobsEnd, JobsTimeOut, Guarding
<1>12. CASE ShutdownTelemetry
  BY <1>12 DEF ShutdownTelemetry
<1>13. ASSUME NEW h \in Handlers, BeginRequest(h) \/ EndRequest(h) PROVE Ordered'
  BY <1>13 DEF BeginRequest, EndRequest, Working
<1>14. ASSUME NEW r \in Jobs \X Slots, BeginJob(r) \/ EndJob(r) \/ LogEntryDone(r)
       PROVE  Ordered'
  BY <1>14 DEF BeginJob, EndJob, LogEntryDone, Working
<1>15. CASE Sweep \/ SweepEnds
  BY <1>15 DEF Sweep, SweepEnds, Sweeping
<1>16. CASE UNCHANGED vars
  BY <1>16 DEF vars
<1> QED
  BY <1>1, <1>2, <1>3, <1>4, <1>5, <1>6, <1>7, <1>8, <1>9, <1>10, <1>11, <1>12,
     <1>13, <1>14, <1>15, <1>16
     DEF Next, Running, Failing, ShuttingDown, DoingWork, Exited

\* Every step of the process keeps the invariant.
LEMMA StepIInv == IInv /\ [Next]_vars => IInv'
BY StepTypes, StepOrder DEF IInv

\* The invariant holds in every reachable state.
THEOREM Inductive == Spec => []IInv
<1>1. Init => IInv
  BY InitIInv
<1>2. IInv /\ [Next]_vars => IInv'
  BY StepIInv
<1> QED
  BY <1>1, <1>2, PTL DEF Spec

\* The types are correct.
THEOREM TypeCorrect == Spec => []TypeOK
<1>1. IInv => TypeOK
  BY DEF IInv
<1> QED
  BY <1>1, Inductive, PTL

\* The pool is closed under a handler or a job run only if a time limit passed
\* or the server failed, and never under the session cleanup.
THEOREM PoolOutlivesWork == Spec => []DatabaseOutlivesWork
<1>1. IInv => DatabaseOutlivesWork
  BY DEF IInv, TypeOK, Ordered, NothingBeforeService, ShutdownInOrder, WhyRunUnwinds,
         DatabaseOutlivesWork
<1> QED
  BY <1>1, Inductive, PTL

\* The shutdown goes in order, and an exit without error comes after the whole of
\* it: no request and no job is left but for a limit that ran out.
THEOREM CleanExit == Spec => []CleanExitIsComplete
<1>1. IInv => CleanExitIsComplete
  BY DEF IInv, TypeOK, Ordered, ShutdownInOrder, WhyRunUnwinds, CleanExitIsComplete
<1> QED
  BY <1>1, Inductive, PTL

-------------------------------------------------------------------------------
(* The exit follows, if the two goroutines go on.                           *)

\* Run has a step to make whatever handlers and jobs do: it unwinds with the
\* cleaner stopped, or the server has been shut, or the shutdown it waits for is
\* done.
RunIsDue ==
  \/ main = "unwind" /\ cleaner = "off"
  \/ main = "serve" /\ server = "shut"
  \/ main = "wait" /\ guard = "done"

\* The shutdown goroutine has one: it has been woken and is not done.
ShutdownIsDue == main # "exited" /\ guard \in {"drain", "stop", "await_jobs", "flush"}

\* A sweep of the session cleanup is under way, and the cleanup can be stopped.
SweepIsDue == main # "exited" /\ cleaner = "sweeping"
StopIsDue  == main = "unwind" /\ cleaner = "idle"

\* What Fairness says of the four, without the word "enabled".
RunGoesOn      == []<>(~RunIsDue) \/ []<><<Running>>_vars
ShutdownGoesOn == []<>(~ShutdownIsDue) \/ []<><<ShuttingDown>>_vars
SweepsEnd      == []<>(~SweepIsDue) \/ []<><<SweepEnds>>_vars
CleanerStops   == <>[](~StopIsDue) \/ []<><<StopCleaner>>_vars

\* Each goroutine goes through its stages in one direction, and Run leaves its
\* service with the server shut only by waiting for the shutdown.
LEMMA StagesGoForward ==
  ASSUME IInv, [Next]_vars
  PROVE  /\ guard' = guard \/ <<guard, guard'>> \in
              {<<"none", "waiting">>, <<"waiting", "drain">>, <<"drain", "stop">>,
               <<"stop", "await_jobs">>, <<"await_jobs", "flush">>, <<"flush", "done">>}
         /\ main' = main \/ <<main, main'>> \in
              {<<"startup", "serve">>, <<"startup", "unwind">>, <<"serve", "unwind">>,
               <<"serve", "wait">>, <<"wait", "unwind">>, <<"unwind", "exited">>}
         /\ main = "serve" /\ server = "shut" => server' = "shut" /\ main' # "unwind"
         /\ main = "unwind" => (cleaner = "off" => cleaner' = "off") /\ (db' => db)
<1> USE DEF resources, work, control
<1>1. CASE Running
  <2>1. main = "startup" => guard = "none"
    BY DEF IInv, Ordered, NothingBeforeService
  <2> QED
    BY <1>1, <2>1 DEF Running, StartupStep, StartService, Listen, ListenReturns,
                      WaitForShutdown, StopCleaner, CloseDB, Exit
<1>2. CASE Failing
  BY <1>2 DEF Failing, StartupFails, ListenFails
<1>3. CASE Signal \/ ShuttingDown
  BY <1>3 DEF IInv, Ordered, NothingBeforeService, ShutdownInOrder, WhyRunUnwinds,
              Signal, ShuttingDown, DrainEnds, DrainTimesOut, StopScheduler, JobsEnd,
              JobsTimeOut, ShutdownTelemetry, Guarding
<1>4. CASE DoingWork \/ UNCHANGED vars
  <2>1. UNCHANGED <<control, db>> /\ (cleaner = "off" => cleaner' = "off")
    BY <1>4 DEF DoingWork, BeginRequest, EndRequest, BeginJob, EndJob, LogEntryDone, Working,
                Sweep, SweepEnds, Sweeping, vars
  <2> QED
    BY <2>1
<1> QED
  BY <1>1, <1>2, <1>3, <1>4 DEF Next, Exited

\* What a step of each goroutine does when it is due.
LEMMA RunGoesForward ==
  ASSUME IInv, Running
  PROVE  /\ main = "serve" /\ server = "shut" => main' = "wait"
         /\ main = "wait" => main' = "unwind"
         /\ main = "unwind" /\ cleaner = "off" => (db /\ ~db') \/ main' = "exited"
BY DEF Running, StartupStep, StartService, Listen, ListenReturns, WaitForShutdown,
       StopCleaner, CloseDB, Exit, IInv, TypeOK, resources, work, control

LEMMA ShutdownGoesForward ==
  ASSUME ShuttingDown
  PROVE  /\ guard = "drain" => guard' = "stop"
         /\ guard = "stop" => guard' = "await_jobs"
         /\ guard = "await_jobs" => guard' = "flush"
         /\ guard = "flush" => guard' = "done"
BY DEF ShuttingDown, DrainEnds, DrainTimesOut, StopScheduler, JobsEnd, JobsTimeOut,
       ShutdownTelemetry, Guarding

\* Run that unwinds comes to the exit: the sweep under way ends, if there is one,
\* and between two sweeps the cleanup is stopped.
LEMMA UnwindingEnds ==
  Spec /\ RunGoesOn /\ SweepsEnd /\ CleanerStops => (main = "unwind" ~> main = "exited")
<1>1. IInv /\ [Next]_vars /\ main = "unwind" =>
        (main = "unwind")' \/ (main = "exited")'
  BY StagesGoForward
<1>2. IInv /\ [Next]_vars /\ main = "unwind" =>
        (cleaner = "off" => (cleaner = "off")') /\ (db' => db)
  BY StagesGoForward
<1>3. IInv /\ <<Running>>_vars /\ main = "unwind" /\ cleaner = "off" =>
        (db /\ ~db') \/ (main = "exited")'
  BY RunGoesForward
<1>4. /\ main = "unwind" /\ cleaner = "off" => RunIsDue
      /\ main = "unwind" /\ cleaner = "idle" => StopIsDue
      /\ main = "unwind" /\ cleaner = "sweeping" => SweepIsDue
  BY DEF RunIsDue, StopIsDue, SweepIsDue
<1>5. <<StopCleaner>>_vars => (cleaner = "off")'
  BY DEF StopCleaner
<1>6. <<SweepEnds>>_vars => (cleaner = "idle")'
  BY DEF SweepEnds, Sweeping
<1>7. IInv => cleaner = "off" \/ cleaner = "idle" \/ cleaner = "sweeping"
  BY DEF IInv, TypeOK
<1> QED
  BY <1>1, <1>2, <1>3, <1>4, <1>5, <1>6, <1>7, Inductive, PTL
     DEF Spec, RunGoesOn, SweepsEnd, CleanerStops

\* The shutdown goroutine gets done, or the process has exited before.
LEMMA ShutdownEnds ==
  Spec /\ ShutdownGoesOn => (guard = "drain" ~> (guard = "done" \/ main = "exited"))
<1>1. IInv /\ [Next]_vars =>
        /\ guard = "drain" => (guard = "drain")' \/ (guard = "stop")'
        /\ guard = "stop" => (guard = "stop")' \/ (guard = "await_jobs")'
        /\ guard = "await_jobs" => (guard = "await_jobs")' \/ (guard = "flush")'
        /\ guard = "flush" => (guard = "flush")' \/ (guard = "done")'
  BY StagesGoForward
<1>2. <<ShuttingDown>>_vars =>
        /\ guard = "drain" => (guard = "stop")'
        /\ guard = "stop" => (guard = "await_jobs")'
        /\ guard = "await_jobs" => (guard = "flush")'
        /\ guard = "flush" => (guard = "done")'
  BY ShutdownGoesForward
<1>3. guard = "drain" \/ guard = "stop" \/ guard = "await_jobs" \/ guard = "flush" =>
        main = "exited" \/ ShutdownIsDue
  BY DEF ShutdownIsDue
<1> QED
  BY <1>1, <1>2, <1>3, Inductive, PTL DEF Spec, ShutdownGoesOn

\* A shutdown that is done brings Run to its exit.
LEMMA DoneIsFollowedByExit ==
  Spec /\ RunGoesOn /\ SweepsEnd /\ CleanerStops => (guard = "done" ~> main = "exited")
<1>1. IInv /\ [Next]_vars /\ guard = "done" => (guard = "done")'
  BY StagesGoForward
<1>2. IInv /\ guard = "done" =>
        (main = "serve" /\ server = "shut") \/ main = "wait" \/ main = "unwind" \/ main = "exited"
  BY DEF IInv, TypeOK, Ordered, NothingBeforeService, ShutdownInOrder, WhyRunUnwinds
<1>3. IInv /\ [Next]_vars /\ main = "wait" => (main = "wait")' \/ (main = "unwind")'
  BY StagesGoForward
<1>4. IInv /\ [Next]_vars /\ main = "serve" /\ server = "shut" =>
        (main = "serve" /\ server = "shut")' \/ (main = "wait")'
  BY StagesGoForward
<1>5. IInv /\ <<Running>>_vars =>
        /\ main = "serve" /\ server = "shut" => (main = "wait")'
        /\ main = "wait" => (main = "unwind")'
  BY RunGoesForward
<1>6. (main = "serve" /\ server = "shut") \/ (main = "wait" /\ guard = "done") => RunIsDue
  BY DEF RunIsDue
<1>7. ~(main = "serve" /\ main = "wait")
  OBVIOUS
<1> QED
  BY <1>1, <1>2, <1>3, <1>4, <1>5, <1>6, <1>7, UnwindingEnds, Inductive, PTL DEF Spec, RunGoesOn

\* A signal or a failure is followed by the exit (cmd/run.go), although
\* handlers and jobs may never end: all it takes is that the two goroutines
\* make the steps that are due, that a sweep of the session cleanup ends and that
\* the cleanup takes the word to stop (cmd/session_store.go).
THEOREM ExitComes ==
  Spec /\ RunGoesOn /\ ShutdownGoesOn /\ SweepsEnd /\ CleanerStops => ExitFollows
<1>1. IInv /\ failed => main = "unwind" \/ main = "exited"
  BY DEF IInv, Ordered, WhyRunUnwinds
<1> QED
  BY <1>1, Inductive, UnwindingEnds, ShutdownEnds, DoneIsFollowedByExit, PTL DEF ExitFollows

\* Under FairSpec the exit follows if a step that is due can be made.
COROLLARY FairExitComes ==
  /\ FairSpec
  /\ [](RunIsDue => ENABLED <<Running>>_vars)
  /\ [](ShutdownIsDue => ENABLED <<ShuttingDown>>_vars)
  /\ [](SweepIsDue => ENABLED <<SweepEnds>>_vars)
  /\ [](StopIsDue => ENABLED <<StopCleaner>>_vars)
  => ExitFollows
BY ExitComes, PTL DEF FairSpec, Fairness, RunGoesOn, ShutdownGoesOn, SweepsEnd, CleanerStops
=============================================================================
