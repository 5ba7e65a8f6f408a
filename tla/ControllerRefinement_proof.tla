---------------------- MODULE ControllerRefinement_proof ----------------------
(***************************************************************************)
(* SafetyController implements RunLifecycle, for any number of threads and *)
(* jobs: whatever its threads do to a run, the user sees one step of the   *)
(* lifecycle, or none.                                                     *)
(***************************************************************************)
EXTENDS SafetyController_proof

-----------------------------------------------------------------------------
(* What the mapping needs beyond the controller's invariant.               *)

\* A worker that has delivered its result starts its next job at the first event.
CleanInv == \A w \in Worker : stage[w] = "none" => done[w] = 0

\* No event was performed since the requests of the job before were withdrawn.
ReadyInv == \A t \in Watcher : watcher[t].pc = "launch" => grace = 0

\* A run that is shown and was told to stop is one the end of the program found.
StopInv == abortReq /\ state \in {"RUNNING", "PAUSED"} => main \in Closing

RunInv == CleanInv /\ ReadyInv /\ StopInv
Known == TypeOK /\ PollInv /\ CoreInv /\ RunInv

\* The job runner hands a worker back with nothing counted.
LEMMA CleanStep ==
    ASSUME TypeOK, CleanInv, [Next]_vars
    PROVE  CleanInv'
<1> USE DEF CleanInv
<1>1. /\ stage \in [Worker -> {"none", "working", "paused", "ended"}]
      /\ done \in [Worker -> Nat]
  BY DEF TypeOK, Job!TypeOK
<1>2. CASE UNCHANGED jobVars
  BY <1>2 DEF jobVars
<1>3. CASE Job!Withdraw \/ Job!RequestPause \/ Job!RequestResume \/ Job!RequestAbort
  BY <1>3 DEF Job!Withdraw, Job!RequestPause, Job!RequestResume, Job!RequestAbort
<1>4. ASSUME NEW w \in Worker, Job!Start(w)
      PROVE  CleanInv'
  BY <1>1, <1>4 DEF Job!Start
<1>5. ASSUME NEW w \in Worker, Job!Perform(w)
      PROVE  CleanInv'
  BY <1>1, <1>5 DEF Job!Perform
<1>6. ASSUME NEW w \in Worker, Job!Suspend(w) \/ Job!Continue(w) \/ Job!End(w)
      PROVE  CleanInv'
  BY <1>1, <1>6 DEF Job!Suspend, Job!Continue, Job!End
<1>7. ASSUME NEW w \in Worker, Job!Deliver(w)
      PROVE  CleanInv'
  BY <1>1, <1>7 DEF Job!Deliver
<1> QED
  BY <1>2, <1>3, <1>4, <1>5, <1>6, <1>7, JobSteps DEF Job!Next

\* Requests that the thread in _start_run could meet come from shutdown() alone.
LEMMA ReadyStep ==
    ASSUME TypeOK, PollInv, CoreInv, ReadyInv, [Next]_vars
    PROVE  ReadyInv'
<1> USE DEF ReadyInv
<1>1. watcher \in [Watcher -> WatcherLocals]
  BY DEF TypeOK, WatcherLocals
<1>2. Free => \A t \in Watcher : watcher[t].pc # "launch"
  BY ThreadAssumption DEF Free, CoreInv, LockInv, Starting
<1>3. CASE UNCHANGED <<watcher, grace>>
  BY <1>3
<1>4. CASE Interface
  <2>1. CASE UserPause \/ UserResume
    BY <1>2, <2>1 DEF UserPause, UserResume
  <2>4. CASE ResumeContinues
    <3>1. lock = MainThread
      BY <2>4 DEF ResumeContinues, CoreInv, ResumeInv, Resuming
    <3>2. \A t \in Watcher : watcher[t].pc # "launch"
      BY <3>1, ThreadAssumption DEF CoreInv, LockInv, Starting
    <3> QED
      BY <2>4, <3>2 DEF ResumeContinues
  <2>2. CASE Abort \/ ShutdownAbort
    BY <2>2 DEF Abort, ShutdownAbort, Job!RequestAbort
  <2>3. ASSUME NEW t \in Watcher, BeginTyping(t)
        PROVE  ReadyInv'
    BY <2>3, WatcherBegins DEF BeginTyping, jobVars
  <2> QED
    BY <1>3, <1>4, <2>1, <2>2, <2>3, <2>4 DEF Interface, CurrentFrontmost, BeginRefused,
       TogglePause, SelfHasFocus, CancelArming, AbortReturns, Reset, Prepare, Shutdown, ShutdownStop,
       ShutdownJoin, threadVars, jobVars
<1>5. ASSUME NEW t \in Watcher, Watch(t)
      PROVE  ReadyInv'
  <2>1. /\ \A u \in Watcher : u # t => watcher'[u] = watcher[u]
        /\ watcher'[t].pc = "launch" => watcher[t].pc = "start" /\ StartRun(t)
    <3>1. "fail" \in WatcherPC /\ "look" \in WatcherPC /\ "launch" \in WatcherPC
          /\ "monitor" \in WatcherPC
      BY DEF WatcherPC
    <3>2. CASE Ends(t)
      BY <1>1, <3>2, WatcherEnds
    <3>3. CASE Look(t)
      BY <1>1, <3>3, WatcherLooked
    <3>4. CASE At(t, "fail") \/ At(t, "look") \/ At(t, "monitor")
      BY <1>1, <3>1, <3>4, WatcherAt
    <3>5. CASE At(t, "launch") /\ StartRun(t)
      BY <1>1, <3>1, <3>5, WatcherAt DEF StartRun
    <3> QED
      BY <1>5, <3>2, <3>3, <3>4, <3>5 DEF Watch, Check, WatchFails, StartRun, Launch,
         StartMonitor
  <2>2. CASE StartRun(t)
    <3>1. CASE Ends(t)
      BY <1>1, <1>2, <2>2, <3>1, WatcherEnds DEF StartRun
    <3>2. CASE Job!Withdraw
      BY <3>2 DEF Job!Withdraw
    <3> QED
      BY <2>2, <3>1, <3>2 DEF StartRun
  <2>3. CASE ~StartRun(t)
    BY <1>5, <2>1, <2>3 DEF Watch, Check, Look, WatchFails, Launch, StartMonitor,
       jobVars, Job!Start
  <2> QED
    BY <2>2, <2>3
<1>6. ASSUME NEW n \in Monitor, Mind(n)
      PROVE  ReadyInv'
  <2>1. CASE AutoPause(n) \/ AutoResume(n)
    BY <1>2, <2>1 DEF AutoPause, AutoResume
  <2> QED
    BY <1>3, <1>6, <2>1 DEF Mind, Poll, CheckFocus, TryAutoResume, CompareCaret,
       monitorOnly, jobVars
<1>7. ASSUME NEW w \in Worker, Work(w) \/ WorkEnds(w) \/ Report(w) \/ Finish(w)
      PROVE  ReadyInv'
  <2>1. CASE Job!Perform(w)
    <3>1. \A t \in Watcher : watcher[t].pc # "launch"
      BY <2>1 DEF Job!Perform, CoreInv, LockInv
    <3> QED
      BY <1>7, <3>1 DEF Work, WorkEnds, Report, Finish, threadVars
  <2> QED
    BY <1>3, <1>7, <2>1 DEF Work, WorkEnds, Report, Finish, threadVars, jobVars,
       Job!Suspend, Job!Continue, Job!End, Job!Deliver
<1>8. CASE MoveFocus \/ MoveCaret \/ UNCHANGED vars
  BY <1>3, <1>8 DEF MoveFocus, MoveCaret, vars, threadVars, jobVars
<1> QED
  BY <1>4, <1>5, <1>6, <1>7, <1>8 DEF Next

\* abort() takes the run off the screen in the step that stops it.
LEMMA StopStep ==
    ASSUME TypeOK, CoreInv, CoreInv', StopInv, [Next]_vars
    PROVE  StopInv'
<1> USE DEF StopInv
<1>1. main \in Closing => main' \in Closing
  BY StaysClosing
<1>2. CASE UNCHANGED <<state, abortReq>>
  BY <1>1, <1>2
<1>3. CASE Interface
  <2>1. CASE UserPause \/ ResumeContinues
    BY <1>1, <2>1, Moves DEF UserPause, Paused, ResumeContinues, Resumed, jobVars,
       Job!RequestPause, Job!RequestResume
  <2>2. CASE Abort
    BY <2>2, Moves DEF Abort, CoreInv
  <2>3. CASE ShutdownAbort
    <3>1. WindowCloses[2] \in Closing /\ ProgramEnds[2] \in Closing
      BY 2 \in 1 .. 4 DEF Closing
    <3> QED
      BY <2>3, <3>1 DEF ShutdownAbort, Closes
  <2>4. ASSUME NEW p \in Plan, Prepare(p)
        PROVE  StopInv'
    BY <2>4, Moves DEF Prepare
  <2>5. CASE BeginRefused \/ CancelArming \/ Reset
    BY <1>1, <2>5, Moves DEF BeginRefused, CancelArming, Reset, jobVars
  <2>6. ASSUME NEW t \in Watcher, BeginTyping(t)
        PROVE  StopInv'
    BY <1>2, <2>6 DEF BeginTyping, jobVars
  <2> QED
    BY <1>2, <1>3, <2>1, <2>2, <2>3, <2>4, <2>5, <2>6 DEF Interface, CurrentFrontmost,
       TogglePause, UserResume, SelfHasFocus, AbortReturns, Shutdown, ShutdownStop, ShutdownJoin, jobVars
<1>4. ASSUME NEW t \in Watcher, Watch(t)
      PROVE  StopInv'
  <2>1. CASE WatchFails(t)
    <3>1. state \notin {"RUNNING", "PAUSED"}
      BY <2>1 DEF WatchFails, CoreInv, WatchInv, Waiting
    <3> QED
      BY <2>1, <3>1, Moves DEF WatchFails, TypeOK, AppState, Terminal, CoreInv, StateInv
  <2>2. CASE StartRun(t) /\ ~UNCHANGED <<state, abortReq>>
    <3>1. ~Executing
      <4>1. main # "join" /\ state = "ARMING"
        BY <2>2 DEF StartRun, CoreInv, JoinInv, jobVars
      <4> QED
        BY <4>1 DEF CoreInv, QuietInv, Executing, Job!Executing
    <3> QED
      BY <2>2, <3>1 DEF StartRun, Job!Withdraw, jobVars
  <2> QED
    BY <1>2, <1>4, <2>1, <2>2 DEF Watch, Check, Look, Launch, StartMonitor, jobVars, Job!Start
<1>5. ASSUME NEW n \in Monitor, Mind(n)
      PROVE  StopInv'
  <2>1. CASE AutoPause(n) \/ AutoResume(n)
    BY <1>1, <2>1, Moves DEF AutoPause, Paused, AutoResume, Resumed, jobVars,
       Job!RequestPause, Job!RequestResume
  <2> QED
    BY <1>2, <1>5, <2>1 DEF Mind, Poll, CheckFocus, TryAutoResume, CompareCaret,
       monitorOnly, jobVars
<1>6. ASSUME NEW w \in Worker, Work(w) \/ WorkEnds(w) \/ Report(w) \/ Finish(w)
      PROVE  StopInv'
  <2>1. CASE Finish(w)
    <3>1. state \notin {"RUNNING", "PAUSED"} => state' \notin {"RUNNING", "PAUSED"}
      BY <2>1, Moves DEF Finish, StateAfter, TypeOK, AppState, Active, CoreInv, StateInv
    <3>2. abortReq' = abortReq
      BY <2>1 DEF Finish, Job!Deliver
    <3> QED
      BY <1>1, <3>1, <3>2
  <2> QED
    BY <1>2, <1>6, <2>1 DEF Work, WorkEnds, Report, jobVars, Job!Perform,
       Job!Suspend, Job!Continue, Job!End
<1>7. CASE MoveFocus \/ MoveCaret \/ UNCHANGED vars
  BY <1>2, <1>7 DEF MoveFocus, MoveCaret, vars, jobVars
<1> QED
  BY <1>3, <1>4, <1>5, <1>6, <1>7 DEF Next

\* All of it holds in every state.
LEMMA KnownAlways ==
    ASSUME ~SlowWatcher, ~SlowWorker
    PROVE  Spec => []Known
<1>1. Init => RunInv
  BY DEF Init, Job!Init, RunInv, CleanInv, ReadyInv, StopInv, IdleWatcher
<1>2. Init => Known
  BY <1>1, ControllerTypeInit, CoreInit DEF Known
<1>3. Known /\ [Next]_vars => Known'
  BY ControllerTypeStep, CoreStep, CleanStep, ReadyStep, StopStep DEF Known, RunInv
<1> QED
  BY <1>2, <1>3, PTL DEF Spec

-----------------------------------------------------------------------------
(* What the mapping shows.                                                 *)

\* The values ImplementsRunLifecycle gives the lifecycle's variables.
Launching == \E t \in Watcher : watcher[t].pc = "launch"
JobShown == IF Executing THEN "live" ELSE IF Left THEN status[Current]
            ELSE IF Launching THEN "starting" ELSE "none"
TypedShown == IF Left THEN done[Current] ELSE 0
LengthShown == IF Left THEN total[Current] ELSE 0
SlipShown == IF Executing /\ (state # "RUNNING" \/ abortReq) THEN grace ELSE 0
OwnShown == state = "PAUSED" /\ ~autoPaused

\* Whatever moves the focus or the interface thread otherwise: nobody asks to resume,
\* and who has asked is still looking at the same pause.
Turned ==
    /\ (focus \in {target, NoApp})' \in BOOLEAN
    /\ (main \in {"overlay", "continue"})' \in BOOLEAN
    /\ (main \in {"overlay", "continue"})' =>
          main \in {"overlay", "continue"} /\ state' = state

\* resume() holds the lock, so the pause it looks at stays.
LEMMA NobodyAsks ==
    ASSUME Known, Known', Resuming' => Resuming
    PROVE  Turned
<1>1. Resuming' => state = "PAUSED" /\ state' = "PAUSED"
  BY DEF Known, CoreInv, ResumeInv
<1> QED
  BY <1>1 DEF Turned, Resuming

\* The job shown is that of the newest worker, while it has one.
ThreadsJob ==
    /\ Executing <=> thread \in Worker /\ stage[thread] \in {"working", "paused"}
    /\ Left <=> thread \in Worker /\ stage[thread] # "none"
    /\ Left => Current = thread
    /\ Launching => ~Left /\ state = "RUNNING" /\ grace = 0
    /\ Left => state \in {"RUNNING", "PAUSED"} \/ main = "join"

\* So the choice of a current job is no choice.
LEMMA OneThread == Known => ThreadsJob
<1> SUFFICES ASSUME Known
             PROVE  ThreadsJob
  OBVIOUS
<1>1. Left <=> thread \in Worker /\ stage[thread] # "none"
  BY DEF Known, CoreInv, ThreadInv, Left
<1>2. Left => Current = thread
  BY <1>1 DEF Known, CoreInv, ThreadInv, Left, Current
<1>3. Executing <=> thread \in Worker /\ stage[thread] \in {"working", "paused"}
  BY DEF Known, CoreInv, ThreadInv, Executing, Job!Executing
<1>4. Launching => ~Left /\ state = "RUNNING" /\ grace = 0
  BY DEF Launching, Left, Known, CoreInv, LockInv, RunInv, ReadyInv, Starting
<1>5. Left => state \in {"RUNNING", "PAUSED"} \/ main = "join"
  BY DEF Left, Known, CoreInv, QuietInv
<1> QED
  BY <1>1, <1>2, <1>3, <1>4, <1>5 DEF ThreadsJob

\* After a step as well.
LEMMA OneThreadNext == Known' => ThreadsJob'
BY OneThread, PTL

\* A step that leaves the job alone leaves what is shown of it alone.
LEMMA SameJob ==
    ASSUME ThreadsJob, ThreadsJob', UNCHANGED <<stage, total, done, status, thread>>,
           Launching' <=> Launching
    PROVE  /\ JobShown' = JobShown /\ TypedShown' = TypedShown /\ LengthShown' = LengthShown
           /\ (Executing' <=> Executing)
<1>1. (Executing' <=> Executing) /\ (Left' <=> Left)
  BY DEF ThreadsJob
<1>2. Left => Current = thread /\ Current' = thread
  BY <1>1 DEF ThreadsJob
<1>3. Left => status'[Current'] = status[Current] /\ done'[Current'] = done[Current]
              /\ total'[Current'] = total[Current]
  BY <1>2
<1> QED
  BY <1>1, <1>3 DEF JobShown, TypedShown, LengthShown

\* A step that the lifecycle shows no sign of.
LEMMA Unseen ==
    ASSUME ThreadsJob, ThreadsJob', Turned, UNCHANGED <<state, autoPaused, thread>>,
           UNCHANGED jobVars, Launching' <=> Launching
    PROVE  Lifecycle!Next
<1>1. /\ JobShown' = JobShown /\ TypedShown' = TypedShown /\ LengthShown' = LengthShown
      /\ (Executing' <=> Executing)
  BY SameJob DEF jobVars
<1>2. SlipShown' = SlipShown /\ OwnShown' = OwnShown
  BY <1>1 DEF SlipShown, OwnShown, jobVars
<1> QED
  BY <1>1, <1>2 DEF Lifecycle!Next, Lifecycle!Turn, JobShown, TypedShown, LengthShown,
     SlipShown, OwnShown, jobVars, Launching, Turned

\* Outside a run the lifecycle shows no job.
LEMMA NothingShown ==
    ASSUME ThreadsJob, ThreadsJob', UNCHANGED jobVars, UNCHANGED thread, main # "join",
           state \notin {"RUNNING", "PAUSED"}, state' \notin {"RUNNING", "PAUSED"}
    PROVE  /\ JobShown = "none" /\ JobShown' = "none"
           /\ TypedShown = 0 /\ TypedShown' = 0 /\ LengthShown = 0 /\ LengthShown' = 0
           /\ SlipShown = 0 /\ SlipShown' = 0
           /\ OwnShown = FALSE /\ OwnShown' = FALSE /\ abortReq' = abortReq
<1>1. ~Left /\ ~Executing /\ ~Launching
  BY DEF ThreadsJob
<1>2. ~Left' /\ ~Executing' /\ ~Launching'
  BY <1>1 DEF ThreadsJob, jobVars
<1> QED
  BY <1>1, <1>2 DEF JobShown, TypedShown, LengthShown, SlipShown, OwnShown, jobVars

\* So there a move of the state is the arming, the disarming or the putting away.
LEMMA Quietly ==
    ASSUME ThreadsJob, ThreadsJob', Turned, UNCHANGED jobVars, UNCHANGED thread,
           main # "join",
           \/ state = "IDLE" /\ state' \in {"IDLE", "ARMING", "ERROR"}
           \/ state = "ARMING" /\ state' \in {"ABORTED", "ERROR"}
           \/ state \in Terminal /\ state' = "IDLE"
    PROVE  Lifecycle!Next
<1>1. state \notin {"RUNNING", "PAUSED"} /\ state' \notin {"RUNNING", "PAUSED"}
  BY DEF Terminal
<1>2. /\ JobShown = "none" /\ JobShown' = "none"
      /\ TypedShown = 0 /\ TypedShown' = 0 /\ LengthShown = 0 /\ LengthShown' = 0
      /\ SlipShown = 0 /\ SlipShown' = 0
      /\ OwnShown = FALSE /\ OwnShown' = FALSE /\ abortReq' = abortReq
  BY <1>1, NothingShown
<1>4. CASE state = "IDLE" /\ state' = "IDLE"
  BY <1>2, <1>4 DEF Lifecycle!Next, Lifecycle!Turn, JobShown, TypedShown,
     LengthShown, SlipShown, OwnShown, Launching, Turned
<1>5. CASE state = "IDLE" /\ state' \in {"ARMING", "ERROR"}
  BY <1>2, <1>5 DEF Lifecycle!Next, Lifecycle!Arm, JobShown, TypedShown,
     LengthShown, SlipShown, OwnShown, Launching, Turned
<1>6. CASE state = "ARMING" /\ state' \in {"ABORTED", "ERROR"}
  BY <1>2, <1>6 DEF Lifecycle!Next, Lifecycle!Disarm, JobShown, TypedShown,
     LengthShown, SlipShown, OwnShown, Launching, Turned
<1>7. CASE state \in Terminal /\ state' = "IDLE"
  BY <1>2, <1>7 DEF Lifecycle!Next, Lifecycle!PutAway, Lifecycle!NoJob,
     Lifecycle!Terminal, Terminal, JobShown, TypedShown, LengthShown, SlipShown, OwnShown, Launching, Turned
<1> QED
  BY <1>4, <1>5, <1>6, <1>7

\* Pausing is the lifecycle's pause, whoever pauses; the request it makes is new.
LEMMA Pauses ==
    ASSUME Known, Known', Turned, NEW a \in BOOLEAN, state = "RUNNING", Paused(a),
           UNCHANGED <<thread, watcher>>
    PROVE  Lifecycle!Next
<1>1. ThreadsJob /\ ThreadsJob'
  BY OneThread, OneThreadNext
<1>2. /\ state' = "PAUSED" /\ autoPaused' = a /\ Job!RequestPause
  BY Moves DEF Paused
<1>3. Launching' <=> Launching
  BY DEF Launching
<1>4. UNCHANGED <<stage, total, done, status, thread>> /\ abortReq' = abortReq
      /\ grace' = IF pauseReq \/ abortReq THEN grace ELSE 0
  BY <1>2 DEF Job!RequestPause
<1>5. /\ JobShown' = JobShown /\ TypedShown' = TypedShown /\ LengthShown' = LengthShown
      /\ (Executing' <=> Executing)
  BY <1>1, <1>3, <1>4, SameJob
<1>6. Executing /\ ~abortReq => ~pauseReq
  BY DEF Known, CoreInv, StateMatchesRequests
<1>7. SlipShown' = SlipShown
  BY <1>2, <1>4, <1>5, <1>6 DEF SlipShown
<1>8. OwnShown' \in BOOLEAN
  BY DEF OwnShown
<1> QED
  BY <1>2, <1>4, <1>5, <1>7, <1>8 DEF Lifecycle!Next, Lifecycle!Pause, JobShown, TypedShown,
     LengthShown, SlipShown, OwnShown, Launching, Turned

\* Resuming is the lifecycle's, and ends a pause of the user's only on request.
LEMMA Resumes ==
    ASSUME Known, Known', Turned, state = "PAUSED", Resumed, autoPaused \/ Resuming,
           UNCHANGED <<thread, watcher>>
    PROVE  Lifecycle!Next
<1>1. ThreadsJob /\ ThreadsJob'
  BY OneThread, OneThreadNext
<1>2. state' = "RUNNING" /\ autoPaused' = FALSE /\ Job!RequestResume
  BY Moves DEF Resumed
<1>3. Launching' <=> Launching
  BY DEF Launching
<1>4. UNCHANGED <<stage, total, done, status, thread>> /\ abortReq' = abortReq
      /\ grace' = IF abortReq THEN grace ELSE 0
  BY <1>2 DEF Job!RequestResume
<1>5. /\ JobShown' = JobShown /\ TypedShown' = TypedShown /\ LengthShown' = LengthShown
      /\ (Executing' <=> Executing)
  BY <1>1, <1>3, <1>4, SameJob
<1>6. SlipShown' = IF abortReq THEN SlipShown ELSE 0
  BY <1>2, <1>4, <1>5 DEF SlipShown
<1>7. OwnShown' = FALSE /\ (OwnShown => main \in {"overlay", "continue"})
  BY <1>2 DEF OwnShown, Resuming
<1> QED
  BY <1>2, <1>4, <1>5, <1>6, <1>7 DEF Lifecycle!Next, Lifecycle!Resume, JobShown, TypedShown,
     LengthShown, SlipShown, OwnShown, Launching, Turned

\* Asking to resume is the lifecycle's, of a pause and with nothing else in front.
LEMMA Asks ==
    ASSUME Known, Known', UserResume, main' = "overlay"
    PROVE  Lifecycle!Next
<1>1. ThreadsJob /\ ThreadsJob'
  BY OneThread, OneThreadNext
<1>2. /\ state = "PAUSED" /\ focus \in {target, NoApp} /\ UNCHANGED jobVars
      /\ UNCHANGED <<state, autoPaused, thread, watcher, focus, target>>
  BY DEF UserResume, runVars
<1>3. Launching' <=> Launching
  BY <1>2 DEF Launching
<1>4. /\ JobShown' = JobShown /\ TypedShown' = TypedShown /\ LengthShown' = LengthShown
      /\ (Executing' <=> Executing)
  BY <1>1, <1>2, <1>3, SameJob DEF jobVars
<1>5. /\ SlipShown' = SlipShown /\ OwnShown' = OwnShown /\ abortReq' = abortReq
      /\ (focus \in {target, NoApp})' = (focus \in {target, NoApp})
  BY <1>2, <1>4 DEF SlipShown, OwnShown, jobVars
<1> QED
  BY <1>2, <1>4, <1>5 DEF Lifecycle!Next, Lifecycle!AskToResume, JobShown, TypedShown,
     LengthShown, SlipShown, OwnShown, Launching

-----------------------------------------------------------------------------
(* Step by step.                                                           *)

\* The interface thread's steps.
LEMMA InterfaceRefines ==
    ASSUME Known, Known', Turned, Interface
    PROVE  Lifecycle!Next
<1>1. ThreadsJob /\ ThreadsJob'
  BY OneThread, OneThreadNext
<1>3. watcher' = watcher => (Launching' <=> Launching)
  BY DEF Launching
<1>4. CASE CurrentFrontmost \/ TogglePause \/ AbortReturns \/ Shutdown \/ ShutdownStop
           \/ ShutdownJoin
  <2>1. UNCHANGED <<state, autoPaused, thread>> /\ UNCHANGED jobVars /\ watcher' = watcher
    BY <1>4 DEF CurrentFrontmost, TogglePause, AbortReturns, Shutdown, ShutdownStop,
       ShutdownJoin, runVars, threadVars
  <2> QED
    BY <1>1, <1>3, <2>1, Unseen
<1>5. ASSUME NEW p \in Plan, Prepare(p)
      PROVE  Lifecycle!Next
  BY <1>1, <1>5, Moves, Quietly DEF Prepare
<1>6. CASE BeginRefused
  <2>1. CASE state = "ARMING"
    BY <1>1, <1>6, <2>1, Moves, Quietly DEF BeginRefused
  <2>2. CASE state # "ARMING"
    <3>1. UNCHANGED <<state, autoPaused, thread>> /\ UNCHANGED jobVars
          /\ watcher' = watcher
      BY <1>6, <2>2 DEF BeginRefused, runVars
    <3> QED
      BY <1>1, <1>3, <3>1, Unseen
  <2> QED
    BY <2>1, <2>2
<1>7. ASSUME NEW t \in Watcher, BeginTyping(t)
      PROVE  Lifecycle!Next
  <2>1. UNCHANGED <<state, autoPaused, thread>> /\ UNCHANGED jobVars
    BY <1>7 DEF BeginTyping
  <2>2. Launching' <=> Launching
    BY <1>7, WatcherBegins DEF Known, Launching, BeginTyping
  <2> QED
    BY <1>1, <2>1, <2>2, Unseen
<1>8. CASE UserPause
  <2>1. CASE state = "RUNNING"
    BY <1>8, <2>1, Pauses DEF UserPause
  <2>2. CASE state # "RUNNING"
    <3>1. UNCHANGED <<state, autoPaused, thread>> /\ UNCHANGED jobVars
          /\ watcher' = watcher
      BY <1>8, <2>2 DEF UserPause, Paused
    <3> QED
      BY <1>1, <1>3, <3>1, Unseen
  <2> QED
    BY <2>1, <2>2
<1>9. CASE UserResume \/ SelfHasFocus
  <2>1. UNCHANGED <<state, autoPaused, thread>> /\ UNCHANGED jobVars /\ watcher' = watcher
    BY <1>9 DEF UserResume, SelfHasFocus, runVars
  <2> QED
    BY <1>1, <1>3, <2>1, Unseen
<1>14. CASE ResumeContinues
  <2>1. state = "PAUSED" /\ Resuming
    BY <1>14 DEF ResumeContinues, Known, CoreInv, ResumeInv, Resuming
  <2> QED
    BY <1>14, <2>1, Resumes DEF ResumeContinues
<1>10. CASE CancelArming
  BY <1>1, <1>10, Moves, Quietly DEF CancelArming
<1>11. CASE Abort
  <2>1. /\ state \in {"RUNNING", "PAUSED"} /\ state' = "ABORTED" /\ autoPaused' = FALSE
        /\ abortReq' = TRUE /\ watcher' = watcher /\ main = "idle"
        /\ UNCHANGED <<stage, total, done, status, thread>>
        /\ grace' = IF abortReq THEN grace ELSE 0
    BY <1>11, Moves DEF Abort, Job!RequestAbort, Known, CoreInv, StateInv
  <2>2. ~abortReq
    BY <2>1 DEF Known, RunInv, StopInv, Closing, WindowCloses, ProgramEnds
  <2>3. /\ JobShown' = JobShown /\ TypedShown' = TypedShown /\ LengthShown' = LengthShown
    BY <1>1, <1>3, <2>1, SameJob
  <2>4. SlipShown' = 0 /\ OwnShown' = FALSE
    BY <2>1, <2>2 DEF SlipShown, OwnShown
  <2> QED
    BY <2>1, <2>3, <2>4 DEF Lifecycle!Next, Lifecycle!Abort, JobShown, TypedShown,
       LengthShown, SlipShown, OwnShown, Launching, Turned
<1>12. CASE Reset
  BY <1>1, <1>12, Moves, Quietly DEF Reset, threadVars
<1>13. CASE ShutdownAbort
  <2>1. /\ UNCHANGED <<state, autoPaused, thread, watcher>>
        /\ UNCHANGED <<stage, total, done, status, thread>>
        /\ grace' = (IF abortReq THEN grace ELSE 0) /\ abortReq' = TRUE
        /\ Job!RequestAbort
    BY <1>13 DEF ShutdownAbort, Job!RequestAbort, runVars
  <2>2. /\ JobShown' = JobShown /\ TypedShown' = TypedShown /\ LengthShown' = LengthShown
        /\ (Executing' <=> Executing) /\ OwnShown' = OwnShown
    BY <1>1, <1>3, <2>1, SameJob DEF OwnShown
  <2>3. CASE ~abortReq
    <3>1. SlipShown' = 0
      BY <2>1, <2>3 DEF SlipShown
    <3> QED
      BY <2>1, <2>2, <2>3, <3>1 DEF Lifecycle!Next, Lifecycle!Close, JobShown,
         TypedShown, LengthShown, SlipShown, OwnShown, Launching, Turned
  <2>4. CASE abortReq
    <3>1. SlipShown' = SlipShown
      BY <2>1, <2>2, <2>4 DEF SlipShown
    <3>2. abortReq' = abortReq
      BY <2>1, <2>4 DEF Known, TypeOK, Job!TypeOK
    <3> QED
      BY <2>1, <2>2, <3>1, <3>2 DEF Lifecycle!Next, Lifecycle!Turn, JobShown,
         TypedShown, LengthShown, SlipShown, OwnShown, Launching, Turned
  <2> QED
    BY <2>3, <2>4
<1> QED
  BY <1>4, <1>5, <1>6, <1>7, <1>8, <1>9, <1>10, <1>11, <1>12, <1>13, <1>14
     DEF Interface

\* The focus-wait threads'.
LEMMA WatchRefines ==
    ASSUME ~SlowWatcher, ~SlowWorker, Known, Known', Turned, NEW t \in Watcher, Watch(t)
    PROVE  Lifecycle!Next
<1>1. ThreadsJob /\ ThreadsJob'
  BY OneThread, OneThreadNext
<1>3. watcher \in [Watcher -> WatcherLocals] /\ PollInv
  BY DEF Known, TypeOK, WatcherLocals
<1>4. "fail" \in WatcherPC /\ "look" \in WatcherPC /\ "launch" \in WatcherPC
      /\ "monitor" \in WatcherPC
  BY DEF WatcherPC
<1>5. watcher[t].pc # "none" => main # "join"
                                /\ \A u \in Watcher : watcher[u].pc # "none" => u = t
  BY DEF Known, CoreInv, JoinInv, OneWatcher
<1>6. Ends(t) /\ watcher[t].pc # "launch" => (Launching' <=> Launching)
  BY <1>3, WatcherEnds DEF Launching
<1>7. CASE Check(t)
  <2>1. Launching' <=> Launching
    <3>1. CASE At(t, "fail") \/ At(t, "look")
      BY <1>3, <1>4, <1>7, <3>1, WatcherAt DEF Check, Launching
    <3>2. CASE Ends(t)
      BY <1>6, <1>7, <3>2 DEF Check
    <3> QED
      BY <1>7, <3>1, <3>2 DEF Check
  <2> QED
    BY <1>1, <1>7, <2>1, Unseen DEF Check, runVars
<1>8. CASE Look(t)
  <2>1. /\ watcher[t].pc = "look" /\ watcher'[t].pc \in {"start", "check"}
        /\ \A u \in Watcher : u # t => watcher'[u] = watcher[u]
    BY <1>3, <1>8, WatcherLooked DEF Look
  <2>2. Launching' <=> Launching
    BY <2>1 DEF Launching
  <2> QED
    BY <1>1, <1>8, <2>2, Unseen DEF Look, runVars
<1>9. CASE WatchFails(t)
  <2>1. state \notin {"RUNNING", "PAUSED"} /\ main # "join"
    BY <1>5, <1>9 DEF WatchFails, Known, CoreInv, WatchInv, Waiting
  <2>2. CASE state = "ARMING"
    BY <1>1, <1>9, <2>1, <2>2, Moves, Quietly DEF WatchFails
  <2>3. CASE state # "ARMING"
    <3>1. state \in {"IDLE"} \cup Terminal
      BY <2>1, <2>3 DEF Known, CoreInv, StateInv, TypeOK, AppState, Terminal
    <3>2. state' = state
      BY <1>9, <3>1, Moves DEF WatchFails
    <3>3. Launching' <=> Launching
      BY <1>6, <1>9 DEF WatchFails
    <3> QED
      BY <1>1, <1>9, <3>2, <3>3, Unseen DEF WatchFails, runVars
  <2> QED
    BY <2>2, <2>3
<1>10. CASE StartRun(t)
  <2>1. CASE state # "ARMING"
    <3>1. Launching' <=> Launching
      BY <1>6, <1>10, <2>1 DEF StartRun
    <3> QED
      BY <1>1, <1>10, <2>1, <3>1, Unseen DEF StartRun
  <2>2. CASE state = "ARMING"
    <3>1. ~Left /\ ~Executing /\ ~Launching
      BY <1>1, <1>5, <1>10, <2>2 DEF StartRun, ThreadsJob
    <3>2. /\ state' = "RUNNING" /\ At(t, "launch") /\ abortReq' = FALSE
          /\ UNCHANGED <<stage, thread>>
      BY <1>10, <2>2, <3>1, Moves DEF StartRun, Job!Withdraw
    <3>3. Launching'
      BY <1>3, <1>4, <3>2, WatcherAt DEF Launching
    <3>4. ~Left' /\ ~Executing'
      BY <1>1, <3>1, <3>2 DEF ThreadsJob
    <3>5. /\ JobShown = "none" /\ JobShown' = "starting"
          /\ TypedShown = 0 /\ TypedShown' = 0 /\ LengthShown = 0 /\ LengthShown' = 0
          /\ SlipShown = 0 /\ SlipShown' = 0 /\ OwnShown = FALSE /\ OwnShown' = FALSE
      BY <2>2, <3>1, <3>2, <3>3, <3>4 DEF JobShown, TypedShown, LengthShown, SlipShown,
         OwnShown
    <3> QED
      BY <2>2, <3>2, <3>5 DEF Lifecycle!Next, Lifecycle!Begin, Lifecycle!NoJob,
         JobShown, TypedShown, LengthShown, SlipShown, OwnShown, Launching, Turned
  <2> QED
    BY <2>1, <2>2
<1>11. ASSUME NEW w \in Worker, Launch(t, w)
       PROVE  Lifecycle!Next
  <2>1. Launching /\ ~Left /\ ~Executing /\ state = "RUNNING" /\ grace = 0
    BY <1>1, <1>11 DEF Launch, ThreadsJob, Launching
  <2>2. /\ stage[w] = "none" /\ stage' = [stage EXCEPT ![w] = "working"]
        /\ done' = done /\ thread' = w /\ UNCHANGED <<state, autoPaused, abortReq, grace>>
    BY <1>11 DEF Launch, Job!Start, runVars
  <2>3. PICK n \in Lengths : total' = [total EXCEPT ![w] = n]
    BY <1>11 DEF Launch, Job!Start
  <2>4. stage'[w] = "working" /\ total'[w] = n /\ done'[w] = 0
    BY <2>2, <2>3 DEF Known, TypeOK, Job!TypeOK, RunInv, CleanInv
  <2>5. thread' \in Worker /\ stage'[thread'] = "working"
    BY <2>2, <2>4
  <2>6. Left' /\ Executing' /\ Current' = w
    BY <1>1, <2>2, <2>5 DEF ThreadsJob
  <2>7. /\ JobShown = "starting" /\ JobShown' = "live"
        /\ TypedShown' = 0 /\ LengthShown' \in Lengths
        /\ SlipShown = 0 /\ SlipShown' = 0 /\ OwnShown' = OwnShown
    BY <2>1, <2>2, <2>4, <2>6 DEF JobShown, TypedShown, LengthShown, SlipShown, OwnShown
  <2> QED
    BY <2>2, <2>7 DEF Lifecycle!Next, Lifecycle!Launch, JobShown, TypedShown,
       LengthShown, SlipShown, OwnShown, Launching, Turned
<1>12. ASSUME NEW n \in Monitor, StartMonitor(t, n)
       PROVE  Lifecycle!Next
  <2>1. Launching' <=> Launching
    BY <1>6, <1>12 DEF StartMonitor
  <2> QED
    BY <1>1, <1>12, <2>1, Unseen DEF StartMonitor, runVars
<1> QED
  BY <1>7, <1>8, <1>9, <1>10, <1>11, <1>12 DEF Watch

\* The focus monitors'.
LEMMA MindRefines ==
    ASSUME Known, Known', Turned, NEW n \in Monitor, Mind(n)
    PROVE  Lifecycle!Next
<1>1. ThreadsJob /\ ThreadsJob'
  BY OneThread, OneThreadNext
<1>2. Launching' <=> Launching
  BY DEF Mind, Poll, CheckFocus, AutoPause, TryAutoResume, CompareCaret, AutoResume,
     monitorOnly, Launching
<1>3. CASE Poll(n) \/ CheckFocus(n) \/ TryAutoResume(n) \/ CompareCaret(n)
  <2>1. UNCHANGED <<state, autoPaused, thread>> /\ UNCHANGED jobVars
    BY <1>3 DEF Poll, CheckFocus, TryAutoResume, CompareCaret, monitorOnly, runVars
  <2> QED
    BY <1>1, <1>2, <2>1, Unseen
<1>4. CASE AutoPause(n)
  <2>1. CASE state = "RUNNING"
    BY <1>4, <2>1, Pauses DEF AutoPause
  <2>2. CASE state # "RUNNING"
    BY <1>1, <1>2, <1>4, <2>2, Unseen DEF AutoPause, Paused
  <2> QED
    BY <2>1, <2>2
<1>5. CASE AutoResume(n)
  <2>1. CASE state = "PAUSED" /\ autoPaused
    BY <1>5, <2>1, Resumes DEF AutoResume
  <2>2. CASE ~(state = "PAUSED" /\ autoPaused)
    BY <1>1, <1>2, <1>5, <2>2, Unseen DEF AutoResume
  <2> QED
    BY <2>1, <2>2
<1> QED
  BY <1>3, <1>4, <1>5 DEF Mind

\* The worker's own steps: what it types, and how it ends.
LEMMA WorkRefines ==
    ASSUME Known, Known', Turned, NEW w \in Worker, Work(w) \/ WorkEnds(w)
    PROVE  Lifecycle!Next
<1> DEFINE kept == UNCHANGED <<state, autoPaused, thread, watcher>>
<1>1. ThreadsJob /\ ThreadsJob'
  BY OneThread, OneThreadNext
<1>2. kept /\ (Launching' <=> Launching)
  BY DEF Work, WorkEnds, runVars, threadVars, Launching
<1>3. OwnShown' = OwnShown
  BY <1>2 DEF OwnShown
<1>4. /\ stage \in [Worker -> {"none", "working", "paused", "ended"}]
      /\ done \in [Worker -> Nat] /\ total \in [Worker -> Lengths \cup {0}]
      /\ status \in [Worker -> Job!RunStatus]
  BY DEF Known, TypeOK, Job!TypeOK
<1>5. stage[w] \in {"working", "paused"} => w = thread /\ Left /\ Executing /\ Current = w
  BY <1>1 DEF Known, CoreInv, ThreadInv, ThreadsJob
<1>6. stage'[w] # "none" => w = thread' /\ Left' /\ Current' = w
                            /\ (Executing' <=> stage'[w] \in {"working", "paused"})
  BY <1>1 DEF Known, CoreInv, ThreadInv, ThreadsJob
<1>7. CASE Job!Perform(w)
  <2>1. /\ stage[w] = "working" /\ done[w] < total[w] /\ done'[w] = done[w] + 1
        /\ UNCHANGED <<stage, total, abortReq>>
        /\ pauseReq \/ abortReq => grace = 0
        /\ grace' = IF pauseReq \/ abortReq THEN 1 ELSE 0
    BY <1>4, <1>7 DEF Job!Perform
  <2>2. Left /\ Executing /\ Current = w /\ Left' /\ Executing' /\ Current' = w
    BY <1>5, <1>6, <2>1
  <2>3. /\ JobShown = "live" /\ JobShown' = "live" /\ TypedShown = done[w]
        /\ TypedShown' = done[w] + 1 /\ LengthShown = total[w] /\ LengthShown' = total[w]
    BY <2>1, <2>2 DEF JobShown, TypedShown, LengthShown
  <2>4. ~abortReq => (pauseReq <=> state = "PAUSED") /\ state \in {"RUNNING", "PAUSED"}
    BY <2>2 DEF Known, CoreInv, StateMatchesRequests
  <2>5. IF state = "RUNNING" /\ ~abortReq THEN SlipShown' = SlipShown
        ELSE SlipShown = 0 /\ SlipShown' = 1
    BY <1>2, <2>1, <2>2, <2>4 DEF SlipShown
  <2> QED
    BY <1>2, <1>3, <2>1, <2>3, <2>5 DEF Lifecycle!Next, Lifecycle!Type, JobShown,
       TypedShown, LengthShown, SlipShown, OwnShown, Launching, Turned
<1>8. CASE Job!Suspend(w) \/ Job!Continue(w)
  <2>1. /\ stage[w] \in {"working", "paused"} /\ stage'[w] \in {"working", "paused"}
        /\ UNCHANGED <<total, done, status, abortReq, grace>>
    BY <1>4, <1>8 DEF Job!Suspend, Job!Continue
  <2>2. Left /\ Executing /\ Current = w /\ Left' /\ Executing' /\ Current' = w
    BY <1>5, <1>6, <2>1
  <2>3. /\ JobShown' = JobShown /\ TypedShown' = TypedShown /\ LengthShown' = LengthShown
        /\ SlipShown' = SlipShown
    BY <1>2, <2>1, <2>2 DEF JobShown, TypedShown, LengthShown, SlipShown
  <2> QED
    BY <1>2, <1>3, <2>1, <2>3 DEF Lifecycle!Next, Lifecycle!Turn, JobShown,
       TypedShown, LengthShown, SlipShown, OwnShown, Launching, Turned
<1>9. CASE Job!End(w)
  <2>1. PICK s \in Job!RunStatus :
          /\ s = "COMPLETED" => stage[w] = "working" /\ done[w] = total[w]
          /\ s = "ABORTED" => abortReq
          /\ status' = [status EXCEPT ![w] = s]
    BY <1>9 DEF Job!End
  <2>2. /\ stage[w] \in {"working", "paused"} /\ stage'[w] = "ended" /\ status'[w] = s
        /\ UNCHANGED <<total, done, abortReq>>
    BY <1>4, <1>9, <2>1 DEF Job!End, Job!Executing
  <2>3. Left /\ Executing /\ Current = w /\ Left' /\ ~Executing' /\ Current' = w
    BY <1>5, <1>6, <2>2
  <2>4. /\ JobShown = "live" /\ JobShown' = s /\ TypedShown = done[w]
        /\ TypedShown' = done[w] /\ LengthShown = total[w] /\ LengthShown' = total[w]
        /\ SlipShown' = 0
    BY <2>2, <2>3 DEF JobShown, TypedShown, LengthShown, SlipShown
  <2>5. s \in Lifecycle!Outcome
    BY DEF Lifecycle!Outcome, Job!RunStatus
  <2> QED
    BY <1>2, <1>3, <2>1, <2>2, <2>4, <2>5 DEF Lifecycle!Next, Lifecycle!End, JobShown,
       TypedShown, LengthShown, SlipShown, OwnShown, Launching, Turned
<1> QED
  BY <1>7, <1>8, <1>9 DEF Work, WorkEnds

\* The result it brings.
LEMMA ResultRefines ==
    ASSUME Known, Known', Turned, NEW w \in Worker, Report(w) \/ Finish(w)
    PROVE  Lifecycle!Next
<1>1. ThreadsJob /\ ThreadsJob'
  BY OneThread, OneThreadNext
<1>3. CASE Report(w)
  <2>1. Launching' <=> Launching
    BY <1>3 DEF Report, Launching
  <2> QED
    BY <1>1, <1>3, <2>1, Unseen DEF Report, runVars
<1>4. CASE Finish(w)
  <2>1. /\ stage[w] = "ended" /\ stage' = [stage EXCEPT ![w] = "none"]
        /\ UNCHANGED <<autoPaused, thread, watcher, abortReq>>
        /\ lock = NoThread /\ state' = StateAfter(status[w])
    BY <1>4 DEF Finish, Job!Deliver, Free, runVars
  <2>2. Left /\ ~Executing /\ Current = w /\ thread = w
    BY <1>1, <2>1 DEF Known, CoreInv, ThreadInv, ThreadsJob
  <2>3. ~Left' /\ ~Executing'
    BY <1>1, <2>1, <2>2 DEF ThreadsJob, Known, TypeOK, Job!TypeOK
  <2>4. ~Launching'
    BY <2>1, ThreadAssumption DEF Launching, Known, CoreInv, LockInv, Starting
  <2>5. /\ JobShown = status[w] /\ JobShown' = "none" /\ TypedShown' = 0 /\ LengthShown' = 0
        /\ SlipShown = 0 /\ SlipShown' = 0
    BY <2>2, <2>3, <2>4 DEF JobShown, TypedShown, LengthShown, SlipShown
  <2>6. status[w] \in {"COMPLETED", "ABORTED", "FAILED"} /\ state \in AppState
        /\ state \notin {"VALIDATING", "ARMED"}
    BY DEF Known, TypeOK, Job!TypeOK, Job!RunStatus, CoreInv, StateInv
  <2>7. state' = IF state \notin Lifecycle!Active THEN state
                 ELSE CASE status[w] = "COMPLETED" ->
                             IF state = "RUNNING" THEN status[w] ELSE state
                        [] status[w] = "ABORTED" -> "ABORTED"
                        [] status[w] = "FAILED" -> "ERROR"
    <3>1. CASE state \notin Active
      BY <2>1, <3>1 DEF StateAfter, Active, Lifecycle!Active
    <3>2. CASE state \in Active /\ status[w] = "COMPLETED"
      BY <2>1, <2>6, <3>2, Moves DEF StateAfter, Active, Lifecycle!Active
    <3>3. CASE state \in Active /\ status[w] = "ABORTED"
      BY <2>1, <2>6, <3>3, Moves DEF StateAfter, Active, Lifecycle!Active
    <3>4. CASE state \in Active /\ status[w] = "FAILED"
      BY <2>1, <2>6, <3>4, Moves DEF StateAfter, Active, Lifecycle!Active
    <3> QED
      BY <2>6, <3>1, <3>2, <3>3, <3>4
  <2>8. state' = "PAUSED" => state = "PAUSED"
    BY <2>6, <2>7
  <2>9. OwnShown' = (OwnShown /\ state' = "PAUSED")
    BY <2>1, <2>8 DEF OwnShown
  <2> QED
    BY <2>1, <2>5, <2>6, <2>7, <2>9 DEF Lifecycle!Next, Lifecycle!Report,
       Lifecycle!Outcome, JobShown, TypedShown, LengthShown, SlipShown, OwnShown, Launching, Turned
<1> QED
  BY <1>3, <1>4

\* Every step of the controller is one of the lifecycle, or shows no sign of itself.
LEMMA StepRefines ==
    ASSUME ~SlowWatcher, ~SlowWorker, Known, Known', [Next]_vars
    PROVE  Lifecycle!Next
<1>1. CASE UserResume /\ main' = "overlay"
  BY <1>1, Asks
<1>2. CASE ~(UserResume /\ main' = "overlay")
  <2>1. main' = main \/ main' \notin {"overlay", "continue"} \/ main = "overlay"
    <3>1. CASE Interface
      <4>1. \A call \in {WindowCloses, ProgramEnds}, i \in 1 .. 4 :
                call[i] \notin {"overlay", "continue"}
        BY DEF WindowCloses, ProgramEnds
      <4>2. CASE Shutdown \/ ShutdownAbort \/ ShutdownStop \/ ShutdownJoin
        BY <4>1, <4>2 DEF Shutdown, ShutdownAbort, ShutdownStop, ShutdownJoin, Closes
      <4> QED
        BY <1>2, <3>1, <4>2 DEF Interface, CurrentFrontmost, BeginRefused, TogglePause,
           UserPause, UserResume, SelfHasFocus, ResumeContinues, CancelArming, Abort,
           AbortReturns, Reset, Prepare, BeginTyping, threadVars
    <3>2. ASSUME NEW t \in Watcher, Watch(t)
          PROVE  main' = main
      BY <3>2 DEF Watch, Check, Look, WatchFails, StartRun, Launch, StartMonitor
    <3>3. ASSUME NEW n \in Monitor, Mind(n)
          PROVE  main' = main
      BY <3>3 DEF Mind, Poll, CheckFocus, AutoPause, TryAutoResume, CompareCaret,
         AutoResume, monitorOnly
    <3>4. ASSUME NEW w \in Worker, Work(w) \/ WorkEnds(w) \/ Report(w) \/ Finish(w)
          PROVE  main' = main
      BY <3>4 DEF Work, WorkEnds, Report, Finish, threadVars
    <3>5. CASE MoveFocus \/ MoveCaret \/ UNCHANGED vars
      BY <3>5 DEF MoveFocus, MoveCaret, vars, threadVars
    <3> QED
      BY <3>1, <3>2, <3>3, <3>4, <3>5 DEF Next
  <2>2. Turned
    BY <2>1, NobodyAsks DEF Resuming
  <2>3. CASE MoveFocus \/ MoveCaret \/ UNCHANGED vars
    <3>1. ThreadsJob /\ ThreadsJob'
      BY OneThread, OneThreadNext
    <3>2. Launching' <=> Launching
      BY <2>3 DEF MoveFocus, MoveCaret, vars, threadVars, Launching
    <3> QED
      BY <2>2, <2>3, <3>1, <3>2, Unseen DEF MoveFocus, MoveCaret, vars, runVars, threadVars
  <2> QED
    BY <2>2, <2>3, InterfaceRefines, WatchRefines, MindRefines, WorkRefines, ResultRefines
       DEF Next
<1> QED
  BY <1>1, <1>2

\* The controller implements the run lifecycle: a run begins only when nothing
\* of an earlier one is left, types while it is shown RUNNING and past a stop
\* only what was under way, and is shown COMPLETED only if every event was typed.
THEOREM ImplementsLifecycle ==
    ASSUME ~SlowWatcher, ~SlowWorker
    PROVE  Spec => ImplementsRunLifecycle
<1>1. Init => Lifecycle!Init
  <2> SUFFICES ASSUME Init
               PROVE  Lifecycle!Init
    OBVIOUS
  <2>1. \A w \in Worker : stage[w] = "none"
    BY DEF Init, Job!Init
  <2>2. ~Left /\ ~Executing /\ ~Launching
    BY <2>1 DEF Left, Executing, Job!Executing, Launching, Init, IdleWatcher
  <2>3. state = "IDLE" /\ abortReq = FALSE /\ main = "idle"
    BY DEF Init, Job!Init
  <2> QED
    BY <2>2, <2>3 DEF Lifecycle!Init, Lifecycle!NoJob, Launching
<1>2. Known /\ Known' /\ [Next]_vars => Lifecycle!Next
  BY StepRefines
<1> QED
  BY <1>1, <1>2, KnownAlways, PTL DEF Spec, ImplementsRunLifecycle, Lifecycle!Spec

-----------------------------------------------------------------------------
(* What that says in the controller's own words.                           *)

\* A run begins when no job is left, not even one whose result is on its way; it is
\* shown COMPLETED when the one job there is performed every event of its plan; a
\* pause the user made ends only inside resume(), so by no monitor.
MoveIsTrue ==
    /\ state = "ARMING" /\ state' = "RUNNING" => \A w \in Worker : stage[w] = "none"
    /\ state # "COMPLETED" /\ state' = "COMPLETED" =>
          \E w \in Worker : /\ stage[w] = "ended" /\ done[w] = total[w]
                            /\ \A v \in Worker \ {w} : stage[v] = "none"
    /\ state = "PAUSED" /\ state' = "RUNNING" => autoPaused \/ Resuming
ShowsTheTruth == [][MoveIsTrue]_vars

\* In the lifecycle COMPLETED is the outcome of no job that left an event out.
WholeShown == JobShown = "COMPLETED" => TypedShown = LengthShown

LEMMA WholeStep ==
    ASSUME Known, WholeShown, Lifecycle!Next
    PROVE  WholeShown'
<1>1. CASE Lifecycle!Launch \/ Lifecycle!Type
  BY <1>1 DEF WholeShown, JobShown, TypedShown, LengthShown, Lifecycle!Launch,
     Lifecycle!Type, Launching
<1>2. CASE Lifecycle!Begin
  BY <1>2 DEF WholeShown, JobShown, TypedShown, LengthShown, Lifecycle!Begin, Launching
<1>3. CASE Lifecycle!End
  BY <1>3 DEF WholeShown, JobShown, TypedShown, LengthShown, Lifecycle!End, Launching
<1>4. CASE Lifecycle!Report
  BY <1>4 DEF WholeShown, JobShown, TypedShown, LengthShown, Lifecycle!Report, Launching
<1>5. CASE \/ Lifecycle!Resume \/ Lifecycle!Turn \/ Lifecycle!Arm \/ Lifecycle!Disarm
           \/ Lifecycle!Pause \/ Lifecycle!Abort \/ Lifecycle!Close \/ Lifecycle!PutAway
           \/ Lifecycle!AskToResume
  <2>1. UNCHANGED <<JobShown, TypedShown, LengthShown>>
    BY <1>5 DEF JobShown, TypedShown, LengthShown, Launching, Lifecycle!Resume,
       Lifecycle!Turn, Lifecycle!Arm, Lifecycle!Disarm, Lifecycle!Pause,
       Lifecycle!Abort, Lifecycle!Close, Lifecycle!PutAway, Lifecycle!AskToResume
  <2> QED
    BY <2>1 DEF WholeShown
<1> QED
  BY <1>1, <1>2, <1>3, <1>4, <1>5 DEF Lifecycle!Next

\* The steps of the lifecycle that change what is shown.
LEMMA ShownMoves ==
    ASSUME Lifecycle!Next, state' # state
    PROVE  \/ state = "ARMING" /\ state' = "RUNNING" /\ Lifecycle!Begin
           \/ state = "PAUSED" /\ state' = "RUNNING" /\ (OwnShown => Resuming)
           \/ state' # "RUNNING" /\ Lifecycle!Report
           \/ state' \notin {"RUNNING", "COMPLETED"}
<1>1. CASE Lifecycle!Turn \/ Lifecycle!Launch \/ Lifecycle!Type \/ Lifecycle!Close
           \/ Lifecycle!End \/ Lifecycle!AskToResume
  BY <1>1 DEF Lifecycle!AskToResume, Lifecycle!Turn, Lifecycle!Launch, Lifecycle!Type,
     Lifecycle!Close, Lifecycle!End
<1>2. CASE Lifecycle!Arm \/ Lifecycle!Disarm \/ Lifecycle!Pause \/ Lifecycle!Abort
           \/ Lifecycle!PutAway
  BY <1>2 DEF Lifecycle!Arm, Lifecycle!Disarm, Lifecycle!Pause, Lifecycle!Abort,
     Lifecycle!PutAway
<1>3. CASE Lifecycle!Begin
  BY <1>3 DEF Lifecycle!Begin
<1>4. CASE Lifecycle!Resume
  BY <1>4 DEF Lifecycle!Resume, OwnShown, Resuming
<1>5. CASE Lifecycle!Report
  <2>1. state' \in {state, JobShown, "ABORTED", "ERROR"} /\ JobShown \in Lifecycle!Outcome
    BY <1>5 DEF Lifecycle!Report, Lifecycle!Outcome, JobShown, Launching
  <2> QED
    BY <1>5, <2>1 DEF Lifecycle!Outcome
<1> QED
  BY <1>1, <1>2, <1>3, <1>4, <1>5 DEF Lifecycle!Next

\* What the window shows of a run is true of its job: from ImplementsLifecycle, if
\* no wait for a thread times out.
THEOREM WhatIsShownIsTrue ==
    ASSUME ~SlowWatcher, ~SlowWorker
    PROVE  Spec => ShowsTheTruth
<1>1. Init => WholeShown
  <2> SUFFICES ASSUME Init
               PROVE  WholeShown
    OBVIOUS
  <2>1. ~Left /\ ~Executing
    BY DEF Init, Job!Init, Left, Executing, Job!Executing
  <2> QED
    BY <2>1 DEF WholeShown, JobShown
<1>2. Known /\ Known' /\ WholeShown /\ [Next]_vars => WholeShown'
  BY StepRefines, WholeStep
<1>3. ASSUME Known, Known', WholeShown, [Next]_vars, state # state'
      PROVE  MoveIsTrue
  <2>1. Lifecycle!Next
    BY <1>3, StepRefines
  <2>2. ThreadsJob
    BY <1>3, OneThread
  <2>3. ASSUME state = "ARMING", state' = "RUNNING"
        PROVE  \A w \in Worker : stage[w] = "none"
    <3>1. Lifecycle!Begin
      BY <1>3, <2>1, <2>3, ShownMoves
    <3>2. JobShown = "none"
      BY <3>1 DEF Lifecycle!Begin, Lifecycle!NoJob, JobShown, Launching
    <3>3. ~Left
      BY <1>3, <2>2, <3>2 DEF JobShown, Known, TypeOK, Job!TypeOK, Job!RunStatus, ThreadsJob
    <3> QED
      BY <3>3 DEF Left
  <2>4. ASSUME state # "COMPLETED", state' = "COMPLETED"
        PROVE  \E w \in Worker : /\ stage[w] = "ended" /\ done[w] = total[w]
                                 /\ \A v \in Worker \ {w} : stage[v] = "none"
    <3>1. Lifecycle!Report
      BY <1>3, <2>1, <2>4, ShownMoves
    <3>2. JobShown = "COMPLETED"
      BY <2>4, <3>1 DEF Lifecycle!Report, Lifecycle!Outcome, JobShown, Launching
    <3>3. Left /\ ~Executing /\ TypedShown = LengthShown
      BY <1>3, <3>2 DEF JobShown, WholeShown
    <3>4. thread \in Worker /\ stage[thread] = "ended" /\ done[thread] = total[thread]
      BY <1>3, <2>2, <3>3 DEF ThreadsJob, TypedShown, LengthShown, Known, TypeOK, Job!TypeOK
    <3>5. \A v \in Worker \ {thread} : stage[v] = "none"
      BY <1>3 DEF Known, CoreInv, ThreadInv
    <3> QED
      BY <3>4, <3>5
  <2>5. ASSUME state = "PAUSED", state' = "RUNNING", ~autoPaused
        PROVE  Resuming
    BY <1>3, <2>1, <2>5, ShownMoves DEF OwnShown
  <2> QED
    BY <2>3, <2>4, <2>5 DEF MoveIsTrue
<1>4. Known /\ Known' /\ WholeShown /\ [Next]_vars => [MoveIsTrue]_vars
  <2>1. state = state' => MoveIsTrue
    BY DEF MoveIsTrue
  <2> QED
    BY <1>3, <2>1
<1> QED
  BY <1>1, <1>2, <1>4, KnownAlways, PTL DEF Spec, ShowsTheTruth
=============================================================================
