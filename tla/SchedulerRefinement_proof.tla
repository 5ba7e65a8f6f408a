--------------------- MODULE SchedulerRefinement_proof ---------------------
(***************************************************************************)
(* The scheduler implements JobRunner: read through the mapping at the end *)
(* of TypingScheduler, every step of a worker or a caller is a step of the *)
(* job runner or leaves what it shows unchanged, for any number of workers *)
(* and callers and any plans.                                              *)
(***************************************************************************)
EXTENDS SchedulerSafety_proof

\* The mapped variables.
JStage == [w \in Worker |-> Stage(w)]
JTotal == [w \in Worker |-> Len(worker[w].plan)]
JDone == [w \in Worker |-> worker[w].index]
ShownStatus(w) == IF Stage(w) = "ended" THEN worker[w].status ELSE "COMPLETED"
JStatus == [w \in Worker |-> ShownStatus(w)]
JPause == "pause_requested" \in on

-----------------------------------------------------------------------------
(* A worker leaves with the status it has earned.                          *)

\* COMPLETED is taken at the end of the plan, ABORTED when an abort is requested.
LEMMA StatusOwnStep ==
    ASSUME TypeOK, StatusInv, NEW w \in Worker, WorkerStep(w), Leaving(worker'[w])
    PROVE  /\ worker'[w].status = "COMPLETED" => Finished(w)'
           /\ worker'[w].status = "ABORTED" => Aborted'
<1> DEFINE l == worker[w]
           m == worker'[w]
<1> USE DEF At, Leaving
<1>1. worker \in [Worker -> Locals] /\ Aborted' = Aborted
  BY WorkerKeepsRequests DEF TypeOK
<1>2. m.pc \in {"take", "release", "clear"}
  OBVIOUS
<1>3. ASSUME Leaving(l), Kept(l, m), m.status = l.status
      PROVE  /\ m.status = "COMPLETED" => Finished(w)'
             /\ m.status = "ABORTED" => Aborted'
  BY <1>1, <1>3 DEF StatusInv, Finished, Kept
<1>4. CASE LocalStep(w)
  <2>1. CASE CheckAbort(w)
    BY <1>1, <2>1, LeaveFields, GotoFields DEF CheckAbort, Finished, Kept
  <2>2. CASE CheckPause(w)
    BY <1>1, <2>2, EnterPauseFields, GotoFields DEF CheckPause
  <2>3. CASE WaitAbort(w)
    BY <1>1, <2>3, LeaveFields, GotoFields DEF WaitAbort
  <2>4. CASE WaitPause(w)
    <3>1. EnterPause(w, "delay") \/ Goto(w, "waittime")
      BY <2>4 DEF WaitPause
    <3>2. (m.pc = "take" /\ m.back = "delay") \/ m.pc = "waittime"
      BY <1>1, <3>1, EnterPauseFields, GotoFields
    <3> QED
      BY <3>2
  <2>5. CASE HeldReleased(w)
    BY <1>1, <1>3, <2>5, GotoFields DEF HeldReleased
  <2>6. CASE BeginDelay(w) \/ Recheck(w) \/ PauseLoop(w)
    BY <1>1, <1>2, <2>6, BeginDelayFields, GotoFields DEF Recheck, PauseLoop
  <2>7. CASE Report(w)
    BY <1>1, <1>2, <2>7 DEF Report, Locals
  <2>8. CASE ThreadEnds(w)
    BY <1>1, <1>2, <2>8 DEF ThreadEnds, NoLocals
  <2> QED
    BY <1>4, <2>1, <2>2, <2>3, <2>4, <2>5, <2>6, <2>7, <2>8 DEF LocalStep
<1>5. CASE KeyStep(w)
  <2>1. CASE PressKey(w) \/ UntrackKey(w)
    BY <1>1, <1>2, <2>1, LeaveFields, GotoFields DEF PressKey, UntrackKey
  <2>2. CASE TrackKey(w) \/ ReleaseKey(w)
    BY <1>1, <1>2, <2>2, ReleaseKeyFields, GotoFields DEF TrackKey
  <2> QED
    BY <1>5, <2>1, <2>2 DEF KeyStep
<1>6. CASE Advance(w)
  BY <1>1, <1>2, <1>6, AdvanceFields
<1>7. CASE ReleaseAllStep(w)
  <2>1. CASE TakeHeld(w)
    BY <1>1, <1>3, <2>1, GotoFields DEF TakeHeld
  <2>2. CASE ReleaseHeld(w)
    BY <1>3, <2>2 DEF ReleaseHeld, Kept
  <2> QED
    BY <1>7, <2>1, <2>2 DEF ReleaseAllStep
<1>8. CASE FlagStep(w)
  <2>1. CASE PauseAbort(w)
    BY <1>1, <1>2, <2>1, LeaveFields, GotoFields DEF PauseAbort
  <2>2. CASE WaitTime(w) \/ SetPaused(w) \/ ClearRunning(w)
    BY <1>1, <1>2, <2>2, GotoFields DEF WaitTime, SetPaused, ClearRunning
  <2>3. CASE AckResume(w)
    BY <1>1, <1>2, <2>3, AckResumeFields
  <2> QED
    BY <1>8, <2>1, <2>2, <2>3 DEF FlagStep
<1>9. CASE TickStep(w)
  BY <1>1, <1>2, <1>9, SleepFields, PauseWaitFields DEF TickStep
<1> QED
  BY <1>4, <1>5, <1>6, <1>7, <1>8, <1>9 DEF WorkerStep

\* No call takes the reason of an ABORTED away while its worker is on the way
\* out.
LEMMA StatusStep ==
    ASSUME TypeOK, OneJob, StartInv, StatusInv, [Next]_vars
    PROVE  StatusInv'
<1>1. ASSUME NEW w \in Worker, WorkerStep(w)
      PROVE  StatusInv'
  <2>1. /\ worker \in [Worker -> Locals] /\ Aborted' = Aborted
        /\ \A v \in Worker : v # w => worker'[v] = worker[v]
    BY <1>1, WorkerKeepsRequests, OthersKept DEF TypeOK
  <2> QED
    BY <1>1, <2>1, StatusOwnStep DEF StatusInv, Finished
<1>2. ASSUME NEW c \in Caller, CallerStep(c)
      PROVE  StatusInv'
  <2>1. CASE ResetFlags(c)
    <3>1. worker' = worker /\ \A w \in Worker : ~Leaving(worker[w])
      BY <2>1 DEF ResetFlags, Call, StartInv, OneJob, Executing, ExecutePC, Leaving
    <3> QED
      BY <3>1 DEF StatusInv
  <2>2. CASE Launch(c)
    <3>1. \A v \in Worker : ~Executing(v)
      BY <2>2 DEF Launch, Call, StartInv, OneJob
    <3>2. \A v \in Worker : ~Leaving(worker'[v])
      BY <2>2, <3>1, LaunchStep DEF Executing, ExecutePC, Leaving
    <3> QED
      BY <3>2 DEF StatusInv
  <2>3. CASE RequestCall(c)
    <3>1. worker' = worker /\ (Aborted => Aborted')
      BY <2>3 DEF RequestCall, RequestStep, RequestPause, WithdrawPause, RequestAbort,
         Set, Clear, Aborted
    <3> QED
      BY <3>1 DEF StatusInv, Finished
  <2>4. CASE OtherCall(c)
    <3>1. worker' = worker /\ Aborted' = Aborted
      BY <2>4, OtherCallKeeps
    <3> QED
      BY <3>1 DEF StatusInv, Finished
  <2> QED
    BY <1>2, <2>1, <2>2, <2>3, <2>4, CallerCases
<1>3. CASE UNCHANGED vars
  BY <1>3 DEF vars, StatusInv, Leaving, Finished, Aborted
<1> QED
  BY <1>1, <1>2, <1>3 DEF Next

-----------------------------------------------------------------------------
(* What the worker's steps make of the mapped variables.                   *)

\* A job is executing where its worker is.
LEMMA JobExecuting ==
    ASSUME TypeOK, NEW w \in Worker
    PROVE  /\ Executing(w) <=> Stage(w) \in {"working", "paused"}
           /\ JStage[w] = Stage(w) /\ JTotal[w] = Len(worker[w].plan)
           /\ JDone[w] = worker[w].index /\ JStatus[w] = ShownStatus(w)
<1>1. worker[w].pc \in WorkerPC
  BY DEF TypeOK, Locals
<1>2. Executing(w) <=> Stage(w) \in {"working", "paused"}
  BY <1>1 DEF Executing, Stage, At, WorkerPC, ExecutePC
<1> QED
  BY <1>2 DEF JStage, JTotal, JDone, JStatus

\* A step of one thread changes the mapped variables at that thread only.
LEMMA JobUpdate ==
    ASSUME NEW w \in Worker, \A v \in Worker : v # w => worker'[v] = worker[v]
    PROVE  /\ JStage' = [JStage EXCEPT ![w] = Stage(w)']
           /\ JTotal' = [JTotal EXCEPT ![w] = Len(worker'[w].plan)]
           /\ JDone' = [JDone EXCEPT ![w] = worker'[w].index]
           /\ JStatus' = [JStatus EXCEPT ![w] = ShownStatus(w)']
<1>1. \A v \in Worker : v # w => Stage(v)' = Stage(v) /\ ShownStatus(v)' = ShownStatus(v)
  BY DEF Stage, ShownStatus, At
<1>2. JStage' = [JStage EXCEPT ![w] = Stage(w)']
  BY <1>1 DEF JStage
<1>3. JTotal' = [JTotal EXCEPT ![w] = Len(worker'[w].plan)]
  BY DEF JTotal
<1>4. JDone' = [JDone EXCEPT ![w] = worker'[w].index]
  BY DEF JDone
<1>5. JStatus' = [JStatus EXCEPT ![w] = ShownStatus(w)']
  BY <1>1 DEF JStatus
<1> QED
  BY <1>2, <1>3, <1>4, <1>5

\* What a step does not change of its thread it does not change at all.
LEMMA JobSame ==
    ASSUME NEW w \in Worker, \A v \in Worker : v # w => worker'[v] = worker[v]
    PROVE  /\ worker'[w].plan = worker[w].plan => JTotal' = JTotal
           /\ worker'[w].index = worker[w].index => JDone' = JDone
           /\ Stage(w)' = Stage(w) => JStage' = JStage
           /\ ShownStatus(w)' = ShownStatus(w) => JStatus' = JStatus
<1>1. \A v \in Worker : v # w => Stage(v)' = Stage(v) /\ ShownStatus(v)' = ShownStatus(v)
  BY DEF Stage, ShownStatus, At
<1>2. worker'[w].plan = worker[w].plan => JTotal' = JTotal
  BY DEF JTotal
<1>3. worker'[w].index = worker[w].index => JDone' = JDone
  BY DEF JDone
<1>4. Stage(w)' = Stage(w) => JStage' = JStage
  BY <1>1 DEF JStage
<1>5. ShownStatus(w)' = ShownStatus(w) => JStatus' = JStatus
  BY <1>1 DEF JStatus
<1> QED
  BY <1>2, <1>3, <1>4, <1>5

\* The steps of a worker, by what they show of the job: nothing, or a pause, the
\* way back from one, an event, the end, or the delivery of the result.
LEMMA WorkerShows ==
    ASSUME TypeOK, NEW w \in Worker, WorkerStep(w)
    PROVE  \/ /\ Stage(w)' = Stage(w) /\ Kept(worker[w], worker'[w])
              /\ ShownStatus(w)' = ShownStatus(w) /\ ~Advance(w)
           \/ /\ Stage(w) = "working" /\ Stage(w)' = "paused" /\ JPause
              /\ Kept(worker[w], worker'[w]) /\ ~Advance(w)
           \/ /\ Stage(w) = "paused" /\ Stage(w)' = "working" /\ (~JPause \/ Aborted)
              /\ Kept(worker[w], worker'[w]) /\ ~Advance(w)
           \/ Advance(w) \/ ClearRunning(w) \/ ThreadEnds(w)
<1> DEFINE l == worker[w]
           m == worker'[w]
<1> USE DEF At, Stage, ShownStatus
<1>1. worker \in [Worker -> Locals]
  BY DEF TypeOK
<1>2. CASE LocalStep(w)
  <2>1. CASE CheckAbort(w)
    BY <1>1, <2>1, LeaveFields, GotoFields DEF CheckAbort, Advance
  <2>2. CASE CheckPause(w)
    BY <1>1, <2>2, EnterPauseFields, GotoFields DEF CheckPause, Advance, JPause
  <2>3. CASE BeginDelay(w)
    BY <1>1, <2>3, BeginDelayFields DEF BeginDelay, Advance
  <2>4. CASE WaitAbort(w)
    BY <1>1, <2>4, LeaveFields, GotoFields DEF WaitAbort, Advance
  <2>5. CASE WaitPause(w)
    <3>1. CASE "pause_requested" \in on
      BY <1>1, <2>5, <3>1, EnterPauseFields DEF WaitPause, Advance, JPause
    <3>2. CASE "pause_requested" \notin on
      BY <1>1, <2>5, <3>2, GotoFields DEF WaitPause, Advance
    <3> QED
      BY <3>1, <3>2
  <2>6. CASE Recheck(w)
    BY <1>1, <2>6, GotoFields DEF Recheck, Advance
  <2>7. CASE HeldReleased(w)
    BY <1>1, <2>7, GotoFields DEF HeldReleased, Advance
  <2>8. CASE PauseLoop(w)
    BY <1>1, <2>8, GotoFields DEF PauseLoop, Advance, JPause
  <2>9. CASE Report(w)
    BY <1>1, <2>9 DEF Report, Locals, Kept, Advance
  <2> QED
    BY <1>2, <2>1, <2>2, <2>3, <2>4, <2>5, <2>6, <2>7, <2>8, <2>9 DEF LocalStep
<1>3. CASE KeyStep(w)
  <2>1. CASE TrackKey(w)
    BY <1>1, <2>1, GotoFields DEF TrackKey, Advance
  <2>2. CASE PressKey(w)
    BY <1>1, <2>2, LeaveFields, GotoFields DEF PressKey, Advance
  <2>3. CASE ReleaseKey(w)
    BY <1>1, <2>3, ReleaseKeyFields DEF ReleaseKey, Advance
  <2>4. CASE UntrackKey(w)
    BY <1>1, <2>4, LeaveFields, GotoFields DEF UntrackKey, Advance
  <2> QED
    BY <1>3, <2>1, <2>2, <2>3, <2>4 DEF KeyStep
<1>4. CASE ReleaseAllStep(w)
  <2>1. CASE TakeHeld(w)
    BY <1>1, <2>1, GotoFields DEF TakeHeld, Advance
  <2>2. CASE ReleaseHeld(w)
    BY <2>2 DEF ReleaseHeld, Kept, Advance
  <2> QED
    BY <1>4, <2>1, <2>2 DEF ReleaseAllStep
<1>5. CASE FlagStep(w)
  <2>1. CASE WaitTime(w)
    <3>1. m.pc \in {"advance", "recheck"} /\ l.pc = "waittime" /\ Kept(l, m)
      BY <1>1, <2>1, GotoFields DEF WaitTime
    <3> QED
      BY <3>1 DEF Advance
  <2>2. CASE SetPaused(w)
    BY <1>1, <2>2, GotoFields DEF SetPaused, Advance
  <2>3. CASE PauseAbort(w)
    BY <1>1, <2>3, LeaveFields, GotoFields DEF PauseAbort, Advance
  <2>4. CASE AckResume(w)
    BY <1>1, <2>4, AckResumeFields DEF AckResume, Advance
  <2> QED
    BY <1>5, <2>1, <2>2, <2>3, <2>4 DEF FlagStep
<1>6. CASE TickStep(w)
  BY <1>1, <1>6, SleepFields, PauseWaitFields DEF TickStep, Sleep, PauseWait, Advance
<1> QED
  BY <1>2, <1>3, <1>4, <1>5, <1>6 DEF WorkerStep

-----------------------------------------------------------------------------
(* Every step of the scheduler is a step of the job runner.                *)

\* With an event finished under a request none was before.
LEMMA AdvanceGrace ==
    ASSUME GraceInv, NEW w \in Worker, Advance(w)
    PROVE  /\ Requested => grace = 0
           /\ grace' = IF Requested THEN 1 ELSE 0
<1>1. Executing(w) /\ ~Stopping(w)
  BY DEF Advance, At, Executing, ExecutePC, Stopping, Leaving
<1>2. grace = 0
  BY <1>1 DEF GraceInv
<1> QED
  BY <1>2 DEF Advance, Capped

\* A worker step is the job step it shows, or none.
LEMMA WorkerRefines ==
    ASSUME BaseInv, GraceInv, StatusInv, NEW w \in Worker, WorkerStep(w)
    PROVE  Job!Next \/ UNCHANGED Job!vars
<1>1. /\ TypeOK /\ worker \in [Worker -> Locals] /\ EventOK(worker[w])
      /\ \A v \in Worker : v # w => worker'[v] = worker[v]
      /\ Aborted' = Aborted /\ JPause' = JPause
  BY OthersKept, WorkerKeepsRequests DEF BaseInv, TypeOK, EventInv, JPause
<1>2. /\ JStage' = [JStage EXCEPT ![w] = Stage(w)']
      /\ JTotal' = [JTotal EXCEPT ![w] = Len(worker'[w].plan)]
      /\ JDone' = [JDone EXCEPT ![w] = worker'[w].index]
      /\ JStatus' = [JStatus EXCEPT ![w] = ShownStatus(w)']
  BY <1>1, JobUpdate
<1>3. /\ JStage[w] = Stage(w) /\ JTotal[w] = Len(worker[w].plan)
      /\ JDone[w] = worker[w].index /\ JStatus[w] = ShownStatus(w)
      /\ Executing(w) <=> Stage(w) \in {"working", "paused"}
  BY <1>1, JobExecuting
<1>4. ~Advance(w) => grace' = grace
  BY DEF WorkerStep, LocalStep, KeyStep, ReleaseAllStep, FlagStep, TickStep
<1>6. Requested <=> JPause \/ Aborted
  BY DEF Requested, JPause, Aborted
<1>7. CASE /\ Stage(w)' = Stage(w) /\ Kept(worker[w], worker'[w])
           /\ ShownStatus(w)' = ShownStatus(w) /\ ~Advance(w)
  <2>1. UNCHANGED <<JStage, JTotal, JDone, JStatus>>
    BY <1>1, <1>7, JobSame DEF Kept
  <2> QED
    BY <1>1, <1>4, <1>7, <2>1 DEF Job!vars, JStage, JTotal, JDone, JStatus, JPause,
       ShownStatus
<1>8. CASE /\ Stage(w) = "working" /\ Stage(w)' = "paused" /\ JPause
           /\ Kept(worker[w], worker'[w]) /\ ~Advance(w)
  <2>1. JTotal' = JTotal /\ JDone' = JDone /\ JStatus' = JStatus
    BY <1>1, <1>8, JobSame DEF Kept, ShownStatus
  <2>2. Job!Suspend(w)
    BY <1>1, <1>2, <1>3, <1>4, <1>8, <2>1
       DEF Job!Suspend, JStage, JTotal, JDone, JStatus, JPause, ShownStatus
  <2> QED
    BY <2>2 DEF Job!Next
<1>9. CASE /\ Stage(w) = "paused" /\ Stage(w)' = "working" /\ (~JPause \/ Aborted)
           /\ Kept(worker[w], worker'[w]) /\ ~Advance(w)
  <2>1. JTotal' = JTotal /\ JDone' = JDone /\ JStatus' = JStatus
    BY <1>1, <1>9, JobSame DEF Kept, ShownStatus
  <2>2. Job!Continue(w)
    BY <1>1, <1>2, <1>3, <1>4, <1>9, <2>1
       DEF Job!Continue, JStage, JTotal, JDone, JStatus, JPause, ShownStatus
  <2> QED
    BY <2>2 DEF Job!Next
<1>10. CASE Advance(w)
  <2>1. /\ Stage(w) = "working" /\ Stage(w)' = "working"
        /\ worker'[w].plan = worker[w].plan /\ worker'[w].index = worker[w].index + 1
        /\ worker[w].index < Len(worker[w].plan)
    BY <1>1, <1>10, AdvanceFields DEF Advance, At, Stage, EventOK, InEvent, EventPC
  <2>2. /\ JStage' = JStage /\ JTotal' = JTotal /\ JStatus' = JStatus
        /\ JDone' = [JDone EXCEPT ![w] = JDone[w] + 1]
    BY <1>1, <1>2, <1>3, <2>1, JobSame DEF ShownStatus
  <2>3. /\ JPause \/ Aborted => grace = 0
        /\ grace' = IF JPause \/ Aborted THEN 1 ELSE 0
    BY <1>6, <1>10, AdvanceGrace
  <2>4. Job!Perform(w)
    BY <1>1, <1>3, <2>1, <2>2, <2>3
       DEF Job!Perform, JStage, JTotal, JDone, JStatus, JPause, ShownStatus
  <2> QED
    BY <2>4 DEF Job!Next
<1>11. CASE ClearRunning(w)
  <2>1. /\ Stage(w) = "working" /\ Stage(w)' = "ended"
        /\ Kept(worker[w], worker'[w]) /\ worker'[w].status = worker[w].status
    BY <1>1, <1>11, GotoFields DEF ClearRunning, At, Stage
  <2>2. /\ worker[w].status \in {"COMPLETED", "ABORTED", "FAILED"}
        /\ worker[w].status = "COMPLETED" => worker[w].index = Len(worker[w].plan)
        /\ worker[w].status = "ABORTED" => Aborted
    BY <1>1, <1>11 DEF ClearRunning, At, StatusInv, Leaving, Finished, Locals
  <2>3. /\ JStage' = [JStage EXCEPT ![w] = "ended"]
        /\ JTotal' = JTotal /\ JDone' = JDone
        /\ JStatus' = [JStatus EXCEPT ![w] = worker[w].status]
    BY <1>1, <1>2, <2>1, JobSame DEF Kept, ShownStatus
  <2>4. ~Advance(w)
    BY <1>11 DEF ClearRunning, Advance, At
  <2>5. Job!End(w)
    BY <1>1, <1>3, <1>4, <2>1, <2>2, <2>3, <2>4
       DEF Job!End, Job!Executing, Job!RunStatus, JStage, JTotal, JDone, JStatus, JPause,
           ShownStatus
  <2> QED
    BY <2>5 DEF Job!Next
<1>12. CASE ThreadEnds(w)
  <2>1. /\ Stage(w) = "ended" /\ Stage(w)' = "none"
        /\ worker'[w].plan = <<>> /\ worker'[w].index = 0
    BY <1>1, <1>12 DEF ThreadEnds, NoLocals, At, Stage
  <2>2. Len(worker'[w].plan) = 0
    BY <2>1, EmptySeq
  <2>3. /\ JStage' = [JStage EXCEPT ![w] = "none"]
        /\ JTotal' = [JTotal EXCEPT ![w] = 0] /\ JDone' = [JDone EXCEPT ![w] = 0]
        /\ JStatus' = [JStatus EXCEPT ![w] = "COMPLETED"]
    BY <1>2, <2>1, <2>2 DEF ShownStatus
  <2>4. ~Advance(w)
    BY <1>12 DEF ThreadEnds, Advance, At
  <2>5. Job!Deliver(w)
    BY <1>1, <1>3, <1>4, <2>1, <2>3, <2>4
       DEF Job!Deliver, JStage, JTotal, JDone, JStatus, JPause, ShownStatus
  <2> QED
    BY <2>5 DEF Job!Next
<1> QED
  BY <1>1, <1>7, <1>8, <1>9, <1>10, <1>11, <1>12, WorkerShows

\* A call is the request it makes, the start of a job, or nothing the job runner
\* sees.
LEMMA CallerRefines ==
    ASSUME BaseInv, NEW c \in Caller, CallerStep(c)
    PROVE  Job!Next \/ UNCHANGED Job!vars
<1>1. TypeOK
  BY DEF BaseInv
<1>2. worker' = worker => UNCHANGED <<JStage, JTotal, JDone, JStatus>>
  BY DEF JStage, JTotal, JDone, JStatus, Stage, ShownStatus, At
<1>3. Requested <=> JPause \/ Aborted
  BY DEF Requested, JPause, Aborted
<1>4. CASE RequestCall(c)
  <2>1. UNCHANGED <<JStage, JTotal, JDone, JStatus>>
    BY <1>2, <1>4 DEF RequestCall, RequestStep
  <2>2. CASE RequestPause(c)
    <3>1. /\ JPause' = TRUE /\ Aborted' = Aborted
          /\ grace' = IF JPause \/ Aborted THEN grace ELSE 0
      BY <1>3, <2>2 DEF RequestPause, Set, JPause, Aborted
    <3>2. Job!RequestPause
      BY <2>1, <3>1
         DEF Job!RequestPause, JStage, JTotal, JDone, JStatus, JPause, ShownStatus
    <3> QED
      BY <3>2 DEF Job!Next
  <2>3. CASE WithdrawPause(c)
    <3>1. /\ JPause' = FALSE /\ Aborted' = Aborted
          /\ grace' = IF Aborted THEN grace ELSE 0
      BY <2>3 DEF WithdrawPause, Clear, JPause, Aborted
    <3>2. Job!RequestResume
      BY <2>1, <3>1
         DEF Job!RequestResume, JStage, JTotal, JDone, JStatus, JPause, ShownStatus
    <3> QED
      BY <3>2 DEF Job!Next
  <2>4. CASE RequestAbort(c)
    <3>1. /\ Aborted' = TRUE /\ JPause' = JPause
          /\ grace' = IF Aborted THEN grace ELSE 0
      BY <2>4 DEF RequestAbort, Set, JPause, Aborted
    <3>2. Job!RequestAbort
      BY <2>1, <3>1
         DEF Job!RequestAbort, JStage, JTotal, JDone, JStatus, JPause, ShownStatus
    <3> QED
      BY <3>2 DEF Job!Next
  <2> QED
    BY <1>4, <2>2, <2>3, <2>4 DEF RequestCall
<1>5. CASE ResetFlags(c)
  <2>1. UNCHANGED <<JStage, JTotal, JDone, JStatus>>
    BY <1>2, <1>5 DEF ResetFlags
  <2>2. \A v \in Worker : JStage[v] \notin {"working", "paused"}
    BY <1>1, <1>5, JobExecuting DEF ResetFlags, Call, BaseInv, StartInv, OneJob
  <2>3. JPause' = FALSE /\ Aborted' = FALSE /\ grace' = 0
    BY <1>5 DEF ResetFlags, JPause, Aborted
  <2>4. Job!Withdraw
    BY <2>1, <2>2, <2>3 DEF Job!Withdraw, Job!Executing, JStage, JTotal, JDone, JStatus,
       JPause, ShownStatus
  <2> QED
    BY <2>4 DEF Job!Next
<1>6. CASE Launch(c)
  <2>1. \A v \in Worker : JStage[v] \notin {"working", "paused"}
    BY <1>1, <1>6, JobExecuting DEF Launch, Call, BaseInv, StartInv, OneJob
  <2>2. PICK w \in Worker, p \in Plans :
           /\ At(w, "none")
           /\ worker'[w].pc = "top" /\ worker'[w].plan = p
           /\ worker'[w].index = worker[w].index
           /\ \A v \in Worker : v # w => worker'[v] = worker[v]
    BY <1>1, <1>6, LaunchStep
  <2>3. /\ JStage' = [JStage EXCEPT ![w] = Stage(w)']
        /\ JTotal' = [JTotal EXCEPT ![w] = Len(worker'[w].plan)]
        /\ JDone' = [JDone EXCEPT ![w] = worker'[w].index]
        /\ JStatus' = [JStatus EXCEPT ![w] = ShownStatus(w)']
    BY <2>2, JobUpdate
  <2>4. /\ JStage[w] = Stage(w) /\ JDone[w] = worker[w].index
        /\ JStatus[w] = ShownStatus(w)
    BY <1>1, JobExecuting
  <2>5. Stage(w) = "none" /\ Stage(w)' = "working"
    BY <2>2 DEF Stage, At
  <2>6. /\ JStage[w] = "none" /\ JStage' = [JStage EXCEPT ![w] = "working"]
        /\ JTotal' = [JTotal EXCEPT ![w] = Len(p)]
        /\ JDone' = JDone /\ JStatus' = JStatus
    BY <2>2, <2>3, <2>4, <2>5 DEF ShownStatus, JDone, JStatus
  <2>7. JPause' = JPause /\ Aborted' = Aborted /\ grace' = grace
    BY <1>6 DEF Launch, Set, JPause, Aborted
  <2>8. Job!Start(w)
    BY <2>1, <2>6, <2>7 DEF Job!Start, Job!Executing, JStage, JTotal, JDone, JStatus,
       JPause, ShownStatus
  <2> QED
    BY <2>8 DEF Job!Next
<1>7. CASE OtherCall(c)
  <2>1. worker' = worker /\ JPause' = JPause /\ Aborted' = Aborted /\ grace' = grace
    BY <1>7, OtherCallKeeps DEF JPause
  <2>2. UNCHANGED <<JStage, JTotal, JDone, JStatus>>
    BY <1>2, <2>1
  <2> QED
    BY <2>1, <2>2 DEF Job!vars, JStage, JTotal, JDone, JStatus, JPause, ShownStatus
<1> QED
  BY <1>4, <1>5, <1>6, <1>7, CallerCases

\* The scheduler keeps the job runner's promise (scheduler.py:1-30, 134-196): events
\* once each and in order, at most the one in progress finished once a request is
\* made, and a result that is true.
THEOREM ImplementsJobRunner == Spec => RunsJobs
<1>1. Init => Job!Init
  <2> SUFFICES ASSUME Init PROVE Job!Init
    OBVIOUS
  <2>1. \A w \in Worker : /\ Stage(w) = "none" /\ worker[w].index = 0
                          /\ Len(worker[w].plan) = 0
    BY EmptySeq DEF Init, NoLocals, Stage, At
  <2> QED
    BY <2>1 DEF Job!Init, Init, Aborted
<1>2. BaseInv /\ GraceInv /\ StatusInv /\ [Next]_vars => [Job!Next]_(Job!vars)
  <2> SUFFICES ASSUME BaseInv, GraceInv, StatusInv, [Next]_vars
               PROVE  Job!Next \/ UNCHANGED Job!vars
    OBVIOUS
  <2>1. CASE UNCHANGED vars
    BY <2>1 DEF vars, Job!vars, Stage, At, Aborted
  <2> QED
    BY <2>1, WorkerRefines, CallerRefines DEF Next
<1>3. Init => GraceInv /\ StatusInv
  BY DEF Init, NoLocals, GraceInv, StatusInv, Leaving
<1>4. BaseInv /\ GraceInv /\ StatusInv /\ [Next]_vars => GraceInv' /\ StatusInv'
  BY GraceStep, StatusStep DEF BaseInv
<1> QED
  BY <1>1, <1>2, <1>3, <1>4, BaseInit, BaseStep, PTL DEF Spec, RunsJobs, Job!Spec
=============================================================================
