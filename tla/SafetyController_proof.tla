------------------------ MODULE SafetyController_proof ------------------------
(***************************************************************************)
(* The controller's safety for any number of applications, plans, threads  *)
(* and jobs: its types, that interface and scheduler agree about a run,    *)
(* that nothing types unseen or unwatched, and that nothing is left when   *)
(* the program ends.                                                       *)
(***************************************************************************)
EXTENDS SafetyController, TLAPS

-----------------------------------------------------------------------------
(* The state machine.                                                      *)

\* The moves the controller makes, and those the table does not permit.
LEMMA Moves ==
    /\ \A s \in {"ARMING", "IDLE", "ERROR"} : Via("IDLE", "VALIDATING", s) = s
    /\ Via("ARMING", "ARMED", "RUNNING") = "RUNNING"
    /\ \A s \in {"ARMED", "ARMING", "RUNNING", "PAUSED"} :
          After(s, "ERROR") = "ERROR" /\ After(s, "ABORTED") = "ABORTED"
    /\ \A s \in {"IDLE"} \cup Terminal : After(s, "ERROR") = s
    /\ \A s \in Terminal : After(s, "IDLE") = "IDLE"
    /\ After("RUNNING", "PAUSED") = "PAUSED" /\ After("PAUSED", "RUNNING") = "RUNNING"
    /\ After("RUNNING", "COMPLETED") = "COMPLETED"
    /\ After("PAUSED", "COMPLETED") = "PAUSED"
  BY DEF Via, After, Allowed, AppState, Terminal

\* Whatever is asked of the state machine, it is in one of its states.
LEMMA AfterType ==
    ASSUME NEW s \in AppState, NEW t \in AppState
    PROVE  After(s, t) \in AppState
  BY DEF After

-----------------------------------------------------------------------------
(* Types.                                                                  *)

WatcherLocals == [pc : WatcherPC, target : App \cup {NoApp}, plan : Plan \cup {NoPlan},
                  polls : 0 .. MaxPolls]

\* A watcher about to look at focus has a poll left.
PollInv == \A t \in Watcher : watcher[t].pc = "look" => watcher[t].polls < MaxPolls

\* The job runner keeps its types.
LEMMA JobType ==
    ASSUME Job!TypeOK, Job!Next \/ UNCHANGED jobVars
    PROVE  Job!TypeOK'
<1> USE DEF Job!TypeOK, Job!RunStatus
<1>1. CASE UNCHANGED jobVars
  BY <1>1 DEF jobVars
<1>2. CASE Job!Withdraw \/ Job!RequestPause \/ Job!RequestResume \/ Job!RequestAbort
  BY <1>2 DEF Job!Withdraw, Job!RequestPause, Job!RequestResume, Job!RequestAbort
<1>3. ASSUME NEW w \in Worker, Job!Start(w)
      PROVE  Job!TypeOK'
  BY <1>3 DEF Job!Start
<1>4. ASSUME NEW w \in Worker, Job!Perform(w)
      PROVE  Job!TypeOK'
  BY <1>4 DEF Job!Perform
<1>5. ASSUME NEW w \in Worker, Job!Suspend(w) \/ Job!Continue(w)
      PROVE  Job!TypeOK'
  BY <1>5 DEF Job!Suspend, Job!Continue
<1>6. ASSUME NEW w \in Worker, Job!End(w)
      PROVE  Job!TypeOK'
  BY <1>6 DEF Job!End
<1>7. ASSUME NEW w \in Worker, Job!Deliver(w)
      PROVE  Job!TypeOK'
  BY <1>7 DEF Job!Deliver
<1> QED
  BY <1>1, <1>2, <1>3, <1>4, <1>5, <1>6, <1>7 DEF Job!Next

\* Every step is one of the job runner, or leaves it alone.
LEMMA JobSteps ==
    ASSUME [Next]_vars
    PROVE  Job!Next \/ UNCHANGED jobVars
<1>1. CASE Interface
  BY <1>1 DEF Interface, CurrentFrontmost, BeginRefused, TogglePause, UserPause, Paused,
     UserResume, SelfHasFocus, ResumeContinues, Resumed, CancelArming, Abort, AbortReturns,
     Reset, Shutdown, ShutdownAbort, ShutdownStop, ShutdownJoin, Prepare, BeginTyping, Job!Next
<1>2. ASSUME NEW t \in Watcher, Watch(t)
      PROVE  Job!Next \/ UNCHANGED jobVars
  BY <1>2 DEF Watch, Check, Look, WatchFails, StartRun, Launch, StartMonitor, Job!Next
<1>3. ASSUME NEW n \in Monitor, Mind(n)
      PROVE  Job!Next \/ UNCHANGED jobVars
  BY <1>3 DEF Mind, Poll, CheckFocus, AutoPause, Paused, TryAutoResume, CompareCaret,
     AutoResume, Resumed, monitorOnly, Job!Next
<1>4. ASSUME NEW w \in Worker, Work(w) \/ WorkEnds(w) \/ Report(w) \/ Finish(w)
      PROVE  Job!Next \/ UNCHANGED jobVars
  BY <1>4 DEF Work, WorkEnds, Report, Finish, Job!Next
<1>5. CASE MoveFocus \/ MoveCaret \/ UNCHANGED vars
  BY <1>5 DEF MoveFocus, MoveCaret, vars
<1> QED
  BY <1>1, <1>2, <1>3, <1>4, <1>5 DEF Next

\* A watcher moved to another point of its loop.
LEMMA WatcherAt ==
    ASSUME watcher \in [Watcher -> WatcherLocals], NEW t \in Watcher, NEW p \in WatcherPC,
           At(t, p)
    PROVE  /\ watcher' \in [Watcher -> WatcherLocals]
           /\ watcher'[t].pc = p /\ watcher'[t].polls = watcher[t].polls
           /\ watcher'[t].target = watcher[t].target
           /\ \A u \in Watcher : u # t => watcher'[u] = watcher[u]
<1>1. watcher' = [watcher EXCEPT ![t] = [watcher[t] EXCEPT !.pc = p]]
  BY DEF At
<1>2. [watcher[t] EXCEPT !.pc = p] \in WatcherLocals
  BY DEF WatcherLocals
<1>3. watcher'[t] = [watcher[t] EXCEPT !.pc = p]
  BY <1>1
<1>4. /\ watcher'[t].pc = p /\ watcher'[t].polls = watcher[t].polls
      /\ watcher'[t].target = watcher[t].target
  BY <1>3 DEF WatcherLocals
<1> QED
  BY <1>1, <1>2, <1>4

\* A watcher that ended.
LEMMA WatcherEnds ==
    ASSUME watcher \in [Watcher -> WatcherLocals], NEW t \in Watcher, Ends(t)
    PROVE  /\ watcher' \in [Watcher -> WatcherLocals]
           /\ watcher'[t].pc = "none"
           /\ \A u \in Watcher : u # t => watcher'[u] = watcher[u]
  BY BoundAssumption DEF Ends, IdleWatcher, WatcherLocals, WatcherPC

\* A watcher that looked at focus.
LEMMA WatcherLooked ==
    ASSUME watcher \in [Watcher -> WatcherLocals], PollInv, NEW t \in Watcher, Look(t)
    PROVE  /\ watcher' \in [Watcher -> WatcherLocals]
           /\ watcher'[t].pc = IF focus = watcher[t].target THEN "start" ELSE "check"
           /\ watcher'[t].target = watcher[t].target
           /\ \A u \in Watcher : u # t => watcher'[u] = watcher[u]
<1> DEFINE p == IF focus = watcher[t].target THEN "start" ELSE "check"
           l == [watcher[t] EXCEPT !.pc = p, !.polls = watcher[t].polls + 1]
<1>1. watcher' = [watcher EXCEPT ![t] = l]
  BY DEF Look
<1>2. watcher[t].polls + 1 \in 0 .. MaxPolls
  BY BoundAssumption DEF Look, PollInv, WatcherLocals
<1>3. p \in WatcherPC
  BY DEF WatcherPC
<1>4. \A n \in 0 .. MaxPolls : [watcher[t] EXCEPT !.pc = p, !.polls = n] \in WatcherLocals
  BY <1>3 DEF WatcherLocals
<1>5. l \in WatcherLocals
  BY <1>2, <1>4
<1>6. watcher'[t] = l
  BY <1>1
<1>7. watcher'[t].pc = p /\ watcher'[t].target = watcher[t].target
  BY <1>6 DEF WatcherLocals
<1> QED
  BY <1>1, <1>5, <1>7

\* A watcher just created.
LEMMA WatcherBegins ==
    ASSUME TypeOK, NEW t \in Watcher, BeginTyping(t)
    PROVE  /\ watcher' \in [Watcher -> WatcherLocals]
           /\ ExpectedTarget \in App \cup {NoApp}
           /\ watcher'[t].pc = "check"
           /\ \A u \in Watcher : u # t => watcher'[u] = watcher[u]
<1>1. ExpectedTarget \in App \cup {NoApp} /\ plan \in Plan \cup {NoPlan}
  BY DEF ExpectedTarget, TypeOK
<1>2. 0 \in 0 .. MaxPolls /\ "check" \in WatcherPC
  BY BoundAssumption DEF WatcherPC
<1>3. [pc |-> "check", target |-> ExpectedTarget, plan |-> plan, polls |-> 0]
          \in WatcherLocals
  BY <1>1, <1>2 DEF WatcherLocals
<1>4. watcher \in [Watcher -> WatcherLocals]
  BY DEF TypeOK, WatcherLocals
<1> QED
  BY <1>1, <1>3, <1>4 DEF BeginTyping

\* Pausing and resuming write what they may.
LEMMA PausedType ==
    ASSUME TypeOK, NEW automatic \in BOOLEAN, Paused(automatic)
    PROVE  /\ state' \in AppState /\ autoPaused' \in BOOLEAN
           /\ caretAtPause' \in [app : Reporting, at : Caret] \cup {NoCaret}
           /\ stoppedAt' \in Caret \cup {NoApp}
<1>1. /\ Snapshot \in [app : Reporting, at : Caret] \cup {NoCaret}
      /\ target \in App => caret[target] \in Caret
  BY AppAssumption DEF Snapshot, TypeOK
<1>2. After(state, "PAUSED") \in AppState
  BY AfterType DEF TypeOK, AppState
<1> QED
  BY <1>1, <1>2 DEF Paused, TypeOK

LEMMA ResumedType ==
    ASSUME TypeOK, Resumed
    PROVE  state' \in AppState /\ autoPaused' \in BOOLEAN
<1>1. After(state, "RUNNING") \in AppState
  BY AfterType DEF TypeOK, AppState
<1> QED
  BY <1>1 DEF Resumed

\* What the interface does keeps the types of everything but the watchers and the job.
LEMMA InterfaceType ==
    ASSUME TypeOK, PollInv, Interface
    PROVE  TypeOK' /\ PollInv'
<1>1. Job!TypeOK' /\ (UNCHANGED watcher => PollInv')
  BY JobSteps, JobType DEF Next, TypeOK, PollInv
<1>2. /\ Snapshot \in [app : Reporting, at : Caret] \cup {NoCaret}
      /\ target \in App => caret[target] \in Caret
  BY AppAssumption DEF Snapshot, TypeOK
<1>3. "idle" \in MainPC /\ "begin" \in MainPC /\ "pause" \in MainPC
      /\ "resume" \in MainPC /\ "join" \in MainPC
      /\ "overlay" \in MainPC /\ "continue" \in MainPC
  BY DEF MainPC
<1>4. \A call \in {WindowCloses, ProgramEnds}, i \in 1 .. 4 : call[i] \in MainPC
  BY DEF MainPC, Closing
<1>5. /\ After(state, "ERROR") \in AppState /\ After(state, "PAUSED") \in AppState
      /\ After(state, "RUNNING") \in AppState /\ After(state, "ABORTED") \in AppState
      /\ After(state, "IDLE") \in AppState
      /\ \A s \in {"ARMING", "IDLE", "ERROR"} : Via(state, "VALIDATING", s) \in AppState
  BY AfterType DEF TypeOK, AppState, Via
<1>6. CASE CurrentFrontmost
  BY <1>1, <1>6 DEF CurrentFrontmost, TypeOK, threadVars, history, jobVars
<1>7. ASSUME NEW p \in Plan, Prepare(p)
      PROVE  TypeOK' /\ PollInv'
  BY <1>1, <1>3, <1>5, <1>7 DEF Prepare, TypeOK, history, jobVars
<1>8. CASE BeginRefused
  BY <1>1, <1>3, <1>5, <1>8 DEF BeginRefused, TypeOK, history, jobVars, runVars
<1>9. ASSUME NEW t \in Watcher, BeginTyping(t)
      PROVE  TypeOK' /\ PollInv'
  <2>1. PollInv'
    BY <1>9, WatcherBegins DEF PollInv
  <2>2. /\ watcher' \in [Watcher -> WatcherLocals]
        /\ target' \in App \cup {NoApp}
    BY <1>9, WatcherBegins DEF BeginTyping
  <2>3. watchStop' \in BOOLEAN /\ main' \in MainPC
    BY <1>3, <1>9 DEF BeginTyping
  <2> QED
    BY <1>1, <1>9, <2>1, <2>2, <2>3 DEF BeginTyping, TypeOK, history, WatcherLocals
<1>10. CASE TogglePause
  BY <1>1, <1>3, <1>10 DEF TogglePause, TypeOK, history, jobVars, runVars
<1>11. CASE UserPause
  <2>1. /\ state' \in AppState /\ autoPaused' \in BOOLEAN
        /\ caretAtPause' \in [app : Reporting, at : Caret] \cup {NoCaret}
        /\ stoppedAt' \in Caret \cup {NoApp}
    BY <1>11, PausedType DEF UserPause
  <2> QED
    BY <1>1, <1>3, <1>11, <2>1 DEF UserPause, TypeOK
<1>12. CASE UserResume \/ SelfHasFocus
  <2>1. main' \in MainPC /\ lock' \in Watcher \cup {MainThread, NoThread}
    BY <1>3, <1>12 DEF UserResume, SelfHasFocus, TypeOK
  <2> QED
    BY <1>1, <1>12, <2>1 DEF UserResume, SelfHasFocus, TypeOK, history, jobVars, runVars
<1>19. CASE ResumeContinues
  <2>1. state' \in AppState /\ autoPaused' \in BOOLEAN /\ asked' \in BOOLEAN
    BY <1>19, ResumedType DEF ResumeContinues, TypeOK
  <2> QED
    BY <1>1, <1>3, <1>19, <2>1 DEF ResumeContinues, TypeOK
<1>13. CASE CancelArming
  BY <1>1, <1>5, <1>13 DEF CancelArming, TypeOK, history, jobVars, runVars
<1>14. CASE Abort
  BY <1>1, <1>3, <1>5, <1>14 DEF Abort, TypeOK
<1>15. CASE AbortReturns
  BY <1>1, <1>3, <1>15 DEF AbortReturns, TypeOK, history, jobVars, runVars
<1>16. CASE Reset
  BY <1>1, <1>5, <1>16 DEF Reset, TypeOK, threadVars, jobVars
<1>17. CASE Shutdown
  <2>1. main' \in MainPC
    BY <1>4, <1>17, 1 \in 1 .. 4, 4 \in 1 .. 4 DEF Shutdown
  <2>2. watchStop' \in BOOLEAN
    BY <1>17 DEF Shutdown, TypeOK
  <2> QED
    BY <1>1, <1>17, <2>1, <2>2 DEF Shutdown, TypeOK, runVars, history, jobVars
<1>18. CASE ShutdownAbort \/ ShutdownStop \/ ShutdownJoin
  <2>1. main' \in MainPC
    BY <1>4, <1>18 DEF ShutdownAbort, ShutdownStop, ShutdownJoin, Closes
  <2> QED
    BY <1>1, <1>18, <2>1 DEF ShutdownAbort, ShutdownStop, ShutdownJoin, TypeOK, runVars,
       history, jobVars
<1> QED
  BY <1>6, <1>7, <1>8, <1>9, <1>10, <1>11, <1>12, <1>13, <1>14, <1>15, <1>16, <1>17, <1>18,
     <1>19 DEF Interface

\* Focus-wait threads keep the types, and count their polls.
LEMMA WatchType ==
    ASSUME TypeOK, PollInv, NEW t \in Watcher, Watch(t)
    PROVE  TypeOK' /\ PollInv'
<1>1. Job!TypeOK'
  BY JobSteps, JobType DEF Next, TypeOK
<1>2. watcher \in [Watcher -> WatcherLocals]
  BY DEF TypeOK, WatcherLocals
<1>3. \A pc \in {"none", "check", "look", "start", "fail", "launch", "monitor"} :
          pc \in WatcherPC
  BY DEF WatcherPC
<1>4. /\ After(state, "ERROR") \in AppState /\ Via(state, "ARMED", "RUNNING") \in AppState
      /\ watcher[t].target \in App \cup {NoApp} /\ watcher[t].polls \in 0 .. MaxPolls
  BY <1>2, AfterType DEF TypeOK, AppState, Via, WatcherLocals
<1>5. watcher' \in [Watcher -> WatcherLocals] /\ PollInv'
  <2>1. CASE Check(t)
    <3>1. CASE Ends(t)
      BY <1>2, <3>1, WatcherEnds DEF PollInv
    <3>2. CASE ~Ends(t)
      BY <1>2, <1>3, <1>4, <2>1, <3>2, WatcherAt, BoundAssumption DEF Check, PollInv
    <3> QED
      BY <3>1, <3>2
  <2>2. CASE Look(t)
    BY <1>2, <2>2, WatcherLooked DEF PollInv
  <2>3. CASE Ends(t)
    BY <1>2, <2>3, WatcherEnds DEF PollInv
  <2>4. CASE At(t, "launch") \/ At(t, "monitor")
    BY <1>2, <1>3, <2>4, WatcherAt DEF PollInv
  <2>5. CASE UNCHANGED watcher
    BY <1>2, <2>5 DEF PollInv
  <2> QED
    BY <2>1, <2>2, <2>3, <2>4, <2>5 DEF Watch, WatchFails, StartRun, Launch, StartMonitor
<1>6. CASE Check(t) \/ Look(t)
  BY <1>1, <1>5, <1>6 DEF Check, Look, TypeOK, runVars, history, jobVars, WatcherLocals
<1>7. CASE WatchFails(t)
  BY <1>1, <1>4, <1>5, <1>7 DEF WatchFails, TypeOK, runVars, history, jobVars, WatcherLocals
<1>8. CASE StartRun(t)
  <2>1. state' \in AppState /\ target' \in App \cup {NoApp}
        /\ lock' \in Watcher \cup {MainThread, NoThread}
    BY <1>4, <1>8 DEF StartRun, TypeOK
  <2> QED
    BY <1>1, <1>5, <1>8, <2>1 DEF StartRun, TypeOK, history, WatcherLocals
<1>9. ASSUME NEW w \in Worker, Launch(t, w)
      PROVE  TypeOK' /\ PollInv'
  BY <1>1, <1>5, <1>9 DEF Launch, TypeOK, runVars, history, WatcherLocals
<1>10. ASSUME NEW n \in Monitor, StartMonitor(t, n)
       PROVE  TypeOK' /\ PollInv'
  <2>1. monitor' \in [Monitor -> MonitorPC]
    BY <1>10 DEF StartMonitor, TypeOK, MonitorPC
  <2> QED
    BY <1>1, <1>5, <1>10, <2>1
       DEF StartMonitor, TypeOK, runVars, history, jobVars, WatcherLocals
<1> QED
  BY <1>6, <1>7, <1>8, <1>9, <1>10 DEF Watch

\* So do focus monitors ...
LEMMA MindType ==
    ASSUME TypeOK, PollInv, NEW n \in Monitor, Mind(n)
    PROVE  TypeOK' /\ PollInv'
<1>1. Job!TypeOK'
  BY JobSteps, JobType DEF Next, TypeOK
<1>2. PollInv'
  BY DEF Mind, Poll, CheckFocus, AutoPause, TryAutoResume, CompareCaret, AutoResume,
     monitorOnly, PollInv
<1>3. monitor' \in [Monitor -> MonitorPC]
  BY DEF Mind, Poll, CheckFocus, AutoPause, TryAutoResume, CompareCaret, AutoResume,
     Goes, TypeOK, MonitorPC
<1>4. /\ Snapshot \in [app : Reporting, at : Caret] \cup {NoCaret}
      /\ target \in App => caret[target] \in Caret
  BY AppAssumption DEF Snapshot, TypeOK
<1>5. After(state, "PAUSED") \in AppState /\ After(state, "RUNNING") \in AppState
  BY AfterType DEF TypeOK, AppState
<1>6. CASE Poll(n) \/ CheckFocus(n) \/ TryAutoResume(n) \/ CompareCaret(n)
  BY <1>1, <1>2, <1>3, <1>6 DEF Poll, CheckFocus, TryAutoResume, CompareCaret,
     monitorOnly, TypeOK, runVars, history, jobVars
<1>7. CASE AutoPause(n)
  <2>1. /\ state' \in AppState /\ autoPaused' \in BOOLEAN
        /\ caretAtPause' \in [app : Reporting, at : Caret] \cup {NoCaret}
        /\ stoppedAt' \in Caret \cup {NoApp}
    BY <1>7, PausedType DEF AutoPause
  <2> QED
    BY <1>1, <1>2, <1>3, <1>7, <2>1 DEF AutoPause, TypeOK
<1>8. CASE AutoResume(n)
  <2>1. state' \in AppState /\ autoPaused' \in BOOLEAN
    BY <1>8, ResumedType DEF AutoResume, TypeOK
  <2> QED
    BY <1>1, <1>2, <1>3, <1>8, <2>1 DEF AutoResume, TypeOK, history
<1> QED
  BY <1>6, <1>7, <1>8 DEF Mind

\* ... and the scheduler's workers.
LEMMA WorkerType ==
    ASSUME TypeOK, PollInv, NEW w \in Worker, Work(w) \/ WorkEnds(w) \/ Report(w) \/ Finish(w)
    PROVE  TypeOK' /\ PollInv'
<1>1. Job!TypeOK'
  BY JobSteps, JobType DEF Next, TypeOK
<1>2. StateAfter(status[w]) \in AppState
  BY AfterType DEF StateAfter, TypeOK, AppState
<1>3. CASE Work(w) \/ WorkEnds(w)
  BY <1>1, <1>3 DEF Work, WorkEnds, TypeOK, PollInv, runVars, threadVars, history
<1>4. CASE Report(w)
  BY <1>1, <1>4 DEF Report, TypeOK, PollInv, runVars, history, jobVars
<1>5. CASE Finish(w)
  BY <1>1, <1>2, <1>5 DEF Finish, TypeOK, PollInv, runVars, history
<1> QED
  BY <1>3, <1>4, <1>5

\* So every step keeps the types ...
LEMMA ControllerTypeStep ==
    ASSUME TypeOK, PollInv, [Next]_vars
    PROVE  TypeOK' /\ PollInv'
<1>1. Job!TypeOK'
  BY JobSteps, JobType DEF TypeOK
<1>2. CASE MoveFocus
  BY <1>1, <1>2 DEF MoveFocus, TypeOK, PollInv, runVars, threadVars, history, jobVars
<1>3. CASE MoveCaret
  BY <1>1, <1>3 DEF MoveCaret, TypeOK, PollInv, runVars, threadVars, history, jobVars
<1>4. CASE UNCHANGED vars
  BY <1>1, <1>4 DEF vars, TypeOK, PollInv, runVars, threadVars, history, jobVars
<1> QED
  BY <1>2, <1>3, <1>4, InterfaceType, WatchType, MindType, WorkerType DEF Next

\* ... the program starts with.
LEMMA ControllerTypeInit == Init => TypeOK /\ PollInv
<1> SUFFICES ASSUME Init
             PROVE  TypeOK /\ PollInv
  OBVIOUS
<1>1. Job!TypeOK
  BY DEF Init, Job!Init, Job!TypeOK, Job!RunStatus
<1>2. IdleWatcher \in WatcherLocals
  BY BoundAssumption DEF IdleWatcher, WatcherLocals, WatcherPC
<1> QED
  BY <1>1, <1>2 DEF Init, TypeOK, PollInv, IdleWatcher, WatcherLocals, AppState, MainPC,
     MonitorPC

-----------------------------------------------------------------------------
(* The inductive invariant.                                                *)

\* Both are only passed through, inside one block under the lock.
StateInv == state \notin {"VALIDATING", "ARMED"}

Waiting(t) == watcher[t].pc \in {"check", "look", "start", "fail"}
Starting(t) == watcher[t].pc \in {"launch", "monitor"}

\* Only one focus-wait thread is alive, and none while one is about to be started.
OneWatcher ==
    /\ \A t, u \in Watcher : watcher[t].pc # "none" /\ watcher[u].pc # "none" => t = u
    /\ main = "begin" => \A t \in Watcher : watcher[t].pc = "none"

\* Who still waits for focus waits for a run that has not begun.
WatchInv == \A t \in Watcher : Waiting(t) => state \notin {"RUNNING", "PAUSED"}

\* The thread inside _start_run holds the lock, and until it launches there is no job.
LockInv ==
    \A t \in Watcher :
        /\ Starting(t) <=> lock = t
        /\ Starting(t) => state = "RUNNING"
        /\ watcher[t].pc = "launch" => ~pauseReq /\ \A w \in Worker : stage[w] = "none"

\* resume() holds the lock over a pause that nobody can end meanwhile.
Resuming == main \in {"overlay", "continue"}
ResumeInv == Resuming => lock = MainThread /\ state = "PAUSED"

\* Nobody can withdraw the request abort() waits on.
JoinInv == main = "join" => abortReq /\ \A t \in Watcher : watcher[t].pc = "none"

\* Outside a run, and abort() returned, there is no job, not even its result.
QuietInv ==
    state \notin {"RUNNING", "PAUSED"} /\ main # "join" =>
        \A w \in Worker : stage[w] = "none"

\* There is one job, the one join waits for.
ThreadInv == \A w \in Worker : stage[w] # "none" => w = thread

CoreInv == StateInv /\ OneWatcher /\ WatchInv /\ LockInv /\ ResumeInv /\ JoinInv /\ QuietInv
           /\ ThreadInv /\ StateMatchesRequests

\* A job executes where its worker is working or paused.
LEMMA ExecutingStages ==
    Executing <=> \E w \in Worker : stage[w] \in {"working", "paused"}
  BY DEF Executing, Job!Executing

\* A step that moves neither the state nor a watcher nor the job.
LEMMA CoreSame ==
    ASSUME CoreInv, UNCHANGED <<state, lock, watcher, thread, stage, pauseReq, abortReq>>,
           main' = main \/ (main # "join" /\ main' \notin {"begin", "join", "overlay", "continue"})
    PROVE  CoreInv'
<1>1. Executing' = Executing
  BY DEF Executing, Job!Executing
<1>2. StateMatchesRequests'
  BY <1>1 DEF CoreInv, StateMatchesRequests
<1> QED
  BY <1>2 DEF CoreInv, StateInv, OneWatcher, WatchInv, LockInv, ResumeInv, JoinInv, QuietInv,
     ThreadInv, Waiting, Starting, Resuming

\* Pausing needs the lock, and the state and the request move together.
LEMMA CorePaused ==
    ASSUME CoreInv, Free, NEW a \in BOOLEAN, Paused(a),
           UNCHANGED <<lock, watcher, thread>>,
           main' = main \/ (main # "join" /\ main' \notin {"begin", "join", "overlay", "continue"})
    PROVE  CoreInv'
<1>1. CASE state = "RUNNING"
  <2>1. /\ state' = "PAUSED" /\ pauseReq' = TRUE
        /\ abortReq' = abortReq /\ stage' = stage
    BY <1>1, Moves DEF Paused, Job!RequestPause
  <2>2. \A t \in Watcher : ~Starting(t) /\ ~Waiting(t)
    BY <1>1, ThreadAssumption DEF CoreInv, LockInv, WatchInv, Free
  <2>3. StateMatchesRequests'
    BY <2>1 DEF StateMatchesRequests
  <2> QED
    BY <1>1, <2>1, <2>2, <2>3, ThreadAssumption DEF CoreInv, StateInv, OneWatcher, WatchInv,
       LockInv, ResumeInv, JoinInv, QuietInv, ThreadInv, Waiting, Starting, Resuming
<1>2. CASE state # "RUNNING"
  <2>1. UNCHANGED <<state, stage, pauseReq, abortReq>>
    BY <1>2 DEF Paused, jobVars
  <2> QED
    BY <2>1, CoreSame
<1> QED
  BY <1>1, <1>2

\* So do resuming's, also in a step that gives the lock back.
LEMMA CoreResumed ==
    ASSUME CoreInv, state = "PAUSED", Resumed, UNCHANGED <<watcher, thread>>,
           lock \notin Watcher, lock' = NoThread,
           \/ lock = NoThread /\ main' = main
           \/ main # "join" /\ main' = "idle"
    PROVE  CoreInv'
<1>1. /\ state' = "RUNNING" /\ pauseReq' = FALSE
      /\ abortReq' = abortReq /\ stage' = stage
  BY Moves DEF Resumed, Job!RequestResume
<1>2. \A t \in Watcher : ~Starting(t) /\ ~Waiting(t)
  BY DEF CoreInv, LockInv, WatchInv
<1>3. StateMatchesRequests'
  BY <1>1 DEF StateMatchesRequests
<1>4. ~Resuming'
  BY ThreadAssumption DEF CoreInv, ResumeInv, Resuming
<1> QED
  BY <1>1, <1>2, <1>3, <1>4, ThreadAssumption DEF CoreInv, StateInv, OneWatcher, WatchInv,
     LockInv, ResumeInv, JoinInv, QuietInv, ThreadInv, Waiting, Starting

\* What the interface does keeps the invariant: a run is armed only when no
\* focus-wait thread is left, and aborted only when none is on its way.
LEMMA CoreInterface ==
    ASSUME ~SlowWatcher, ~SlowWorker, TypeOK, CoreInv, Interface
    PROVE  CoreInv'
<1> USE DEF StateInv, OneWatcher, WatchInv, LockInv, ResumeInv, JoinInv, QuietInv, ThreadInv,
        Waiting, Starting, Resuming
<1>1. CASE CurrentFrontmost \/ TogglePause \/ Shutdown \/ ShutdownStop \/ ShutdownJoin
           \/ (BeginRefused /\ state' = state)
  <2>1. UNCHANGED <<state, lock, watcher, thread, stage, pauseReq, abortReq>>
    BY <1>1 DEF CurrentFrontmost, TogglePause, Shutdown, ShutdownStop, ShutdownJoin,
       BeginRefused, threadVars, jobVars
  <2>2. main' = main \/ (main # "join" /\ main' \notin {"begin", "join", "overlay", "continue"})
    BY <1>1 DEF CurrentFrontmost, TogglePause, Shutdown, ShutdownStop, ShutdownJoin,
       BeginRefused, threadVars, Closes, WindowCloses, ProgramEnds
  <2> QED
    BY <2>1, <2>2, CoreSame
<1>2. ASSUME NEW p \in Plan, Prepare(p)
      PROVE  CoreInv'
  <2>1. /\ state = "IDLE" /\ state' \in {"ARMING", "IDLE", "ERROR"}
        /\ main = "idle" /\ main' \in {"idle", "begin"}
        /\ \A t \in Watcher : watcher[t].pc = "none"
        /\ UNCHANGED <<lock, watcher, thread, stage, pauseReq, abortReq>>
    BY <1>2, Moves DEF Prepare, jobVars
  <2>2. ~Executing'
    BY <2>1 DEF CoreInv, Executing, Job!Executing
  <2> QED
    BY <2>1, <2>2 DEF CoreInv, StateMatchesRequests
<1>3. CASE BeginRefused /\ state' # state
  <2>1. /\ state = "ARMING" /\ state' = "ERROR" /\ main = "begin" /\ main' = "idle"
        /\ UNCHANGED <<lock, watcher, thread, stage, pauseReq, abortReq>>
    BY <1>3, Moves DEF BeginRefused, jobVars
  <2>2. ~Executing'
    BY <2>1 DEF CoreInv, Executing, Job!Executing
  <2> QED
    BY <2>1, <2>2 DEF CoreInv, StateMatchesRequests
<1>4. ASSUME NEW t \in Watcher, BeginTyping(t)
      PROVE  CoreInv'
  <2>1. /\ state = "ARMING" /\ main = "begin" /\ main' = "idle"
        /\ UNCHANGED <<state, lock, thread, stage, pauseReq, abortReq>>
    BY <1>4 DEF BeginTyping, jobVars
  <2>2. /\ watcher'[t].pc = "check" /\ \A u \in Watcher : u # t => watcher'[u] = watcher[u]
        /\ \A u \in Watcher : watcher[u].pc = "none"
    BY <1>4, <2>1, WatcherBegins DEF CoreInv
  <2>3. ~Executing'
    BY <2>1 DEF CoreInv, Executing, Job!Executing
  <2>4. lock # t
    BY <2>2 DEF CoreInv
  <2> QED
    BY <2>1, <2>2, <2>3, <2>4 DEF CoreInv, StateMatchesRequests
<1>5. CASE UserPause
  BY <1>5, CorePaused DEF UserPause
<1>6. CASE UserResume \/ SelfHasFocus
  <2>1. /\ UNCHANGED <<state, watcher, thread, stage, pauseReq, abortReq>>
        /\ lock \in {MainThread, NoThread} /\ lock' \in {MainThread, NoThread}
        /\ main \in {"resume", "overlay"} /\ main' \in {"idle", "overlay", "continue"}
        /\ Resuming' => lock' = MainThread /\ state = "PAUSED"
    BY <1>6 DEF UserResume, SelfHasFocus, jobVars, Free, CoreInv
  <2>2. Executing' = Executing
    BY <2>1 DEF Executing, Job!Executing
  <2>3. \A t \in Watcher : lock # t /\ lock' # t
    BY <2>1, ThreadAssumption
  <2> QED
    BY <2>1, <2>2, <2>3 DEF CoreInv, StateMatchesRequests
<1>12. CASE ResumeContinues
  <2>1. lock = MainThread /\ lock \notin Watcher /\ main # "join" /\ state = "PAUSED"
    BY <1>12, ThreadAssumption DEF ResumeContinues, CoreInv
  <2> QED
    BY <1>12, <2>1, CoreResumed DEF ResumeContinues
<1>7. CASE CancelArming
  <2>1. /\ state = "ARMING" /\ state' = "ABORTED" /\ main = "idle"
        /\ UNCHANGED <<lock, main, watcher, thread, stage, pauseReq, abortReq>>
    BY <1>7, Moves DEF CancelArming, jobVars
  <2>2. ~Executing'
    BY <2>1 DEF CoreInv, Executing, Job!Executing
  <2> QED
    BY <2>1, <2>2 DEF CoreInv, StateMatchesRequests
<1>8. CASE Abort
  <2>1. /\ state \in {"RUNNING", "PAUSED"} /\ state' = "ABORTED"
        /\ main' = "join" /\ abortReq' = TRUE
        /\ UNCHANGED <<lock, watcher, thread, stage, pauseReq>>
    BY <1>8, Moves DEF Abort, Job!RequestAbort, CoreInv
  <2>2. \A t \in Watcher : watcher[t].pc = "none"
    <3>1. \A t \in Watcher : ~Waiting(t) /\ ~Starting(t)
      BY <1>8, <2>1, ThreadAssumption DEF CoreInv, Abort, Free
    <3> QED
      BY <3>1 DEF TypeOK, WatcherPC
  <2> QED
    BY <2>1, <2>2, ThreadAssumption DEF CoreInv, StateMatchesRequests
<1>9. CASE AbortReturns
  <2>1. /\ main = "join" /\ main' = "idle" /\ abortReq
        /\ \A w \in Worker : stage[w] = "none"
        /\ UNCHANGED <<state, lock, watcher, thread, stage, pauseReq, abortReq>>
    BY <1>9 DEF AbortReturns, Joined, CoreInv, jobVars
  <2>2. ~Executing'
    BY <2>1 DEF Executing, Job!Executing
  <2> QED
    BY <2>1, <2>2 DEF CoreInv, StateMatchesRequests
<1>10. CASE Reset
  <2>1. /\ state \in Terminal /\ state' = "IDLE" /\ main = "idle"
        /\ UNCHANGED <<lock, main, watcher, thread, stage, pauseReq, abortReq>>
    BY <1>10, Moves DEF Reset, threadVars, jobVars
  <2>2. state \notin {"RUNNING", "PAUSED"}
    BY <2>1 DEF Terminal
  <2>3. ~Executing'
    BY <2>1, <2>2 DEF CoreInv, Executing, Job!Executing
  <2> QED
    BY <2>1, <2>2, <2>3 DEF CoreInv, StateMatchesRequests
<1>11. CASE ShutdownAbort
  <2>1. /\ abortReq' = TRUE /\ main # "join"
        /\ main' \notin {"join", "begin", "overlay", "continue"}
        /\ UNCHANGED <<state, lock, watcher, thread, stage, pauseReq>>
    BY <1>11 DEF ShutdownAbort, Closes, WindowCloses, ProgramEnds, Job!RequestAbort
  <2> QED
    BY <2>1 DEF CoreInv, StateMatchesRequests
<1> QED
  BY <1>1, <1>2, <1>3, <1>4, <1>5, <1>6, <1>7, <1>8, <1>9, <1>10, <1>11,
     <1>12 DEF Interface

\* Focus-wait threads keep it: the one that begins a run finds nothing of an older one.
LEMMA CoreWatch ==
    ASSUME TypeOK, PollInv, CoreInv, NEW t \in Watcher, Watch(t)
    PROVE  CoreInv'
<1> USE DEF StateInv, OneWatcher, WatchInv, LockInv, ResumeInv, JoinInv, QuietInv, ThreadInv,
        Waiting, Starting, Resuming
<1> DEFINE pc(u) == watcher[u].pc
<1>1. watcher \in [Watcher -> WatcherLocals]
  BY DEF TypeOK, WatcherLocals
<1>2. \A p \in {"none", "check", "look", "start", "fail", "launch", "monitor"} :
          p \in WatcherPC
  BY DEF WatcherPC
<1>3. watcher[t].pc # "none" => main \notin {"join", "begin"}
                                /\ \A u \in Watcher : u # t => watcher[u].pc = "none"
  BY DEF CoreInv
<1>4. ASSUME watcher[t].pc \in {"check", "look", "start", "fail"},
             watcher'[t].pc \in {"none", "check", "look", "start", "fail"},
             \A u \in Watcher : u # t => watcher'[u] = watcher[u],
             UNCHANGED <<state, lock, main, thread, stage, pauseReq, abortReq>>
      PROVE  CoreInv'
  <2>1. Executing' = Executing
    BY <1>4 DEF Executing, Job!Executing
  <2>2. StateMatchesRequests'
    BY <1>4, <2>1 DEF CoreInv, StateMatchesRequests
  <2>3. OneWatcher' /\ JoinInv'
    BY <1>3, <1>4 DEF CoreInv
  <2>4. WatchInv' /\ LockInv'
    BY <1>3, <1>4 DEF CoreInv
  <2> QED
    BY <1>4, <2>2, <2>3, <2>4 DEF CoreInv
<1>5. CASE Check(t)
  <2>1. watcher'[t].pc \in {"fail", "none", "look"}
        /\ \A u \in Watcher : u # t => watcher'[u] = watcher[u]
    <3>1. CASE Ends(t)
      BY <1>1, <3>1, WatcherEnds
    <3>2. CASE At(t, "fail") \/ At(t, "look")
      BY <1>1, <1>2, <3>2, WatcherAt
    <3> QED
      BY <1>5, <3>1, <3>2 DEF Check
  <2> QED
    BY <1>4, <1>5, <2>1 DEF Check, jobVars
<1>6. CASE Look(t)
  BY <1>1, <1>4, <1>6, WatcherLooked DEF Look, jobVars
<1>7. CASE WatchFails(t)
  <2>1. /\ watcher[t].pc = "fail" /\ watcher'[t].pc = "none"
        /\ \A u \in Watcher : u # t => watcher'[u] = watcher[u]
        /\ UNCHANGED <<lock, main, thread, stage, pauseReq, abortReq>>
    BY <1>1, <1>7, WatcherEnds DEF WatchFails, jobVars
  <2>2. state \notin {"RUNNING", "PAUSED"} /\ main \notin {"join", "begin"}
        /\ \A w \in Worker : stage[w] = "none"
    BY <1>3, <2>1 DEF CoreInv
  <2>3. state' \notin {"RUNNING", "PAUSED", "VALIDATING", "ARMED"}
    BY <1>7, <2>2, Moves DEF WatchFails, TypeOK, AppState, Terminal, CoreInv
  <2>4. ~Executing'
    BY <2>1, <2>2 DEF Executing, Job!Executing
  <2>5. \A u \in Watcher : watcher'[u].pc = "none" /\ lock # u
    BY <1>3, <2>1 DEF CoreInv
  <2> QED
    BY <2>1, <2>2, <2>3, <2>4, <2>5 DEF CoreInv, StateMatchesRequests
<1>8. CASE StartRun(t)
  <2>1. CASE state # "ARMING"
    <3>1. Ends(t) /\ UNCHANGED <<state, lock, main, thread, stage, pauseReq, abortReq>>
      BY <1>8, <2>1 DEF StartRun, jobVars
    <3> QED
      BY <1>1, <1>4, <1>8, <3>1, WatcherEnds DEF StartRun
  <2>2. CASE state = "ARMING"
    <3>1. \A w \in Worker : stage[w] = "none"
      BY <1>3, <1>8, <2>2 DEF StartRun, CoreInv
    <3>2. ~Executing
      BY <3>1 DEF Executing, Job!Executing
    <3>3. /\ state' = "RUNNING" /\ lock' = t /\ ~pauseReq' /\ ~abortReq'
          /\ At(t, "launch") /\ UNCHANGED <<main, thread, stage>>
      BY <1>8, <2>2, <3>2, Moves DEF StartRun, Job!Withdraw
    <3>4. /\ watcher'[t].pc = "launch"
          /\ \A u \in Watcher : u # t => watcher'[u] = watcher[u]
          /\ \A u \in Watcher : u # t => watcher[u].pc = "none"
          /\ main \notin {"join", "begin", "overlay", "continue"}
      BY <1>1, <1>2, <1>3, <1>8, <3>3, WatcherAt, ThreadAssumption DEF StartRun, Free, CoreInv
    <3>5. ~Executing'
      BY <3>1, <3>3 DEF Executing, Job!Executing
    <3> QED
      BY <3>1, <3>3, <3>4, <3>5 DEF CoreInv, StateMatchesRequests
  <2> QED
    BY <2>1, <2>2
<1>9. ASSUME NEW w \in Worker, Launch(t, w)
      PROVE  CoreInv'
  <2>1. /\ watcher[t].pc = "launch" /\ watcher'[t].pc = "monitor"
        /\ \A u \in Watcher : u # t => watcher'[u] = watcher[u] /\ watcher[u].pc = "none"
        /\ UNCHANGED <<state, lock, main, pauseReq, abortReq>> /\ thread' = w
    BY <1>1, <1>2, <1>3, <1>9, WatcherAt DEF Launch, Job!Start
  <2>2. state = "RUNNING" /\ ~pauseReq /\ lock = t /\ main \notin {"join", "begin"}
        /\ \A v \in Worker : stage[v] = "none"
    BY <1>3, <2>1 DEF CoreInv
  <2>3. stage' = [stage EXCEPT ![w] = "working"] /\ stage \in [Worker -> {"none", "working", "paused", "ended"}]
    BY <1>9 DEF Launch, Job!Start, TypeOK, Job!TypeOK
  <2>4. ThreadInv'
    BY <2>1, <2>2, <2>3
  <2> QED
    BY <2>1, <2>2, <2>4 DEF CoreInv, StateMatchesRequests
<1>10. ASSUME NEW n \in Monitor, StartMonitor(t, n)
       PROVE  CoreInv'
  <2>1. /\ watcher[t].pc = "monitor" /\ watcher'[t].pc = "none"
        /\ \A u \in Watcher : u # t => watcher'[u] = watcher[u] /\ watcher[u].pc = "none"
        /\ UNCHANGED <<state, main, thread, stage, pauseReq, abortReq>> /\ lock' = NoThread
    BY <1>1, <1>3, <1>10, WatcherEnds DEF StartMonitor, jobVars
  <2>2. \A u \in Watcher : watcher'[u].pc = "none" /\ lock' # u
    BY <2>1, ThreadAssumption
  <2>3. Executing' = Executing
    BY <2>1 DEF Executing, Job!Executing
  <2> QED
    BY <1>3, <2>1, <2>2, <2>3 DEF CoreInv, StateMatchesRequests
<1> QED
  BY <1>5, <1>6, <1>7, <1>8, <1>9, <1>10 DEF Watch

\* Focus monitors act under the lock, where nothing is half done.
LEMMA CoreMind ==
    ASSUME CoreInv, NEW n \in Monitor, Mind(n)
    PROVE  CoreInv'
<1>1. CASE Poll(n) \/ CheckFocus(n) \/ TryAutoResume(n) \/ CompareCaret(n)
  <2>1. UNCHANGED <<state, lock, watcher, thread, stage, pauseReq, abortReq>> /\ main' = main
    BY <1>1 DEF Poll, CheckFocus, TryAutoResume, CompareCaret, monitorOnly, jobVars
  <2> QED
    BY <2>1, CoreSame
<1>2. CASE AutoPause(n)
  <2>1. Free /\ Paused(TRUE) /\ UNCHANGED <<lock, watcher, thread>> /\ main' = main
    BY <1>2 DEF AutoPause
  <2> QED
    BY <2>1, CorePaused
<1>3. CASE AutoResume(n)
  <2>1. CASE Resumed /\ state = "PAUSED"
    <3>1. /\ lock = NoThread /\ lock' = NoThread /\ lock \notin Watcher
          /\ UNCHANGED <<watcher, thread>> /\ main' = main
      BY <1>3, ThreadAssumption DEF AutoResume, Free
    <3> QED
      BY <2>1, <3>1, CoreResumed
  <2>2. CASE UNCHANGED <<state, jobVars>>
    <3>1. UNCHANGED <<state, lock, watcher, thread, stage, pauseReq, abortReq>> /\ main' = main
      BY <1>3, <2>2 DEF AutoResume, jobVars
    <3> QED
      BY <3>1, CoreSame
  <2> QED
    BY <1>3, <2>1, <2>2 DEF AutoResume
<1> QED
  BY <1>1, <1>2, <1>3 DEF Mind

\* A worker that delivers its result leaves no job behind, whatever the state becomes.
LEMMA CoreWorker ==
    ASSUME TypeOK, CoreInv, NEW w \in Worker,
           Work(w) \/ WorkEnds(w) \/ Report(w) \/ Finish(w)
    PROVE  CoreInv'
<1> USE DEF StateInv, OneWatcher, WatchInv, LockInv, ResumeInv, JoinInv, QuietInv, ThreadInv,
        Waiting, Starting, Resuming
<1>1. stage \in [Worker -> {"none", "working", "paused", "ended"}]
  BY DEF TypeOK, Job!TypeOK
<1>2. ASSUME stage[w] # "none", NEW s \in {"working", "paused", "ended"},
             stage' = [stage EXCEPT ![w] = s], s # "ended" => stage[w] # "ended",
             UNCHANGED <<state, lock, main, watcher, thread, pauseReq, abortReq>>
      PROVE  CoreInv'
  <2>1. Executing' => Executing
    BY <1>1, <1>2, ExecutingStages DEF Executing, Job!Executing
  <2>2. StateMatchesRequests'
    BY <1>2, <2>1 DEF CoreInv, StateMatchesRequests
  <2>3. \A v \in Worker : stage'[v] = "none" <=> stage[v] = "none"
    BY <1>1, <1>2
  <2> QED
    BY <1>2, <2>2, <2>3 DEF CoreInv
<1>3. CASE Work(w)
  <2>1. CASE Job!Perform(w)
    <3>1. UNCHANGED <<state, lock, watcher, thread, stage, pauseReq, abortReq>> /\ main' = main
      BY <1>3, <2>1 DEF Work, Job!Perform, threadVars
    <3> QED
      BY <3>1, CoreSame
  <2>2. CASE Job!Suspend(w)
    BY <1>2, <1>3, <2>2 DEF Work, Job!Suspend, threadVars
  <2>3. CASE Job!Continue(w)
    BY <1>2, <1>3, <2>3 DEF Work, Job!Continue, threadVars
  <2> QED
    BY <1>3, <2>1, <2>2, <2>3 DEF Work
<1>4. CASE WorkEnds(w)
  BY <1>2, <1>4 DEF WorkEnds, Job!End, Job!Executing, threadVars
<1>5. CASE Report(w)
  <2>1. UNCHANGED <<state, lock, watcher, thread, stage, pauseReq, abortReq>> /\ main' = main
    BY <1>5 DEF Report, jobVars
  <2> QED
    BY <2>1, CoreSame
<1>6. CASE Finish(w)
  <2>1. /\ stage[w] = "ended" /\ stage' = [stage EXCEPT ![w] = "none"]
        /\ lock = NoThread /\ state' = StateAfter(status[w])
        /\ UNCHANGED <<lock, main, watcher, thread, pauseReq, abortReq>>
    BY <1>6 DEF Finish, Job!Deliver, Free
  <2>2. \A v \in Worker : stage'[v] = "none"
    BY <1>1, <2>1 DEF CoreInv
  <2>3. ~Executing'
    BY <2>2 DEF Executing, Job!Executing
  <2>4. ~Resuming /\ \A t \in Watcher : ~Starting(t)
    BY <2>1, ThreadAssumption DEF CoreInv
  <2>5. /\ state' \notin {"VALIDATING", "ARMED"}
        /\ state \notin {"RUNNING", "PAUSED"} => state' \notin {"RUNNING", "PAUSED"}
    BY <2>1, Moves DEF StateAfter, CoreInv, TypeOK, AppState, Active, Job!TypeOK
  <2> QED
    BY <2>1, <2>2, <2>3, <2>4, <2>5 DEF CoreInv, StateMatchesRequests
<1> QED
  BY <1>3, <1>4, <1>5, <1>6

\* Every step keeps the invariant ...
LEMMA CoreStep ==
    ASSUME ~SlowWatcher, ~SlowWorker, TypeOK, PollInv, CoreInv, [Next]_vars
    PROVE  CoreInv'
<1>1. CASE MoveFocus \/ MoveCaret \/ UNCHANGED vars
  <2>1. UNCHANGED <<state, lock, watcher, thread, stage, pauseReq, abortReq>> /\ main' = main
    BY <1>1 DEF MoveFocus, MoveCaret, vars, threadVars, jobVars
  <2> QED
    BY <2>1, CoreSame
<1> QED
  BY <1>1, CoreInterface, CoreWatch, CoreMind, CoreWorker DEF Next

\* ... that the initial states satisfy.
LEMMA CoreInit == Init => CoreInv
<1> SUFFICES ASSUME Init
             PROVE  CoreInv
  OBVIOUS
<1>1. \A w \in Worker : stage[w] = "none"
  BY DEF Init, Job!Init
<1>2. ~Executing
  BY <1>1 DEF Executing, Job!Executing
<1>3. \A t \in Watcher : watcher[t].pc = "none" /\ lock # t
  BY ThreadAssumption DEF Init, IdleWatcher
<1> QED
  BY <1>1, <1>2, <1>3 DEF Init, CoreInv, StateInv, OneWatcher, WatchInv, LockInv, ResumeInv,
     JoinInv, QuietInv, ThreadInv, StateMatchesRequests, Waiting, Starting, Resuming

-----------------------------------------------------------------------------
(* The focus monitor.                                                      *)

\* A program that is closing goes on closing.
LEMMA StaysClosing ==
    ASSUME [Next]_vars, main \in Closing
    PROVE  main' \in Closing
<1>1. main \notin {"idle", "begin", "pause", "resume", "overlay", "continue", "join"}
  BY DEF Closing, WindowCloses, ProgramEnds
<1>2. \A call \in {WindowCloses, ProgramEnds}, i \in 1 .. 4 : call[i] \in Closing
  BY DEF Closing
<1>3. ASSUME NEW i \in 1 .. 3, Closes(i)
      PROVE  main' \in Closing
  BY <1>2, <1>3 DEF Closes
<1>4. CASE Shutdown
  BY <1>2, <1>4, 1 \in 1 .. 4, 4 \in 1 .. 4 DEF Shutdown
<1>5. CASE ShutdownAbort \/ ShutdownStop \/ ShutdownJoin
  BY <1>3, <1>5, 1 \in 1 .. 3, 2 \in 1 .. 3, 3 \in 1 .. 3
     DEF ShutdownAbort, ShutdownStop, ShutdownJoin
<1>6. CASE Interface
  BY <1>1, <1>4, <1>5, <1>6 DEF Interface, CurrentFrontmost, BeginRefused, TogglePause,
     UserPause, UserResume, SelfHasFocus, ResumeContinues, CancelArming, Abort,
     AbortReturns, Reset, Prepare, BeginTyping, threadVars
<1>7. ASSUME NEW t \in Watcher, Watch(t)
      PROVE  main' = main
  BY <1>7 DEF Watch, Check, Look, WatchFails, StartRun, Launch, StartMonitor
<1>8. ASSUME NEW n \in Monitor, Mind(n)
      PROVE  main' = main
  BY <1>8 DEF Mind, Poll, CheckFocus, AutoPause, TryAutoResume, CompareCaret, AutoResume,
     monitorOnly
<1>9. ASSUME NEW w \in Worker, Work(w) \/ WorkEnds(w) \/ Report(w) \/ Finish(w)
      PROVE  main' = main
  BY <1>9 DEF Work, WorkEnds, Report, Finish, threadVars
<1>10. CASE MoveFocus \/ MoveCaret \/ UNCHANGED vars
  BY <1>10 DEF MoveFocus, MoveCaret, vars, threadVars
<1> QED
  BY <1>6, <1>7, <1>8, <1>9, <1>10 DEF Next

\* A run's monitor is there until its worker reports or the run is aborted.
LEMMA WatchedStep ==
    ASSUME ~SlowWatcher, ~SlowWorker, TypeOK, PollInv, CoreInv, TypingIsWatched, [Next]_vars
    PROVE  TypingIsWatched'
<1> USE DEF TypingIsWatched
<1> SUFFICES ASSUME Executing', ~abortReq', lock' \notin Watcher, main' \notin Closing
             PROVE  ~monitorStop' /\ \E n \in Monitor : monitor'[n] # "none"
  OBVIOUS
<1>1. main \notin Closing
  BY StaysClosing
<1> DEFINE Watched == ~monitorStop /\ \E n \in Monitor : monitor[n] # "none"
<1>2. ASSUME UNCHANGED <<stage, abortReq>>, lock' = lock \/ lock \notin Watcher
      PROVE  Watched
  <2>1. Executing /\ ~abortReq /\ lock \notin Watcher
    BY <1>2 DEF Executing, Job!Executing
  <2> QED
    BY <1>1, <2>1
<1>3. monitor \in [Monitor -> MonitorPC]
  BY DEF TypeOK
<1>4. CASE MoveFocus \/ MoveCaret \/ UNCHANGED vars
  BY <1>2, <1>4 DEF MoveFocus, MoveCaret, vars, threadVars, jobVars
<1>5. CASE Interface
  <2>0. main \in {"overlay", "continue"} => lock \notin Watcher
    BY ThreadAssumption DEF CoreInv, ResumeInv, Resuming
  <2>1. UNCHANGED <<stage, monitor>> /\ (lock' = lock \/ lock \notin Watcher)
    BY <1>5, <2>0, ThreadAssumption DEF Interface, CurrentFrontmost, BeginRefused, TogglePause,
       UserPause, Paused, UserResume, SelfHasFocus, ResumeContinues, Resumed, CancelArming,
       Abort, AbortReturns, Reset, Prepare, BeginTyping, Shutdown, ShutdownAbort,
       ShutdownStop, ShutdownJoin, Free, threadVars, jobVars, Job!RequestPause,
       Job!RequestResume, Job!RequestAbort
  <2>2. abortReq' = abortReq \/ abortReq'
    BY <1>5 DEF Interface, CurrentFrontmost, BeginRefused, TogglePause,
       UserPause, Paused, UserResume, SelfHasFocus, ResumeContinues, Resumed, CancelArming,
       Abort, AbortReturns, Reset, Prepare, BeginTyping, Shutdown, ShutdownAbort, ShutdownStop, ShutdownJoin,
       threadVars, jobVars, Job!RequestPause, Job!RequestResume, Job!RequestAbort
  <2>3. ~ShutdownStop
    <3>1. WindowCloses[3] \in Closing /\ ProgramEnds[3] \in Closing
      BY 3 \in 1 .. 4 DEF Closing
    <3> QED
      BY <3>1 DEF ShutdownStop, Closes
  <2>4. monitorStop' = monitorStop \/ abortReq'
    BY <1>5, <2>3 DEF Interface, CurrentFrontmost, BeginRefused, TogglePause,
       UserPause, UserResume, SelfHasFocus, ResumeContinues, CancelArming, Abort,
       AbortReturns, Reset, Prepare, BeginTyping, Shutdown, ShutdownAbort, ShutdownJoin,
       threadVars, Job!RequestAbort
  <2> QED
    BY <1>2, <2>1, <2>2, <2>4
<1>6. ASSUME NEW t \in Watcher, Watch(t)
      PROVE  Watched'
  <2>1. CASE Check(t) \/ Look(t) \/ WatchFails(t)
    BY <1>2, <2>1 DEF Check, Look, WatchFails, jobVars
  <2>2. CASE StartRun(t)
    <3>1. CASE lock' = t
      BY <3>1
    <3>2. CASE UNCHANGED <<lock, jobVars>>
      BY <1>2, <2>2, <3>2 DEF StartRun, jobVars
    <3> QED
      BY <2>2, <3>1, <3>2 DEF StartRun, jobVars
  <2>3. ASSUME NEW w \in Worker, Launch(t, w)
        PROVE  FALSE
    BY <2>3 DEF Launch, CoreInv, LockInv, Starting
  <2>4. ASSUME NEW n \in Monitor, StartMonitor(t, n)
        PROVE  Watched'
    BY <1>3, <2>4 DEF StartMonitor
  <2> QED
    BY <1>6, <2>1, <2>2, <2>3, <2>4 DEF Watch
<1>7. ASSUME NEW n \in Monitor, Mind(n)
      PROVE  Watched'
  <2>1. UNCHANGED <<stage, abortReq, lock>> /\ UNCHANGED monitorStop
    BY <1>7 DEF Mind, Poll, CheckFocus, AutoPause, TryAutoResume, CompareCaret, AutoResume,
       Paused, Resumed, monitorOnly, jobVars, Job!RequestPause, Job!RequestResume
  <2>2. Watched /\ state \in {"RUNNING", "PAUSED"}
    <3>1. Executing /\ ~abortReq
      BY <2>1 DEF Executing, Job!Executing
    <3> QED
      BY <1>2, <2>1, <3>1 DEF CoreInv, StateMatchesRequests
  <2>3. \E pc \in MonitorPC \ {"none"} : monitor' = [monitor EXCEPT ![n] = pc]
    BY <1>7, <2>2 DEF Mind, Poll, CheckFocus, AutoPause, TryAutoResume, CompareCaret,
       AutoResume, Goes, MonitorPC
  <2> QED
    BY <1>3, <2>1, <2>2, <2>3
<1>8. ASSUME NEW w \in Worker, Work(w) \/ WorkEnds(w) \/ Report(w) \/ Finish(w)
      PROVE  Watched'
  <2>1. UNCHANGED <<abortReq, lock, monitor>>
    BY <1>8 DEF Work, WorkEnds, Report, Finish, threadVars, jobVars, Job!Perform,
       Job!Suspend, Job!Continue, Job!End, Job!Deliver
  <2>2. Executing /\ ~Report(w)
    <3>1. stage \in [Worker -> {"none", "working", "paused", "ended"}]
      BY DEF TypeOK, Job!TypeOK
    <3>2. CASE Job!Perform(w)
      BY <3>2 DEF Job!Perform, Executing, Job!Executing, Report
    <3>3. CASE Job!Suspend(w) \/ Job!Continue(w) \/ Job!End(w)
      BY <3>1, <3>3 DEF Job!Suspend, Job!Continue, Job!End, Executing, Job!Executing, Report
    <3>4. CASE Report(w)
      <4>1. stage[w] = "ended" /\ stage' = stage
        BY <3>4 DEF Report, jobVars
      <4>2. \A v \in Worker : stage'[v] \notin {"working", "paused"}
        BY <4>1 DEF CoreInv, ThreadInv
      <4> QED
        BY <4>2 DEF Executing, Job!Executing
    <3>5. CASE Finish(w)
      <4>1. stage[w] = "ended" /\ stage' = [stage EXCEPT ![w] = "none"]
        BY <3>5 DEF Finish, Job!Deliver
      <4>2. \A v \in Worker : stage'[v] \notin {"working", "paused"}
        BY <3>1, <4>1 DEF CoreInv, ThreadInv
      <4> QED
        BY <4>2 DEF Executing, Job!Executing
    <3> QED
      BY <1>8, <3>2, <3>3, <3>4, <3>5 DEF Work, WorkEnds
  <2>3. UNCHANGED monitorStop
    BY <1>8, <2>2 DEF Work, WorkEnds, Finish, threadVars
  <2>4. lock \notin Watcher
    BY <2>1
  <2> QED
    BY <1>1, <2>1, <2>2, <2>3, <2>4
<1> QED
  BY <1>4, <1>5, <1>6, <1>7, <1>8 DEF Next

-----------------------------------------------------------------------------
(* The theorems.                                                           *)

\* Every state the controller reaches has its types, also where threads outlive
\* their time.
THEOREM ControllerTypeCorrect == Spec => []TypeOK
<1>1. Init => TypeOK /\ PollInv
  BY ControllerTypeInit
<1>2. TypeOK /\ PollInv /\ [Next]_vars => TypeOK' /\ PollInv'
  BY ControllerTypeStep
<1> QED
  BY <1>1, <1>2, PTL DEF Spec

\* The invariant holds while focus-wait threads end before the next start and
\* join waits long enough.
LEMMA ControllerInvariant ==
    ASSUME ~SlowWatcher, ~SlowWorker
    PROVE  Spec => [](TypeOK /\ PollInv /\ CoreInv /\ TypingIsWatched)
<1>1. Init => TypingIsWatched
  <2> SUFFICES ASSUME Init
               PROVE  ~Executing
    BY DEF TypingIsWatched
  <2> QED
    BY DEF Init, Job!Init, Executing, Job!Executing
<1>2. Init => TypeOK /\ PollInv /\ CoreInv /\ TypingIsWatched
  BY <1>1, ControllerTypeInit, CoreInit
<1>3. TypeOK /\ PollInv /\ CoreInv /\ TypingIsWatched /\ [Next]_vars
          => TypeOK' /\ PollInv' /\ CoreInv' /\ TypingIsWatched'
  BY ControllerTypeStep, CoreStep, WatchedStep
<1> QED
  BY <1>2, <1>3, PTL DEF Spec

\* Interface and scheduler agree about every run that was not aborted, for any
\* number of pauses, resumes, focus changes and late results (controller.py:548).
THEOREM InterfaceAndSchedulerAgree ==
    ASSUME ~SlowWatcher, ~SlowWorker
    PROVE  Spec => []StateMatchesRequests
<1>1. CoreInv => StateMatchesRequests
  BY DEF CoreInv
<1> QED
  BY <1>1, ControllerInvariant, PTL

\* Nothing types once a run is over and abort() has returned (controller.py:624).
THEOREM NothingUnseen ==
    ASSUME ~SlowWatcher, ~SlowWorker
    PROVE  Spec => []NothingTypesUnseen
<1>1. CoreInv => NothingTypesUnseen
  BY DEF CoreInv, QuietInv, NothingTypesUnseen, Active, Executing, Job!Executing
<1> QED
  BY <1>1, ControllerInvariant, PTL

\* No run goes on without a monitor that still listens (controller.py:671).
THEOREM RunsAreWatched ==
    ASSUME ~SlowWatcher, ~SlowWorker
    PROVE  Spec => []TypingIsWatched
BY ControllerInvariant, PTL

\* A job told to stop is over when shutdown() returns (controller.py:658).
THEOREM WindowOutlivesTheJob ==
    ASSUME ~SlowWatcher, ~SlowWorker
    PROVE  Spec => NothingOutlivesTheWindow
<1> DEFINE Over == main' # main /\ main' \in {"closed", "exited"} /\ abortReq => ~Executing
<1>1. ASSUME CoreInv, Next, main' # main, main' \in {"closed", "exited"}, abortReq
      PROVE  ~Executing
  <2>1. CASE Shutdown
    <3>1. main # "join" /\ state \notin Active
      BY <1>1, <2>1 DEF Shutdown, WindowCloses, ProgramEnds
    <3> QED
      BY <1>1, <3>1 DEF CoreInv, QuietInv, Active, Executing, Job!Executing
  <2>2. CASE ShutdownJoin
    <3>1. \A w \in Worker : w = thread => stage[w] = "none"
      BY <1>1, <2>2 DEF ShutdownJoin, Joined
    <3> QED
      BY <1>1, <3>1 DEF CoreInv, ThreadInv, Executing, Job!Executing
  <2>3. CASE ShutdownAbort \/ ShutdownStop
    BY <1>1, <2>3 DEF ShutdownAbort, ShutdownStop, Closes, WindowCloses, ProgramEnds
  <2>4. CASE Interface /\ ~(Shutdown \/ ShutdownAbort \/ ShutdownStop \/ ShutdownJoin)
    BY <1>1, <2>4 DEF Interface, CurrentFrontmost, BeginRefused, TogglePause,
       UserPause, UserResume, SelfHasFocus, ResumeContinues, CancelArming, Abort,
       AbortReturns, Reset, Prepare, BeginTyping, threadVars
  <2>5. ASSUME NEW t \in Watcher, Watch(t)
        PROVE  main' = main
    BY <2>5 DEF Watch, Check, Look, WatchFails, StartRun, Launch, StartMonitor
  <2>6. ASSUME NEW n \in Monitor, Mind(n)
        PROVE  main' = main
    BY <2>6 DEF Mind, Poll, CheckFocus, AutoPause, TryAutoResume, CompareCaret, AutoResume,
       monitorOnly
  <2>7. ASSUME NEW w \in Worker, Work(w) \/ WorkEnds(w) \/ Report(w) \/ Finish(w)
        PROVE  main' = main
    BY <2>7 DEF Work, WorkEnds, Report, Finish, threadVars
  <2>8. CASE MoveFocus \/ MoveCaret
    BY <1>1, <2>8 DEF MoveFocus, MoveCaret, threadVars
  <2> QED
    BY <1>1, <2>1, <2>2, <2>3, <2>4, <2>5, <2>6, <2>7, <2>8 DEF Next
<1>2. CoreInv /\ [Next]_vars => [Over]_vars
  BY <1>1
<1> QED
  BY <1>2, ControllerInvariant, PTL DEF Spec, NothingOutlivesTheWindow
=============================================================================
