--------------------------- MODULE SafetyController ---------------------------
(***************************************************************************)
(* SafetyController (safety/controller.py) on top of the scheduler, which  *)
(* is taken as its abstract specification JobRunner.  Its threads:         *)
(*   - the interface, which also runs the hotkey handlers on macOS;        *)
(*   - a focus-wait thread per start, polling until focus is on the target;*)
(*   - a focus monitor per run, pausing and resuming by focus and cursor;  *)
(*   - the scheduler's workers, which report results with _on_finished.    *)
(* A block under the controller's lock is one step unless threads that do  *)
(* not take the lock can act inside it; what is read outside the lock is   *)
(* read in a step of its own.  The environment moves focus and cursors.    *)
(* Status lines, warnings, progress and last_result are left out.          *)
(***************************************************************************)
EXTENDS AppStates, Naturals, FiniteSets

CONSTANTS
    App,            \* the applications text may be typed into
    Reporting,      \* those whose cursor position can be read
    NoApp,          \* no application, or the overlay holding the keyboard
    Plan, NoPlan,
    Caret,          \* positions of a cursor
    Watcher,        \* focus-wait threads
    Monitor,        \* focus-monitor threads
    Worker,         \* scheduler worker threads
    MainThread,     \* the interface thread
    NoThread,
    Lengths,        \* the lengths a plan may have, in events
    MaxPolls,       \* bound: polls before a focus-wait thread gives up
    SlowWatcher,    \* a focus-wait thread may outlive abort, reset and Start
    SlowWorker      \* join(timeout) may return with the worker still running

ASSUME AppAssumption == NoApp \notin App /\ Reporting \subseteq App
ASSUME PlanAssumption == NoPlan \notin Plan
ASSUME ThreadAssumption ==
    NoThread \notin Watcher \cup Worker /\ MainThread \notin Watcher \cup {NoThread}
ASSUME BoundAssumption ==
    MaxPolls \in Nat /\ SlowWatcher \in BOOLEAN /\ SlowWorker \in BOOLEAN

VARIABLES
    state,          \* the state machine's state
    plan, target, lastExternal, autoPaused, caretAtPause,
    watchStop,      \* _focus_wait_stop
    monitorStop,    \* _monitor_stop
    lock,           \* the thread inside _start_run or resume(), seen half done
    main,           \* where the interface thread is
    watcher,        \* watcher[t]: locals of a focus-wait thread
    monitor,        \* monitor[n]: where a focus monitor is
    thread,         \* the scheduler's newest worker, the one join waits for
    reporting,      \* workers inside _on_finished, past stopping the monitor
    focus, caret,   \* environment: who has the keyboard, each cursor
    asked,          \* history: the user asked for a pause and not for its end
    stoppedAt,      \* history: the target's cursor when the run was paused
    stage, total, done, status, pauseReq, abortReq, grace  \* JobRunner's

runVars == <<plan, target, lastExternal, autoPaused, caretAtPause>>
threadVars == <<watchStop, monitorStop, lock, main, watcher, monitor, thread, reporting>>
history == <<asked, stoppedAt>>
jobVars == <<stage, total, done, status, pauseReq, abortReq, grace>>
vars == <<state, runVars, threadVars, focus, caret, history, jobVars>>

Job == INSTANCE JobRunner

NoCaret == [app |-> NoApp, at |-> NoApp]
IdleWatcher == [pc |-> "none", target |-> NoApp, plan |-> NoPlan, polls |-> 0]
WatcherPC == {"none", "check", "look", "start", "fail", "launch", "monitor"}
MonitorPC == {"none", "wait", "focus", "pause", "resume", "caret", "act"}
\* shutdown() is called when the window closes and again when run() returns.
WindowCloses == <<"close_abort", "close_stop", "close_join", "closed">>
ProgramEnds == <<"exit_abort", "exit_stop", "exit_join", "exited">>
Closing == {call[i] : call \in {WindowCloses, ProgramEnds}, i \in 1 .. 4}
MainPC == {"idle", "begin", "pause", "resume", "overlay", "continue", "join"} \cup Closing

Free == lock = NoThread
Executing == \E w \in Worker : Job!Executing(w)

Init ==
    /\ state = "IDLE" /\ plan = NoPlan /\ target = NoApp /\ lastExternal = NoApp
    /\ autoPaused = FALSE /\ caretAtPause = NoCaret
    /\ watchStop = FALSE /\ monitorStop = FALSE /\ lock = NoThread /\ main = "idle"
    /\ watcher = [t \in Watcher |-> IdleWatcher]
    /\ monitor = [n \in Monitor |-> "none"]
    /\ thread = NoThread /\ reporting = {}
    /\ focus \in App \cup {NoApp} /\ caret \in [App -> Caret]
    /\ asked = FALSE /\ stoppedAt = NoApp
    /\ Job!Init

-----------------------------------------------------------------------------
(* The environment.                                                        *)

MoveFocus ==
    /\ \E f \in (App \cup {NoApp}) \ {focus} : focus' = f
    /\ UNCHANGED <<state, runVars, threadVars, caret, history, jobVars>>

\* The user clicks or types in the application in front, or the run does.
MoveCaret ==
    /\ focus \in App
    /\ \E c \in Caret \ {caret[focus]} : caret' = [caret EXCEPT ![focus] = c]
    /\ UNCHANGED <<state, runVars, threadVars, focus, history, jobVars>>

\* MacCaretGuard.snapshot reads the focused element, whosever it is.
Snapshot == IF focus \in Reporting THEN [app |-> focus, at |-> caret[focus]] ELSE NoCaret

-----------------------------------------------------------------------------
(* The interface thread.                                                   *)

\* The overlay previews the target while nothing is under way.
CurrentFrontmost ==
    /\ main = "idle" /\ state = "IDLE" /\ focus \in App
    /\ lastExternal' = focus
    /\ UNCHANGED <<state, plan, target, autoPaused, caretAtPause, threadVars,
                   focus, caret, history, jobVars>>

\* Any gate may refuse: back to IDLE over the input, to ERROR over the rest.
Prepare(p) ==
    /\ main = "idle" /\ Free /\ state = "IDLE"
    /\ SlowWatcher \/ \A t \in Watcher : watcher[t].pc = "none"
    /\ target' = NoApp
    /\ \/ /\ state' = Via(state, "VALIDATING", "ARMING")
          /\ plan' = p /\ main' = "begin"
       \/ /\ \E s \in {"IDLE", "ERROR"} : state' = Via(state, "VALIDATING", s)
          /\ UNCHANGED <<plan, main>>
    /\ UNCHANGED <<lastExternal, autoPaused, caretAtPause, watchStop, monitorStop,
                   lock, watcher, monitor, thread, reporting, focus, caret,
                   history, jobVars>>

ExpectedTarget == IF lastExternal # NoApp THEN lastExternal ELSE focus

\* Nothing to type into, or an older watcher already moved the state on.
BeginRefused ==
    /\ main = "begin" /\ Free
    /\ state # "ARMING" \/ ExpectedTarget = NoApp
    /\ state' = IF state = "ARMING" THEN After(state, "ERROR") ELSE state
    /\ main' = "idle"
    /\ UNCHANGED <<runVars, watchStop, monitorStop, lock, watcher, monitor,
                   thread, reporting, focus, caret, history, jobVars>>

BeginTyping(t) ==
    /\ main = "begin" /\ Free
    /\ state = "ARMING" /\ ExpectedTarget # NoApp
    /\ watcher[t].pc = "none"
    /\ target' = ExpectedTarget
    /\ watchStop' = FALSE
    /\ watcher' = [watcher EXCEPT ![t] =
          [pc |-> "check", target |-> ExpectedTarget, plan |-> plan, polls |-> 0]]
    /\ main' = "idle"
    /\ UNCHANGED <<state, plan, lastExternal, autoPaused, caretAtPause, monitorStop,
                   lock, monitor, thread, reporting, focus, caret, history, jobVars>>

\* The pause button and the hotkey read the state before taking the lock.
TogglePause ==
    /\ main = "idle"
    /\ state \in {"RUNNING", "PAUSED"}
    /\ main' = IF state = "RUNNING" THEN "pause" ELSE "resume"
    /\ UNCHANGED <<state, runVars, watchStop, monitorStop, lock, watcher, monitor,
                   thread, reporting, focus, caret, history, jobVars>>

\* pause(): nothing if paused, refused unless running.
Paused(automatic) ==
    IF state = "RUNNING"
    THEN /\ state' = After(state, "PAUSED")
         /\ autoPaused' = automatic
         /\ caretAtPause' = Snapshot
         /\ stoppedAt' = IF target \in App THEN caret[target] ELSE NoApp
         /\ Job!RequestPause
    ELSE UNCHANGED <<state, autoPaused, caretAtPause, stoppedAt, jobVars>>

UserPause ==
    /\ main = "pause" /\ Free
    /\ Paused(FALSE)
    /\ asked' = (state \in {"RUNNING", "PAUSED"} \/ asked)
    /\ main' = "idle"
    /\ UNCHANGED <<plan, target, lastExternal, watchStop, monitorStop, lock, watcher,
                   monitor, thread, reporting, focus, caret>>

Resumed ==
    /\ state' = After(state, "RUNNING")
    /\ autoPaused' = FALSE
    /\ Job!RequestResume

\* resume() is refused unless the run is paused and its target in front, as it
\* still is for frontmost() while the overlay has taken the keyboard from it.
UserResume ==
    /\ main = "resume" /\ Free
    /\ \/ /\ state = "PAUSED" /\ target # NoApp /\ focus \in {target, NoApp}
          /\ main' = "overlay" /\ lock' = MainThread
       \/ /\ state # "PAUSED" \/ focus # target
          /\ main' = "idle" /\ UNCHANGED lock
    /\ UNCHANGED <<state, runVars, watchStop, monitorStop, watcher, monitor, thread,
                   reporting, focus, caret, history, jobVars>>

\* It then asks, still under the lock, whether the overlay has the keyboard ...
SelfHasFocus ==
    /\ main = "overlay"
    /\ \/ main' = "continue" /\ UNCHANGED lock
       \/ focus = NoApp /\ main' = "idle" /\ lock' = NoThread
    /\ UNCHANGED <<state, runVars, watchStop, monitorStop, watcher, monitor, thread,
                   reporting, focus, caret, history, jobVars>>

\* ... and resumes, wherever the focus has gone since; a moved cursor is only
\* warned of.
ResumeContinues ==
    /\ main = "continue"
    /\ IF state = "PAUSED"
       THEN Resumed /\ asked' = FALSE
       ELSE UNCHANGED <<state, autoPaused, asked, jobVars>>
    /\ main' = "idle" /\ lock' = NoThread
    /\ UNCHANGED <<plan, target, lastExternal, caretAtPause, watchStop, monitorStop,
                   watcher, monitor, thread, reporting, focus, caret, stoppedAt>>

\* abort() while waiting for focus is cancel_arming().
CancelArming ==
    /\ main = "idle" /\ Free /\ state = "ARMING"
    /\ state' = After(state, "ABORTED")
    /\ watchStop' = TRUE
    /\ UNCHANGED <<runVars, monitorStop, lock, main, watcher, monitor, thread,
                   reporting, focus, caret, history, jobVars>>

\* Mutant: the scheduler is not told.
AbortUnsignalled ==
    /\ main = "idle" /\ Free
    /\ state \in {"ARMED", "RUNNING", "PAUSED"}
    /\ autoPaused' = FALSE /\ watchStop' = TRUE /\ monitorStop' = TRUE
    /\ state' = After(state, "ABORTED")
    /\ asked' = FALSE /\ main' = "join"
    /\ UNCHANGED <<plan, target, lastExternal, caretAtPause, lock, watcher, monitor,
                   thread, reporting, focus, caret, stoppedAt, jobVars>>

\* Mutant: returns without the join.
AbortUnjoined ==
    /\ main = "idle" /\ Free
    /\ state \in {"ARMED", "RUNNING", "PAUSED"}
    /\ autoPaused' = FALSE /\ watchStop' = TRUE /\ monitorStop' = TRUE
    /\ Job!RequestAbort
    /\ state' = After(state, "ABORTED")
    /\ asked' = FALSE
    /\ UNCHANGED <<plan, target, lastExternal, caretAtPause, lock, main, watcher,
                   monitor, thread, reporting, focus, caret, stoppedAt>>

Abort ==
    /\ main = "idle" /\ Free
    /\ state \in {"ARMED", "RUNNING", "PAUSED"}
    /\ autoPaused' = FALSE
    /\ watchStop' = TRUE
    /\ Job!RequestAbort
    /\ monitorStop' = TRUE
    /\ state' = After(state, "ABORTED")
    /\ asked' = FALSE
    /\ main' = "join"
    /\ UNCHANGED <<plan, target, lastExternal, caretAtPause, lock, watcher, monitor,
                   thread, reporting, focus, caret, stoppedAt>>

\* Mutant: waits until running is cleared, not until the thread is over.
JoinedWhenStopped ==
    SlowWorker \/ \A w \in Worker : w = thread => stage[w] \in {"none", "ended"}

\* The newest worker has returned from _on_finished, or the join timed out, as it
\* does for a job that was not told to stop.
Joined == SlowWorker \/ ~abortReq \/ \A w \in Worker : w = thread => stage[w] = "none"

AbortReturns ==
    /\ main = "join" /\ Joined
    /\ main' = "idle"
    /\ UNCHANGED <<state, runVars, watchStop, monitorStop, lock, watcher, monitor,
                   thread, reporting, focus, caret, history, jobVars>>

Reset ==
    /\ main = "idle" /\ Free /\ state \in Terminal
    /\ state' = After(state, "IDLE")
    /\ plan' = NoPlan /\ target' = NoApp /\ autoPaused' = FALSE
    /\ caretAtPause' = NoCaret
    /\ asked' = FALSE /\ stoppedAt' = NoApp
    /\ UNCHANGED <<lastExternal, threadVars, focus, caret, jobVars>>

\* shutdown() takes no lock: each of its calls is a step.
Shutdown ==
    /\ main \in {"idle", "closed"}
    /\ LET call == IF main = "idle" THEN WindowCloses ELSE ProgramEnds IN
       IF state \in Active
       THEN watchStop' = TRUE /\ main' = call[1]
       ELSE main' = call[4] /\ UNCHANGED watchStop
    /\ UNCHANGED <<state, runVars, monitorStop, lock, watcher, monitor, thread,
                   reporting, focus, caret, history, jobVars>>

Closes(i) ==
    \E call \in {WindowCloses, ProgramEnds} : main = call[i] /\ main' = call[i + 1]

ShutdownAbort ==
    /\ Closes(1)
    /\ Job!RequestAbort
    /\ UNCHANGED <<state, runVars, watchStop, monitorStop, lock, watcher, monitor,
                   thread, reporting, focus, caret, history>>

ShutdownStop ==
    /\ Closes(2)
    /\ monitorStop' = TRUE
    /\ UNCHANGED <<state, runVars, watchStop, lock, watcher, monitor, thread,
                   reporting, focus, caret, history, jobVars>>

\* Mutant: leaves without the join.
ShutdownUnjoined ==
    /\ Closes(3)
    /\ UNCHANGED <<state, runVars, watchStop, monitorStop, lock, watcher, monitor,
                   thread, reporting, focus, caret, history, jobVars>>

ShutdownJoin ==
    /\ Closes(3) /\ Joined
    /\ UNCHANGED <<state, runVars, watchStop, monitorStop, lock, watcher, monitor,
                   thread, reporting, focus, caret, history, jobVars>>

-----------------------------------------------------------------------------
(* Focus-wait threads.                                                     *)

At(t, pc) == watcher' = [watcher EXCEPT ![t].pc = pc]
Ends(t) == watcher' = [watcher EXCEPT ![t] = IdleWatcher]

\* Mutant: polls once more.
CheckOnceMore(t) ==
    /\ watcher[t].pc = "check"
    /\ IF watcher[t].polls > MaxPolls THEN At(t, "fail")
       ELSE IF watchStop \/ state # "ARMING" THEN Ends(t)
       ELSE At(t, "look")
    /\ UNCHANGED <<state, runVars, watchStop, monitorStop, lock, main, monitor,
                   thread, reporting, focus, caret, history, jobVars>>

\* Out of time, told to stop or no longer arming, or another look at focus.
Check(t) ==
    /\ watcher[t].pc = "check"
    /\ IF watcher[t].polls = MaxPolls THEN At(t, "fail")
       ELSE IF watchStop \/ state # "ARMING" THEN Ends(t)
       ELSE At(t, "look")
    /\ UNCHANGED <<state, runVars, watchStop, monitorStop, lock, main, monitor,
                   thread, reporting, focus, caret, history, jobVars>>

\* Mutant: no deadline.
LookForEver(t) ==
    /\ watcher[t].pc = "look"
    /\ At(t, IF focus = watcher[t].target THEN "start" ELSE "check")
    /\ UNCHANGED <<state, runVars, watchStop, monitorStop, lock, main, monitor,
                   thread, reporting, focus, caret, history, jobVars>>

Look(t) ==
    /\ watcher[t].pc = "look"
    /\ watcher' = [watcher EXCEPT
          ![t].pc = IF focus = watcher[t].target THEN "start" ELSE "check",
          ![t].polls = @ + 1]
    /\ UNCHANGED <<state, runVars, watchStop, monitorStop, lock, main, monitor,
                   thread, reporting, focus, caret, history, jobVars>>

\* _fail takes no lock; outside an active state it moves nothing.
WatchFails(t) ==
    /\ watcher[t].pc = "fail"
    /\ state' = After(state, "ERROR")
    /\ Ends(t)
    /\ UNCHANGED <<runVars, watchStop, monitorStop, lock, main, monitor, thread,
                   reporting, focus, caret, history, jobVars>>

\* Bound: a run begins only while thread identities are left for it.
Spare == (\E w \in Worker : stage[w] = "none") /\ \E n \in Monitor : monitor[n] = "none"

\* _start_run re-checks the state, moves on to RUNNING and calls start(), which
\* withdraws earlier requests, or raises while another job executes.
StartRun(t) ==
    /\ watcher[t].pc = "start" /\ Free
    /\ \/ /\ state # "ARMING"
          /\ Ends(t)
          /\ UNCHANGED <<state, target, lock, jobVars>>
       \/ /\ state = "ARMING"
          /\ state' = Via(state, "ARMED", "RUNNING")
          /\ target' = watcher[t].target
          /\ IF Executing
             THEN Ends(t) /\ UNCHANGED <<lock, jobVars>>
             ELSE Spare /\ At(t, "launch") /\ lock' = t /\ Job!Withdraw
    /\ UNCHANGED <<plan, lastExternal, autoPaused, caretAtPause, watchStop, monitorStop,
                   main, monitor, thread, reporting, focus, caret, history>>

Launch(t, w) ==
    /\ watcher[t].pc = "launch"
    /\ Job!Start(w)
    /\ thread' = w
    /\ At(t, "monitor")
    /\ UNCHANGED <<state, runVars, watchStop, monitorStop, lock, main, monitor,
                   reporting, focus, caret, history>>

\* Mutant: a stop left over from the run before is not withdrawn.
StartMonitorUncleared(t, n) ==
    /\ watcher[t].pc = "monitor" /\ monitor[n] = "none"
    /\ monitor' = [monitor EXCEPT ![n] = "wait"]
    /\ lock' = NoThread
    /\ Ends(t)
    /\ UNCHANGED <<state, runVars, watchStop, monitorStop, main, thread, reporting,
                   focus, caret, history, jobVars>>

\* The worker may already have ended and asked a monitor not yet there to stop.
StartMonitor(t, n) ==
    /\ watcher[t].pc = "monitor"
    /\ monitor[n] = "none"
    /\ monitorStop' = FALSE
    /\ monitor' = [monitor EXCEPT ![n] = "wait"]
    /\ lock' = NoThread
    /\ Ends(t)
    /\ UNCHANGED <<state, runVars, watchStop, main, thread, reporting, focus, caret,
                   history, jobVars>>

-----------------------------------------------------------------------------
(* Focus monitors.                                                         *)

Goes(n, pc) == monitor' = [monitor EXCEPT ![n] = pc]
monitorOnly == <<state, runVars, watchStop, monitorStop, lock, main, watcher,
                 thread, reporting, focus, caret, history, jobVars>>

Poll(n) ==
    /\ monitor[n] = "wait"
    /\ IF monitorStop \/ state \notin {"RUNNING", "PAUSED"} THEN Goes(n, "none")
       ELSE Goes(n, IF state = "RUNNING" THEN "focus" ELSE "resume")
    /\ UNCHANGED monitorOnly

CheckFocus(n) ==
    /\ monitor[n] = "focus"
    /\ Goes(n, IF state = "RUNNING" /\ target # NoApp /\ focus # target
               THEN "pause" ELSE "wait")
    /\ UNCHANGED monitorOnly

AutoPause(n) ==
    /\ monitor[n] = "pause" /\ Free
    /\ Paused(TRUE)
    /\ Goes(n, "wait")
    /\ UNCHANGED <<plan, target, lastExternal, watchStop, monitorStop, lock, main,
                   watcher, thread, reporting, focus, caret, asked>>

TryAutoResume(n) ==
    /\ monitor[n] = "resume"
    /\ Goes(n, IF state = "PAUSED" /\ autoPaused /\ target # NoApp /\ focus = target
               THEN "caret" ELSE "wait")
    /\ UNCHANGED monitorOnly

\* caret_moved_since_pause() is True: both snapshots readable and not the same.
CaretMoved == caretAtPause # NoCaret /\ Snapshot # NoCaret /\ caretAtPause # Snapshot

\* Mutant: a cursor that cannot be read counts as moved.
CompareCaretStrictly(n) ==
    /\ monitor[n] = "caret"
    /\ Goes(n, IF caretAtPause # Snapshot THEN "wait" ELSE "act")
    /\ UNCHANGED monitorOnly

CompareCaret(n) ==
    /\ monitor[n] = "caret"
    /\ Goes(n, IF CaretMoved THEN "wait" ELSE "act")
    /\ UNCHANGED monitorOnly

\* Mutant: the scheduler is resumed before the second look.
AutoResumeTooSoon(n) ==
    /\ monitor[n] = "act" /\ Free
    /\ Job!RequestResume
    /\ IF state = "PAUSED" /\ autoPaused
       THEN state' = After(state, "RUNNING") /\ autoPaused' = FALSE
       ELSE UNCHANGED <<state, autoPaused>>
    /\ Goes(n, "wait")
    /\ UNCHANGED <<plan, target, lastExternal, caretAtPause, watchStop, monitorStop,
                   lock, main, watcher, thread, reporting, focus, caret, history>>

AutoResume(n) ==
    /\ monitor[n] = "act" /\ Free
    /\ IF state = "PAUSED" /\ autoPaused
       THEN Resumed
       ELSE UNCHANGED <<state, autoPaused, jobVars>>
    /\ Goes(n, "wait")
    /\ UNCHANGED <<plan, target, lastExternal, caretAtPause, watchStop, monitorStop,
                   lock, main, watcher, thread, reporting, focus, caret, history>>

-----------------------------------------------------------------------------
(* Scheduler workers.                                                      *)

Work(w) ==
    /\ Job!Perform(w) \/ Job!Suspend(w) \/ Job!Continue(w)
    /\ UNCHANGED <<state, runVars, threadVars, focus, caret, history>>

WorkEnds(w) ==
    /\ Job!End(w)
    /\ UNCHANGED <<state, runVars, threadVars, focus, caret, history>>

\* _on_finished stops the monitor before it takes the lock ...
Report(w) ==
    /\ stage[w] = "ended" /\ w \notin reporting
    /\ monitorStop' = TRUE
    /\ reporting' = reporting \cup {w}
    /\ UNCHANGED <<state, runVars, watchStop, lock, main, watcher, monitor, thread,
                   focus, caret, history, jobVars>>

\* ... and moves the state by the result; PAUSED to COMPLETED raises.
StateAfter(result) ==
    CASE result = "COMPLETED" /\ state \in {"RUNNING", "PAUSED"} -> After(state, "COMPLETED")
      [] result = "FAILED" /\ state \in Active -> After(state, "ERROR")
      [] result = "ABORTED" /\ state \in Active -> After(state, "ABORTED")
      [] OTHER -> state

Finish(w) ==
    /\ w \in reporting /\ Free
    /\ state' = StateAfter(status[w])
    /\ Job!Deliver(w)
    /\ reporting' = reporting \ {w}
    /\ UNCHANGED <<runVars, watchStop, monitorStop, lock, main, watcher, monitor,
                   thread, focus, caret, history>>

-----------------------------------------------------------------------------
Interface ==
    \/ CurrentFrontmost \/ BeginRefused \/ TogglePause \/ UserPause
    \/ UserResume \/ SelfHasFocus \/ ResumeContinues
    \/ CancelArming \/ Abort \/ AbortReturns \/ Reset
    \/ Shutdown \/ ShutdownAbort \/ ShutdownStop \/ ShutdownJoin
    \/ \E p \in Plan : Prepare(p)
    \/ \E t \in Watcher : BeginTyping(t)

Watch(t) ==
    \/ Check(t) \/ Look(t) \/ WatchFails(t) \/ StartRun(t)
    \/ \E w \in Worker : Launch(t, w)
    \/ \E n \in Monitor : StartMonitor(t, n)

Mind(n) ==
    \/ Poll(n) \/ CheckFocus(n) \/ AutoPause(n)
    \/ TryAutoResume(n) \/ CompareCaret(n) \/ AutoResume(n)

Next ==
    \/ MoveFocus \/ MoveCaret \/ Interface
    \/ \E t \in Watcher : Watch(t)
    \/ \E n \in Monitor : Mind(n)
    \/ \E w \in Worker : Work(w) \/ WorkEnds(w) \/ Report(w) \/ Finish(w)

Spec == Init /\ [][Next]_vars

\* Threads keep running, calls begun return, and a job that was told to stop
\* ends (the scheduler's AbortEndsRun); nobody is obliged to press a button or
\* to move the focus, and a job that goes on may type for as long as it likes.
FairSpec ==
    /\ Spec
    /\ WF_vars(main # "idle" /\ Interface)
    /\ \A t \in Watcher : WF_vars(Watch(t))
    /\ \A n \in Monitor : WF_vars(Mind(n))
    /\ \A w \in Worker :
        /\ WF_vars(abortReq /\ WorkEnds(w))
        /\ WF_vars(Report(w)) /\ WF_vars(Finish(w))

-----------------------------------------------------------------------------
(* Correctness.                                                            *)

TypeOK ==
    /\ state \in AppState
    /\ plan \in Plan \cup {NoPlan}
    /\ target \in App \cup {NoApp} /\ lastExternal \in App \cup {NoApp}
    /\ autoPaused \in BOOLEAN
    /\ caretAtPause \in [app : Reporting, at : Caret] \cup {NoCaret}
    /\ watchStop \in BOOLEAN /\ monitorStop \in BOOLEAN
    /\ lock \in Watcher \cup {MainThread, NoThread}
    /\ main \in MainPC
    /\ watcher \in [Watcher -> [pc : WatcherPC, target : App \cup {NoApp},
                                plan : Plan \cup {NoPlan}, polls : 0 .. MaxPolls]]
    /\ monitor \in [Monitor -> MonitorPC]
    /\ thread \in Worker \cup {NoThread} /\ reporting \subseteq Worker
    /\ focus \in App \cup {NoApp} /\ caret \in [App -> Caret]
    /\ asked \in BOOLEAN /\ stoppedAt \in Caret \cup {NoApp}
    /\ Job!TypeOK

\* A run that was aborted, failed or finished, or was never started, leaves no
\* job typing behind it once abort() has returned: nothing a focus-wait thread
\* or a monitor was about to do can start or revive one.
NothingTypesUnseen == state \notin Active /\ main # "join" => ~Executing

\* Interface and scheduler never disagree about a run that was not aborted: it
\* is RUNNING with no pause requested or PAUSED with one, whoever paused and
\* resumed it and in whatever order.
StateMatchesRequests ==
    Executing /\ ~abortReq =>
        /\ state \in {"RUNNING", "PAUSED"}
        /\ pauseReq <=> state = "PAUSED"

\* While a job types, a focus monitor is alive that was not told to stop, also
\* when the monitor or the worker of the run before is still on its way out.
TypingIsWatched ==
    Executing /\ ~abortReq /\ lock \notin Watcher /\ main \notin Closing =>
        ~monitorStop /\ \E n \in Monitor : monitor[n] # "none"

\* A job that the end of the program found running is over when the window has
\* closed, let alone the program, whose daemon threads die with a key down; one
\* that begins while shutdown() waits withdraws the abort and is not promised.
NothingOutlivesTheWindow ==
    [][main' # main /\ main' \in {"closed", "exited"} /\ abortReq => ~Executing]_vars

\* What all these threads do to one run is what RunLifecycle promises.
Current == CHOOSE w \in Worker : stage[w] # "none"
Left == \E w \in Worker : stage[w] # "none"
Lifecycle == INSTANCE RunLifecycle WITH
    shown <- state,
    job <- IF Executing THEN "live" ELSE IF Left THEN status[Current]
           ELSE IF \E t \in Watcher : watcher[t].pc = "launch" THEN "starting" ELSE "none",
    typed <- IF Left THEN done[Current] ELSE 0,
    length <- IF Left THEN total[Current] ELSE 0,
    slip <- IF Executing /\ (state # "RUNNING" \/ abortReq) THEN grace ELSE 0,
    own <- state = "PAUSED" /\ ~autoPaused,
    front <- focus \in {target, NoApp},
    checked <- main \in {"overlay", "continue"},
    stop <- abortReq
ImplementsRunLifecycle == Lifecycle!Spec

\* Waiting for focus comes to an end: typing, cancelled or failed.
ArmingEnds == state = "ARMING" ~> state # "ARMING" \/ main \in Closing

\* Typing into something else than the target is noticed and paused.
FocusLossPauses ==
    Executing /\ state = "RUNNING" /\ focus # target ~>
        ~Executing \/ state # "RUNNING" \/ focus = target \/ main \in Closing

\* An automatic pause ends by itself once the target is back in front with a
\* cursor that did not move or cannot be told to have moved.
ReturnResumes ==
    Executing /\ state = "PAUSED" /\ autoPaused /\ focus = target /\ ~CaretMoved ~>
        ~Executing \/ state # "PAUSED" \/ ~autoPaused \/ focus # target \/ CaretMoved
        \/ main \in Closing

\* abort() returns to the interface, with the job over.
AbortEnds == main = "join" ~> main = "idle" /\ ~Executing

-----------------------------------------------------------------------------
(* What the documentation says and the code does not do.                   *)

\* state.py:48: an active state means "a job is in flight".
ActiveHasJob ==
    state \in {"RUNNING", "PAUSED"} /\ Free /\ main = "idle" =>
        \E w \in Worker : stage[w] # "none"

\* controller.py:552-553: "A pause the user asked for stays paused until the
\* user says otherwise", also one asked for while an automatic pause won.
UserPauseKept ==
    [][asked /\ state = "PAUSED" /\ state' = "RUNNING" => UNCHANGED monitor]_vars

\* DESIGN.md:166: "Cursor moved -> does not resume", judged when it is compared.
MovedCursorStays ==
    [][\A n \in Monitor :
          monitor[n] = "caret" /\ monitor'[n] = "act" /\ target \in Reporting =>
              caret[target] = stoppedAt]_vars
=============================================================================
