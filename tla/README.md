# Typing Simulator: specifications, model checks and proofs

The Typing Simulator types a pasted text into another application, key by key,
with human delays, mistakes and corrections. It runs several threads against a
desktop it does not control: the user moves the focus and the cursor, presses
hotkeys, closes the window, flips permission switches. This directory models
that behaviour in TLA+, checks it with TLC and proves its safety with TLAPS.
Paths below are relative to `src/src/typing_simulator/`.

## 1. The system

| Part | State it keeps | Operations | Interacts with |
|---|---|---|---|
| typing scheduler, `scheduler/scheduler.py` | five `threading.Event` flags, the worker thread, run counters | start, run, pause, resume, abort, join; the worker's event loop | backend (keys), clock, the controller's `_on_finished` |
| tracked backend, `backends/base.py` | list of keys held, under a lock | key_down, key_up, release_all | called by the worker and, for release_all, by any thread |
| emitting backends, `backends/quartz_backend.py`, `pynput_backend.py`, `recording_backend.py` | event source | `_press`, `_release` | macOS or pynput; the events posted come past the program's own hotkey monitor |
| safety controller, `safety/controller.py` | state machine, plan, target, last external application, why and where a run was paused, two stop events, two daemon threads | prepare, begin_typing, pause, resume, abort, reset, shutdown; focus-wait thread; focus monitor; scheduler callback | everything below and above |
| state machine, `domain/state.py` | the state, under its own lock | transition_to, require | the controller |
| events and plans, `domain/events.py` | immutable | | |
| plan generator, `behavior/probabilistic.py` | position, last mistake, events so far | build | text buffer |
| text buffer and gate, `simulation/text_buffer.py` | text, keys held | apply, validate_plan | the controller's prepare |
| keyboard map, `behavior/keyboard_map.py` | constant table | adjacent letters, normalisation | the generator |
| focus guard, caret guard, `safety/focus_guard.py`, `safety/caret_guard.py` | none | frontmost, self_has_focus, activate; snapshot, moved | macOS |
| hotkeys, `safety/hotkeys.py` | monitors or a listener | start, stop, dispatch | the controller's abort and toggle_pause |
| permissions, `safety/permissions.py` | an environment variable across runs | probes, requests, reset, relaunch | macOS; the controller; the overlay |
| overlay, `ui/overlay_window.py`, `ui/worker.py` | what the user sees, permission banner, timers | buttons, timers, close | the controller; queued Qt signals |
| wiring, `application.py`, `config.py`, `errors.py` | | build, run | picks backend, guards and hotkeys; calls shutdown a second time |
| packaging, `../packaging/dev_bundle.py` | the bundle on disk and its signature | build, clean | macOS ties grants to the signature |
| appearance, `ui/theme.py`, `ui/macos_overlay.py` | | | |

What is hard, and what makes each part correct:

- **Scheduler.** Requests arrive at any instant between two reads of the flags,
  from two threads, as several assignments each. Correct: one job at a time; an
  abort takes effect within one tick and at most one more event; a pause costs
  the delay nothing; every key is let go at a pause and at every end.
- **Backend.** Tracking and pressing a key are two steps. Correct: the list of
  keys held covers the keys really down.
- **Controller.** The interface, a focus-wait thread, a monitor and the worker
  act on one state; most reads are taken before the lock. Old threads survive
  the run they belong to. Correct: nothing types unseen or unwatched; the
  scheduler's requests and the state agree; only the user ends the user's pause;
  a run pauses when the focus leaves and returns by itself only to its place.
- **Generator and gate.** Correct: every plan reproduces its text, and a run
  stopped at any event leaves little wrong and no wrong line submitted; the
  window and the generator, which judge a text by two copies of one rule, agree.
- **Quartz backend.** An event carries a key code, flags and a text, and the user
  may hold modifiers. Correct: whichever of the two an application reads, the
  same text arrives, and no event is a hotkey to the program itself.
- **Permissions.** macOS answers some questions once per process, so the
  application restarts itself and only a marker survives. Correct: no restart
  loop, what was cleared is asked for again, a grant that is there gets used, no restart is
  announced that does not come.
- **Development bundle.** Correct: a grant survives every edit and rebuild, as long as
  interpreter, place and virtualenv stay the same.

The full list of hazards, each at its line and with the properties aimed at it,
is in `PROJECT.json`.

## 2. Modules

```
TrackingBackend <- TypingScheduler --implements--> JobRunner
                                                       ^ INSTANCE
                                                SafetyController -> AppStates
                                                       | implements    ^
                                                  RunLifecycle --------+
                                                 OverlayWindow --------+
                                                       -> HotkeyService
TextBuffer, KeyboardMap <- PlanGenerator <- TextPath -> QuartzBackend
Permissions, DevBundle <- PermissionRestart

TypingScheduler   <- TypingScheduler_proof <- SchedulerSafety_proof
                                           <- SchedulerRefinement_proof
SafetyController  <- SafetyController_proof <- ControllerRefinement_proof
OverlayWindow     <- OverlayWindow_proof
PermissionRestart <- PermissionRestart_proof
TextPath          <- TextPath_proof
```

`MCTypingScheduler`, `MCSafetyController` and `MCPlanGenerator` hold the small
instances; `PermissionRestart` and `OverlayWindow` get their few constants in the
.cfg. Definitions
commented `Mutant:` are deliberately wrong variants of the definition that
follows, used to see that a property can fail.

**TrackingBackend** is `backends/base.py`. `pressed` is the list, `down` what the
operating system has down, `stuck` the keys whose release raised. `Track` is the
locked part of `key_down` and `Press` the call after it; `Release` and `Untrack`
are `key_up` and its `finally`; `TakeAll` the locked part of `release_all`, whose
copy the calling thread then releases key by key. A key that `TakeAll` finds between
its `Track` and its `Press` is `forgotten` (a history variable): it is on no list when
it goes down.

**TypingScheduler** is `scheduler/scheduler.py`. `on` is the set of flags set;
`worker[w]` the locals of a worker with its program counter. A step is the code between
two accesses to shared state, so that flags change between any two reads: `CheckAbort`,
`CheckPause`, `TrackKey` ... are the loop of `_execute`, `WaitAbort` ... `Sleep` are
`_interruptible_wait`, `SetPaused` ... `AckResume` are `_enter_pause`. Callers take
`pause`, `resume` and `abort` one assignment at a time. `start` is three steps: the
check, `_reset_flags` and the launch, which sets `running` and starts the thread. The
last two merge several assignments: the lock keeps other starts out, no worker is
executing that reads these flags, and what another caller sets between two of them
counts as set before all or after all. `join` and the `release_all` a caller makes after
it (`Join`, `TakeForCaller`) are steps of their own, with no lock around the two, so
that a run may start in between. Time is counted in ticks: `left` is `deadline - now`,
`pausedFor` the time spent in the pause. `grace` and `late` are history: events finished
and ticks waited since a request.

**JobRunner** says what the scheduler promises, without flags: at most one job
executes, its events are performed in order and at most one after a request,
COMPLETED means all of them, ABORTED that someone asked. The scheduler implements
it (`RunsJobs`); the controller is built on it.

**SafetyController** is `safety/controller.py` with `AppStates` for `domain/state.py`.
One action per call or, where a call reads outside the lock, per read: the monitor's
`try_auto_resume` is `TryAutoResume` (state, reason and focus), `CompareCaret` and
`AutoResume` (under the lock). `_start_run` is `StartRun`, `Launch`, `StartMonitor`
because the worker can act before the monitor is started; `lock` keeps the other locked
blocks out meanwhile. `shutdown`, which takes no lock, is four steps, taken when the
window closes (`WindowCloses`) and again when `run` of `application.py` returns
(`ProgramEnds`). `main` is the interface thread, which on macOS also runs the hotkey
handlers; it can wait in `join` while the others go on. VALIDATING is entered and left
inside one locked call and is composed away (`Via`). `activate` asks macOS to move the
focus, which is `MoveFocus` happening or not. `resume()` holds the lock but not the
focus: `UserResume` reads who is in front, `SelfHasFocus` asks whether it is the
overlay, `ResumeContinues` resumes, wherever the focus is by then; the cursor it also
reads leads to a warning only. One simplification: the front and the overlay's having
the keyboard are one variable (`focus`, with `NoApp` for the overlay or nobody), and
where `CheckFocus`, `TryAutoResume` and `Look` ask macOS for both they get one answer.

**RunLifecycle** is what all the controller's threads together promise the user of
a run, without threads, locks or requests: a run begins only when it was armed and
nothing of an earlier one is left, not even an undelivered result; it types while
it is RUNNING and past a pause, an abort or the end of the program only the event
under way; COMPLETED means every event; a pause the user made (`own`) ends only
after the user asked and no other application was found in front (`checked`), which is not
to say that none is by the time it ends. The mapping takes the one worker there is
(`Current`), its outcome until it is delivered, the scheduler's history variable `grace`
for `slip`, and for `checked` that the interface thread is inside `resume()` past its
look at the front.

**KeyboardMap** is `behavior/keyboard_map.py`: the supported characters, the
neighbours of each key, the three kinds of line ending, unsupported characters.
Eight characters and the space are written by name (`"grave"`, `"comma"`,
`"quote"` ...), because the provers cannot read them in a string.

**TextBuffer, PlanGenerator** are `simulation/text_buffer.py` and
`behavior/probabilistic.py`. `Refuse` and `Generate` are the two ways `generate`
answers what it is asked (`Asks`: a raw text and settings). Where the code draws a
number, the model chooses; delays have no length. `Symbol` is what a text may hold
before it is judged, `Char` what can be typed. The plan built is then replayed
by `validate_plan` event by event, so an invariant over replay is a statement about
a run stopped there. Plans of another generator (`Given`) go through the same gate.

**QuartzBackend** is `virtual_key_for` and `_post`: a key becomes a code, flags and a
text. What an application makes of an event is outside `src/`: one that reads the
text appends it, one that reads the code looks it up on a US keyboard with the
flags; an event with the flags not set would inherit the modifiers the user holds.

**TextPath** composes the two with the window: `Offered` is the window's own judgement
of a text, `WidgetSettings` what its widgets can be set to; a verified plan is handed to
the backend event by event (`Deliver`) while the user holds nothing, Shift or the
modifiers of a hotkey, and an event macOS refuses to create ends the run.
`Dispatches` is `_dispatch` of the hotkey monitor, which sees every event posted.

**Permissions** holds what `safety/permissions.py` concludes from one reading of three
permissions that are each granted, denied or unknown, and the banner's headline.

**DevBundle** is `build` of `packaging/dev_bundle.py`: `rmtree` takes one file at a time
and may stop at any (`Remove`), then there is a step per file written, any of which may
fail, and the signature. `env` is what a build finds: the interpreter, where the checkout
lies, and what `site.getsitepackages()` answers; `Info.plist` is made from all three
(without site packages `WritePlist` fails), the executable from the first, the boot file
from none, and none from the source tree. A bundle is the set of its files, each with
what it was made from; its identity to macOS is what the signature sealed (`sealed`,
with the environment it was built in as history). `Clean` is the Makefile's target, which
may stop half-way too. `Startable` is what macOS makes of a half removed bundle.

**PermissionRestart** extends both: the permission banner of `ui/overlay_window.py`, the
marker, reset and relaunch of `safety/permissions.py` and the controller's two
restarts, over successive processes, started as a bundle or from source
(`bundled`), on a macOS with or without the preflight calls (`preflight`). The
button that asks once more is `PressAgain`, which reads the permissions, then, unless one
is granted, `ClearEntry` for each of the three subprocesses, with the user free to
turn a switch on or off in between, and `RestartCleared`. macOS and the user are the
environment: the switches, an entry made for another build (Accessibility reads granted,
Post Events is not), prompts answered, the application quit at any point, rebuilt and
reopened by hand. `banner` and `remedy` are what the banner says and explains, kept as
they were last written.

**HotkeyService** is `safety/hotkeys.py`. `recorded` is `_monitors` (or the
`_listener`), `installed` counts the monitors there are, and `forgotten` (history) those
among them that a failed `start` left behind: `StartFails` is that path, `StartSucceeds`
the other, which does nothing when the service is active and may come away with the
global monitor alone. `MaxFaults` bounds `forgotten`. macOS installs a monitor whatever
the permission says and does not call it without: `Heard` is that fact, `MayInstall` the
gate that takes it into account. A pynput listener may die at any time.

**OverlayWindow** is the window with its signals (`ui/worker.py`) and the hotkeys,
against a controller reduced to its state: `Elsewhere` lists the moves of the
other threads. Their signals are appended to `queue`; a move out of a handler on
the interface thread reaches the slot at once (`Direct`). A press of Pause, Abort
or a hotkey is two steps, because the handler may wait for the controller's lock
while another thread moves the state (`PressAbort`, `DoAbort`). A hotkey that two
monitors hear is two presses one after the other. `shown` is the
state last given to `_apply_state`, and `CanAbort`, `Locked` ... what that makes
of the widgets. Start is one step, from IDLE no other thread moves the state.
`backendError` is a platform without a keyboard backend, which records keys instead;
off macOS the focus guard knows nothing (`FrontCanBe`), so that no run begins there.

## 3. Runs

| Run | Question | Bounds |
|---|---|---|
| `scheduler_keys` | Two callers against a press and a release: `OneJob`, `NothingLeftDown`, `AtMostOneMoreEvent`, and the refinement `RunsJobs`; `join` may time out | 2 workers (an old one on its way out beside the new one), 2 callers (interface and monitor), a plan of 2 events |
| `scheduler_liveness` | A delay inside a press: `AbortWithinOneTick`, `DelayInFull`; `AbortEndsRun`, `PauseTakesHold`, `LeftAloneFinishes` | 1 worker, 2 callers, a delay of one tick, pauses seen for at most `MaxTicks` = 1 tick each, any number of them |
| `controller_safety` | `NothingTypesUnseen`, `StateMatchesRequests`, `TypingIsWatched`, `NothingOutlivesTheWindow`, and the refinement `ImplementsRunLifecycle` | 2 applications, 2 monitors and 2 workers (one leaving, one new), plans of 1 or 2 events, 2 polls before the focus wait gives up |
| `controller_liveness` | `ArmingEnds`, `FocusLossPauses`, `ReturnResumes`, `AbortEnds` | 1 application with 2 cursor positions and everything else, 1 thread of each kind, used again and again |
| `permission` | `NoRestartLoop`, `NoEmptyPromise`, `RebuildKeepsGrant`, `GrantIsPickedUp`, `ClearingLeadsToAPrompt` | 2 interpreters, 2 places and a virtualenv with or without site packages to build with; one change of the source tells an edited tree from another; the rest of the state is finite |
| `plan_generator` | `PlansPassTheGate`, `MistakesAreShallow`, `LinesAreFinal` for every plan of every text; `OfferedMeansAccepted` for every raw text and setting; `GateIsExact` for every event sequence; `ArrivesAsAsked`, `NoSelfHotkey` for every event posted | texts of up to 5 characters over two neighbouring letters, a space and a newline, and every supported character by itself; a limit of 5 characters with texts of 6, settings at and past each limit; a cooldown of 2 characters (two mistakes in one text); sequences of up to 5 presses and releases of 2 letters and backspace |
| `overlay` | `ActiveLooksActive`, `FailureIsExplained`, `MonitorsAreRecorded`, `NeverArmedDeaf`, `EndIsShown` | 2 applications in front beside the overlay and nobody known; 4 signals queued at once (a start is 3); one monitor of each kind left behind by a start that failed half way; with and without a backend |

Each run with a `TypeOK` also checks it. Threads are identities that are used
again once they have ended, so a bound on their number bounds how many exist at
once, not how many runs happen. `Spare` lets a run begin only while identities
are left. Two of each are enough for "the old one is still there"; three at once
need two joins to time out. Symmetry is used for thread identities in runs
without liveness.

What a property leans on beyond the code is a constant that can be set the other way:

- `SlowWorker` = FALSE (`SafetyController`): when `abort` joins, `join(timeout=1.0)` returns
  with the worker finished. The worker notices an abort within a 20 ms tick
  (`AbortWithinOneTick`) unless a backend call hangs for a second. The scheduler's own
  properties lean on nothing of the kind: `scheduler_keys` has `JoinTimesOut` = TRUE, and
  `NoKeyLeftDown` does not mention it.
- `SlowWatcher` = FALSE: a focus-wait thread, which polls every 50 ms, is gone
  before the user has aborted, reset and pressed Start again. With two of them
  `begin_typing` clears the stop that the older one has not seen, which then starts
  the old plan for the new ARMING.
- `PostedFirst` = TRUE: Qt delivers the signals queued before it takes the next
  click or hotkey. Without it `FailureIsExplained` is violated by signals that a
  whole new run overtakes; the other properties of `overlay` do not need it
  (`EndIsShown` then needs strong fairness of delivery).
- A join without an abort in force may time out (`Joined`), as it does at the end of
  the program for a run begun meanwhile.

Some properties need a word:

- `NothingLeftDown` lets a key be down, while nothing runs, that was `forgotten`: another
  thread's `release_all` came between its tracking and its press. `EveryExitReleases` does
  not, and is violated (below). That this is the only way is what the invariant says.
- `FocusLossPauses` would mean little if the run could be counted on to end: the only
  fairness of a job's end is under an abort (see §4), so the monitor has to pause it.
- `RebuildKeepsGrant` compares bundles of one environment: a moved checkout or another
  virtualenv changes `Info.plist` and with it the identity, as the comment at
  `src/Makefile:131` says.
- `ClearingLeadsToAPrompt`: from the press that clears the entries to the next process
  asking macOS are three subprocesses, a relaunch that may fail, a quit and a launch.
  That a grant given while they run is cleared too is modelled, and no property denies it.
- `MonitorsAreRecorded`: a monitor is known to its service or was left behind by a start
  that failed between the two installations (`hotkeys.py:185`). That the latter happens
  is in the model; the next `start` then installs another pair beside it and a press of
  the pause hotkey is handled twice. No document says what should happen.
- `PlansPassTheGate` also says that no backspace of a generated plan comes when the text
  is empty: the gate would not notice, the user's document would. Of plans made elsewhere
  nothing of the kind is promised.

### Disagreements with the documents

Each of these runs checks one statement of a document or comment and TLC finds it
violated; `PROJECT.json` quotes the lines.

| Run | Property | What happens |
|---|---|---|
| `scheduler_exit` | `EveryExitReleases` | `shutdown()` joins and then releases all keys, in two calls without a lock. A run started in between has a key tracked and not yet pressed when `release_all` empties the list; the key goes down, the run ends before the key's own release, and nobody lets it go. |
| `controller_paused_for_ever` | `ActiveHasJob` | `pause()` lands after the worker's last check. The run completes, PAUSED to COMPLETED is not allowed and raises in the worker; the state stays PAUSED with nothing in flight. |
| `controller_user_pause` | `UserPauseKept` | The user's pause finds the run already paused by the monitor and returns; the monitor later resumes it. |
| `controller_cursor` | `MovedCursorStays` | The cursor kept at an automatic pause is read when the focus is already elsewhere, so it is another application's, and where that one has none a moved cursor is not noticed. |
| `overlay_order` | `ShownIsCurrent` | Abort waits for the lock while the focus-wait thread moves on to RUNNING and its signals are queued. ABORTED is shown at once, the queued ARMED and RUNNING after it: the window shows a run that is over, locked and without Reset. |

Seen while modelling and without a run of their own:

- A focus-wait thread past its check starts a run while `shutdown()` waits or after
  it has returned; the second `shutdown()` of `application.py` ends that run unless
  the thread sleeps through both. `NothingOutlivesTheWindow` leaves this case out by
  its `abortReq`.
- `start()` stores the new thread before it starts it (`scheduler.py:152`, `153`). A `join()`
  that `shutdown()` makes in between raises, which the window's close handler catches: it
  is a join that returned at once with a run begun meanwhile, which the model has.
- The `RunResult` is read from shared counters after `running` is cleared. The
  scheduler alone would let a run started in between falsify the count; the
  controller starts none (`ImplementsRunLifecycle`).
- `restart_for_permission` goes by a preflight answer of Input Monitoring that is as
  old as the process and clears a switch turned on since, and so it does one turned on
  between its readings and the subprocess that clears it; and it clears nothing while
  one service reads granted, although the remedy for a stale grant says that the
  button "clears the stale entry".
- The target label says that a start will be refused when the application in front is
  unknown; with one recorded earlier Start takes that one. The label is refreshed by a
  timer and is a forecast, so no run makes a finding of it.
- A run with the marker `apply` that starts while the switch is off again suppresses
  the restart that would make a later grant visible. After a restart that changed
  nothing the banner still says that the permission is granted, although the entry
  may be for another build and never will be.
- `describe_permission_remedy` tests `needs_restart_to_apply` first, so that its branch
  for a stale grant is never reached with Accessibility granted and Post Events
  denied.

## 4. Fairness

`TypingScheduler!FairSpec`: a worker's step that can be taken is taken (threads
are scheduled), and a call begun is finished; nobody is obliged to call. The two
waits are bounded by a tick, so no strong fairness is needed.
`SafetyController!FairSpec`: the threads, the shutdown and waiting in `join` go
on; a job that was told to abort ends (`WF(abortReq /\ WorkEnds)`), which is what the
scheduler's own `AbortEndsRun` establishes, and reports. A job nobody aborts may go on
for ever, or end at any time; the user need not press anything nor move the focus.
`PermissionRestart!FairSpec`: the window is built, asks for permissions on launch when
it is due, the 1.5 s timer fires while the banner shows, the subprocesses that clear
entries end and the restart behind them is tried, a window told to close closes, the
shell left behind opens the application. `OverlayWindow!FairSpec`: the
event loop delivers, and a handler gets the lock it waits for.

## 5. Proofs

Every safety property the passing runs check is a theorem, and so are both
refinements. Each theorem holds for every value
of the constants that the modules' named assumptions and the hypotheses below allow.

### The scheduler

`TypingScheduler_proof`, for every number of workers and callers and every set of
keys and plans:

- `TypeCorrect`: `Spec => []TypeOK`. The type of the counters and locals is not
  inductive: a worker indexes its plan. `EventInv` strengthens it: the event a
  worker is inside of exists (`index < Len(plan)`), at `press` it is a key down,
  at `untrack` a key up, and a thread that has ended is at index 0. The proof has one
  lemma per group of actions (`LocalStep`, `KeyStep`, ...) for the types, one
  (`EventOwnStep`) for what a worker's step does to its own locals, and `OthersKept`.
- `OnlyOneJob`: `Spec => []OneJob`. `StartInv` is what makes it inductive: a
  caller past the check of `running` holds the lock and no job is running, so the
  job it launches is the only one. `WorkerRunning` says how a worker's steps change
  `running`.

`SchedulerSafety_proof` builds on these four:

- `OneMoreEvent`: `Spec => []AtMostOneMoreEvent`. `GraceInv`: a worker that has
  finished an event under a request is `Stopping`, on its way to the pause or out; the
  step that could begin another event reads a flag that is set.
- `OneMoreTick`: `Spec => []AbortWithinOneTick`. `LateInv`: a worker that has slept a
  tick under an abort is `GivingUp`, about to look at the flag or past it.
- `DelaysAreExact`: `Spec => []DelayInFull`. `DelayInv`: wherever a worker is in a
  delay, the way to its deadline and what it has slept add up to the event's length,
  the ticks of a pause it is in included. `StatusInv` carries it to the job's end: the
  status a worker leaves with is true.
- `NoKeyLeftDown`: `Spec => []NothingLeftDown`, whether or not joins time out.
  `HeldInv`: a key that is down is stuck, forgotten, tracked, or in the copy some
  `release_all`, a worker's or a caller's, is working on (`Accounted`). `PausedInv`:
  `paused` is set only inside the loop that the release comes before, and never for the
  next run.

`SchedulerRefinement_proof`: `ImplementsJobRunner`, `Spec => RunsJobs`: one lemma for the
worker's steps (`WorkerRefines`) and one for the callers' (`CallerRefines`), each with the
step of `JobRunner` that is taken or the reason nothing shows.

### The controller

`SafetyController_proof`, for every set of applications, plans and threads:

- `ControllerTypeCorrect`: `Spec => []TypeOK`, whatever times out. `PollInv` bounds the
  polls of a focus-wait thread.
- `InterfaceAndSchedulerAgree`: `Spec => []StateMatchesRequests`;
  `NothingUnseen`: `Spec => []NothingTypesUnseen`;
  `RunsAreWatched`: `Spec => []TypingIsWatched`;
  `WindowOutlivesTheJob`: `Spec => NothingOutlivesTheWindow`, a property of steps. All
  four assume `~SlowWatcher` and `~SlowWorker`, and share one inductive invariant,
  `CoreInv`: VALIDATING and ARMED are passed through under the lock (`StateInv`); one
  focus-wait thread is alive (`OneWatcher`), and while it waits no run has begun
  (`WatchInv`); the thread inside `_start_run` holds the lock, and before it launches
  there is no job (`LockInv`); nobody can withdraw the request that `abort` waits on
  (`JoinInv`); outside a run there is no job, not even its result (`QuietInv`), and there
  is one job, the one `join` waits for (`ThreadInv`).

`ControllerRefinement_proof`: `ImplementsLifecycle`, `Spec => ImplementsRunLifecycle`, with
the same hypotheses. The mapping needs three facts more: `CleanInv` (a worker that has
delivered its result counts from nothing), `ReadyInv` (nothing was performed since the
requests were withdrawn), `StopInv` (a run that is still shown and was told to stop is one
the end of the program found). `ThreadsJob` shows that the job the mapping chooses is
the only one there is. From it follows `WhatIsShownIsTrue`, `Spec => ShowsTheTruth`, in
the controller's own words: a run begins when no job is left, not even an undelivered
result; it is shown COMPLETED when the one job there is performed every event of its
plan (`WholeShown` is the lifecycle's invariant behind it); a pause the user made ends
only inside `resume()`, past its look at the front (`Resuming`): no monitor ends it.

### Permissions and restarts

`PermissionRestart_proof`, for every set of interpreters, places and lists of site
packages:

- `RestartTypeCorrect`: `Spec => []TypeOK`.
- `NoLoop`: `Spec => []NoRestartLoop`. `LoopInv`: the one restart the program makes by
  itself is scheduled under the marker, or is what this run came from and then its
  marker forbids another. `PendingInv`: a restart is pending only in a run on its way out.
- `PromisesAreKept`: `Spec => []NoEmptyPromise`, with the same two.
- `GrantOutlivesRebuild`: `Spec => []RebuildKeepsGrant`. `BuildInv` says which files a build
  has written at each stage, that nothing of an earlier bundle is among them, that only
  a finished one is signed and nothing is added to it; `EntryInv`, that the entry in
  System Settings, if there is one, was made for such a bundle or for an unsigned one;
  `WholeInv`, that the bundle a process runs from is whole.

### From the text to the application

`TextPath_proof`, for texts and plans of every length, every setting, whoever made
the plan:

- `PathTypeCorrect`: `PathSpec => []TypeOK`. `TypeInv` adds that what is built is built from
  characters that can be typed, a mistake too.
- `OfferedIsAccepted`: `PathSpec => OfferedMeansAccepted`: the window's judgement of a text
  and the generator's agree, normalisation included.
- `EveryPlanPasses`: `PathSpec => []PlansPassTheGate`; `MistakesStayShallow`: `PathSpec
  => []MistakesAreShallow`; `LinesStayFinal`: `PathSpec => []LinesAreFinal`. All three
  follow from `PlanInv`: there is a *clean trace*, a function from positions in the plan
  to buffer states, each event leading from one to the next with something there to
  delete at every backspace, every state `Fine` (at most two characters wrong and no
  newline behind a wrong one) and the last of them the text so far. A step of the
  generator appends a keystroke, a mistake or a correction, each with a trace of its
  own; `JoinTraces` puts two together. So texts of any length are covered without an
  induction over the text: the steps of the specification are it.
- `GateLetsThrough`: a plan that is verified leads from an empty text field to the text
  asked for, with no key left down; one that is rejected does not. `GateInv`: the
  replay is in the only state its events lead to.
- `GateAnswersExactly`: `PathSpec => []GateIsExact`, which names no state of a replay: of
  the characters pressed those stay that no stretch of events behind them deletes more
  than it inserts (`Staying`), and they must spell the text. `ExactInv`: what was replayed
  is in order, the keys pressed are those `Held`, and the buffer is `Placed`: a rising
  function gives, for each of its characters, the press that stayed, behind which the
  presses insert exactly the characters that follow (`Net`). One event more appends to
  that function (`PlacedInsert`), shortens it (`PlacedDelete`) or keeps it
  (`PlacedKept`), and at the end it says how many stay and which (`Ranks`, `Spelled`).
- `TextArrives`: `PathSpec => []ArrivesAsAsked`. `ArrivalInv`: the replay itself builds the
  trace of a plan, and both kinds of application are where that trace is after the events
  delivered. What one event does rests on lemmas about the key tables (`CodeOfKey`,
  `ShiftedKey`, `CapitalKey`, `CharacterSent`, `DownIsRead`), for every character there is,
  whatever modifiers the user holds and whether or not there is an event source.
- `NeverOwnHotkey`: `PathSpec => []NoSelfHotkey`. `FlagsInv`: no event carries Control.

### The window

`OverlayWindow_proof` proves all the window's safety properties, for every set of
applications and every number of queued signals. `HotkeySteps` says that a step of
the window is, for the hotkeys, one of their own operations or none:

- `WindowTypeCorrect`: `Spec => []TypeOK`, which is inductive.
- `InstalledIsRecorded`: `Spec => []MonitorsAreRecorded`, for every number of starts that
  fail half way; with the types it is inductive.
- `ArmedIsHeard`: `Spec => NeverArmedDeaf`, whatever fails. `HeardInv` is what
  keeping an active service relies on: recorded monitors are installed.
  `OnlyStartArms` leaves one action to look at.
- `ActiveIsOffered`: `Spec => []ActiveLooksActive`, in whatever order queued signals and
  the user's clicks are taken. `LooksInv`: while the end of a run is queued the window still
  shows the run as under way, so that it offers neither Reset nor the text, and the banner
  that blocks a start, which could show the end before its signal, has been gone since
  the run began. So no next run overtakes the end of one, and one end at most is queued.
- `FailureStaysExplained`: `Spec => []FailureIsExplained`, assuming `PostedFirst`.
  `ExplainedInv`: in ERROR the last two signals queued are ERROR and its message, or
  both are delivered, and then no button that clears the message is offered.

### Assumptions

- The modules' named assumptions: thread identities, applications and plans differ from the
  "none" values, no thread is both worker and caller, plans are sequences of events,
  bounds are numbers and switches Boolean; in `TextPath`, `Char` is the program's own table
  of characters, texts are sequences of symbols, and the special keys have the names of
  `SpecialKey`. TLC evaluates each of them in a run.
- `~SlowWorker`, `~SlowWatcher`: a thread that was told to stop is gone before
  `join` gives up and before the next start. §3 says why the code may rely on it and what
  happens otherwise; where a property does not need it, the theorem does not assume it.
  With `SlowWorker`, or with `SlowWatcher` and two focus-wait threads, TLC finds each of
  the controller's four safety properties and `ImplementsRunLifecycle` violated, so
  those theorems cannot do without it.
- `PostedFirst` for `FailureStaysExplained`; TLC finds the property violated without.

### Only model-checked

- Liveness: `AbortEndsRun`, `PauseTakesHold`, `LeftAloneFinishes`, `ArmingEnds`,
  `FocusLossPauses`, `ReturnResumes`, `AbortEnds`, `GrantIsPickedUp`,
  `ClearingLeadsToAPrompt`, `EndIsShown`. Fairness
  speaks of `ENABLED`, which the proof system does not reason about.
- The runs that expect a violation: TLC's counterexamples.

## 6. Not modelled

- Progress reports, status lines, warnings and their wording; `last_result`;
  the once-per-pause warning about a moved cursor; logging.
- `start_immediately` (nothing calls it) and `FakeClock` (tests only); `run()`, which
  is `start` without a thread; `errors.py` and `config.py`, types and constants.
- Delays: their lengths, jitter, bursts and the estimates made of them; the range of a
  seed; a plan's statistics. No property of the code but the estimate shown depends
  on them, and a model of a random distribution would check nothing.
- AppKit and Accessibility queries, which appear as environment; the request dialogs'
  calls; how the holder of a permission is described.
- `ui/theme.py` and `ui/macos_overlay.py`: colours and native window flags. In the
  window: collapsing, dragging, the check list's marks, and keeping itself visible.
- The pynput backend and the pynput hotkeys' thread. Off macOS the focus guard
  answers None, the controller refuses every start, and no run exists that either
  could type or stop.
- The release build (`packaging/TypingSimulator.spec`, icon, disk image): configuration.
- In `OverlayWindow`: a move of the state and its signal are one step (they share
  the controller's lock, except when the focus wait fails); a permission does not
  change in the middle of `prepare`; warnings about the cursor on resume; the
  interrupt handler's timer, which closes the window as its button does.
- In `PermissionRestart`: closing the window follows scheduling the restart
  before another timer or click, and the successor starts only when its
  predecessor is gone (the shell waits one second, `shutdown` at most one); a
  bundle is rebuilt only while the application is off.

## 7. Plan

1. What is left of the controller's safety with `SlowWatcher` and `SlowWorker` set: a stop
   that `begin_typing` withdraws needs an abstract lifecycle that allows for it.
2. `OverlayWindow` on top of `RunLifecycle` instead of its own reduced controller.
