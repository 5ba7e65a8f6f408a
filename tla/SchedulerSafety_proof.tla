------------------------ MODULE SchedulerSafety_proof ------------------------
(***************************************************************************)
(* What the scheduler owes whoever asks it to stop, for any number of      *)
(* workers and callers and any plans: one more event at most, one more     *)
(* tick at most, delays waited out exactly, and no key left down.          *)
(***************************************************************************)
EXTENDS TypingScheduler_proof

-----------------------------------------------------------------------------
(* What an action makes of its worker's locals.                            *)

\* The fields no action but the one that names them changes.
Kept(l, m) == m.plan = l.plan /\ m.index = l.index

\* A jump keeps everything but the program counter.
LEMMA GotoFields ==
    ASSUME worker \in [Worker -> Locals], NEW w \in Worker, NEW p, Goto(w, p)
    PROVE  /\ worker'[w].pc = p /\ Kept(worker[w], worker'[w])
           /\ worker'[w].back = worker[w].back /\ worker'[w].status = worker[w].status
           /\ worker'[w].left = worker[w].left /\ worker'[w].slept = worker[w].slept
           /\ worker'[w].pausedFor = worker[w].pausedFor
  BY DEF Goto, Locals, Kept

\* The way to the finally clause.
LEMMA LeaveFields ==
    ASSUME worker \in [Worker -> Locals], NEW w \in Worker, NEW s, Leave(w, s)
    PROVE  /\ worker'[w].pc = "take" /\ worker'[w].back = "exit"
           /\ worker'[w].status = s /\ Kept(worker[w], worker'[w])
  BY DEF Leave, Locals, Kept

\* The way into a pause, from an event or from inside a delay.
LEMMA EnterPauseFields ==
    ASSUME worker \in [Worker -> Locals], NEW w \in Worker, NEW b, EnterPause(w, b)
    PROVE  /\ worker'[w].pc = "take" /\ worker'[w].back = b
           /\ worker'[w].pausedFor = 0 /\ worker'[w].status = worker[w].status
           /\ worker'[w].left = worker[w].left /\ worker'[w].slept = worker[w].slept
           /\ Kept(worker[w], worker'[w])
  BY DEF EnterPause, Locals, Kept

\* A delay starts with its own length ahead of it.
LEMMA BeginDelayFields ==
    ASSUME worker \in [Worker -> Locals], NEW w \in Worker, BeginDelay(w)
    PROVE  /\ worker'[w].pc = "wait" /\ worker'[w].left = Current(w).ticks
           /\ worker'[w].slept = 0 /\ worker'[w].back = worker[w].back
           /\ worker'[w].status = worker[w].status /\ Kept(worker[w], worker'[w])
  BY DEF BeginDelay, Locals, Kept

\* A release goes on to forget the key, raised or not.
LEMMA ReleaseKeyFields ==
    ASSUME worker \in [Worker -> Locals], NEW w \in Worker, ReleaseKey(w)
    PROVE  worker'[w].pc = "untrack" /\ Kept(worker[w], worker'[w])
  BY DEF ReleaseKey, Locals, Kept

\* The next event of the same plan.
LEMMA AdvanceFields ==
    ASSUME worker \in [Worker -> Locals], NEW w \in Worker, Advance(w)
    PROVE  /\ worker'[w].pc = "top" /\ worker'[w].index = worker[w].index + 1
           /\ worker'[w].plan = worker[w].plan
  BY DEF Advance, Locals

\* A sleep is cut short, or takes a tick off what is left and adds it to what was
\* slept.
LEMMA SleepFields ==
    ASSUME worker \in [Worker -> Locals], NEW w \in Worker, Sleep(w)
    PROVE  /\ worker'[w].pc = "wait" /\ Kept(worker[w], worker'[w])
           /\ \/ worker'[w].left = worker[w].left /\ worker'[w].slept = worker[w].slept
              \/ /\ worker'[w].left = worker[w].left - 1
                 /\ worker'[w].slept = worker[w].slept + 1
  BY DEF Sleep, Goto, Locals, Kept

\* A tick of a pause brings the deadline as much nearer as it makes the pause
\* longer.
LEMMA PauseWaitFields ==
    ASSUME worker \in [Worker -> Locals], NEW w \in Worker, PauseWait(w)
    PROVE  /\ worker'[w].pc = "pauseloop" /\ Kept(worker[w], worker'[w])
           /\ worker'[w].back = worker[w].back /\ worker'[w].slept = worker[w].slept
           /\ worker'[w].left + worker'[w].pausedFor = worker[w].left + worker[w].pausedFor
<1>1. CASE Goto(w, "pauseloop")
  BY <1>1, GotoFields
<1>2. CASE ~Goto(w, "pauseloop")
  <2>1. worker' = [worker EXCEPT ![w].pc = "pauseloop", ![w].left = @ - 1,
                                 ![w].pausedFor = @ + 1]
    BY <1>2 DEF PauseWait
  <2>2. /\ worker'[w].left = worker[w].left - 1
        /\ worker'[w].pausedFor = worker[w].pausedFor + 1
    BY <2>1 DEF Locals
  <2>3. worker[w].left \in Int /\ worker[w].pausedFor \in Int
    BY BoundAssumption DEF Locals
  <2> QED
    BY <2>1, <2>2, <2>3 DEF Locals, Kept
<1> QED
  BY <1>1, <1>2

\* After a pause the deadline is moved by what it took.
LEMMA AckResumeFields ==
    ASSUME worker \in [Worker -> Locals], NEW w \in Worker, AckResume(w)
    PROVE  /\ Kept(worker[w], worker'[w]) /\ worker'[w].slept = worker[w].slept
           /\ \/ /\ worker[w].back = "delay" /\ worker'[w].pc = "wait"
                 /\ worker'[w].left = worker[w].left + worker[w].pausedFor
              \/ worker[w].back # "delay" /\ worker'[w].pc = "dispatch"
  BY DEF AckResume, Goto, Locals, Kept

\* The steps of a thread that is no longer executing change nothing but itself.
LEMMA AfterwardsStep ==
    ASSUME TypeOK, NEW w \in Worker, WorkerStep(w), ~Executing(w)
    PROVE  /\ \/ At(w, "report") /\ worker'[w].pc = "finished"
              \/ At(w, "finished") /\ worker'[w] = NoLocals
           /\ UNCHANGED <<backendVars, on, thread, event_index, out, call, grace, late>>
           /\ ~Executing(w)'
<1>1. worker[w].pc \notin ExecutePC
  BY DEF Executing
<1>2. LocalStep(w) /\ (Report(w) \/ ThreadEnds(w))
  <2>1. CASE LocalStep(w)
    BY <1>1, <2>1 DEF LocalStep, CheckAbort, CheckPause, BeginDelay, WaitAbort,
       WaitPause, Recheck, HeldReleased, PauseLoop, At, ExecutePC
  <2>2. ~KeyStep(w) /\ ~Advance(w)
    BY <1>1 DEF KeyStep, TrackKey, PressKey, ReleaseKey, UntrackKey, Advance, At,
       ExecutePC
  <2>3. ~ReleaseAllStep(w) /\ ~TickStep(w)
    BY <1>1 DEF ReleaseAllStep, TakeHeld, ReleaseHeld, TickStep, Sleep, PauseWait, At,
       ExecutePC
  <2>4. ~FlagStep(w)
    BY <1>1 DEF FlagStep, WaitTime, SetPaused, PauseAbort, AckResume, ClearRunning, At,
       ExecutePC
  <2> QED
    BY <2>1, <2>2, <2>3, <2>4 DEF WorkerStep
<1>3. UNCHANGED <<backendVars, on, thread, event_index, out, call, grace, late>>
  BY <1>2 DEF LocalStep, WorkerStep
<1>4. CASE Report(w)
  BY <1>3, <1>4 DEF Report, At, Executing, ExecutePC, TypeOK, Locals
<1>5. CASE ThreadEnds(w)
  BY <1>3, <1>5 DEF ThreadEnds, At, NoLocals, Executing, ExecutePC, TypeOK
<1> QED
  BY <1>2, <1>3, <1>4, <1>5

\* No worker's step makes or withdraws a request.
LEMMA WorkerKeepsRequests ==
    ASSUME NEW w \in Worker, WorkerStep(w)
    PROVE  /\ Aborted' = Aborted
           /\ ("pause_requested" \in on)' = ("pause_requested" \in on)
           /\ Requested' = Requested
<1>1. \A f \in {"abort_requested", "pause_requested"} : f \in on' <=> f \in on
  <2>1. CASE FlagStep(w)
    BY <2>1 DEF FlagStep, WaitTime, SetPaused, PauseAbort, AckResume, ClearRunning,
       Set, Clear
  <2>2. CASE ~FlagStep(w)
    BY <2>2 DEF WorkerStep, LocalStep, KeyStep, Advance, ReleaseAllStep, TickStep
  <2> QED
    BY <2>1, <2>2
<1> QED
  BY <1>1 DEF Aborted, Requested

-----------------------------------------------------------------------------
(* The inductive invariants.                                               *)

\* On the way out of _execute.
Leaving(l) == l.pc = "clear" \/ (l.pc \in {"take", "release"} /\ l.back = "exit")

\* Out for good, unless the pause it goes to is withdrawn.
Stopping(w) ==
    \/ At(w, "top") \/ Leaving(worker[w])
    \/ ~Aborted /\ worker[w].pc \in {"pausecheck", "take", "release", "setpaused",
                                     "pauseloop", "pauseabort", "pausewait"}

\* A worker that finished an event under a request finishes no other.
GraceInv ==
    /\ grace \in {0, 1}
    /\ ~Requested => grace = 0
    /\ grace = 1 => \A w \in Worker : Executing(w) => Stopping(w)

\* About to look at the abort flag, or past it.
GivingUp(w) ==
    \/ worker[w].pc \in {"top", "wait", "pauseloop", "pauseabort", "unpause"}
    \/ Leaving(worker[w])

\* A worker that slept a tick under an abort sleeps no other.
LateInv ==
    /\ late \in {0, 1}
    /\ ~Aborted => late = 0
    /\ late = 1 => \A w \in Worker : Executing(w) => GivingUp(w)

\* The deadline of a delay, as far away as there are ticks left to sleep, the ticks
\* of the pause it is in included.
InDelay(l, ahead) ==
    LET event == l.plan[l.index + 1] IN
    /\ event.kind = "delay"
    /\ ahead >= 0 /\ ahead + l.slept = event.ticks

PausePC == {"take", "release", "setpaused", "pauseloop", "pauseabort", "pausewait",
            "unpause", "ack"}

DelayOK(l) ==
    /\ l.pc \in {"wait", "waitpause", "waittime", "recheck", "sleep"} => InDelay(l, l.left)
    /\ l.pc \in {"recheck", "sleep"} => l.left > 0
    /\ l.pc \in PausePC /\ l.back = "delay" => InDelay(l, l.left + l.pausedFor)
    /\ l.pc = "advance" /\ l.plan[l.index + 1].kind = "delay" => InDelay(l, 0)

DelayInv == \A w \in Worker : DelayOK(worker[w])

\* The status a worker leaves with is true.
StatusInv ==
    \A w \in Worker : Leaving(worker[w]) =>
        /\ worker[w].status = "COMPLETED" => Finished(w)
        /\ worker[w].status = "ABORTED" => Aborted

\* A key that is down is one whose release raised, one the list had lost when it was
\* pressed, one that is tracked, or one in the copy some thread is releasing.
Copies == UNION {ToSet(out[t]) : t \in Worker \cup Caller}
Accounted == down \subseteq stuck \cup forgotten \cup ToSet(pressed) \cup Copies

\* An untracked key is up; past the taking of the keys the list is empty.
HeldOK(w) ==
    /\ At(w, "untrack") => Current(w).key \notin down \ (stuck \cup forgotten)
    /\ worker[w].pc \in (PausePC \ {"take"}) \cup {"clear"} => pressed = <<>>

\* A worker has keys to release only inside release_all, and the list is empty
\* between two runs.
HeldInv ==
    /\ Accounted
    /\ \A w \in Worker : out[w] = <<>> \/ At(w, "release")
    /\ \A w \in Worker : Executing(w) => HeldOK(w)
    /\ (\A w \in Worker : ~Executing(w)) => pressed = <<>>

\* A caller has keys to release only inside its release_all.
ReleaseCallInv == \A c \in Caller : call[c] # "releasing" => out[c] = <<>>

\* paused is set only inside _enter_pause's loop, and never for the next run.
PausedInv ==
    "paused" \in on =>
        /\ \A w \in Worker : Executing(w) =>
              worker[w].pc \in {"pauseloop", "pauseabort", "pausewait", "unpause"}
        /\ \A c \in Caller : call[c] # "launch"
-----------------------------------------------------------------------------
(* Requests: one more event, one more tick.                                *)

\* With an abort requested a worker about to look at it does not get past it.
LEMMA GivingUpKept ==
    ASSUME TypeOK, NEW w \in Worker, WorkerStep(w), Executing(w)', Aborted,
           GivingUp(w)
    PROVE  GivingUp(w)' /\ ~Advance(w) /\ late' = late
<1> USE DEF GivingUp, Leaving, At, Advance
<1>1. worker \in [Worker -> Locals]
  BY DEF TypeOK
<1>2. Executing(w)
  BY AfterwardsStep
<1>3. CASE LocalStep(w)
  <2>1. CASE CheckAbort(w)
    BY <1>1, <1>3, <2>1, LeaveFields DEF CheckAbort, LocalStep
  <2>2. CASE WaitAbort(w)
    BY <1>1, <1>3, <2>2, LeaveFields DEF WaitAbort, LocalStep
  <2>3. CASE PauseLoop(w)
    BY <1>1, <1>3, <2>3, GotoFields DEF PauseLoop, LocalStep
  <2>4. CASE HeldReleased(w)
    BY <1>1, <1>3, <2>4, GotoFields DEF HeldReleased, LocalStep
  <2> QED
    BY <1>2, <1>3, <2>1, <2>2, <2>3, <2>4 DEF LocalStep, CheckPause, BeginDelay,
       WaitPause, Recheck, Report, ThreadEnds, Executing, ExecutePC
<1>4. CASE ReleaseAllStep(w)
  <2>1. CASE TakeHeld(w)
    BY <1>1, <1>4, <2>1, GotoFields DEF TakeHeld, ReleaseAllStep
  <2>2. CASE ReleaseHeld(w)
    BY <1>4, <2>2 DEF ReleaseHeld, ReleaseAllStep
  <2> QED
    BY <1>4, <2>1, <2>2 DEF ReleaseAllStep
<1>5. CASE FlagStep(w)
  <2>1. CASE PauseAbort(w)
    BY <1>1, <1>5, <2>1, LeaveFields DEF PauseAbort, FlagStep
  <2>2. ~ClearRunning(w)
    BY <1>1, GotoFields DEF ClearRunning, Executing, ExecutePC
  <2> QED
    BY <1>5, <2>1, <2>2 DEF FlagStep, WaitTime, SetPaused, AckResume
<1> QED
  BY <1>3, <1>4, <1>5 DEF WorkerStep, KeyStep, TrackKey, PressKey, ReleaseKey,
     UntrackKey, TickStep, Sleep, PauseWait, LocalStep

\* A worker that stops, stops for as long as the request is in force.
LEMMA StoppingKept ==
    ASSUME TypeOK, NEW w \in Worker, WorkerStep(w), Executing(w)', Requested,
           Stopping(w)
    PROVE  Stopping(w)' /\ ~Advance(w)
<1> USE DEF Stopping, Leaving, At, Advance
<1>1. worker \in [Worker -> Locals] /\ Aborted' = Aborted
  BY WorkerKeepsRequests DEF TypeOK
<1>2. Executing(w)
  BY AfterwardsStep
<1>3. ~Aborted => "pause_requested" \in on
  BY DEF Requested, Aborted
<1>4. CASE LocalStep(w)
  <2>1. CASE CheckAbort(w)
    BY <1>1, <2>1, LeaveFields, GotoFields DEF CheckAbort
  <2>2. CASE CheckPause(w)
    BY <1>1, <1>3, <2>2, EnterPauseFields DEF CheckPause
  <2>3. CASE PauseLoop(w)
    BY <1>1, <1>3, <2>3, GotoFields DEF PauseLoop
  <2>4. CASE HeldReleased(w)
    BY <1>1, <2>4, GotoFields DEF HeldReleased
  <2> QED
    BY <1>2, <1>4, <2>1, <2>2, <2>3, <2>4 DEF LocalStep, BeginDelay, WaitAbort,
       WaitPause, Recheck, Report, ThreadEnds, Executing, ExecutePC
<1>5. CASE ReleaseAllStep(w)
  <2>1. CASE TakeHeld(w)
    BY <1>1, <2>1, GotoFields DEF TakeHeld
  <2>2. CASE ReleaseHeld(w)
    BY <1>1, <2>2 DEF ReleaseHeld
  <2> QED
    BY <1>5, <2>1, <2>2 DEF ReleaseAllStep
<1>6. CASE FlagStep(w)
  <2>1. CASE SetPaused(w)
    BY <1>1, <2>1, GotoFields DEF SetPaused
  <2>2. CASE PauseAbort(w)
    BY <1>1, <2>2, LeaveFields, GotoFields DEF PauseAbort
  <2>3. ~ClearRunning(w)
    BY <1>1, GotoFields DEF ClearRunning, Executing, ExecutePC
  <2> QED
    BY <1>6, <2>1, <2>2, <2>3 DEF FlagStep, WaitTime, AckResume
<1>7. CASE TickStep(w)
  <2>1. PauseWait(w)
    BY <1>7 DEF TickStep, Sleep
  <2> QED
    BY <1>1, <2>1, PauseWaitFields DEF PauseWait
<1> QED
  BY <1>4, <1>5, <1>6, <1>7 DEF WorkerStep, KeyStep, TrackKey, PressKey, ReleaseKey,
     UntrackKey

\* A thread starts at the top of the event loop.
LEMMA LaunchStep ==
    ASSUME TypeOK, NEW c \in Caller, Launch(c)
    PROVE  \E w \in Worker, p \in Plans :
              /\ At(w, "none") /\ thread' = w
              /\ worker'[w] = [worker[w] EXCEPT !.pc = "top", !.plan = p]
              /\ worker'[w].pc = "top" /\ worker'[w].plan = p
              /\ worker'[w].index = worker[w].index
              /\ worker'[w].status = worker[w].status
              /\ \A v \in Worker : v # w => worker'[v] = worker[v]
<1>1. worker \in [Worker -> Locals]
  BY DEF TypeOK
<1>2. PICK w \in Worker, p \in Plans :
         /\ At(w, "none") /\ thread' = w
         /\ worker' = [worker EXCEPT ![w].pc = "top", ![w].plan = p]
  BY DEF Launch
<1>3. worker'[w] = [worker[w] EXCEPT !.pc = "top", !.plan = p]
  BY <1>1, <1>2
<1>4. /\ worker'[w].pc = "top" /\ worker'[w].plan = p
      /\ worker'[w].index = worker[w].index /\ worker'[w].status = worker[w].status
  BY <1>1, <1>3 DEF Locals
<1>5. \A v \in Worker : v # w => worker'[v] = worker[v]
  BY <1>1, <1>2
<1> QED
  BY <1>2, <1>3, <1>4, <1>5

\* The calls that make or withdraw a request, and those that neither do so nor
\* start a run.
RequestCall(c) == RequestStep(c) /\ (RequestPause(c) \/ WithdrawPause(c) \/ RequestAbort(c))
OtherCall(c) == \/ RequestStep(c) /\ (SetWake(c) \/ ClearResume(c) \/ SignalResume(c))
                \/ StartStep(c) /\ StartCheck(c)
                \/ ReleaseCall(c)

\* The steps of a caller.
LEMMA CallerCases ==
    ASSUME NEW c \in Caller, CallerStep(c)
    PROVE  \/ RequestCall(c) \/ OtherCall(c)
           \/ StartStep(c) /\ (ResetFlags(c) \/ Launch(c))
<1>1. CASE RequestStep(c)
  BY <1>1, Zenon DEF RequestStep, RequestCall, OtherCall
<1>2. CASE StartStep(c)
  BY <1>2, Zenon DEF StartStep, OtherCall
<1> QED
  BY <1>1, <1>2, Zenon DEF CallerStep, OtherCall

\* What the calls leave alone that are about something else.
LEMMA OtherCallKeeps ==
    ASSUME NEW c \in Caller, OtherCall(c)
    PROVE  /\ UNCHANGED <<thread, event_index, worker, grace, late>>
           /\ Requested' = Requested /\ Aborted' = Aborted
           /\ \A f \in {"running", "paused", "pause_requested", "abort_requested"} :
                 f \in on' <=> f \in on
<1>1. CASE RequestStep(c) /\ (SetWake(c) \/ ClearResume(c) \/ SignalResume(c))
  <2>1. \A f \in {"running", "paused", "pause_requested", "abort_requested"} :
            f \in on' <=> f \in on
    BY <1>1 DEF SetWake, ClearResume, SignalResume, Set, Clear
  <2>2. Requested' = Requested /\ Aborted' = Aborted
    BY <2>1 DEF Requested, Aborted
  <2>3. UNCHANGED <<grace, late>>
    BY <1>1 DEF SetWake, ClearResume, SignalResume
  <2> QED
    BY <1>1, <2>1, <2>2, <2>3 DEF RequestStep
<1>2. CASE StartCheck(c) \/ ReleaseCall(c)
  BY <1>2 DEF StartCheck, ReleaseCall, Requested, Aborted
<1> QED
  BY <1>1, <1>2 DEF OtherCall

\* A requested pause or abort lets one more event finish and no second.
LEMMA GraceStep ==
    ASSUME TypeOK, OneJob, StartInv, GraceInv, [Next]_vars
    PROVE  GraceInv'
<1>1. ASSUME NEW w \in Worker, WorkerStep(w)
      PROVE  GraceInv'
  <2>1. /\ worker \in [Worker -> Locals]
        /\ Requested' = Requested /\ Aborted' = Aborted
        /\ \A v \in Worker : v # w => worker'[v] = worker[v]
    BY <1>1, WorkerKeepsRequests, OthersKept DEF TypeOK
  <2>2. CASE Advance(w)
    <3>1. Executing(w) /\ ~Stopping(w)
      BY <2>2 DEF Advance, At, Executing, ExecutePC, Stopping, Leaving
    <3>2. grace = 0
      BY <3>1 DEF GraceInv
    <3>3. grace' \in {0, 1} /\ (~Requested => grace' = 0)
      BY <2>2, <3>2 DEF Advance, Capped
    <3>4. \A v \in Worker : Executing(v)' => v = w
      BY <2>1, <3>1 DEF OneJob, Executing
    <3>5. Stopping(w)'
      BY <2>1, <2>2, AdvanceFields DEF Stopping, At
    <3> QED
      BY <2>1, <3>3, <3>4, <3>5 DEF GraceInv
  <2>3. CASE ~Advance(w)
    <3>1. grace' = grace
      BY <1>1, <2>3 DEF WorkerStep, LocalStep, KeyStep, ReleaseAllStep, FlagStep, TickStep
    <3>2. ASSUME grace = 1, NEW v \in Worker, Executing(v)'
          PROVE  Stopping(v)'
      <4>1. Requested
        BY <3>2 DEF GraceInv
      <4>2. CASE v = w
        <5>1. Executing(w)
          BY <1>1, <3>2, <4>2, AfterwardsStep
        <5>2. Stopping(w)
          BY <3>2, <5>1 DEF GraceInv
        <5> QED
          BY <1>1, <3>2, <4>1, <4>2, <5>2, StoppingKept
      <4>3. CASE v # w
        BY <2>1, <3>2, <4>3 DEF GraceInv, Executing, Stopping, Leaving, At
      <4> QED
        BY <4>2, <4>3
    <3> QED
      BY <2>1, <3>1, <3>2 DEF GraceInv
  <2> QED
    BY <2>2, <2>3
<1>2. ASSUME NEW c \in Caller, CallerStep(c)
      PROVE  GraceInv'
  <2>1. CASE RequestCall(c)
    <3>1. worker' = worker
      BY <2>1 DEF RequestCall, RequestStep
    <3>2. grace' \in {0, 1} /\ (grace' = 1 => Requested' /\ grace = 1)
      BY <2>1 DEF RequestCall, RequestPause, WithdrawPause, RequestAbort, Set, Clear, GraceInv,
         Requested, Aborted
    <3>3. grace' = 1 => Aborted' = Aborted
      BY <2>1 DEF RequestCall, RequestPause, WithdrawPause, RequestAbort, Set, Clear, Aborted
    <3> QED
      BY <3>1, <3>2, <3>3 DEF GraceInv, Executing, Stopping, Leaving, At
  <2>2. CASE ResetFlags(c)
    <3>1. worker' = worker /\ grace' = 0
      BY <1>2, <2>2 DEF ResetFlags
    <3> QED
      BY <3>1 DEF GraceInv
  <2>3. CASE Launch(c)
    <3>1. /\ \A v \in Worker : ~Executing(v)
          /\ grace' = grace /\ Requested' = Requested
      BY <2>3 DEF Launch, Call, StartInv, OneJob, Set, Requested
    <3>2. \A v \in Worker : Executing(v)' => At(v, "top")'
      BY <2>3, <3>1, LaunchStep DEF Executing, At
    <3> QED
      BY <3>1, <3>2 DEF GraceInv, Stopping
  <2>4. CASE OtherCall(c)
    <3>1. /\ worker' = worker /\ grace' = grace
          /\ Requested' = Requested /\ Aborted' = Aborted
      BY <2>4, OtherCallKeeps
    <3> QED
      BY <3>1 DEF GraceInv, Executing, Stopping, Leaving, At
  <2> QED
    BY <1>2, <2>1, <2>2, <2>3, <2>4, CallerCases
<1>3. CASE UNCHANGED vars
  BY <1>3 DEF vars, GraceInv, Executing, Stopping, Leaving, At, Requested, Aborted
<1> QED
  BY <1>1, <1>2, <1>3 DEF Next

\* Whoever gives up keeps doing so, and who sleeps a tick under an abort gives up.
LEMMA LateStep ==
    ASSUME TypeOK, OneJob, StartInv, LateInv, [Next]_vars
    PROVE  LateInv'
<1>1. ASSUME NEW w \in Worker, WorkerStep(w)
      PROVE  LateInv'
  <2>1. /\ worker \in [Worker -> Locals] /\ Aborted' = Aborted
        /\ \A v \in Worker : v # w => worker'[v] = worker[v]
    BY <1>1, WorkerKeepsRequests, OthersKept DEF TypeOK
  <2>2. CASE late = 1
    <3>1. Aborted
      BY <2>2 DEF LateInv
    <3>2. late' = late
      <4>1. CASE TickStep(w)
        <5>1. Executing(w) /\ Executing(w)'
          BY <2>1, <4>1, SleepFields, PauseWaitFields
             DEF TickStep, Sleep, PauseWait, At, Executing, ExecutePC
        <5> QED
          BY <1>1, <2>2, <3>1, <5>1, GivingUpKept DEF LateInv
      <4>2. CASE ~TickStep(w)
        BY <1>1, <4>2 DEF WorkerStep, LocalStep, KeyStep, Advance, ReleaseAllStep, FlagStep
      <4> QED
        BY <4>1, <4>2
    <3>3. ASSUME NEW v \in Worker, Executing(v)'
          PROVE  GivingUp(v)'
      <4>1. CASE v = w
        <5>1. Executing(w)
          BY <1>1, <3>3, <4>1, AfterwardsStep
        <5> QED
          BY <1>1, <2>2, <3>1, <3>3, <4>1, <5>1, GivingUpKept DEF LateInv
      <4>2. CASE v # w
        BY <2>1, <2>2, <3>3, <4>2 DEF LateInv, Executing, GivingUp, Leaving
      <4> QED
        BY <4>1, <4>2
    <3> QED
      BY <2>1, <2>2, <3>1, <3>2, <3>3 DEF LateInv
  <2>3. CASE late # 1
    <3>1. late = 0
      BY <2>3 DEF LateInv
    <3>2. CASE late' = 0
      BY <3>2 DEF LateInv
    <3>3. CASE late' # 0
      <4>1. TickStep(w)
        BY <1>1, <3>1, <3>3
           DEF WorkerStep, LocalStep, KeyStep, Advance, ReleaseAllStep, FlagStep
      <4>2. Aborted /\ late' = 1
        BY <3>1, <3>3, <4>1 DEF TickStep, Sleep, PauseWait, Capped
      <4>3. worker'[w].pc \in {"wait", "pauseloop"} /\ Executing(w)
        BY <2>1, <4>1, SleepFields, PauseWaitFields
           DEF TickStep, Sleep, PauseWait, At, Executing, ExecutePC
      <4>4. \A v \in Worker : Executing(v)' => v = w
        BY <2>1, <4>3 DEF OneJob, Executing
      <4> QED
        BY <2>1, <4>2, <4>3, <4>4 DEF LateInv, GivingUp
    <3> QED
      BY <3>2, <3>3
  <2> QED
    BY <2>2, <2>3
<1>2. ASSUME NEW c \in Caller, CallerStep(c)
      PROVE  LateInv'
  <2>1. CASE RequestCall(c)
    <3>1. worker' = worker
      BY <2>1 DEF RequestCall, RequestStep
    <3>2. late' \in {0, 1} /\ (late' = 1 => Aborted' /\ late = 1)
      BY <2>1 DEF RequestCall, RequestPause, WithdrawPause, RequestAbort, Set, Clear,
         LateInv, Aborted
    <3> QED
      BY <3>1, <3>2 DEF LateInv, Executing, GivingUp, Leaving
  <2>2. CASE ResetFlags(c)
    BY <2>2 DEF ResetFlags, LateInv
  <2>3. CASE Launch(c)
    <3>1. /\ \A v \in Worker : ~Executing(v)
          /\ late' = late /\ Aborted' = Aborted
      BY <2>3 DEF Launch, Call, StartInv, OneJob, Set, Aborted
    <3>2. \A v \in Worker : Executing(v)' => worker'[v].pc = "top"
      BY <2>3, <3>1, LaunchStep DEF Executing
    <3> QED
      BY <3>1, <3>2 DEF LateInv, GivingUp
  <2>4. CASE OtherCall(c)
    <3>1. worker' = worker /\ late' = late /\ Aborted' = Aborted
      BY <2>4, OtherCallKeeps
    <3> QED
      BY <3>1 DEF LateInv, Executing, GivingUp, Leaving
  <2> QED
    BY <1>2, <2>1, <2>2, <2>3, <2>4, CallerCases
<1>3. CASE UNCHANGED vars
  BY <1>3 DEF vars, LateInv, Executing, GivingUp, Leaving, Aborted
<1> QED
  BY <1>1, <1>2, <1>3 DEF Next

-----------------------------------------------------------------------------
(* Delays.                                                                 *)

\* The clock of a delay runs while the worker waits and only then.
LEMMA DelayOwnStep ==
    ASSUME TypeOK, EventInv, NEW w \in Worker, WorkerStep(w), DelayOK(worker[w])
    PROVE  DelayOK(worker'[w])
<1> DEFINE l == worker[w]
           m == worker'[w]
<1> USE DEF At, DelayOK, PausePC
<1>1. worker \in [Worker -> Locals]
  BY DEF TypeOK
<1>2. l.left \in Int /\ l.slept \in Nat /\ l.pausedFor \in Int
  BY <1>1, BoundAssumption DEF Locals
<1>3. ASSUME NEW a, InDelay(l, a), Kept(l, m), m.slept = l.slept
      PROVE  InDelay(m, a)
  BY <1>3 DEF InDelay, Kept
<1>4. CASE LocalStep(w)
  <2>1. CASE CheckAbort(w)
    BY <1>1, <2>1, LeaveFields, GotoFields DEF CheckAbort
  <2>2. CASE CheckPause(w)
    BY <1>1, <2>2, EnterPauseFields, GotoFields DEF CheckPause
  <2>3. CASE BeginDelay(w)
    <3>1. Current(w).ticks \in Nat
      BY <2>3, CurrentType, EventFields DEF BeginDelay, InEvent, EventPC
    <3>2. /\ m.pc = "wait" /\ m.left = Current(w).ticks /\ m.slept = 0
          /\ Kept(l, m) /\ Current(w).kind = "delay"
      BY <1>1, <2>3, BeginDelayFields DEF BeginDelay
    <3>3. m.left >= 0 /\ m.left + m.slept = Current(w).ticks
      BY <3>1, <3>2
    <3>4. InDelay(m, m.left)
      BY <3>2, <3>3 DEF InDelay, Kept, Current
    <3> QED
      BY <3>2, <3>4
  <2>4. CASE WaitAbort(w)
    BY <1>1, <1>3, <2>4, LeaveFields, GotoFields DEF WaitAbort
  <2>5. CASE WaitPause(w)
    <3>1. l.left + 0 = l.left
      BY <1>2
    <3> QED
      BY <1>1, <1>3, <2>5, <3>1, EnterPauseFields, GotoFields DEF WaitPause
  <2>6. CASE Recheck(w)
    BY <1>1, <1>3, <2>6, GotoFields DEF Recheck
  <2>7. CASE HeldReleased(w)
    BY <1>1, <1>3, <2>7, GotoFields DEF HeldReleased
  <2>8. CASE PauseLoop(w)
    BY <1>1, <1>3, <2>8, GotoFields DEF PauseLoop
  <2>9. CASE Report(w)
    BY <1>1, <2>9 DEF Report, Locals
  <2>10. CASE ThreadEnds(w)
    BY <1>1, <2>10 DEF ThreadEnds, NoLocals
  <2> QED
    BY <1>4, <2>1, <2>2, <2>3, <2>4, <2>5, <2>6, <2>7, <2>8, <2>9, <2>10 DEF LocalStep
<1>5. CASE KeyStep(w)
  <2>1. CASE TrackKey(w)
    BY <1>1, <2>1, GotoFields DEF TrackKey
  <2>2. CASE PressKey(w)
    BY <1>1, <2>2, LeaveFields, GotoFields DEF PressKey, EventInv, EventOK, Kept
  <2>3. CASE ReleaseKey(w)
    BY <1>1, <2>3, ReleaseKeyFields
  <2>4. CASE UntrackKey(w)
    BY <1>1, <2>4, LeaveFields, GotoFields DEF UntrackKey, EventInv, EventOK, Kept
  <2> QED
    BY <1>5, <2>1, <2>2, <2>3, <2>4 DEF KeyStep
<1>6. CASE Advance(w)
  BY <1>1, <1>6, AdvanceFields
<1>7. CASE ReleaseAllStep(w)
  <2>1. CASE TakeHeld(w)
    BY <1>1, <1>3, <2>1, GotoFields DEF TakeHeld
  <2>2. CASE ReleaseHeld(w)
    BY <2>2 DEF ReleaseHeld
  <2> QED
    BY <1>7, <2>1, <2>2 DEF ReleaseAllStep
<1>8. CASE FlagStep(w)
  <2>1. CASE WaitTime(w)
    <3>1. InDelay(l, l.left)
      BY <2>1 DEF WaitTime
    <3>2. CASE l.left <= 0
      <4>1. InDelay(l, 0)
        BY <1>2, <3>1, <3>2 DEF InDelay
      <4> QED
        BY <1>1, <1>2, <1>3, <2>1, <3>2, <4>1, GotoFields DEF WaitTime
    <3>3. CASE l.left > 0
      BY <1>1, <1>2, <1>3, <2>1, <3>1, <3>3, GotoFields DEF WaitTime
    <3> QED
      BY <1>2, <3>2, <3>3
  <2>2. CASE SetPaused(w)
    BY <1>1, <1>3, <2>2, GotoFields DEF SetPaused
  <2>3. CASE PauseAbort(w)
    BY <1>1, <1>3, <2>3, LeaveFields, GotoFields DEF PauseAbort
  <2>4. CASE AckResume(w)
    BY <1>1, <1>3, <2>4, AckResumeFields DEF AckResume
  <2>5. CASE ClearRunning(w)
    BY <1>1, <2>5, GotoFields DEF ClearRunning
  <2> QED
    BY <1>8, <2>1, <2>2, <2>3, <2>4, <2>5 DEF FlagStep
<1>9. CASE TickStep(w)
  <2>1. CASE Sleep(w)
    <3>1. InDelay(l, l.left) /\ l.left > 0
      BY <2>1 DEF Sleep
    <3>2. InDelay(m, m.left)
      BY <1>1, <1>2, <2>1, <3>1, SleepFields DEF InDelay, Kept
    <3> QED
      BY <1>1, <2>1, <3>2, SleepFields
  <2>2. CASE PauseWait(w)
    BY <1>1, <1>3, <2>2, PauseWaitFields DEF PauseWait
  <2> QED
    BY <1>9, <2>1, <2>2 DEF TickStep
<1> QED
  BY <1>4, <1>5, <1>6, <1>7, <1>8, <1>9 DEF WorkerStep

-----------------------------------------------------------------------------
(* Held keys.                                                              *)

\* The first elements of a sequence.
LEMMA PrefixProperties ==
    ASSUME NEW S, NEW s, NEW n \in Nat, \A k \in 1..n : s[k] \in S
    PROVE  /\ SubSeq(s, 1, n) \in Seq(S) /\ Len(SubSeq(s, 1, n)) = n
           /\ \A j \in 1..n : SubSeq(s, 1, n)[j] = s[j]
<1>1. /\ SubSeq(s, 1, n) \in Seq(S)
      /\ Len(SubSeq(s, 1, n)) = IF 1 <= n THEN n - 1 + 1 ELSE 0
      /\ \A j \in 1..(n - 1 + 1) : SubSeq(s, 1, n)[j] = s[1 + j - 1]
  BY SubSeqProperties
<1>2. n - 1 + 1 = n /\ \A j \in 1..n : 1 + j - 1 = j
  OBVIOUS
<1> QED
  BY <1>1, <1>2

\* The keys of a sequence, after an append, ...
LEMMA ToSetAppend ==
    ASSUME NEW S, NEW s \in Seq(S), NEW e \in S
    PROVE  ToSet(s) \cup {e} \subseteq ToSet(Append(s, e))
<1> DEFINE t == Append(s, e)
<1>1. /\ Len(t) = Len(s) + 1 /\ t[Len(s) + 1] = e /\ Len(s) \in Nat
      /\ \A i \in 1..Len(s) : t[i] = s[i]
  BY AppendProperties, LenProperties
<1>2. e \in ToSet(t)
  <2>1. Len(s) + 1 \in DOMAIN t
    BY <1>1, AppendProperties, LenProperties
  <2> QED
    BY <1>1, <2>1 DEF ToSet
<1>3. ASSUME NEW i \in DOMAIN s
      PROVE  s[i] \in ToSet(t)
  <2>1. i \in 1..Len(s)
    BY LenProperties
  <2>2. i \in DOMAIN t /\ t[i] = s[i]
    BY <1>1, <2>1, AppendProperties, LenProperties
  <2> QED
    BY <2>2 DEF ToSet
<1> QED
  BY <1>2, <1>3 DEF ToSet

\* ... without one of its elements, ...
LEMMA ToSetRemoveAt ==
    ASSUME NEW S, NEW s \in Seq(S), NEW i \in 1..Len(s)
    PROVE  ToSet(s) \subseteq ToSet(RemoveAt(s, i)) \cup {s[i]}
<1> DEFINE f == SubSeq(s, 1, i - 1)
           g == SubSeq(s, i + 1, Len(s))
<1>0. DOMAIN s = 1..Len(s)
  BY LenProperties
<1>1. Len(s) \in Nat
  BY LenProperties
<1>2. /\ f \in Seq(S) /\ Len(f) = i - 1
      /\ \A j \in 1..(i - 1) : f[j] = s[j]
  BY <1>1, SubSeqProperties
<1>3. /\ g \in Seq(S) /\ Len(g) = Len(s) - i
      /\ \A j \in 1..(Len(s) - i) : g[j] = s[(i + 1) + j - 1]
  <2>1. i + 1 \in Int /\ Len(s) \in Int /\ \A k \in (i + 1)..Len(s) : s[k] \in S
    BY <1>1, ElementOfSeq
  <2>2. /\ g \in Seq(S) /\ Len(g) = IF i + 1 <= Len(s) THEN Len(s) - (i + 1) + 1 ELSE 0
        /\ \A j \in 1..(Len(s) - (i + 1) + 1) : g[j] = s[(i + 1) + j - 1]
    BY <2>1, SubSeqProperties
  <2>3. Len(s) - (i + 1) + 1 = Len(s) - i /\ (~(i + 1 <= Len(s)) => Len(s) - i = 0)
    BY <1>1
  <2> QED
    BY <2>2, <2>3
<1>4. RemoveAt(s, i) = f \o g
  BY DEF RemoveAt
<1> HIDE DEF f, g
<1>5. /\ DOMAIN (f \o g) = 1..(Len(s) - 1)
      /\ \A j \in 1..(Len(s) - 1) :
            (f \o g)[j] = IF j <= i - 1 THEN f[j] ELSE g[j - (i - 1)]
  <2>1. /\ Len(f) + Len(g) = Len(s) - 1
        /\ f \o g \in Seq(S) /\ Len(f \o g) = Len(s) - 1
    <3>1. f \o g \in Seq(S) /\ Len(f \o g) = Len(f) + Len(g)
      BY <1>2, <1>3, ConcatProperties
    <3>2. Len(f) + Len(g) = Len(s) - 1
      BY <1>1, <1>2, <1>3
    <3> QED
      BY <3>1, <3>2
  <2>2. DOMAIN (f \o g) = 1..(Len(s) - 1)
    BY <2>1, LenProperties
  <2>3. \A j \in 1..(Len(f) + Len(g)) :
            (f \o g)[j] = IF j <= Len(f) THEN f[j] ELSE g[j - Len(f)]
    BY <1>2, <1>3, ConcatProperties
  <2> QED
    BY <1>2, <2>1, <2>2, <2>3
<1>6. ASSUME NEW j \in 1..Len(s), j # i
      PROVE  s[j] \in ToSet(f \o g)
  <2>1. CASE j < i
    <3>1. j \in 1..(Len(s) - 1) /\ j \in 1..(i - 1)
      BY <1>1, <2>1
    <3>2. j <= i - 1
      BY <3>1
    <3>3. (f \o g)[j] = f[j] /\ f[j] = s[j]
      BY <1>2, <1>5, <3>1, <3>2
    <3>4. j \in DOMAIN (f \o g)
      BY <1>5, <3>1
    <3> QED
      BY <3>3, <3>4 DEF ToSet
  <2>2. CASE j > i
    <3>1. /\ j - 1 \in 1..(Len(s) - 1) /\ ~(j - 1 <= i - 1)
          /\ (j - 1) - (i - 1) = j - i /\ j - i \in 1..(Len(s) - i)
          /\ (i + 1) + (j - i) - 1 = j
      BY <1>1, <2>2
    <3>2. (f \o g)[j - 1] = g[j - i]
      BY <1>5, <3>1
    <3>3. g[j - i] = s[j]
      BY <1>3, <3>1
    <3>4. j - 1 \in DOMAIN (f \o g)
      BY <1>5, <3>1
    <3> QED
      BY <3>2, <3>3, <3>4 DEF ToSet
  <2> QED
    BY <1>1, <1>6, <2>1, <2>2
<1> QED
  BY <1>0, <1>4, <1>6 DEF ToSet

\* ... and without its last one.
LEMMA ToSetFront ==
    ASSUME NEW S, NEW s \in Seq(S), s # <<>>
    PROVE  ToSet(s) \subseteq ToSet(Front(s)) \cup {Last(s)}
<1>0. DOMAIN s = 1..Len(s)
  BY LenProperties
<1>1. Len(s) \in Nat \ {0}
  BY EmptySeq, LenProperties
<1>2. /\ Len(Front(s)) = Len(s) - 1 /\ Front(s) \in Seq(S)
      /\ \A j \in 1..(Len(s) - 1) : Front(s)[j] = s[j]
  <2>1. \A k \in 1..(Len(s) - 1) : s[k] \in S
    BY <1>1, ElementOfSeq
  <2>2. /\ SubSeq(s, 1, Len(s) - 1) \in Seq(S)
        /\ Len(SubSeq(s, 1, Len(s) - 1)) = Len(s) - 1
        /\ \A j \in 1..(Len(s) - 1) : SubSeq(s, 1, Len(s) - 1)[j] = s[j]
    <3> DEFINE n == Len(s) - 1
    <3>1. n \in Nat /\ \A k \in 1..n : s[k] \in S
      BY <1>1, <2>1
    <3> HIDE DEF n
    <3>2. /\ SubSeq(s, 1, n) \in Seq(S) /\ Len(SubSeq(s, 1, n)) = n
          /\ \A j \in 1..n : SubSeq(s, 1, n)[j] = s[j]
      BY <3>1, PrefixProperties
    <3> QED
      BY <3>2 DEF n
  <2> QED
    BY <2>2 DEF Front
<1>3. ASSUME NEW j \in 1..Len(s), j # Len(s)
      PROVE  s[j] \in ToSet(Front(s))
  <2>1. j \in 1..(Len(s) - 1)
    BY <1>1, <1>3
  <2>2. DOMAIN Front(s) = 1..(Len(s) - 1)
    BY <1>2, LenProperties
  <2> QED
    BY <1>2, <2>1, <2>2 DEF ToSet
<1> QED
  BY <1>0, <1>1, <1>3 DEF ToSet, Last

\* No key is in an empty list.
LEMMA ToSetEmpty == ToSet(<<>>) = {}
  BY DEF ToSet

\* The keys in a thread's copy are among the copies.
LEMMA CopyIn ==
    ASSUME NEW t \in Worker \cup Caller
    PROVE  ToSet(out[t]) \subseteq Copies
  BY DEF Copies

\* A step that changes one thread's copy keeps the keys of all the others.
LEMMA CopiesKept ==
    ASSUME NEW t \in Worker \cup Caller, NEW lost,
           \A u \in Worker \cup Caller : u # t => out'[u] = out[u],
           ToSet(out[t]) \subseteq ToSet(out'[t]) \cup lost
    PROVE  Copies \subseteq Copies' \cup lost
<1> SUFFICES ASSUME NEW u \in Worker \cup Caller, NEW k \in ToSet(out[u])
             PROVE  k \in Copies' \cup lost
  BY DEF Copies
<1>1. CASE u = t
  BY <1>1 DEF Copies
<1>2. CASE u # t
  <2>1. k \in ToSet(out'[u])
    BY <1>2
  <2> QED
    BY <2>1 DEF Copies
<1> QED
  BY <1>1, <1>2

\* Taking the list into an empty copy loses no key.
LEMMA TakeAccounted ==
    ASSUME Accounted, NEW t \in Worker \cup Caller, out[t] = <<>>,
           out \in [Worker \cup Caller -> Seq(Key)],
           TakeAll, out' = [out EXCEPT ![t] = pressed]
    PROVE  Accounted'
<1>1. /\ out'[t] = pressed
      /\ \A u \in Worker \cup Caller : u # t => out'[u] = out[u]
  OBVIOUS
<1>2. Copies \subseteq Copies'
  BY <1>1, CopiesKept, ToSetEmpty
<1>3. ToSet(pressed) \subseteq Copies'
  BY <1>1 DEF Copies
<1> QED
  BY <1>2, <1>3 DEF Accounted, TakeAll

\* Releasing the last key of a copy, in vain or not, loses none either.
LEMMA ReleaseAccounted ==
    ASSUME Accounted, NEW t \in Worker \cup Caller, out[t] # <<>>,
           out \in [Worker \cup Caller -> Seq(Key)],
           \E raises \in BOOLEAN : Release(Last(out[t]), raises),
           out' = [out EXCEPT ![t] = Front(@)]
    PROVE  Accounted'
<1>1. /\ out'[t] = Front(out[t])
      /\ \A u \in Worker \cup Caller : u # t => out'[u] = out[u]
  OBVIOUS
<1>2. ToSet(out[t]) \subseteq ToSet(out'[t]) \cup {Last(out[t])}
  BY <1>1, ToSetFront
<1>3. Copies \subseteq Copies' \cup {Last(out[t])}
  BY <1>1, <1>2, CopiesKept
<1>4. CASE Release(Last(out[t]), TRUE)
  BY <1>3, <1>4 DEF Accounted, Release
<1>5. CASE Release(Last(out[t]), FALSE)
  BY <1>3, <1>5 DEF Accounted, Release
<1> QED
  BY <1>4, <1>5

\* What a step of the executing worker makes of the keys.
HeldAfter(w) ==
    /\ Accounted
    /\ Executing(w) => HeldOK(w)
    /\ ~Executing(w) => pressed = <<>>
    /\ out[w] = <<>> \/ At(w, "release")

\* A step that leaves keys, list and copies alone.
LEMMA AccountedSame ==
    ASSUME Accounted, UNCHANGED <<backendVars, out>>
    PROVE  Accounted'
  BY DEF Accounted, Copies, backendVars

\* A step that presses, releases and tracks nothing.
LEMMA HeldSame ==
    ASSUME Accounted, NEW w \in Worker, HeldOK(w), UNCHANGED <<backendVars, out>>,
           out[w] = <<>> \/ worker'[w].pc = "release",
           worker'[w].pc \in ExecutePC, worker'[w].pc # "untrack",
           worker'[w].pc \in (PausePC \ {"take"}) \cup {"clear"} => pressed = <<>>
    PROVE  HeldAfter(w)'
  BY AccountedSame DEF HeldAfter, HeldOK, At, Executing, backendVars

\* Every step of the executing worker accounts for every key that is down.
LEMMA HeldOwnStep ==
    ASSUME TypeOK, EventInv, NEW w \in Worker, WorkerStep(w), Executing(w), HeldAfter(w)
    PROVE  HeldAfter(w)'
<1> DEFINE l == worker[w]
           m == worker'[w]
<1> USE DEF At, PausePC, ExecutePC
<1>1. /\ worker \in [Worker -> Locals] /\ pressed \in Seq(Key)
      /\ out \in [Worker \cup Caller -> Seq(Key)]
  BY DEF TypeOK, BackendTypeOK
<1>2. Accounted /\ HeldOK(w) /\ (out[w] = <<>> \/ l.pc = "release")
  BY DEF HeldAfter
<1>3. l.pc \in (PausePC \ {"take"}) \cup {"clear"} => pressed = <<>>
  BY <1>2 DEF HeldOK
<1>4. CASE LocalStep(w)
  <2>0. UNCHANGED <<backendVars, out>>
    BY <1>4 DEF LocalStep
  <2>1. CASE CheckAbort(w)
    <3>1. m.pc \in {"take", "pausecheck"} /\ l.pc = "top"
      BY <1>1, <2>1, LeaveFields, GotoFields DEF CheckAbort
    <3> QED
      BY <1>2, <1>3, <2>0, <3>1, HeldSame
  <2>2. CASE CheckPause(w)
    <3>1. m.pc \in {"take", "dispatch"} /\ l.pc = "pausecheck"
      BY <1>1, <2>2, EnterPauseFields, GotoFields DEF CheckPause
    <3> QED
      BY <1>2, <1>3, <2>0, <3>1, HeldSame
  <2>3. CASE BeginDelay(w)
    <3>1. m.pc \in {"wait"} /\ l.pc = "dispatch"
      BY <1>1, <2>3, BeginDelayFields DEF BeginDelay
    <3> QED
      BY <1>2, <1>3, <2>0, <3>1, HeldSame
  <2>4. CASE WaitAbort(w)
    <3>1. m.pc \in {"take", "waitpause"} /\ l.pc = "wait"
      BY <1>1, <2>4, LeaveFields, GotoFields DEF WaitAbort
    <3> QED
      BY <1>2, <1>3, <2>0, <3>1, HeldSame
  <2>5. CASE WaitPause(w)
    <3>1. m.pc \in {"take", "waittime"} /\ l.pc = "waitpause"
      BY <1>1, <2>5, EnterPauseFields, GotoFields DEF WaitPause
    <3> QED
      BY <1>2, <1>3, <2>0, <3>1, HeldSame
  <2>6. CASE Recheck(w)
    <3>1. m.pc \in {"wait", "sleep"} /\ l.pc = "recheck"
      BY <1>1, <2>6, GotoFields DEF Recheck
    <3> QED
      BY <1>2, <1>3, <2>0, <3>1, HeldSame
  <2>7. CASE HeldReleased(w)
    <3>1. m.pc \in {"clear", "setpaused"} /\ l.pc = "release" /\ out[w] = <<>>
      BY <1>1, <2>7, GotoFields DEF HeldReleased
    <3> QED
      BY <1>2, <1>3, <2>0, <3>1, HeldSame
  <2>8. CASE PauseLoop(w)
    <3>1. m.pc \in {"pauseabort", "unpause"} /\ l.pc = "pauseloop"
      BY <1>1, <2>8, GotoFields DEF PauseLoop
    <3> QED
      BY <1>2, <1>3, <2>0, <3>1, HeldSame
  <2>9. ~Report(w) /\ ~ThreadEnds(w)
    BY DEF Report, ThreadEnds, Executing
  <2> QED
    BY <1>4, <2>1, <2>2, <2>3, <2>4, <2>5, <2>6, <2>7, <2>8, <2>9 DEF LocalStep
<1>5. CASE KeyStep(w)
  <2>0. out' = out /\ Copies' = Copies
        /\ (l.pc \in {"dispatch", "press", "untrack"} => out[w] = <<>>)
    BY <1>2, <1>5 DEF KeyStep, Copies
  <2>1. CASE TrackKey(w)
    <3>1. Current(w).key \in Key
      BY <2>1, CurrentType, EventFields DEF TrackKey, InEvent, EventPC
    <3>2. ToSet(pressed) \subseteq ToSet(pressed')
      BY <1>1, <2>1, <3>1, ToSetAppend DEF TrackKey, Track
    <3>3. m.pc = "press" /\ l.pc = "dispatch"
      BY <1>1, <2>1, GotoFields DEF TrackKey
    <3>4. Accounted'
      BY <1>2, <2>0, <2>1, <3>2 DEF TrackKey, Track, Accounted
    <3> QED
      BY <2>0, <3>3, <3>4 DEF HeldAfter, HeldOK, Executing
  <2>2. CASE PressKey(w)
    <3>1. m.pc \in {"take", "advance"} /\ l.pc = "press"
      BY <1>1, <2>2, LeaveFields, GotoFields DEF PressKey
    <3>2. Accounted'
      BY <1>2, <2>0, <2>2 DEF PressKey, Press, Accounted
    <3> QED
      BY <2>0, <3>1, <3>2 DEF HeldAfter, HeldOK, Executing
  <2>3. CASE ReleaseKey(w)
    <3>1. m.pc = "untrack" /\ Kept(l, m) /\ l.pc = "dispatch"
      BY <1>1, <2>3, ReleaseKeyFields DEF ReleaseKey
    <3>2. Accounted' /\ Current(w).key \notin down' \ (stuck' \cup forgotten')
      BY <1>2, <2>0, <2>3 DEF ReleaseKey, Release, Accounted
    <3> QED
      BY <2>0, <3>1, <3>2 DEF HeldAfter, HeldOK, Executing, Current, Kept
  <2>4. CASE UntrackKey(w)
    <3>1. m.pc \in {"take", "advance"} /\ l.pc = "untrack"
      BY <1>1, <2>4, LeaveFields, GotoFields DEF UntrackKey
    <3>2. ToSet(pressed) \subseteq ToSet(pressed') \cup {Current(w).key}
      BY <1>1, <2>4, ToSetRemoveAt DEF UntrackKey, Untrack
    <3>3. Current(w).key \notin down \ (stuck \cup forgotten)
      BY <1>2, <3>1 DEF HeldOK
    <3>4. Accounted'
      BY <1>2, <2>0, <2>4, <3>2, <3>3 DEF UntrackKey, Untrack, Accounted
    <3> QED
      BY <2>0, <3>1, <3>4 DEF HeldAfter, HeldOK, Executing
  <2> QED
    BY <1>5, <2>1, <2>2, <2>3, <2>4 DEF KeyStep
<1>6. CASE Advance(w)
  BY <1>1, <1>2, <1>3, <1>6, HeldSame, AdvanceFields DEF Advance
<1>7. CASE ReleaseAllStep(w)
  <2>1. CASE TakeHeld(w)
    <3>1. m.pc = "release" /\ l.pc = "take" /\ pressed' = <<>>
      BY <1>1, <2>1, GotoFields DEF TakeHeld, TakeAll
    <3>2. Accounted'
      BY <1>1, <1>2, <2>1, <3>1, TakeAccounted DEF TakeHeld
    <3> QED
      BY <3>1, <3>2 DEF HeldAfter, HeldOK, Executing
  <2>2. CASE ReleaseHeld(w)
    <3>1. m = l /\ l.pc = "release" /\ pressed' = pressed
      BY <1>1, <2>2 DEF ReleaseHeld, Release
    <3>2. Accounted'
      BY <1>1, <1>2, <2>2, ReleaseAccounted DEF ReleaseHeld
    <3> QED
      BY <1>3, <3>1, <3>2 DEF HeldAfter, HeldOK, Executing
  <2> QED
    BY <1>7, <2>1, <2>2 DEF ReleaseAllStep
<1>8. CASE FlagStep(w)
  <2>0. UNCHANGED <<backendVars, out>>
    BY <1>8 DEF FlagStep
  <2>1. CASE WaitTime(w)
    <3>1. m.pc \in {"advance", "recheck"} /\ l.pc = "waittime"
      BY <1>1, <2>1, GotoFields DEF WaitTime
    <3> QED
      BY <1>2, <2>0, <3>1, HeldSame
  <2>2. CASE SetPaused(w)
    BY <1>1, <1>2, <1>3, <2>0, <2>2, HeldSame, GotoFields DEF SetPaused
  <2>3. CASE PauseAbort(w)
    BY <1>1, <1>2, <1>3, <2>0, <2>3, HeldSame, LeaveFields, GotoFields DEF PauseAbort
  <2>4. CASE AckResume(w)
    BY <1>1, <1>2, <1>3, <2>0, <2>4, HeldSame, AckResumeFields DEF AckResume
  <2>5. CASE ClearRunning(w)
    <3>1. m.pc = "report" /\ l.pc = "clear"
      BY <1>1, <2>5, GotoFields DEF ClearRunning
    <3>2. pressed = <<>> /\ out[w] = <<>> /\ Accounted'
      BY <1>2, <1>3, <2>0, <3>1, AccountedSame
    <3> QED
      BY <2>0, <3>1, <3>2 DEF HeldAfter, Executing, backendVars
  <2> QED
    BY <1>8, <2>1, <2>2, <2>3, <2>4, <2>5 DEF FlagStep
<1>9. CASE TickStep(w)
  <2>0. UNCHANGED <<backendVars, out>>
    BY <1>9 DEF TickStep
  <2>1. CASE Sleep(w)
    BY <1>1, <1>2, <1>3, <2>0, <2>1, HeldSame, SleepFields DEF Sleep
  <2>2. CASE PauseWait(w)
    BY <1>1, <1>2, <1>3, <2>0, <2>2, HeldSame, PauseWaitFields DEF PauseWait
  <2> QED
    BY <1>9, <2>1, <2>2 DEF TickStep
<1> QED
  BY <1>4, <1>5, <1>6, <1>7, <1>8, <1>9 DEF WorkerStep

\* A worker's step changes no other thread's copy.
LEMMA OutOthersKept ==
    ASSUME TypeOK, NEW w \in Worker, WorkerStep(w), NEW t \in Worker \cup Caller, t # w
    PROVE  out'[t] = out[t]
<1>1. CASE ReleaseAllStep(w)
  BY <1>1 DEF ReleaseAllStep, TakeHeld, ReleaseHeld, TypeOK
<1>2. CASE ~ReleaseAllStep(w)
  BY <1>2 DEF WorkerStep, LocalStep, KeyStep, Advance, FlagStep, TickStep
<1> QED
  BY <1>1, <1>2

\* ... whatever the other workers are still doing.
LEMMA HeldWorkerStep ==
    ASSUME TypeOK, EventInv, OneJob, HeldInv, NEW w \in Worker, WorkerStep(w)
    PROVE  HeldInv'
<1>1. /\ worker \in [Worker -> Locals]
      /\ \A v \in Worker : v # w => worker'[v] = worker[v]
      /\ \A t \in Worker \cup Caller : t # w => out'[t] = out[t]
  BY OthersKept, OutOthersKept DEF TypeOK, WorkerStep
<1>2. CASE Executing(w)
  <2>1. HeldAfter(w)
    BY <1>2 DEF HeldInv, HeldAfter
  <2>2. HeldAfter(w)'
    BY <1>2, <2>1, HeldOwnStep
  <2>3. \A v \in Worker : v # w => ~Executing(v)'
    BY <1>1, <1>2 DEF OneJob, Executing
  <2>4. \A v \in Worker : out'[v] = <<>> \/ worker'[v].pc = "release"
    BY <1>1, <2>2 DEF HeldInv, HeldAfter, At
  <2>5. \A v \in Worker : Executing(v)' => HeldOK(v)'
    BY <2>2, <2>3 DEF HeldAfter
  <2>6. (\A v \in Worker : ~Executing(v)') => pressed' = <<>>
    BY <2>2 DEF HeldAfter
  <2> QED
    BY <2>2, <2>4, <2>5, <2>6 DEF HeldInv, HeldAfter, At
<1>3. CASE ~Executing(w)
  <2>1. UNCHANGED <<backendVars, out>> /\ ~Executing(w)'
    BY <1>3, AfterwardsStep
  <2>2. ~At(w, "release") /\ Accounted'
    BY <1>3, <2>1, AccountedSame DEF Executing, ExecutePC, At, HeldInv
  <2>3. \A v \in Worker : Executing(v)' => v # w /\ Executing(v)
    BY <1>1, <2>1 DEF Executing
  <2>4. \A v \in Worker : Executing(v)' => HeldOK(v)'
    BY <1>1, <2>1, <2>3 DEF HeldInv, HeldOK, At, Current, backendVars
  <2>5. (\A v \in Worker : ~Executing(v)') => \A v \in Worker : ~Executing(v)
    BY <1>1, <1>3 DEF Executing
  <2> QED
    BY <1>1, <2>1, <2>2, <2>4, <2>5 DEF HeldInv, At, backendVars
<1> QED
  BY <1>2, <1>3

\* A caller's release_all takes and releases like a worker's; a run starts with an
\* empty list.
LEMMA HeldCallerStep ==
    ASSUME TypeOK, OneJob, StartInv, ReleaseCallInv, HeldInv, NEW c \in Caller,
           CallerStep(c)
    PROVE  HeldInv'
<1> USE DEF At
<1>0. out \in [Worker \cup Caller -> Seq(Key)] /\ c \notin Worker
  BY ThreadAssumption DEF TypeOK
<1>1. CASE Launch(c) /\ StartStep(c)
  <2>1. \A v \in Worker : ~Executing(v)
    BY <1>1 DEF Launch, Call, StartInv, OneJob
  <2>2. PICK w \in Worker :
           /\ worker'[w].pc = "top"
           /\ \A v \in Worker : v # w => worker'[v] = worker[v]
    BY <1>1, LaunchStep
  <2>3. UNCHANGED <<backendVars, out>>
    BY <1>1 DEF StartStep
  <2>4. pressed = <<>> /\ \A v \in Worker : out[v] = <<>>
    BY <2>1 DEF HeldInv, Executing, ExecutePC
  <2>5. HeldOK(w)' /\ Accounted'
    BY <2>2, <2>3, <2>4, AccountedSame DEF HeldOK, backendVars, PausePC, HeldInv
  <2>6. Executing(w)' /\ \A v \in Worker : v # w => ~Executing(v)'
    BY <2>1, <2>2 DEF Executing, ExecutePC
  <2> QED
    BY <2>2, <2>3, <2>4, <2>5, <2>6 DEF HeldInv
<1>2. CASE ReleaseCall(c)
  <2>1. /\ worker' = worker
        /\ \A v \in Worker : out'[v] = out[v]
        /\ pressed' = pressed \/ pressed' = <<>>
        /\ down' \subseteq down
    BY <1>0, <1>2 DEF ReleaseCall, Join, TakeForCaller, TakeAll, CallerReleases, Release,
       CallerReleased, backendVars
  <2>2. Accounted'
    <3>1. CASE TakeForCaller(c)
      BY <1>0, <3>1, TakeAccounted DEF TakeForCaller, HeldInv, ReleaseCallInv, Call
    <3>2. CASE CallerReleases(c)
      BY <1>0, <3>2, ReleaseAccounted DEF CallerReleases, HeldInv
    <3>3. CASE Join(c) \/ CallerReleased(c)
      BY <3>3, AccountedSame DEF Join, CallerReleased, HeldInv
    <3> QED
      BY <1>2, <3>1, <3>2, <3>3 DEF ReleaseCall
  <2>3. ASSUME NEW w \in Worker, At(w, "untrack"),
               Current(w).key \notin down \ (stuck \cup forgotten)
        PROVE  Current(w).key \notin down' \ (stuck' \cup forgotten')
    <3>1. CASE UNCHANGED <<down, stuck, forgotten>>
      BY <2>3, <3>1
    <3>2. CASE \E raises \in BOOLEAN : Release(Last(out[c]), raises)
      BY <2>3, <3>2 DEF Release
    <3> QED
      BY <1>2, <3>1, <3>2 DEF ReleaseCall, Join, TakeForCaller, TakeAll, CallerReleases,
         CallerReleased, backendVars
  <2>4. \A w \in Worker : HeldOK(w) => HeldOK(w)'
    BY <2>1, <2>3 DEF HeldOK, Current
  <2> QED
    BY <2>1, <2>2, <2>4 DEF HeldInv, Executing
<1>3. CASE ~(Launch(c) /\ StartStep(c)) /\ ~ReleaseCall(c)
  <2>1. worker' = worker /\ UNCHANGED <<backendVars, out>>
    BY <1>3 DEF CallerStep, RequestStep, StartStep, StartCheck, ResetFlags
  <2>2. Accounted'
    BY <2>1, AccountedSame DEF HeldInv
  <2> QED
    BY <2>1, <2>2 DEF HeldInv, HeldOK, Executing, Current, backendVars
<1> QED
  BY <1>1, <1>2, <1>3

\* The accounting of held keys is inductive.
LEMMA HeldStep ==
    ASSUME TypeOK, EventInv, OneJob, StartInv, ReleaseCallInv, HeldInv, [Next]_vars
    PROVE  HeldInv'
<1>1. CASE UNCHANGED vars
  BY <1>1, AccountedSame DEF vars, HeldInv, HeldOK, Executing, Current, At, backendVars
<1> QED
  BY <1>1, HeldWorkerStep, HeldCallerStep DEF Next

\* Only a caller inside release_all has keys to release.
LEMMA ReleaseCallStep ==
    ASSUME TypeOK, ReleaseCallInv, [Next]_vars
    PROVE  ReleaseCallInv'
<1> USE DEF ReleaseCallInv
<1>1. call \in [Caller -> CallPC] /\ out \in [Worker \cup Caller -> Seq(Key)]
  BY DEF TypeOK
<1>2. ASSUME NEW w \in Worker, WorkerStep(w)
      PROVE  ReleaseCallInv'
  <2>1. \A c \in Caller : c # w /\ c \in Worker \cup Caller
    BY ThreadAssumption
  <2> QED
    BY <1>2, <2>1, OutOthersKept DEF WorkerStep
<1>3. ASSUME NEW c \in Caller, CallerStep(c)
      PROVE  ReleaseCallInv'
  <2>1. \A d \in Caller : d # c => out'[d] = out[d] /\ call'[d] = call[d]
    BY <1>1, <1>3 DEF CallerStep, RequestStep, SetWake, ClearResume, RequestPause,
       WithdrawPause, SignalResume, RequestAbort, StartStep, StartCheck, ResetFlags, Launch,
       ReleaseCall, Join, TakeForCaller, CallerReleases, CallerReleased, Call
  <2>2. call'[c] # "releasing" => out'[c] = <<>>
    <3>1. CASE ReleaseCall(c)
      BY <1>1, <3>1 DEF ReleaseCall, Join, TakeForCaller, CallerReleases, CallerReleased,
         Call
    <3>2. CASE ~ReleaseCall(c)
      <4>1. out' = out
        BY <1>3, <3>2 DEF CallerStep, RequestStep, StartStep
      <4>2. call[c] # "releasing"
        BY <1>3, <3>2 DEF CallerStep, RequestStep, SetWake, ClearResume, RequestPause,
           WithdrawPause, SignalResume, RequestAbort, StartStep, StartCheck, ResetFlags,
           Launch, Call
      <4> QED
        BY <4>1, <4>2
    <3> QED
      BY <3>1, <3>2
  <2> QED
    BY <2>1, <2>2
<1>4. CASE UNCHANGED vars
  BY <1>4 DEF vars
<1> QED
  BY <1>2, <1>3, <1>4 DEF Next

\* paused is set inside the loop of _enter_pause and cleared on every way out of it.
LEMMA PausedStep ==
    ASSUME TypeOK, OneJob, StartInv, PausedInv, [Next]_vars
    PROVE  PausedInv'
<1> DEFINE InLoop == {"pauseloop", "pauseabort", "pausewait", "unpause"}
<1> USE DEF At
<1>1. ASSUME NEW w \in Worker, WorkerStep(w), "paused" \in on'
      PROVE  PausedInv'
  <2>1. /\ worker \in [Worker -> Locals] /\ call' = call
        /\ \A v \in Worker : v # w => worker'[v] = worker[v]
    BY <1>1, OthersKept DEF TypeOK, WorkerStep
  <2>2. CASE SetPaused(w)
    <3>1. Executing(w) /\ worker'[w].pc = "pauseloop"
      BY <2>1, <2>2, GotoFields DEF SetPaused, Executing, ExecutePC
    <3>2. \A v \in Worker : v # w => ~Executing(v)'
      BY <2>1, <3>1 DEF OneJob, Executing
    <3>3. \A c \in Caller : call[c] # "launch"
      BY <3>1 DEF OneJob, StartInv
    <3> QED
      BY <2>1, <3>1, <3>2, <3>3 DEF PausedInv
  <2>3. CASE ~SetPaused(w)
    <3>1. "paused" \in on
      <4>1. CASE FlagStep(w)
        BY <1>1, <2>3, <4>1 DEF FlagStep, WaitTime, PauseAbort, AckResume, ClearRunning,
           Clear
      <4>2. CASE ~FlagStep(w)
        BY <1>1, <4>2 DEF WorkerStep, LocalStep, KeyStep, Advance, ReleaseAllStep, TickStep
      <4> QED
        BY <4>1, <4>2
    <3>2. CASE Executing(w)
      <4>1. worker[w].pc \in InLoop
        BY <3>1, <3>2 DEF PausedInv
      <4>2. worker'[w].pc \in InLoop
        <5>1. CASE PauseLoop(w)
          BY <2>1, <5>1, GotoFields DEF PauseLoop
        <5>2. CASE PauseWait(w)
          BY <2>1, <5>2, PauseWaitFields
        <5>3. CASE PauseAbort(w)
          BY <1>1, <2>1, <5>3, GotoFields DEF PauseAbort, Clear
        <5> QED
          BY <1>1, <4>1, <5>1, <5>2, <5>3 DEF WorkerStep, LocalStep, CheckAbort,
             CheckPause, BeginDelay, WaitAbort, WaitPause, Recheck, HeldReleased, Report,
             ThreadEnds, KeyStep, TrackKey, PressKey, ReleaseKey, UntrackKey, Advance,
             ReleaseAllStep, TakeHeld, ReleaseHeld, FlagStep, WaitTime, SetPaused,
             AckResume, ClearRunning, TickStep, Sleep
      <4> QED
        BY <2>1, <3>1, <4>2 DEF PausedInv, Executing
    <3>3. CASE ~Executing(w)
      <4>1. ~Executing(w)'
        BY <1>1, <3>3, AfterwardsStep
      <4> QED
        BY <2>1, <3>1, <4>1 DEF PausedInv, Executing
    <3> QED
      BY <3>2, <3>3
  <2> QED
    BY <2>2, <2>3
<1>2. ASSUME NEW c \in Caller, CallerStep(c), "paused" \in on'
      PROVE  PausedInv'
  <2>1. call \in [Caller -> CallPC]
    BY DEF TypeOK
  <2>2. ~ResetFlags(c)
    BY <1>2 DEF ResetFlags
  <2>3. "paused" \in on
    BY <1>2, <2>2 DEF CallerStep, RequestStep, StartStep, ReleaseCall, SetWake, ClearResume,
       RequestPause, WithdrawPause, SignalResume, RequestAbort, StartCheck, Launch, Set, Clear
  <2>4. ~Launch(c)
    BY <2>3 DEF Launch, Call, PausedInv
  <2>5. worker' = worker
    BY <1>2, <2>2, <2>4 DEF CallerStep, RequestStep, StartStep, StartCheck, ReleaseCall
  <2>6. \A d \in Caller : call'[d] # "launch"
    BY <1>2, <2>1, <2>2, <2>3, <2>4 DEF CallerStep, RequestStep, StartStep, ReleaseCall,
       SetWake, ClearResume, RequestPause, WithdrawPause, SignalResume, RequestAbort,
       StartCheck, Join, TakeForCaller, CallerReleases, CallerReleased, Call, PausedInv
  <2> QED
    BY <2>3, <2>5, <2>6 DEF PausedInv, Executing
<1>3. CASE UNCHANGED vars
  BY <1>3 DEF vars, PausedInv, Executing
<1>4. CASE "paused" \notin on'
  BY <1>4 DEF PausedInv
<1> QED
  BY <1>1, <1>2, <1>3, <1>4 DEF Next

\* The types, the current event, one job at a time: what every other invariant of
\* the scheduler builds on, as one inductive invariant.
BaseInv == TypeOK /\ EventInv /\ OneJob /\ StartInv

\* It holds at the start ...
LEMMA BaseInit == Init => BaseInv
  BY InitTypeOK, InitInv DEF BaseInv

\* ... and is kept by every step.
LEMMA BaseStep == ASSUME BaseInv, [Next]_vars PROVE BaseInv'
  BY TypeStep, EventStep, OneJobStep DEF BaseInv

\* Once a pause or an abort is requested (scheduler.py:164-196) the worker finishes
\* at most one more event, however many requests race and wherever it was.
THEOREM OneMoreEvent == Spec => []AtMostOneMoreEvent
<1>1. Init => GraceInv
  BY DEF Init, GraceInv
<1>2. BaseInv /\ GraceInv /\ [Next]_vars => GraceInv'
  BY GraceStep DEF BaseInv
<1>3. GraceInv => AtMostOneMoreEvent
  BY DEF GraceInv, AtMostOneMoreEvent
<1> QED
  BY <1>1, <1>2, <1>3, BaseInit, BaseStep, PTL DEF Spec

\* An abort is noticed after at most one full tick of waiting (scheduler.py:5-6),
\* even when its wake-up was lost between the check and the sleep.
THEOREM OneMoreTick == Spec => []AbortWithinOneTick
<1>1. Init => LateInv
  BY DEF Init, LateInv
<1>2. BaseInv /\ LateInv /\ [Next]_vars => LateInv'
  BY LateStep DEF BaseInv
<1>3. LateInv => AbortWithinOneTick
  BY DEF LateInv, AbortWithinOneTick
<1> QED
  BY <1>1, <1>2, <1>3, BaseInit, BaseStep, PTL DEF Spec

\* A delay that ends was waited out in full (scheduler.py:299): what a pause inside
\* it took, and what a wake-up cut short, are not counted.
THEOREM DelaysAreExact == Spec => []DelayInFull
<1>1. Init => DelayInv
  BY DEF Init, NoLocals, DelayInv, DelayOK, PausePC
<1>2. ASSUME BaseInv, DelayInv, [Next]_vars
      PROVE  DelayInv'
  <2>1. ASSUME NEW w \in Worker, WorkerStep(w)
        PROVE  DelayInv'
    BY <1>2, <2>1, DelayOwnStep, OthersKept DEF DelayInv, BaseInv, TypeOK
  <2>2. ASSUME NEW c \in Caller, CallerStep(c)
        PROVE  DelayInv'
    <3>1. CASE Launch(c)
      <4>1. \A v \in Worker : worker'[v] = worker[v] \/ worker'[v].pc = "top"
        BY <1>2, <3>1, LaunchStep DEF BaseInv
      <4> QED
        BY <1>2, <4>1 DEF DelayInv, DelayOK, PausePC
    <3>2. CASE ~Launch(c)
      <4>1. worker' = worker
        BY <2>2, <3>2 DEF CallerStep, RequestStep, StartStep, StartCheck, ResetFlags,
           ReleaseCall
      <4> QED
        BY <1>2, <4>1 DEF DelayInv
    <3> QED
      BY <3>1, <3>2
  <2>3. CASE UNCHANGED vars
    BY <1>2, <2>3 DEF vars, DelayInv
  <2> QED
    BY <1>2, <2>1, <2>2, <2>3 DEF Next
<1>3. BaseInv /\ DelayInv => DelayInFull
  <2> SUFFICES ASSUME DelayInv, BaseInv, NEW w \in Worker, At(w, "advance"),
                      Current(w).kind = "delay"
               PROVE  worker[w].slept = Current(w).ticks
    BY DEF DelayInFull
  <2>1. InDelay(worker[w], 0)
    BY DEF DelayInv, DelayOK, At, Current
  <2>2. worker[w].slept \in Nat
    BY DEF BaseInv, TypeOK, Locals
  <2> QED
    BY <2>1, <2>2 DEF InDelay, Current
<1> QED
  BY <1>1, <1>2, <1>3, BaseInit, BaseStep, PTL DEF Spec

\* When nothing runs, and while the run is paused, the operating system has no key
\* down but those whose release raised, those a caller is still releasing, and those a
\* caller's release_all took off the list between key_down's tracking and its press
\* (scheduler.py:262-276, 320-331; backends/base.py:62-86).  It holds whether join
\* waited for the worker or timed out.
THEOREM NoKeyLeftDown == Spec => []NothingLeftDown
<1> DEFINE KeysInv == HeldInv /\ ReleaseCallInv /\ PausedInv
<1>1. Init => KeysInv
  <2> SUFFICES ASSUME Init PROVE KeysInv
    OBVIOUS
  <2>1. \A w \in Worker : ~Executing(w)
    BY DEF Init, NoLocals, Executing, ExecutePC
  <2> QED
    BY <2>1 DEF Init, BackendInit, HeldInv, Accounted, ReleaseCallInv, PausedInv
<1>2. BaseInv /\ KeysInv /\ [Next]_vars => KeysInv'
  BY HeldStep, ReleaseCallStep, PausedStep DEF BaseInv
<1>3. BaseInv /\ KeysInv => NothingLeftDown
  <2> SUFFICES ASSUME BaseInv, HeldInv, PausedInv,
                      "running" \notin on \/ "paused" \in on
               PROVE  down \subseteq stuck \cup forgotten \cup InCallersHands
    BY DEF NothingLeftDown
  <2>1. pressed = <<>> /\ \A w \in Worker : out[w] = <<>>
    <3>1. CASE \A w \in Worker : ~Executing(w)
      BY <3>1 DEF HeldInv, At, Executing, ExecutePC
    <3>2. CASE \E w \in Worker : Executing(w)
      <4>1. PICK w \in Worker : Executing(w)
        BY <3>2
      <4>2. "paused" \in on
        BY <4>1 DEF BaseInv, OneJob
      <4>3. worker[w].pc \in {"pauseloop", "pauseabort", "pausewait", "unpause"}
        BY <4>1, <4>2 DEF PausedInv
      <4>4. pressed = <<>>
        BY <4>1, <4>3 DEF HeldInv, HeldOK, PausePC
      <4>5. \A v \in Worker : v # w => ~Executing(v)
        BY <4>1 DEF BaseInv, OneJob
      <4>6. \A v \in Worker : ~At(v, "release")
        BY <4>3, <4>5 DEF At, Executing, ExecutePC
      <4> QED
        BY <4>4, <4>6 DEF HeldInv
    <3> QED
      BY <3>1, <3>2
  <2>2. Copies \subseteq InCallersHands
    BY <2>1, ToSetEmpty DEF Copies, InCallersHands
  <2> QED
    BY <2>1, <2>2, ToSetEmpty DEF HeldInv, Accounted
<1> HIDE DEF KeysInv
<1> QED
  BY <1>1, <1>2, <1>3, BaseInit, BaseStep, PTL DEF Spec
=============================================================================
