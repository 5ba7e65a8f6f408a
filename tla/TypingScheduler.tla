--------------------------- MODULE TypingScheduler ---------------------------
(***************************************************************************)
(* TypingScheduler (scheduler/scheduler.py): one worker thread per run     *)
(* executes a plan's events while other threads start, pause, resume and   *)
(* abort runs through threading.Event flags.                               *)
(*                                                                         *)
(* A step is what Python does between two accesses to shared state, so     *)
(* every interleaving of the flags is explored.  Delays are counted in     *)
(* scheduler ticks; a tick passes only in the two bounded waits.  Progress *)
(* reports change nothing and are left out.                                *)
(***************************************************************************)
EXTENDS Integers, TrackingBackend

CONSTANTS
    Worker,         \* thread identities for runs; one is reused once it ended
    Caller,         \* the threads that call the scheduler from outside
    NoThread,
    Plans,          \* the plans a run may be given
    TextKeys,       \* the keys that insert a character
    Backspace,      \* the key that removes one
    MaxTicks,       \* bound: the ticks one pause inside a delay is seen to last
    JoinTimesOut    \* join(timeout) may return with the worker still running

Event == [kind : {"down", "up"}, key : Key] \cup [kind : {"delay"}, ticks : Nat]

ASSUME ThreadAssumption ==
    /\ NoThread \notin Worker \cup Caller
    /\ Worker \cap Caller = {}
ASSUME PlansAssumption == Plans \subseteq Seq(Event)
ASSUME BoundAssumption == MaxTicks \in Nat /\ JoinTimesOut \in BOOLEAN

VARIABLES
    on,           \* the threading.Event flags that are set
    startLock,    \* holder of _lock
    thread,       \* _thread: the newest worker
    event_index, net_characters,  \* run counters, shared by all workers
    worker,       \* worker[w]: the locals of a worker thread
    out,          \* out[t]: the copy release_all took and still has to release
    call,         \* call[c]: where a caller is in its call
    grace,        \* history: events finished since the request in force was made
    late          \* history: full ticks waited since the abort was requested

vars == <<backendVars, on, startLock, thread, event_index, net_characters,
          worker, out, call, grace, late>>

Flag == {"running", "paused", "pause_requested", "abort_requested", "wake",
         "resume_signal"}
Requested == on \cap {"pause_requested", "abort_requested"} # {}
Aborted == "abort_requested" \in on

\* The program counters between thread start and _running.clear(), and all.
ExecutePC == {"top", "pausecheck", "dispatch", "press", "untrack", "advance",
              "wait", "waitpause", "waittime", "recheck", "sleep", "take",
              "release", "setpaused", "pauseloop", "pauseabort", "pausewait",
              "unpause", "ack", "clear"}
WorkerPC == ExecutePC \cup {"none", "report", "finished"}
CallPC == {"idle", "pause2", "pause3", "resume2", "resume3", "abort2", "abort3",
           "abort4", "join", "joined", "releasing", "reset", "launch"}

\* left is deadline - now, pausedFor now - paused_at; back is where release_all
\* returns to; slept, a history, counts the unpaused ticks of the delay.
Locals == [pc : WorkerPC, plan : Plans \cup {<<>>}, index : Nat, left : Int,
           pausedFor : 0..MaxTicks, back : {"event", "delay", "exit"},
           status : {"COMPLETED", "ABORTED", "FAILED"}, result : Nat, slept : Nat]

NoLocals == [pc |-> "none", plan |-> <<>>, index |-> 0, left |-> 0, pausedFor |-> 0,
             back |-> "exit", status |-> "COMPLETED", result |-> 0, slept |-> 0]

At(w, pc) == worker[w].pc = pc
Executing(w) == worker[w].pc \in ExecutePC
Finished(w) == worker[w].index = Len(worker[w].plan)
Current(w) == worker[w].plan[worker[w].index + 1]

TypeOK ==
    /\ BackendTypeOK
    /\ on \subseteq Flag
    /\ startLock \in Caller \cup {NoThread}
    /\ thread \in Worker \cup {NoThread}
    /\ event_index \in Nat /\ net_characters \in Nat
    /\ worker \in [Worker -> Locals]
    /\ out \in [Worker \cup Caller -> Seq(Key)]
    /\ call \in [Caller -> CallPC]
    /\ grace \in Nat /\ late \in Nat

Init ==
    /\ BackendInit
    /\ on = {}
    /\ startLock = NoThread /\ thread = NoThread
    /\ event_index = 0 /\ net_characters = 0
    /\ worker = [w \in Worker |-> NoLocals]
    /\ out = [t \in Worker \cup Caller |-> <<>>]
    /\ call = [c \in Caller |-> "idle"]
    /\ grace = 0 /\ late = 0

-----------------------------------------------------------------------------
Goto(w, pc) == worker' = [worker EXCEPT ![w].pc = pc]
Set(f) == on' = on \cup {f}
Clear(f) == on' = on \ {f}
Capped(n) == IF n < 2 THEN n + 1 ELSE 2

\* An exception, or the end of the loop: on to _execute's finally clause.
Leave(w, s) == worker' = [worker EXCEPT ![w].pc = "take", ![w].back = "exit",
                                        ![w].status = s]

\* Mutant: a pause that keeps the held keys down.
EnterPauseHolding(w, from) ==
    worker' = [worker EXCEPT ![w].pc = "setpaused", ![w].back = from, ![w].pausedFor = 0]

\* _enter_pause begins with release_all.
EnterPause(w, from) == worker' = [worker EXCEPT ![w].pc = "take", ![w].back = from,
                                                ![w].pausedFor = 0]

(* The event loop of _execute. *)

\* Mutant: the event loop does not look at the abort flag.
CheckAbortMissing(w) ==
    /\ At(w, "top")
    /\ IF Finished(w) THEN Leave(w, "COMPLETED") ELSE Goto(w, "pausecheck")

CheckAbort(w) ==
    /\ At(w, "top")
    /\ \/ Finished(w) /\ Leave(w, "COMPLETED")
       \/ ~Finished(w) /\ Aborted /\ Leave(w, "ABORTED")
       \/ ~Finished(w) /\ ~Aborted /\ Goto(w, "pausecheck")

CheckPause(w) ==
    /\ At(w, "pausecheck")
    /\ IF "pause_requested" \in on THEN EnterPause(w, "event") ELSE Goto(w, "dispatch")

BeginDelay(w) ==
    /\ At(w, "dispatch") /\ Current(w).kind = "delay"
    /\ worker' = [worker EXCEPT ![w].pc = "wait", ![w].left = Current(w).ticks,
                                ![w].slept = 0]

TrackKey(w) ==
    /\ At(w, "dispatch") /\ Current(w).kind = "down"
    /\ Track(Current(w).key)
    /\ Goto(w, "press")

PressKey(w) ==
    /\ At(w, "press")
    /\ \E raises \in BOOLEAN :
        /\ Press(Current(w).key, raises)
        /\ IF raises THEN Leave(w, "FAILED") ELSE Goto(w, "advance")

ReleaseKey(w) ==
    /\ At(w, "dispatch") /\ Current(w).kind = "up"
    /\ \E raises \in BOOLEAN :
        /\ Release(Current(w).key, raises)
        /\ worker' = [worker EXCEPT ![w].pc = "untrack",
                                    ![w].status = IF raises THEN "FAILED" ELSE @]

UntrackKey(w) ==
    /\ At(w, "untrack")
    /\ Untrack(Current(w).key)
    /\ IF worker[w].status = "FAILED" THEN Leave(w, "FAILED") ELSE Goto(w, "advance")

\* Mutant: a backspace takes one off whatever the count.
NetAfterNoFloor(e) ==
    CASE e.kind = "down" /\ e.key = Backspace -> net_characters - 1
      [] e.kind = "down" /\ e.key \in TextKeys \ {Backspace} -> net_characters + 1
      [] OTHER -> net_characters

\* net_characters after the event: a backspace never takes it below zero.
NetAfter(e) ==
    CASE e.kind = "down" /\ e.key = Backspace ->
            IF net_characters > 0 THEN net_characters - 1 ELSE 0
      [] e.kind = "down" /\ e.key \in TextKeys \ {Backspace} -> net_characters + 1
      [] OTHER -> net_characters

Advance(w) ==
    /\ At(w, "advance")
    /\ net_characters' = NetAfter(Current(w))
    /\ event_index' = worker[w].index + 1
    /\ worker' = [worker EXCEPT ![w].pc = "top", ![w].index = @ + 1]
    /\ grace' = IF Requested THEN Capped(grace) ELSE 0
    /\ UNCHANGED <<backendVars, on, out, late>>

(* _interruptible_wait. *)

WaitAbort(w) ==
    /\ At(w, "wait")
    /\ IF Aborted THEN Leave(w, "ABORTED") ELSE Goto(w, "waitpause")

\* Mutant: a delay does not look at the pause flag.
WaitPauseMissing(w) == At(w, "waitpause") /\ Goto(w, "waittime")

WaitPause(w) ==
    /\ At(w, "waitpause")
    /\ IF "pause_requested" \in on THEN EnterPause(w, "delay") ELSE Goto(w, "waittime")

WaitTime(w) ==
    /\ At(w, "waittime")
    /\ \/ worker[w].left <= 0 /\ Goto(w, "advance") /\ UNCHANGED on
       \/ worker[w].left > 0 /\ Goto(w, "recheck") /\ Clear("wake")

Recheck(w) ==
    /\ At(w, "recheck")
    /\ Goto(w, IF Requested THEN "wait" ELSE "sleep")

\* Mutant: the sleep has no tick to bound it.
SleepUntilWoken(w) ==
    At(w, "sleep") /\ "wake" \in on /\ Goto(w, "wait") /\ UNCHANGED late

\* One sleep of at most a tick, cut short by wake.
Sleep(w) ==
    /\ At(w, "sleep")
    /\ \/ "wake" \in on /\ Goto(w, "wait") /\ UNCHANGED late
       \/ /\ "wake" \notin on
          /\ worker' = [worker EXCEPT ![w].pc = "wait", ![w].left = @ - 1,
                                      ![w].slept = @ + 1]
          /\ late' = IF Aborted THEN Capped(late) ELSE late

(* release_all, _enter_pause and the end of the run. *)

TakeHeld(w) ==
    /\ At(w, "take")
    /\ TakeAll
    /\ out' = [out EXCEPT ![w] = pressed]
    /\ Goto(w, "release")

\* In reverse order; a release that raises does not stop the others.
ReleaseHeld(w) ==
    /\ At(w, "release") /\ out[w] # <<>>
    /\ \E raises \in BOOLEAN : Release(Last(out[w]), raises)
    /\ out' = [out EXCEPT ![w] = Front(@)]
    /\ UNCHANGED worker

HeldReleased(w) ==
    /\ At(w, "release") /\ out[w] = <<>>
    /\ Goto(w, IF worker[w].back = "exit" THEN "clear" ELSE "setpaused")

SetPaused(w) ==
    /\ At(w, "setpaused")
    /\ Set("paused")
    /\ Goto(w, "pauseloop")

PauseLoop(w) ==
    /\ At(w, "pauseloop")
    /\ Goto(w, IF "pause_requested" \in on THEN "pauseabort" ELSE "unpause")

\* Mutant: a paused run does not look at the abort flag.
PauseAbortMissing(w) ==
    \/ At(w, "pauseabort") /\ Goto(w, "pausewait") /\ UNCHANGED on
    \/ At(w, "unpause") /\ Goto(w, "ack") /\ Clear("paused")

\* _raise_if_aborted inside the loop and after it.  However it is left, the
\* finally clause clears paused.
PauseAbort(w) ==
    \/ /\ worker[w].pc \in {"pauseabort", "unpause"} /\ Aborted
       /\ Leave(w, "ABORTED") /\ Clear("paused")
    \/ At(w, "pauseabort") /\ ~Aborted /\ Goto(w, "pausewait") /\ UNCHANGED on
    \/ At(w, "unpause") /\ ~Aborted /\ Goto(w, "ack") /\ Clear("paused")

\* _resume_signal.wait(tick).  Time spent here also brings the deadline nearer.
PauseWait(w) ==
    /\ At(w, "pausewait")
    /\ \/ "resume_signal" \in on /\ Goto(w, "pauseloop") /\ UNCHANGED late
       \/ /\ "resume_signal" \notin on
          /\ late' = IF Aborted THEN Capped(late) ELSE late
          /\ IF worker[w].back = "delay" /\ worker[w].pausedFor < MaxTicks
             THEN worker' = [worker EXCEPT ![w].pc = "pauseloop", ![w].left = @ - 1,
                                           ![w].pausedFor = @ + 1]
             ELSE Goto(w, "pauseloop")

\* Mutant: the deadline is not moved by a pause.
AckResumeSameDeadline(w) ==
    /\ At(w, "ack")
    /\ Clear("resume_signal")
    /\ Goto(w, IF worker[w].back = "delay" THEN "wait" ELSE "dispatch")

\* A pause inside a delay moves the deadline by the time it took.
AckResume(w) ==
    /\ At(w, "ack")
    /\ Clear("resume_signal")
    /\ IF worker[w].back = "delay"
       THEN worker' = [worker EXCEPT ![w].pc = "wait",
                                     ![w].left = @ + worker[w].pausedFor]
       ELSE Goto(w, "dispatch")

ClearRunning(w) ==
    /\ At(w, "clear")
    /\ on' = on \ {"paused", "running"}
    /\ Goto(w, "report")

\* The RunResult is read from the shared counters after running was cleared.
Report(w) ==
    /\ At(w, "report")
    /\ worker' = [worker EXCEPT ![w].pc = "finished", ![w].result = event_index]

\* on_finished returns and the thread ends, its locals with it.
ThreadEnds(w) ==
    /\ At(w, "finished")
    /\ worker' = [worker EXCEPT ![w] = NoLocals]

\* The worker's steps, by the shared state they change.
LocalStep(w) ==
    /\ \/ CheckAbort(w) \/ CheckPause(w) \/ BeginDelay(w) \/ WaitAbort(w)
       \/ WaitPause(w) \/ Recheck(w) \/ HeldReleased(w) \/ PauseLoop(w)
       \/ Report(w) \/ ThreadEnds(w)
    /\ UNCHANGED <<backendVars, on, event_index, net_characters, out, grace, late>>

KeyStep(w) ==
    /\ TrackKey(w) \/ PressKey(w) \/ ReleaseKey(w) \/ UntrackKey(w)
    /\ UNCHANGED <<on, event_index, net_characters, out, grace, late>>

ReleaseAllStep(w) ==
    /\ TakeHeld(w) \/ ReleaseHeld(w)
    /\ UNCHANGED <<on, event_index, net_characters, grace, late>>

FlagStep(w) ==
    /\ WaitTime(w) \/ SetPaused(w) \/ PauseAbort(w) \/ AckResume(w) \/ ClearRunning(w)
    /\ UNCHANGED <<backendVars, event_index, net_characters, out, grace, late>>

TickStep(w) ==
    /\ Sleep(w) \/ PauseWait(w)
    /\ UNCHANGED <<backendVars, on, event_index, net_characters, out, grace>>

WorkerStep(w) ==
    /\ LocalStep(w) \/ KeyStep(w) \/ Advance(w) \/ ReleaseAllStep(w)
       \/ FlagStep(w) \/ TickStep(w)
    /\ UNCHANGED <<startLock, thread, call>>

-----------------------------------------------------------------------------
(* The callers.  No call but start takes the lock. *)

Call(c, from, to) == call[c] = from /\ call' = [call EXCEPT ![c] = to]

\* The last assignment of pause(), resume() and abort(); whoever aborts joins next.
SetWake(c) ==
    /\ \/ Call(c, "pause3", "idle") \/ Call(c, "resume3", "idle")
       \/ Call(c, "abort4", "join")
    /\ Set("wake")
    /\ UNCHANGED <<grace, late>>

\* pause()
ClearResume(c) == Call(c, "idle", "pause2") /\ Clear("resume_signal")
                  /\ UNCHANGED <<grace, late>>

RequestPause(c) ==
    /\ Call(c, "pause2", "pause3")
    /\ Set("pause_requested")
    /\ grace' = IF Requested THEN grace ELSE 0
    /\ UNCHANGED late

\* resume() and, after its own flag is set, abort() withdraw the pause.
WithdrawPause(c) ==
    /\ Call(c, "idle", "resume2") \/ Call(c, "abort2", "abort3")
    /\ Clear("pause_requested")
    /\ grace' = IF Aborted THEN grace ELSE 0
    /\ UNCHANGED late

SignalResume(c) ==
    /\ Call(c, "resume2", "resume3") \/ Call(c, "abort3", "abort4")
    /\ Set("resume_signal")
    /\ UNCHANGED <<grace, late>>

RequestAbort(c) ==
    /\ Call(c, "idle", "abort2")
    /\ Set("abort_requested")
    /\ grace' = IF Aborted THEN grace ELSE 0
    /\ late' = IF Aborted THEN late ELSE 0

RequestStep(c) ==
    /\ \/ SetWake(c) \/ ClearResume(c) \/ RequestPause(c) \/ WithdrawPause(c)
       \/ SignalResume(c) \/ RequestAbort(c)
    /\ UNCHANGED <<backendVars, startLock, thread, event_index, net_characters,
                   worker, out>>

\* Mutant: start() does not refuse a second job.
StartCheckUnguarded(c) ==
    /\ Call(c, "idle", "reset")
    /\ startLock = NoThread /\ startLock' = c
    /\ UNCHANGED <<on, thread, event_index, net_characters, worker, grace, late>>

\* start() is refused (SchedulerError, nothing changes) while a job is running.
StartCheck(c) ==
    /\ Call(c, "idle", "reset")
    /\ startLock = NoThread /\ startLock' = c
    /\ "running" \notin on
    /\ UNCHANGED <<on, thread, event_index, net_characters, worker, grace, late>>

\* Mutant: an abort of the previous job is still requested for the next.
ResetFlagsKeepsAbort(c) ==
    /\ Call(c, "reset", "launch")
    /\ on' = on \cap {"running", "abort_requested"}
    /\ event_index' = 0 /\ net_characters' = 0
    /\ grace' = 0 /\ late' = 0
    /\ UNCHANGED <<startLock, thread, worker>>

ResetFlags(c) ==
    /\ Call(c, "reset", "launch")
    /\ on' = on \cap {"running"}
    /\ event_index' = 0 /\ net_characters' = 0
    /\ grace' = 0 /\ late' = 0
    /\ UNCHANGED <<startLock, thread, worker>>

Launch(c) ==
    /\ Call(c, "launch", "idle")
    /\ Set("running")
    /\ startLock' = NoThread
    /\ \E w \in Worker, p \in Plans :
        /\ At(w, "none")
        /\ thread' = w
        /\ worker' = [worker EXCEPT ![w].pc = "top", ![w].plan = p]
    /\ UNCHANGED <<event_index, net_characters, grace, late>>

StartStep(c) ==
    /\ StartCheck(c) \/ ResetFlags(c) \/ Launch(c)
    /\ UNCHANGED <<backendVars, out>>

\* join(timeout), which the controller's abort and shutdown make after their abort
\* request.  It waits for the thread it finds; nothing keeps the next run from
\* starting as soon as it has returned.
Join(c) ==
    /\ Call(c, "join", "joined")
    /\ \/ thread = NoThread
       \/ thread # NoThread /\ At(thread, "none")
       \/ JoinTimesOut
    /\ UNCHANGED <<backendVars, out>>

\* ... and then the backend's release_all, a call of its own.  (A shutdown that finds
\* no active state makes this call alone; there is no run for it to meet.)
TakeForCaller(c) ==
    /\ Call(c, "joined", "releasing")
    /\ TakeAll
    /\ out' = [out EXCEPT ![c] = pressed]

CallerReleases(c) ==
    /\ call[c] = "releasing" /\ out[c] # <<>>
    /\ \E raises \in BOOLEAN : Release(Last(out[c]), raises)
    /\ out' = [out EXCEPT ![c] = Front(@)]
    /\ UNCHANGED call

CallerReleased(c) ==
    /\ out[c] = <<>>
    /\ Call(c, "releasing", "idle")
    /\ UNCHANGED <<backendVars, out>>

ReleaseCall(c) ==
    /\ Join(c) \/ TakeForCaller(c) \/ CallerReleases(c) \/ CallerReleased(c)
    /\ UNCHANGED <<on, startLock, thread, event_index, net_characters, worker,
                   grace, late>>

CallerStep(c) == RequestStep(c) \/ StartStep(c) \/ ReleaseCall(c)

Next == (\E w \in Worker : WorkerStep(w)) \/ (\E c \in Caller : CallerStep(c))

\* The operating system schedules a runnable worker, and a thread inside a call
\* of the scheduler gets to its end.  Nobody is obliged to make a call.
Fairness ==
    /\ \A w \in Worker : WF_vars(WorkerStep(w))
    /\ \A c \in Caller : WF_vars(call[c] # "idle" /\ CallerStep(c))

Spec == Init /\ [][Next]_vars
FairSpec == Spec /\ Fairness

-----------------------------------------------------------------------------
\* "Only one job may run at a time" (start, scheduler.py:134): two workers never
\* execute events together, and running is set as long as one does, although
\* the old thread outlives its own running flag and start() resets shared flags.
OneJob ==
    /\ \A v, w \in Worker : Executing(v) /\ Executing(w) => v = w
    /\ \A w \in Worker : Executing(w) => "running" \in on

\* While nothing runs, and while the run is paused, the operating system holds
\* no key down but those whose release raised, those a caller is about to release,
\* and those a caller's release_all made the backend lose between their tracking and
\* their press: completion, abort, a failing press and a pause between a key's press
\* and its release all let go of every other one, whether or not join timed out.
InCallersHands == UNION {ToSet(out[c]) : c \in Caller}

NothingLeftDown ==
    "running" \notin on \/ "paused" \in on =>
        down \subseteq stuck \cup forgotten \cup InCallersHands

\* "every exit path releases held keys" (controller.py:15): as above, with no key
\* forgotten.  False: a run that starts between a shutdown's join and its release_all
\* (controller.py:665, 667) can lose a key to it, and then nobody releases that key.
EveryExitReleases == "running" \notin on => down \subseteq stuck \cup InCallersHands

\* Once a pause or an abort is requested at most one more event is finished,
\* wherever in the loop the worker was and however the requests interleave.
AtMostOneMoreEvent == grace <= 1

\* "a 20 ms tick as a worst-case bound" (scheduler.py:5-6): an abort whose wake-up
\* was lost is still noticed after at most one full tick of waiting.
AbortWithinOneTick == late <= 1

\* "Time spent paused does not consume the delay" (scheduler.py:299): a delay
\* that ends was waited out exactly, pauses and cut-short sleeps excluded.
DelayInFull ==
    \A w \in Worker :
        At(w, "advance") /\ Current(w).kind = "delay" => worker[w].slept = Current(w).ticks

\* Every requested abort ends the run, whatever pauses and resumes it races.
AbortEndsRun == \A w \in Worker : Executing(w) /\ Aborted ~> ~Executing(w)

\* A requested pause takes hold, unless it is withdrawn or the run ends.
PauseTakesHold ==
    \A w \in Worker :
        Executing(w) /\ "pause_requested" \in on ~>
            "paused" \in on \/ "pause_requested" \notin on \/ ~Executing(w)

\* A run that is not paused and that nobody is talking to finishes: no
\* wake-up is lost for good.
LeftAloneFinishes ==
    \A w \in Worker :
        Executing(w) ~> \/ ~Executing(w)
                        \/ "pause_requested" \in on
                        \/ \E c \in Caller : call[c] \notin {"idle", "join"}

\* The scheduler keeps JobRunner's promise.
Stage(w) ==
    CASE At(w, "none") -> "none"
      [] worker[w].pc \in {"report", "finished"} -> "ended"
      [] \/ worker[w].pc \in {"setpaused", "pauseloop", "pauseabort", "pausewait"}
         \/ worker[w].pc \in {"take", "release"} /\ worker[w].back # "exit" -> "paused"
      [] OTHER -> "working"

Job == INSTANCE JobRunner WITH
    Lengths <- {Len(p) : p \in Plans},
    stage <- [w \in Worker |-> Stage(w)],
    total <- [w \in Worker |-> Len(worker[w].plan)],
    done <- [w \in Worker |-> worker[w].index],
    status <- [w \in Worker |-> IF Stage(w) = "ended" THEN worker[w].status ELSE "COMPLETED"],
    pauseReq <- "pause_requested" \in on,
    abortReq <- Aborted

RunsJobs == Job!Spec
=============================================================================
