------------------------ MODULE TypingScheduler_proof ------------------------
(***************************************************************************)
(* Type correctness of the scheduler, and that it never executes two jobs  *)
(* at once, for any number of workers, callers, keys and plans.            *)
(***************************************************************************)
EXTENDS TypingScheduler, SequenceTheorems, TLAPS

-----------------------------------------------------------------------------
(* The sequences the backend keeps. *)

\* Removing one element of a sequence of keys leaves a sequence of keys.
LEMMA RemoveAtType ==
    ASSUME NEW S, NEW s \in Seq(S), NEW i \in 1..Len(s)
    PROVE  RemoveAt(s, i) \in Seq(S)
<1>1. SubSeq(s, 1, i - 1) \in Seq(S)
  BY SubSeqProperties
<1>2. SubSeq(s, i + 1, Len(s)) \in Seq(S)
  BY SubSeqProperties
<1> QED
  BY <1>1, <1>2 DEF RemoveAt

\* The last element and the rest of a nonempty sequence, as release_all uses them.
LEMMA FrontLastType ==
    ASSUME NEW S, NEW s \in Seq(S), s # <<>>
    PROVE  Front(s) \in Seq(S) /\ Last(s) \in S
<1>1. Len(s) \in Nat \ {0}
  BY EmptySeq
<1>2. SubSeq(s, 1, Len(s) - 1) \in Seq(S)
  BY <1>1, SubSeqProperties
<1>3. s[Len(s)] \in S
  BY <1>1, ElementOfSeq
<1> QED
  BY <1>2, <1>3 DEF Front, Last

-----------------------------------------------------------------------------
(* The inductive invariant. *)

\* The program counters at which the worker is inside an event of its plan.
EventPC == {"pausecheck", "dispatch", "press", "untrack", "advance", "wait",
            "waitpause", "waittime", "recheck", "sleep", "setpaused", "pauseloop",
            "pauseabort", "pausewait", "unpause", "ack"}

InEvent(l) == \/ l.pc \in EventPC
              \/ l.pc \in {"take", "release"} /\ l.back # "exit"

\* An event a worker is inside of exists, and is of the kind it is executing.
EventOK(l) ==
    /\ l.index <= Len(l.plan)
    /\ l.pc = "none" => l.index = 0
    /\ InEvent(l) => l.index < Len(l.plan)
    /\ l.pc = "press" => l.plan[l.index + 1].kind = "down"
    /\ l.pc = "untrack" => l.plan[l.index + 1].kind = "up"

EventInv == \A w \in Worker : EventOK(worker[w])

\* A starter that passed the check holds the lock and no job is running.
StartInv ==
    \A c \in Caller :
        call[c] \in {"reset", "launch"} => startLock = c /\ "running" \notin on

\* The fields of an event, by its kind.
LEMMA EventFields ==
    ASSUME NEW e \in Event
    PROVE  /\ e.kind = "delay" => e.ticks \in Nat
           /\ e.kind \in {"down", "up"} => e.key \in Key
<1>1. CASE e \in [kind : {"down", "up"}, key : Key]
  BY <1>1
<1>2. CASE e \in [kind : {"delay"}, ticks : Nat]
  BY <1>2
<1> QED
  BY <1>1, <1>2 DEF Event

\* The event a worker is inside of.
LEMMA CurrentType ==
    ASSUME TypeOK, EventInv, NEW w \in Worker, InEvent(worker[w])
    PROVE  Current(w) \in Event
<1>1. worker[w].plan \in Seq(Event)
  <2>1. worker[w].plan \in Plans \cup {<<>>}
    BY DEF TypeOK, Locals
  <2>2. <<>> \in Seq(Event)
    BY EmptySeq
  <2> QED
    BY <2>1, <2>2, PlansAssumption
<1>2. worker[w].index + 1 \in 1..Len(worker[w].plan)
  BY <1>1 DEF TypeOK, Locals, EventInv, EventOK
<1> QED
  BY <1>1, <1>2, ElementOfSeq DEF Current

\* Every start has the types.
LEMMA InitTypeOK == Init => TypeOK
  BY BoundAssumption DEF Init, TypeOK, BackendInit, BackendTypeOK, NoLocals, Locals,
     Flag, CallPC, WorkerPC, ExecutePC

\* Updates of a worker's locals keep their type, one lemma per combination of
\* fields the actions change.
LEMMA PcType ==
    ASSUME worker \in [Worker -> Locals], NEW w \in Worker, NEW p \in WorkerPC,
           Goto(w, p)
    PROVE  worker' \in [Worker -> Locals]
<1>1. worker' = [worker EXCEPT ![w] = [worker[w] EXCEPT !.pc = p]]
  BY DEF Goto
<1>2. [worker[w] EXCEPT !.pc = p] \in Locals
  BY DEF Locals
<1> QED
  BY <1>1, <1>2

\* The way to the finally clause keeps the type.
LEMMA LeaveType ==
    ASSUME worker \in [Worker -> Locals], NEW w \in Worker,
           NEW s \in {"COMPLETED", "ABORTED", "FAILED"}, Leave(w, s)
    PROVE  worker' \in [Worker -> Locals]
<1>1. "take" \in WorkerPC
  BY DEF WorkerPC, ExecutePC
<1>2. worker' = [worker EXCEPT ![w] = [worker[w] EXCEPT !.pc = "take", !.back = "exit",
                                                     !.status = s]]
  BY DEF Leave
<1>3. [worker[w] EXCEPT !.pc = "take", !.back = "exit", !.status = s] \in Locals
  BY <1>1 DEF Locals
<1> QED
  BY <1>2, <1>3

\* So does the way into a pause.
LEMMA EnterPauseType ==
    ASSUME worker \in [Worker -> Locals], NEW w \in Worker,
           NEW b \in {"event", "delay"}, EnterPause(w, b)
    PROVE  worker' \in [Worker -> Locals]
<1>1. "take" \in WorkerPC /\ 0 \in 0..MaxTicks
  BY BoundAssumption DEF WorkerPC, ExecutePC
<1>2. worker' = [worker EXCEPT ![w] = [worker[w] EXCEPT !.pc = "take", !.back = b,
                                                     !.pausedFor = 0]]
  BY DEF EnterPause
<1>3. [worker[w] EXCEPT !.pc = "take", !.back = b, !.pausedFor = 0] \in Locals
  BY <1>1 DEF Locals
<1> QED
  BY <1>2, <1>3

\* Steps that touch the worker's locals and nothing else.
LEMMA LocalType ==
    ASSUME TypeOK, EventInv, NEW w \in Worker, LocalStep(w)
    PROVE  worker' \in [Worker -> Locals]
<1>1. worker \in [Worker -> Locals] /\ event_index \in Nat
  BY DEF TypeOK
<1>2. CASE CheckAbort(w)
  BY <1>1, <1>2, PcType, LeaveType DEF CheckAbort, WorkerPC, ExecutePC
<1>3. CASE CheckPause(w)
  BY <1>1, <1>3, PcType, EnterPauseType DEF CheckPause, WorkerPC, ExecutePC
<1>4. CASE BeginDelay(w)
  <2>1. Current(w) \in Event
    BY <1>4, CurrentType DEF BeginDelay, At, InEvent, EventPC
  <2>2. Current(w).ticks \in Nat
    BY <2>1, <1>4, EventFields DEF BeginDelay
  <2>3. worker' = [worker EXCEPT ![w] = [worker[w] EXCEPT !.pc = "wait",
                                         !.left = Current(w).ticks, !.slept = 0]]
    BY <1>4 DEF BeginDelay
  <2>4. "wait" \in WorkerPC
    BY DEF WorkerPC, ExecutePC
  <2>5. \A n \in Int :
            [worker[w] EXCEPT !.pc = "wait", !.left = n, !.slept = 0] \in Locals
    BY <1>1, <2>4 DEF Locals
  <2>6. Current(w).ticks \in Int
    BY <2>2
  <2>7. [worker[w] EXCEPT !.pc = "wait", !.left = Current(w).ticks, !.slept = 0]
            \in Locals
    BY <2>5, <2>6
  <2> QED
    BY <1>1, <2>3, <2>7
<1>5. CASE WaitAbort(w)
  BY <1>1, <1>5, PcType, LeaveType DEF WaitAbort, WorkerPC, ExecutePC
<1>6. CASE WaitPause(w)
  BY <1>1, <1>6, PcType, EnterPauseType DEF WaitPause, WorkerPC, ExecutePC
<1>7. CASE Recheck(w)
  BY <1>1, <1>7, PcType DEF Recheck, WorkerPC, ExecutePC
<1>8. CASE HeldReleased(w)
  BY <1>1, <1>8, PcType DEF HeldReleased, WorkerPC, ExecutePC
<1>9. CASE PauseLoop(w)
  BY <1>1, <1>9, PcType DEF PauseLoop, WorkerPC, ExecutePC
<1>10. CASE Report(w)
  <2>1. worker' = [worker EXCEPT ![w] = [worker[w] EXCEPT !.pc = "finished",
                                                          !.result = event_index]]
    BY <1>10 DEF Report
  <2>2. "finished" \in WorkerPC
    BY DEF WorkerPC
  <2>3. [worker[w] EXCEPT !.pc = "finished", !.result = event_index] \in Locals
    BY <1>1, <2>2 DEF Locals
  <2> QED
    BY <1>1, <2>1, <2>3
<1>11. CASE ThreadEnds(w)
  <2>1. NoLocals \in Locals
    BY BoundAssumption DEF NoLocals, Locals, WorkerPC
  <2> QED
    BY <1>1, <1>11, <2>1 DEF ThreadEnds
<1> QED
  BY <1>2, <1>3, <1>4, <1>5, <1>6, <1>7, <1>8, <1>9, <1>10, <1>11 DEF LocalStep

\* Steps that press, release, track or forget the key of the current event.
LEMMA KeyType ==
    ASSUME TypeOK, EventInv, NEW w \in Worker, KeyStep(w)
    PROVE  worker' \in [Worker -> Locals] /\ BackendTypeOK'
<1>1. /\ worker \in [Worker -> Locals] /\ pressed \in Seq(Key)
      /\ down \subseteq Key /\ stuck \subseteq Key /\ forgotten \subseteq Key
  BY DEF TypeOK, BackendTypeOK
<1>2. /\ worker[w].pc \in {"dispatch", "press", "untrack"}
      /\ Current(w).kind \in {"down", "up"}
  BY DEF KeyStep, TrackKey, PressKey, ReleaseKey, UntrackKey, At, Current,
            EventInv, EventOK
<1>3. Current(w).key \in Key
  <2>1. Current(w) \in Event
    BY <1>2, CurrentType DEF InEvent, EventPC
  <2> QED
    BY <1>2, <2>1, EventFields
<1>4. CASE TrackKey(w)
  <2>1. pressed' \in Seq(Key)
    BY <1>1, <1>3, <1>4, AppendProperties DEF TrackKey, Track
  <2> QED
    BY <1>1, <1>4, <2>1, PcType DEF TrackKey, Track, BackendTypeOK, WorkerPC, ExecutePC
<1>5. CASE PressKey(w)
  <2>1. BackendTypeOK'
    BY <1>1, <1>3, <1>5 DEF PressKey, Press, BackendTypeOK
  <2> QED
    BY <1>1, <1>5, <2>1, PcType, LeaveType DEF PressKey, WorkerPC, ExecutePC
<1>6. CASE ReleaseKey(w)
  <2>1. BackendTypeOK'
    BY <1>1, <1>3, <1>6 DEF ReleaseKey, Release, BackendTypeOK
  <2>2. PICK s \in {"COMPLETED", "ABORTED", "FAILED"} :
           worker' = [worker EXCEPT ![w] = [worker[w] EXCEPT !.pc = "untrack",
                                                             !.status = s]]
    BY <1>1, <1>6 DEF ReleaseKey, Locals
  <2>3. "untrack" \in WorkerPC
    BY DEF WorkerPC, ExecutePC
  <2>4. [worker[w] EXCEPT !.pc = "untrack", !.status = s] \in Locals
    BY <1>1, <2>3 DEF Locals
  <2> QED
    BY <1>1, <2>1, <2>2, <2>4
<1>7. CASE UntrackKey(w)
  <2>1. pressed' \in Seq(Key)
    BY <1>1, <1>7, RemoveAtType DEF UntrackKey, Untrack
  <2> QED
    BY <1>1, <1>7, <2>1, PcType, LeaveType
       DEF UntrackKey, Untrack, BackendTypeOK, WorkerPC, ExecutePC
<1> QED
  BY <1>4, <1>5, <1>6, <1>7 DEF KeyStep

\* The copy release_all works through, and the keys it releases.
LEMMA ReleaseAllType ==
    ASSUME TypeOK, NEW t \in Worker \cup Caller,
           \/ TakeAll /\ out' = [out EXCEPT ![t] = pressed]
           \/ /\ out[t] # <<>>
              /\ \E raises \in BOOLEAN : Release(Last(out[t]), raises)
              /\ out' = [out EXCEPT ![t] = Front(@)]
    PROVE  out' \in [Worker \cup Caller -> Seq(Key)] /\ BackendTypeOK'
<1>1. /\ out \in [Worker \cup Caller -> Seq(Key)] /\ pressed \in Seq(Key)
      /\ down \subseteq Key /\ stuck \subseteq Key /\ forgotten \subseteq Key
  BY DEF TypeOK, BackendTypeOK
<1>2. CASE TakeAll /\ out' = [out EXCEPT ![t] = pressed]
  BY <1>1, <1>2, EmptySeq DEF TakeAll, BackendTypeOK
<1>3. CASE /\ out[t] # <<>>
           /\ \E raises \in BOOLEAN : Release(Last(out[t]), raises)
           /\ out' = [out EXCEPT ![t] = Front(@)]
  <2>1. Front(out[t]) \in Seq(Key) /\ Last(out[t]) \in Key
    BY <1>1, <1>3, FrontLastType
  <2>2. PICK raises \in BOOLEAN : Release(Last(out[t]), raises)
    BY <1>3
  <2> QED
    BY <1>1, <1>3, <2>1, <2>2 DEF Release, BackendTypeOK
<1> QED
  BY <1>2, <1>3

\* The counters of history are numbers.
LEMMA CappedType == ASSUME NEW n \in Nat PROVE Capped(n) \in Nat
  BY DEF Capped

\* Going on to the next event keeps the types.
LEMMA AdvanceType ==
    ASSUME TypeOK, NEW w \in Worker, Advance(w)
    PROVE  /\ worker' \in [Worker -> Locals]
           /\ event_index' \in Nat /\ net_characters' \in Nat /\ grace' \in Nat
<1>1. /\ worker \in [Worker -> Locals] /\ net_characters \in Nat /\ grace \in Nat
  BY DEF TypeOK
<1>2. worker[w].index \in Nat
  BY <1>1 DEF Locals
<1>3. /\ event_index' \in Nat
      /\ net_characters' \in Nat
      /\ grace' \in Nat
  BY <1>1, <1>2, CappedType DEF Advance, NetAfter
<1>4. worker' = [worker EXCEPT ![w] = [worker[w] EXCEPT !.pc = "top",
                                           !.index = worker[w].index + 1]]
  BY DEF Advance
<1>5. "top" \in WorkerPC /\ worker[w].index + 1 \in Nat
  BY <1>2 DEF WorkerPC, ExecutePC
<1>6. \A n \in Nat : [worker[w] EXCEPT !.pc = "top", !.index = n] \in Locals
  BY <1>1, <1>5 DEF Locals
<1> QED
  BY <1>1, <1>3, <1>4, <1>5, <1>6

\* So do the steps that write a flag.
LEMMA FlagType ==
    ASSUME TypeOK, NEW w \in Worker, FlagStep(w)
    PROVE  worker' \in [Worker -> Locals] /\ on' \subseteq Flag
<1>1. worker \in [Worker -> Locals] /\ on \subseteq Flag
  BY DEF TypeOK
<1>2. CASE WaitTime(w)
  BY <1>1, <1>2, PcType DEF WaitTime, Clear, WorkerPC, ExecutePC
<1>3. CASE SetPaused(w)
  BY <1>1, <1>3, PcType DEF SetPaused, Set, Flag, WorkerPC, ExecutePC
<1>4. CASE PauseAbort(w)
  BY <1>1, <1>4, PcType, LeaveType DEF PauseAbort, Clear, WorkerPC, ExecutePC
<1>5. CASE AckResume(w)
  <2>1. on' \subseteq Flag
    BY <1>1, <1>5 DEF AckResume, Clear
  <2>2. CASE worker[w].back = "delay"
    <3>1. worker' = [worker EXCEPT ![w] = [worker[w] EXCEPT !.pc = "wait",
                                  !.left = worker[w].left + worker[w].pausedFor]]
      BY <1>5, <2>2 DEF AckResume
    <3>2. "wait" \in WorkerPC
      BY DEF WorkerPC, ExecutePC
    <3>3. worker[w].left + worker[w].pausedFor \in Int
      BY <1>1, BoundAssumption DEF Locals
    <3>4. \A n \in Int : [worker[w] EXCEPT !.pc = "wait", !.left = n] \in Locals
      BY <1>1, <3>2 DEF Locals
    <3> QED
      BY <1>1, <2>1, <3>1, <3>3, <3>4
  <2>3. CASE worker[w].back # "delay"
    BY <1>1, <1>5, <2>1, <2>3, PcType DEF AckResume, WorkerPC, ExecutePC
  <2> QED
    BY <2>2, <2>3
<1>6. CASE ClearRunning(w)
  BY <1>1, <1>6, PcType DEF ClearRunning, WorkerPC
<1> QED
  BY <1>2, <1>3, <1>4, <1>5, <1>6 DEF FlagStep

\* So do the steps that take time.
LEMMA TickType ==
    ASSUME TypeOK, NEW w \in Worker, TickStep(w)
    PROVE  worker' \in [Worker -> Locals] /\ late' \in Nat
<1>1. worker \in [Worker -> Locals] /\ late \in Nat
  BY DEF TypeOK
<1>2. late' \in Nat
  BY <1>1, CappedType DEF TickStep, Sleep, PauseWait
<1>3. /\ worker[w].left - 1 \in Int /\ worker[w].slept + 1 \in Nat
      /\ worker[w].pausedFor < MaxTicks => worker[w].pausedFor + 1 \in 0..MaxTicks
  BY <1>1, BoundAssumption DEF Locals
<1>4. "wait" \in WorkerPC /\ "pauseloop" \in WorkerPC
  BY DEF WorkerPC, ExecutePC
<1>5. CASE Goto(w, "wait") \/ Goto(w, "pauseloop")
  BY <1>1, <1>2, <1>4, <1>5, PcType
<1>6. CASE worker' = [worker EXCEPT ![w].pc = "wait", ![w].left = @ - 1,
                                    ![w].slept = @ + 1]
  <2>1. worker' = [worker EXCEPT ![w] = [worker[w] EXCEPT !.pc = "wait",
                      !.left = worker[w].left - 1, !.slept = worker[w].slept + 1]]
    BY <1>6
  <2>2. \A n \in Int, m \in Nat :
            [worker[w] EXCEPT !.pc = "wait", !.left = n, !.slept = m] \in Locals
    BY <1>1, <1>4 DEF Locals
  <2> QED
    BY <1>1, <1>2, <1>3, <2>1, <2>2
<1>7. CASE /\ worker[w].pausedFor < MaxTicks
           /\ worker' = [worker EXCEPT ![w].pc = "pauseloop", ![w].left = @ - 1,
                                       ![w].pausedFor = @ + 1]
  <2>1. worker' = [worker EXCEPT ![w] = [worker[w] EXCEPT !.pc = "pauseloop",
                      !.left = worker[w].left - 1,
                      !.pausedFor = worker[w].pausedFor + 1]]
    BY <1>7
  <2>2. \A n \in Int, m \in 0..MaxTicks :
            [worker[w] EXCEPT !.pc = "pauseloop", !.left = n, !.pausedFor = m] \in Locals
    BY <1>1, <1>4 DEF Locals
  <2>3. worker[w].pausedFor + 1 \in 0..MaxTicks
    BY <1>3, <1>7
  <2>4. [worker[w] EXCEPT !.pc = "pauseloop", !.left = worker[w].left - 1,
                          !.pausedFor = worker[w].pausedFor + 1] \in Locals
    BY <1>3, <2>2, <2>3
  <2> QED
    BY <1>1, <1>2, <2>1, <2>4
<1> QED
  BY <1>5, <1>6, <1>7 DEF TickStep, Sleep, PauseWait

-----------------------------------------------------------------------------
(* Type correctness and the event invariant are preserved. *)

\* So do the callers.
LEMMA CallerType ==
    ASSUME TypeOK, NEW c \in Caller, CallerStep(c)
    PROVE  TypeOK'
<1>1. /\ call \in [Caller -> CallPC] /\ on \subseteq Flag
      /\ worker \in [Worker -> Locals] /\ grace \in Nat /\ late \in Nat
  BY DEF TypeOK
<1>2. CASE RequestStep(c)
  <2>1. call' \in [Caller -> CallPC]
    BY <1>1, <1>2 DEF RequestStep, SetWake, ClearResume, RequestPause, WithdrawPause,
       SignalResume, RequestAbort, Call, CallPC
  <2>2. on' \subseteq Flag /\ grace' \in Nat /\ late' \in Nat
    <3>1. \E f \in Flag : Set(f) \/ Clear(f)
      BY <1>2 DEF RequestStep, SetWake, ClearResume, RequestPause, WithdrawPause,
         SignalResume, RequestAbort, Flag
    <3>2. on' \subseteq Flag
      BY <1>1, <3>1 DEF Set, Clear
    <3>3. grace' \in Nat /\ late' \in Nat
      BY <1>1, <1>2 DEF RequestStep, SetWake, ClearResume, RequestPause, WithdrawPause,
         SignalResume, RequestAbort
    <3> QED
      BY <3>2, <3>3
  <2> QED
    BY <1>2, <2>1, <2>2 DEF RequestStep, backendVars, TypeOK, BackendTypeOK
<1>3. CASE StartStep(c)
  <2>1. call' \in [Caller -> CallPC]
    BY <1>1, <1>3 DEF StartStep, StartCheck, ResetFlags, Launch, Call, CallPC
  <2>2. /\ on' \subseteq Flag /\ grace' \in Nat /\ late' \in Nat
        /\ startLock' \in Caller \cup {NoThread} /\ thread' \in Worker \cup {NoThread}
        /\ event_index' \in Nat /\ net_characters' \in Nat
    <3>1. CASE StartCheck(c)
      BY <1>1, <3>1 DEF StartCheck, TypeOK
    <3>2. CASE ResetFlags(c)
      BY <1>1, <3>2 DEF ResetFlags, TypeOK
    <3>3. CASE Launch(c)
      <4>1. "running" \in Flag
        BY DEF Flag
      <4> QED
        BY <1>1, <3>3, <4>1 DEF Launch, Set, TypeOK
    <3> QED
      BY <1>3, <3>1, <3>2, <3>3 DEF StartStep
  <2>3. worker' \in [Worker -> Locals]
    <3>1. CASE Launch(c)
      <4>1. PICK w \in Worker, p \in Plans :
               worker' = [worker EXCEPT ![w].pc = "top", ![w].plan = p]
        BY <3>1 DEF Launch
      <4>2. worker' = [worker EXCEPT ![w] = [worker[w] EXCEPT !.pc = "top", !.plan = p]]
        BY <4>1
      <4>3. "top" \in WorkerPC
        BY DEF WorkerPC, ExecutePC
      <4>4. [worker[w] EXCEPT !.pc = "top", !.plan = p] \in Locals
        BY <1>1, <4>3 DEF Locals
      <4> QED
        BY <1>1, <4>2, <4>4
    <3> QED
      BY <1>1, <1>3, <3>1 DEF StartStep, StartCheck, ResetFlags
  <2> QED
    BY <1>3, <2>1, <2>2, <2>3 DEF StartStep, backendVars, TypeOK, BackendTypeOK
<1>4. CASE ReleaseCall(c)
  <2>1. call' \in [Caller -> CallPC]
    BY <1>1, <1>4
       DEF ReleaseCall, Join, TakeForCaller, CallerReleases, CallerReleased, Call, CallPC
  <2>2. out' \in [Worker \cup Caller -> Seq(Key)] /\ BackendTypeOK'
    <3>1. CASE TakeForCaller(c)
      BY <3>1, ReleaseAllType DEF TakeForCaller
    <3>2. CASE CallerReleases(c)
      BY <3>2, ReleaseAllType DEF CallerReleases
    <3>3. CASE Join(c) \/ CallerReleased(c)
      BY <3>3 DEF Join, CallerReleased, backendVars, TypeOK, BackendTypeOK
    <3> QED
      BY <1>4, <3>1, <3>2, <3>3 DEF ReleaseCall
  <2> QED
    BY <1>4, <2>1, <2>2 DEF ReleaseCall, TypeOK
<1> QED
  BY <1>2, <1>3, <1>4 DEF CallerStep

\* So do the workers.
LEMMA WorkerType ==
    ASSUME TypeOK, EventInv, NEW w \in Worker, WorkerStep(w)
    PROVE  TypeOK'
<1>1. CASE LocalStep(w)
  BY <1>1, LocalType DEF WorkerStep, LocalStep, backendVars, TypeOK, BackendTypeOK
<1>2. CASE KeyStep(w)
  BY <1>2, KeyType DEF WorkerStep, KeyStep, TypeOK
<1>3. CASE Advance(w)
  BY <1>3, AdvanceType DEF WorkerStep, Advance, backendVars, TypeOK, BackendTypeOK
<1>4. CASE ReleaseAllStep(w)
  <2>1. out' \in [Worker \cup Caller -> Seq(Key)] /\ BackendTypeOK'
    BY <1>4, ReleaseAllType DEF ReleaseAllStep, TakeHeld, ReleaseHeld
  <2>2. worker' \in [Worker -> Locals]
    BY <1>4, PcType
       DEF ReleaseAllStep, TakeHeld, ReleaseHeld, TypeOK, WorkerPC, ExecutePC
  <2> QED
    BY <1>4, <2>1, <2>2 DEF WorkerStep, ReleaseAllStep, TypeOK
<1>5. CASE FlagStep(w)
  BY <1>5, FlagType DEF WorkerStep, FlagStep, backendVars, TypeOK, BackendTypeOK
<1>6. CASE TickStep(w)
  BY <1>6, TickType DEF WorkerStep, TickStep, backendVars, TypeOK, BackendTypeOK
<1> QED
  BY <1>1, <1>2, <1>3, <1>4, <1>5, <1>6 DEF WorkerStep

\* Every step keeps the types, where the event a worker is inside of exists.
LEMMA TypeStep ==
    ASSUME TypeOK, EventInv, [Next]_vars
    PROVE  TypeOK'
<1>1. CASE UNCHANGED vars
  BY <1>1 DEF vars, backendVars, TypeOK, BackendTypeOK
<1> QED
  BY <1>1, WorkerType, CallerType DEF Next

\* Moving to a program counter outside "none", "press" and "untrack".
LEMMA EventGoto ==
    ASSUME worker \in [Worker -> Locals], NEW w \in Worker, EventOK(worker[w]),
           NEW p, p \notin {"none", "press", "untrack"}, Goto(w, p),
           p \in EventPC \/ (p \in {"take", "release"} /\ worker[w].back # "exit")
               => worker[w].index < Len(worker[w].plan)
    PROVE  EventOK(worker'[w])
<1>1. worker'[w] = [worker[w] EXCEPT !.pc = p]
  BY DEF Goto
<1>2. /\ worker'[w].pc = p /\ worker'[w].index = worker[w].index
      /\ worker'[w].plan = worker[w].plan /\ worker'[w].back = worker[w].back
  BY <1>1 DEF Locals
<1> QED
  BY <1>2 DEF EventOK, InEvent

\* Leaving for the finally clause, and entering a pause from inside an event.
LEMMA EventLeave ==
    ASSUME worker \in [Worker -> Locals], NEW w \in Worker, EventOK(worker[w]),
           NEW st, Leave(w, st)
    PROVE  EventOK(worker'[w])
<1>1. worker'[w] = [worker[w] EXCEPT !.pc = "take", !.back = "exit", !.status = st]
  BY DEF Leave
<1>2. /\ worker'[w].pc = "take" /\ worker'[w].index = worker[w].index
      /\ worker'[w].plan = worker[w].plan /\ worker'[w].back = "exit"
  BY <1>1 DEF Locals
<1> QED
  BY <1>2 DEF EventOK, InEvent, EventPC

\* The way into a pause leaves a worker inside its event.
LEMMA EventEnterPause ==
    ASSUME worker \in [Worker -> Locals], NEW w \in Worker, EventOK(worker[w]),
           worker[w].pc \in EventPC, NEW b, EnterPause(w, b)
    PROVE  EventOK(worker'[w])
<1>1. worker'[w] = [worker[w] EXCEPT !.pc = "take", !.back = b, !.pausedFor = 0]
  BY DEF EnterPause
<1>2. /\ worker'[w].pc = "take" /\ worker'[w].index = worker[w].index
      /\ worker'[w].plan = worker[w].plan
  BY <1>1 DEF Locals
<1> QED
  BY <1>2 DEF EventOK, InEvent

\* Changes to other locals, on the way to a program counter inside the event.
LEMMA EventSame ==
    ASSUME NEW l \in Locals, EventOK(l), NEW m,
           m.index = l.index, m.plan = l.plan, l.index < Len(l.plan),
           m.pc \in EventPC \ {"press", "untrack"}
    PROVE  EventOK(m)
  BY DEF EventOK, EventPC

\* A worker's own step keeps the event it is inside of.
LEMMA EventOwnStep ==
    ASSUME TypeOK, EventInv, NEW w \in Worker, WorkerStep(w)
    PROVE  EventOK(worker'[w])
<1> DEFINE l == worker[w]
<1>1. worker \in [Worker -> Locals] /\ l \in Locals /\ EventOK(l)
  BY DEF TypeOK, EventInv
<1>2. l.pc \in EventPC => l.index < Len(l.plan)
  BY <1>1 DEF EventOK, InEvent
<1>3. l.pc \in {"take", "release"} /\ l.back # "exit" => l.index < Len(l.plan)
  BY <1>1 DEF EventOK, InEvent
<1>4. l.index <= Len(l.plan) /\ l.index \in Nat /\ Len(l.plan) \in Nat
  <2>1. l.plan \in Plans \cup {<<>>}
    BY <1>1 DEF Locals
  <2>2. l.plan \in Seq(Event)
    BY <2>1, EmptySeq, PlansAssumption
  <2> QED
    BY <1>1, <2>2, LenProperties DEF EventOK, Locals
<1>5. CASE LocalStep(w)
  <2>1. CASE CheckAbort(w)
    BY <1>1, <1>4, <2>1, EventGoto, EventLeave DEF CheckAbort, Finished, At, EventPC
  <2>2. CASE CheckPause(w)
    BY <1>1, <1>2, <2>2, EventGoto, EventEnterPause DEF CheckPause, At, EventPC
  <2>3. CASE BeginDelay(w)
    <3>1. worker'[w] = [worker[w] EXCEPT !.pc = "wait", !.left = Current(w).ticks,
                                         !.slept = 0]
      BY <1>1, <2>3 DEF BeginDelay
    <3>2. /\ worker'[w].pc = "wait" /\ worker'[w].index = worker[w].index
          /\ worker'[w].plan = worker[w].plan
      BY <1>1, <3>1 DEF Locals
    <3> QED
      BY <1>1, <1>2, <2>3, <3>2, EventSame DEF BeginDelay, At, EventPC
  <2>4. CASE WaitAbort(w)
    BY <1>1, <1>2, <2>4, EventGoto, EventLeave DEF WaitAbort, At, EventPC
  <2>5. CASE WaitPause(w)
    BY <1>1, <1>2, <2>5, EventGoto, EventEnterPause DEF WaitPause, At, EventPC
  <2>6. CASE Recheck(w)
    BY <1>1, <1>2, <2>6, EventGoto DEF Recheck, At, EventPC
  <2>7. CASE HeldReleased(w)
    BY <1>1, <1>3, <2>7, EventGoto DEF HeldReleased, At, EventPC
  <2>8. CASE PauseLoop(w)
    BY <1>1, <1>2, <2>8, EventGoto DEF PauseLoop, At, EventPC
  <2>9. CASE Report(w)
    <3>1. worker'[w] = [worker[w] EXCEPT !.pc = "finished", !.result = event_index]
      BY <1>1, <2>9 DEF Report
    <3>2. /\ worker'[w].pc = "finished" /\ worker'[w].index = worker[w].index
          /\ worker'[w].plan = worker[w].plan
      BY <1>1, <3>1 DEF Locals
    <3> QED
      BY <1>1, <3>2 DEF EventOK, InEvent, EventPC
  <2>10. CASE ThreadEnds(w)
    BY <1>1, <2>10, EmptySeq DEF ThreadEnds, NoLocals, EventOK, InEvent, EventPC
  <2> QED
    BY <1>5, <2>1, <2>2, <2>3, <2>4, <2>5, <2>6, <2>7, <2>8, <2>9, <2>10 DEF LocalStep
<1>6. CASE KeyStep(w)
  <2>1. CASE TrackKey(w)
    <3>1. worker'[w] = [worker[w] EXCEPT !.pc = "press"]
      BY <1>1, <2>1 DEF TrackKey, Goto
    <3>2. /\ worker'[w].pc = "press" /\ worker'[w].index = worker[w].index
          /\ worker'[w].plan = worker[w].plan
      BY <1>1, <3>1 DEF Locals
    <3> QED
      BY <1>1, <1>2, <2>1, <3>2 DEF TrackKey, At, Current, EventOK, EventPC
  <2>2. CASE PressKey(w)
    BY <1>1, <1>2, <2>2, EventGoto, EventLeave DEF PressKey, At, EventPC
  <2>3. CASE ReleaseKey(w)
    <3>1. PICK st : worker'[w] = [worker[w] EXCEPT !.pc = "untrack", !.status = st]
      BY <1>1, <2>3 DEF ReleaseKey
    <3>2. /\ worker'[w].pc = "untrack" /\ worker'[w].index = worker[w].index
          /\ worker'[w].plan = worker[w].plan
      BY <1>1, <3>1 DEF Locals
    <3> QED
      BY <1>1, <1>2, <2>3, <3>2 DEF ReleaseKey, At, Current, EventOK, EventPC
  <2>4. CASE UntrackKey(w)
    BY <1>1, <1>2, <2>4, EventGoto, EventLeave DEF UntrackKey, At, EventPC
  <2> QED
    BY <1>6, <2>1, <2>2, <2>3, <2>4 DEF KeyStep
<1>7. CASE Advance(w)
  <2>1. worker'[w] = [worker[w] EXCEPT !.pc = "top", !.index = worker[w].index + 1]
    BY <1>1, <1>7 DEF Advance
  <2>2. /\ worker'[w].pc = "top" /\ worker'[w].index = worker[w].index + 1
        /\ worker'[w].plan = worker[w].plan
    BY <1>1, <2>1 DEF Locals
  <2>3. l.index < Len(l.plan)
    BY <1>2, <1>7 DEF Advance, At, EventPC
  <2> QED
    BY <1>4, <2>2, <2>3 DEF EventOK, InEvent, EventPC
<1>8. CASE ReleaseAllStep(w)
  <2>1. CASE TakeHeld(w)
    BY <1>1, <1>3, <2>1, EventGoto DEF TakeHeld, At, EventPC
  <2>2. CASE ReleaseHeld(w)
    BY <1>1, <2>2 DEF ReleaseHeld
  <2> QED
    BY <1>8, <2>1, <2>2 DEF ReleaseAllStep
<1>9. CASE FlagStep(w)
  <2>1. CASE WaitTime(w)
    BY <1>1, <1>2, <2>1, EventGoto DEF WaitTime, At, EventPC
  <2>2. CASE SetPaused(w)
    BY <1>1, <1>2, <2>2, EventGoto DEF SetPaused, At, EventPC
  <2>3. CASE PauseAbort(w)
    BY <1>1, <1>2, <2>3, EventGoto, EventLeave DEF PauseAbort, At, EventPC
  <2>4. CASE AckResume(w)
    <3>1. CASE worker[w].back = "delay"
      <4>1. worker'[w] = [worker[w] EXCEPT !.pc = "wait",
                                  !.left = worker[w].left + worker[w].pausedFor]
        BY <1>1, <2>4, <3>1 DEF AckResume
      <4>2. /\ worker'[w].pc = "wait" /\ worker'[w].index = worker[w].index
            /\ worker'[w].plan = worker[w].plan
        BY <1>1, <4>1 DEF Locals
      <4> QED
        BY <1>1, <1>2, <2>4, <4>2, EventSame DEF AckResume, At, EventPC
    <3>2. CASE worker[w].back # "delay"
      BY <1>1, <1>2, <2>4, <3>2, EventGoto DEF AckResume, At, EventPC
    <3> QED
      BY <3>1, <3>2
  <2>5. CASE ClearRunning(w)
    BY <1>1, <2>5, EventGoto DEF ClearRunning, EventPC
  <2> QED
    BY <1>9, <2>1, <2>2, <2>3, <2>4, <2>5 DEF FlagStep
<1>10. CASE TickStep(w)
  <2>1. CASE Goto(w, "wait") \/ Goto(w, "pauseloop")
    BY <1>1, <1>2, <1>10, <2>1, EventGoto DEF TickStep, Sleep, PauseWait, At, EventPC
  <2>2. CASE worker' = [worker EXCEPT ![w].pc = "wait", ![w].left = @ - 1,
                                      ![w].slept = @ + 1]
    <3>1. worker'[w] = [worker[w] EXCEPT !.pc = "wait", !.left = worker[w].left - 1,
                                         !.slept = worker[w].slept + 1]
      BY <1>1, <2>2
    <3>2. /\ worker'[w].pc = "wait" /\ worker'[w].index = worker[w].index
          /\ worker'[w].plan = worker[w].plan
      BY <1>1, <3>1 DEF Locals
    <3> QED
      BY <1>1, <1>2, <1>10, <3>2, EventSame DEF TickStep, Sleep, PauseWait, At, EventPC
  <2>3. CASE worker' = [worker EXCEPT ![w].pc = "pauseloop", ![w].left = @ - 1,
                                      ![w].pausedFor = @ + 1]
    <3>1. worker'[w] = [worker[w] EXCEPT !.pc = "pauseloop",
                                         !.left = worker[w].left - 1,
                                         !.pausedFor = worker[w].pausedFor + 1]
      BY <1>1, <2>3
    <3>2. /\ worker'[w].pc = "pauseloop" /\ worker'[w].index = worker[w].index
          /\ worker'[w].plan = worker[w].plan
      BY <1>1, <3>1 DEF Locals
    <3> QED
      BY <1>1, <1>2, <1>10, <3>2, EventSame DEF TickStep, Sleep, PauseWait, At, EventPC
  <2> QED
    BY <1>10, <2>1, <2>2, <2>3 DEF TickStep, Sleep, PauseWait
<1> QED
  BY <1>5, <1>6, <1>7, <1>8, <1>9, <1>10 DEF WorkerStep

\* A worker's step leaves the locals of the others alone.
LEMMA OthersKept ==
    ASSUME worker \in [Worker -> Locals], NEW w \in Worker, WorkerStep(w),
           NEW v \in Worker, v # w
    PROVE  worker'[v] = worker[v]
<1>1. CASE LocalStep(w)
  BY <1>1 DEF LocalStep, CheckAbort, CheckPause, BeginDelay, WaitAbort, WaitPause,
     Recheck, HeldReleased, PauseLoop, Report, ThreadEnds, Goto, Leave, EnterPause
<1>2. CASE KeyStep(w)
  BY <1>2 DEF KeyStep, TrackKey, PressKey, ReleaseKey, UntrackKey, Goto, Leave
<1>3. CASE Advance(w)
  BY <1>3 DEF Advance
<1>4. CASE ReleaseAllStep(w)
  BY <1>4 DEF ReleaseAllStep, TakeHeld, ReleaseHeld, Goto
<1>5. CASE FlagStep(w)
  BY <1>5 DEF FlagStep, WaitTime, SetPaused, PauseAbort, AckResume, ClearRunning,
     Goto, Leave
<1>6. CASE TickStep(w)
  BY <1>6 DEF TickStep, Sleep, PauseWait, Goto
<1> QED
  BY <1>1, <1>2, <1>3, <1>4, <1>5, <1>6 DEF WorkerStep

\* Every step keeps every worker inside an event of its plan.
LEMMA EventStep ==
    ASSUME TypeOK, EventInv, [Next]_vars
    PROVE  EventInv'
<1>1. ASSUME NEW w \in Worker, WorkerStep(w)
      PROVE  EventInv'
  BY <1>1, EventOwnStep, OthersKept DEF EventInv, TypeOK
<1>2. ASSUME NEW c \in Caller, CallerStep(c)
      PROVE  EventInv'
  <2>1. CASE Launch(c)
    <3>1. PICK w \in Worker, p \in Plans :
             /\ At(w, "none")
             /\ worker' = [worker EXCEPT ![w].pc = "top", ![w].plan = p]
      BY <2>1 DEF Launch
    <3>2. worker \in [Worker -> Locals] /\ worker[w].index = 0
      BY <3>1 DEF TypeOK, EventInv, EventOK, At
    <3>3. worker'[w] = [worker[w] EXCEPT !.pc = "top", !.plan = p]
      BY <3>1, <3>2
    <3>4. worker'[w].pc = "top" /\ worker'[w].index = 0 /\ worker'[w].plan = p
      BY <3>2, <3>3 DEF Locals
    <3>5. Len(p) \in Nat
      BY PlansAssumption, LenProperties
    <3>6. EventOK(worker'[w])
      BY <3>4, <3>5 DEF EventOK, InEvent, EventPC
    <3>7. \A v \in Worker : v # w => worker'[v] = worker[v]
      BY <3>1, <3>2
    <3> QED
      BY <3>6, <3>7 DEF EventInv
  <2> QED
    BY <1>2, <2>1 DEF CallerStep, RequestStep, StartStep, StartCheck, ResetFlags,
       ReleaseCall, EventInv
<1>3. CASE UNCHANGED vars
  BY <1>3 DEF vars, EventInv
<1> QED
  BY <1>1, <1>2, <1>3 DEF Next

-----------------------------------------------------------------------------
(* One job at a time. *)

\* A worker's own step never makes it start executing, and running is cleared
\* only by a worker that stops executing.
LEMMA WorkerRunning ==
    ASSUME TypeOK, NEW w \in Worker, WorkerStep(w)
    PROVE  /\ Executing(w)' => Executing(w)
           /\ "running" \in on' => "running" \in on
           /\ "running" \in on => "running" \in on' \/ (Executing(w) /\ ~Executing(w)')
<1> DEFINE l == worker[w]
<1>1. worker \in [Worker -> Locals] /\ l \in Locals
  BY DEF TypeOK
<1>2. \A p : Goto(w, p) => worker'[w].pc = p
  <2> SUFFICES ASSUME NEW p, Goto(w, p)
               PROVE  worker'[w].pc = p
    OBVIOUS
  <2>1. worker'[w] = [l EXCEPT !.pc = p]
    BY <1>1 DEF Goto
  <2> QED
    BY <1>1, <2>1 DEF Locals
<1>3. l.pc \in WorkerPC
  BY <1>1 DEF Locals
<1>4. CASE ClearRunning(w)
  <2>1. worker'[w].pc = "report"
    BY <1>2, <1>4 DEF ClearRunning
  <2> QED
    BY <1>4, <2>1 DEF ClearRunning, Executing, ExecutePC, At
<1>5. CASE Report(w) \/ ThreadEnds(w)
  <2>1. worker'[w].pc \in {"finished", "none"}
    <3>1. CASE Report(w)
      <4>1. worker'[w] = [l EXCEPT !.pc = "finished", !.result = event_index]
        BY <1>1, <3>1 DEF Report
      <4> QED
        BY <1>1, <4>1 DEF Locals
    <3>2. CASE ThreadEnds(w)
      BY <1>1, <3>2 DEF ThreadEnds, NoLocals
    <3> QED
      BY <1>5, <3>1, <3>2
  <2>2. on' = on
    BY <1>5 DEF WorkerStep, LocalStep, KeyStep, TrackKey, PressKey, ReleaseKey,
       UntrackKey, Advance, ReleaseAllStep, TakeHeld, ReleaseHeld, FlagStep, WaitTime,
       SetPaused, PauseAbort, AckResume, ClearRunning, TickStep, Sleep, PauseWait,
       Report, ThreadEnds, At
  <2> QED
    BY <2>1, <2>2 DEF Executing, ExecutePC
<1>6. CASE ~ClearRunning(w) /\ ~Report(w) /\ ~ThreadEnds(w)
  <2>1. Executing(w)
    <3>1. CASE LocalStep(w)
      BY <1>6, <3>1 DEF LocalStep, CheckAbort, CheckPause, BeginDelay, WaitAbort,
         WaitPause, Recheck, HeldReleased, PauseLoop, At, Executing, ExecutePC
    <3>2. CASE KeyStep(w)
      BY <3>2 DEF KeyStep, TrackKey, PressKey, ReleaseKey, UntrackKey, At, Executing,
         ExecutePC
    <3>3. CASE Advance(w)
      BY <3>3 DEF Advance, At, Executing, ExecutePC
    <3>4. CASE ReleaseAllStep(w)
      BY <3>4 DEF ReleaseAllStep, TakeHeld, ReleaseHeld, At, Executing, ExecutePC
    <3>5. CASE FlagStep(w)
      BY <1>6, <3>5 DEF FlagStep, WaitTime, SetPaused, PauseAbort, AckResume, At,
         Executing, ExecutePC
    <3>6. CASE TickStep(w)
      BY <3>6 DEF TickStep, Sleep, PauseWait, At, Executing, ExecutePC
    <3> QED
      BY <3>1, <3>2, <3>3, <3>4, <3>5, <3>6 DEF WorkerStep
  <2>2. "running" \in on <=> "running" \in on'
    <3>1. CASE FlagStep(w)
      BY <1>6, <3>1 DEF FlagStep, WaitTime, SetPaused, PauseAbort, AckResume, Set, Clear
    <3>2. CASE ~FlagStep(w)
      BY <3>2 DEF WorkerStep, LocalStep, KeyStep, Advance, ReleaseAllStep, TickStep
    <3> QED
      BY <3>1, <3>2
  <2> QED
    BY <2>1, <2>2
<1> QED
  BY <1>4, <1>5, <1>6

\* No step makes a second job.
LEMMA OneJobStep ==
    ASSUME TypeOK, OneJob, StartInv, [Next]_vars
    PROVE  OneJob' /\ StartInv'
<1>1. worker \in [Worker -> Locals] /\ call \in [Caller -> CallPC]
  BY DEF TypeOK
<1>2. ASSUME NEW w \in Worker, WorkerStep(w)
      PROVE  OneJob' /\ StartInv'
  <2>1. \A v \in Worker : Executing(v)' => Executing(v)
    BY <1>1, <1>2, OthersKept, WorkerRunning DEF Executing
  <2>2. \A v \in Worker : Executing(v)' => "running" \in on'
    BY <1>2, <2>1, WorkerRunning DEF OneJob
  <2>3. StartInv'
    BY <1>2, WorkerRunning DEF StartInv, WorkerStep
  <2> QED
    BY <2>1, <2>2, <2>3 DEF OneJob
<1>3. ASSUME NEW c \in Caller, CallerStep(c)
      PROVE  OneJob' /\ StartInv'
  <2>1. CASE RequestStep(c)
    <3>1. worker' = worker /\ startLock' = startLock
      BY <2>1 DEF RequestStep
    <3>2. "running" \in on <=> "running" \in on'
      BY <2>1 DEF RequestStep, SetWake, ClearResume, RequestPause, WithdrawPause,
         SignalResume, RequestAbort, Set, Clear
    <3>3. \A d \in Caller : call'[d] \in {"reset", "launch"} => call'[d] = call[d]
      BY <1>1, <2>1 DEF RequestStep, SetWake, ClearResume, RequestPause, WithdrawPause,
         SignalResume, RequestAbort, Call
    <3> QED
      BY <3>1, <3>2, <3>3 DEF OneJob, StartInv, Executing
  <2>2. CASE StartCheck(c)
    BY <1>1, <2>2, ThreadAssumption
       DEF StartCheck, Call, OneJob, StartInv, Executing
  <2>3. CASE ResetFlags(c)
    <3>1. "running" \in on <=> "running" \in on'
      BY <2>3 DEF ResetFlags
    <3> QED
      BY <1>1, <2>3, <3>1 DEF ResetFlags, Call, OneJob, StartInv, Executing
  <2>4. CASE Launch(c)
    <3>1. call[c] = "launch" /\ startLock = c /\ "running" \notin on
      BY <2>4 DEF Launch, Call, StartInv
    <3>2. \A v \in Worker : ~Executing(v)
      BY <3>1 DEF OneJob
    <3>3. PICK w \in Worker, p \in Plans :
             worker' = [worker EXCEPT ![w].pc = "top", ![w].plan = p]
      BY <2>4 DEF Launch
    <3>4. \A v \in Worker : v # w => worker'[v] = worker[v]
      BY <1>1, <3>3
    <3>5. \A v \in Worker : Executing(v)' => v = w
      BY <3>2, <3>4 DEF Executing
    <3>6. "running" \in on'
      BY <2>4 DEF Launch, Set
    <3>7. \A d \in Caller : call'[d] \notin {"reset", "launch"}
      <4>1. \A d \in Caller \ {c} : call[d] \notin {"reset", "launch"}
        BY <3>1 DEF StartInv
      <4> QED
        BY <1>1, <2>4, <4>1 DEF Launch, Call
    <3> QED
      BY <3>5, <3>6, <3>7 DEF OneJob, StartInv
  <2>5. CASE ReleaseCall(c)
    <3>1. \A d \in Caller : call'[d] \in {"reset", "launch"} => call'[d] = call[d]
      BY <1>1, <2>5
         DEF ReleaseCall, Join, TakeForCaller, CallerReleases, CallerReleased, Call
    <3> QED
      BY <2>5, <3>1 DEF ReleaseCall, OneJob, StartInv, Executing
  <2> QED
    BY <1>3, <2>1, <2>2, <2>3, <2>4, <2>5 DEF CallerStep, StartStep
<1>4. CASE UNCHANGED vars
  BY <1>4 DEF vars, OneJob, StartInv, Executing
<1> QED
  BY <1>2, <1>3, <1>4 DEF Next

-----------------------------------------------------------------------------
(* The theorems. *)

\* Nothing executes at the start.
LEMMA InitInv == Init => EventInv /\ OneJob /\ StartInv
<1>1. Init => EventInv
  BY EmptySeq DEF Init, NoLocals, EventInv, EventOK, InEvent, EventPC
<1>2. Init => OneJob /\ StartInv
  BY DEF Init, NoLocals, OneJob, StartInv, Executing, ExecutePC
<1> QED
  BY <1>1, <1>2

\* The scheduler's state, the backend's list and every worker's locals keep
\* their types, whatever the plans and however many threads call (the event a
\* worker is inside of always exists in its plan).
THEOREM TypeCorrect == Spec => []TypeOK
<1>1. Init => TypeOK /\ EventInv
  BY InitTypeOK, InitInv
<1>2. TypeOK /\ EventInv /\ [Next]_vars => TypeOK' /\ EventInv'
  BY TypeStep, EventStep
<1> QED
  BY <1>1, <1>2, PTL DEF Spec

\* start (scheduler.py:134-154) never lets a second job execute beside the
\* first, and is_running tells the truth about it.
THEOREM OnlyOneJob == Spec => []OneJob
<1>1. Init => TypeOK /\ EventInv /\ OneJob /\ StartInv
  BY InitTypeOK, InitInv
<1>2. TypeOK /\ EventInv /\ OneJob /\ StartInv /\ [Next]_vars
          => TypeOK' /\ EventInv' /\ OneJob' /\ StartInv'
  BY TypeStep, EventStep, OneJobStep
<1> QED
  BY <1>1, <1>2, PTL DEF Spec
=============================================================================
