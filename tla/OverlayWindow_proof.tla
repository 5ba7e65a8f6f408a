------------------------- MODULE OverlayWindow_proof -------------------------
(***************************************************************************)
(* Type correctness of the window and the hotkeys, that every monitor is   *)
(* known to its service, that no run is armed deaf, that a run under way   *)
(* never looks over and that a failure stays explained, for any            *)
(* applications and any number of signals.                                 *)
(***************************************************************************)
EXTENDS OverlayWindow, SequenceTheorems, TLAPS

-----------------------------------------------------------------------------
(* The table of moves.                                                     *)

\* Where a press of Start leads.
LEMMA StartMoves ==
    /\ Via("IDLE", "VALIDATING", "ARMING") = "ARMING"
    /\ Via("IDLE", "VALIDATING", "IDLE") = "IDLE"
    /\ Via("IDLE", "VALIDATING", "ERROR") = "ERROR"
    /\ After("ARMING", "ERROR") = "ERROR"
<1>1. /\ Allowed["IDLE"] = {"VALIDATING"}
      /\ Allowed["VALIDATING"] = {"ARMING", "IDLE", "ERROR"}
      /\ Allowed["ARMING"] = {"ARMED", "ABORTED", "ERROR"}
  BY DEF Allowed, AppState
<1> QED
  BY <1>1 DEF Via, After

-----------------------------------------------------------------------------
(* The hotkeys.                                                            *)

\* Recorded monitors are installed; a listener may have died.
HeardInv == recorded # {} /\ service = "nsevent" => installed["global"] > 0

\* Monitors are counted.
LEMMA MoreType ==
    ASSUME NEW count \in [Kind -> Nat], NEW kinds
    PROVE  /\ More(count, kinds) \in [Kind -> Nat]
           /\ \A k \in Kind : More(count, kinds)[k] =
                              IF k \in kinds THEN count[k] + 1 ELSE count[k]
  BY DEF More

\* Every operation of the service keeps the types.
LEMMA HotkeyTypes ==
    ASSUME HotkeyTypeOK,
           \/ EnsureHotkeys \/ StartFails \/ Stop \/ FlipPermission \/ ListenerDies
           \/ UNCHANGED hotkeyVars
    PROVE  HotkeyTypeOK'
<1>1. CASE UNCHANGED hotkeyVars
  BY <1>1 DEF HotkeyTypeOK, hotkeyVars, Monitors
<1>2. CASE StartSucceeds /\ ~UNCHANGED hotkeyVars
  <2>1. PICK kinds \in {Monitors, {"global"}} :
               recorded' = kinds /\ installed' = More(installed, kinds)
               /\ UNCHANGED <<service, allowed, forgotten>>
    BY <1>2 DEF StartSucceeds
  <2>2. installed' \in [Kind -> Nat]
    BY <2>1, MoreType DEF HotkeyTypeOK
  <2>3. recorded' \in {{}, Monitors', {"global"}}
    BY <2>1 DEF Monitors
  <2> QED
    BY <2>1, <2>2, <2>3 DEF HotkeyTypeOK
<1>3. CASE StartFails
  <2>1. /\ UNCHANGED <<service, allowed, recorded>>
        /\ \/ UNCHANGED <<installed, forgotten>>
           \/ \E k \in Kind :
                installed' = More(installed, {k}) /\ forgotten' = More(forgotten, {k})
    BY <1>3 DEF StartFails
  <2>2. \A k : More(installed, {k}) \in [Kind -> Nat] /\ More(forgotten, {k}) \in [Kind -> Nat]
    BY MoreType DEF HotkeyTypeOK
  <2>3. installed' \in [Kind -> Nat] /\ forgotten' \in [Kind -> Nat]
    BY <2>1, <2>2 DEF HotkeyTypeOK
  <2> QED
    BY <2>1, <2>3 DEF HotkeyTypeOK, Monitors
<1>4. CASE Stop
  <2>1. installed' \in [Kind -> Nat]
    BY <1>4 DEF HotkeyTypeOK, Stop
  <2> QED
    BY <1>4, <2>1 DEF HotkeyTypeOK, Stop, Monitors
<1>5. CASE FlipPermission
  BY <1>5 DEF HotkeyTypeOK, FlipPermission, Monitors
<1>6. CASE ListenerDies
  BY <1>6 DEF HotkeyTypeOK, ListenerDies, Monitors, Kind
<1> QED
  BY <1>1, <1>2, <1>3, <1>4, <1>5, <1>6 DEF EnsureHotkeys

\* Every operation of the service keeps HeardInv, partial failures included.
LEMMA HeardKept ==
    ASSUME HotkeyTypeOK, HeardInv,
           \/ EnsureHotkeys \/ StartFails \/ Stop \/ FlipPermission \/ ListenerDies
           \/ UNCHANGED hotkeyVars
    PROVE  HeardInv'
<1> USE DEF HotkeyTypeOK, HeardInv, Kind, Monitors
<1>1. CASE UNCHANGED hotkeyVars
  BY <1>1 DEF hotkeyVars
<1>2. CASE StartSucceeds /\ ~UNCHANGED hotkeyVars
  BY <1>2, MoreType DEF StartSucceeds
<1>3. CASE StartFails
  BY <1>3, MoreType DEF StartFails
<1>4. CASE Stop
  BY <1>4 DEF Stop
<1>5. CASE FlipPermission
  BY <1>5 DEF FlipPermission
<1>6. CASE ListenerDies
  BY <1>6 DEF ListenerDies
<1> QED
  BY <1>1, <1>2, <1>3, <1>4, <1>5, <1>6 DEF EnsureHotkeys

\* Every operation of the service knows what it installs, or forgets it and fails.
LEMMA RecordedKept ==
    ASSUME HotkeyTypeOK, MonitorsAreRecorded,
           \/ EnsureHotkeys \/ StartFails \/ Stop \/ FlipPermission \/ ListenerDies
           \/ UNCHANGED hotkeyVars
    PROVE  MonitorsAreRecorded'
<1> USE DEF HotkeyTypeOK, MonitorsAreRecorded, Kind, Monitors
<1>1. CASE UNCHANGED hotkeyVars
  BY <1>1 DEF hotkeyVars
<1>2. CASE StartSucceeds /\ ~UNCHANGED hotkeyVars
  <2>1. PICK kinds \in {Monitors, {"global"}} :
               ~IsActive /\ recorded' = kinds /\ installed' = More(installed, kinds)
               /\ forgotten' = forgotten
    BY <1>2 DEF StartSucceeds
  <2>2. \A k \in Kind : installed[k] <= forgotten[k]
    BY <2>1 DEF IsActive, Platform
  <2> QED
    BY <2>1, <2>2, MoreType
<1>3. CASE StartFails
  BY <1>3, MoreType DEF StartFails
<1>4. CASE Stop
  BY <1>4 DEF Stop
<1>5. CASE FlipPermission
  BY <1>5 DEF FlipPermission
<1>6. CASE ListenerDies
  BY <1>6 DEF ListenerDies
<1> QED
  BY <1>1, <1>2, <1>3, <1>4, <1>5, <1>6 DEF EnsureHotkeys

\* Every step of the window leaves the hotkeys alone or is one of their own.
LEMMA HotkeySteps ==
    ASSUME [Next]_vars
    PROVE  \/ EnsureHotkeys \/ StartFails \/ Stop \/ FlipPermission \/ ListenerDies
           \/ UNCHANGED hotkeyVars
<1>1. CASE UNCHANGED vars
  BY <1>1 DEF vars
<1>2. CASE MoveFocus \/ RefreshPreview \/ RefreshBanner \/ EditText
  BY <1>2 DEF MoveFocus, RefreshPreview, RefreshBanner, EditText
<1>3. CASE Outside
  BY <1>3 DEF Outside
<1>4. CASE StartRefused \/ Start
  BY <1>4 DEF StartRefused, Start
<1>5. CASE PressPause \/ PressAbort \/ PressHotkey \/ PressReset
  BY <1>5 DEF PressPause, PressAbort, PressHotkey, PressReset
<1>6. CASE Close
  BY <1>6 DEF Close
<1>7. CASE DoPause \/ DoResume \/ DoAbort \/ Deliver
  BY <1>7 DEF DoPause, DoResume, DoAbort, Deliver
<1>8. CASE \E s \in AppState : Move(s)
  BY <1>8 DEF Move
<1> QED
  BY <1>1, <1>2, <1>3, <1>4, <1>5, <1>6, <1>7, <1>8 DEF Next

-----------------------------------------------------------------------------
(* The types.                                                              *)

\* Looking at the frontmost application keeps the types.
LEMMA PreviewedType ==
    ASSUME TypeOK, Previewed
    PROVE  /\ lastExternal' \in App \cup {Nobody}
           /\ label' \in App \cup {Nobody, Unknown, Self, "typing"}
  BY DEF TypeOK, Previewed

\* The signals of a move are at most three.
LEMMA SignalsType ==
    ASSUME NEW s \in AppState
    PROVE  Signals(s) \in Seq(Signal) /\ Len(Signals(s)) \in 1 .. 3
<1>1. {"ARMED", "RUNNING", "captured", "message", s} \subseteq Signal
  BY DEF Signal, AppState
<1>2. CASE s = "RUNNING" /\ state = "ARMING"
  <2>1. Signals(s) = <<"ARMED", "captured", "RUNNING">>
    BY <1>2 DEF Signals
  <2> QED
    BY <1>1, <2>1
<1>3. CASE s \in {"PAUSED", "ERROR"}
  <2>1. Signals(s) = <<s, "message">>
    BY <1>3 DEF Signals
  <2> QED
    BY <1>1, <2>1
<1>4. CASE ~(s = "RUNNING" /\ state = "ARMING") /\ s \notin {"PAUSED", "ERROR"}
  <2>1. Signals(s) = <<s>>
    BY <1>4 DEF Signals
  <2> QED
    BY <1>1, <2>1
<1> QED
  BY <1>2, <1>3, <1>4

\* The window starts with its types.
LEMMA InitType == Init => TypeOK
<1> SUFFICES ASSUME Init PROVE TypeOK
  OBVIOUS
<1>1. HotkeyTypeOK
  BY DEF Init, HotkeyInit, HotkeyTypeOK, Kind
<1>2. queue \in Seq(Signal) /\ Len(queue) <= MaxQueued
  BY QueueAssumption DEF Init
<1>3. blocked \in BOOLEAN /\ message \in BOOLEAN
  BY DEF Init, HotkeyInit
<1> QED
  BY <1>1, <1>2, <1>3 DEF Init, TypeOK, FrontCanBe, AppState

\* Every step keeps the types.
LEMMA NextType == TypeOK /\ [Next]_vars => TypeOK'
<1> SUFFICES ASSUME TypeOK, [Next]_vars PROVE TypeOK'
  OBVIOUS
<1>1. HotkeyTypeOK'
  BY HotkeyTypes, HotkeySteps DEF TypeOK
<1>2. allowed \in BOOLEAN /\ allowed' \in BOOLEAN
  BY <1>1 DEF TypeOK, HotkeyTypeOK
<1>3. {"IDLE", "ERROR", "ARMING", "PAUSED", "RUNNING", "ABORTED"} \subseteq AppState
  BY DEF AppState
<1>4. CASE UNCHANGED vars
  BY <1>1, <1>4 DEF TypeOK, vars, preview, environment
<1>5. CASE MoveFocus
  BY <1>1, <1>5 DEF MoveFocus, FrontCanBe, TypeOK, preview
<1>6. CASE Outside
  BY <1>1, <1>6 DEF Outside, TypeOK, preview, environment
<1>7. CASE RefreshPreview
  BY <1>1, <1>7, PreviewedType DEF RefreshPreview, TypeOK, environment
<1>8. CASE RefreshBanner \/ EditText
  BY <1>1, <1>2, <1>8 DEF RefreshBanner, EditText, TypeOK, preview, environment
<1>9. CASE StartRefused
  <2>1. state' \in AppState /\ shown' \in AppState
    BY <1>3, <1>9, StartMoves DEF StartRefused, Direct
  <2> QED
    BY <1>1, <1>2, <1>9, <2>1 DEF StartRefused, TypeOK, preview, environment
<1>10. CASE Start
  <2>1. state' \in AppState /\ shown' \in AppState
    BY <1>3, <1>10, StartMoves DEF Start, Direct
  <2>2. message' \in BOOLEAN
    BY <1>10 DEF Start
  <2> QED
    BY <1>1, <1>10, <2>1, <2>2 DEF Start, TypeOK, preview, environment
<1>11. CASE PressPause \/ PressAbort \/ PressHotkey
  BY <1>1, <1>11 DEF PressPause, PressAbort, PressHotkey, TypeOK, preview, environment
<1>12. CASE DoPause
  BY <1>1, <1>3, <1>12 DEF DoPause, Direct, TypeOK, preview, environment
<1>13. CASE DoResume
  BY <1>1, <1>3, <1>13 DEF DoResume, Direct, TypeOK, preview, environment
<1>14. CASE DoAbort
  BY <1>1, <1>3, <1>14 DEF DoAbort, Direct, TypeOK, preview, environment
<1>15. CASE PressReset
  <2>1. /\ state' \in AppState /\ shown' \in AppState /\ message' \in BOOLEAN
        /\ lastExternal' \in App \cup {Nobody}
        /\ label' \in App \cup {Nobody, Unknown, Self, "typing"}
    BY <1>3, <1>15, PreviewedType DEF PressReset, Direct, TypeOK, preview
  <2> QED
    BY <1>1, <1>15, <2>1 DEF PressReset, TypeOK, environment
<1>16. CASE Close
  BY <1>1, <1>16 DEF Close, TypeOK, preview, environment
<1>17. CASE Deliver
  <2>1. Head(queue) \in Signal /\ Tail(queue) \in Seq(Signal)
        /\ Len(Tail(queue)) <= MaxQueued
    BY <1>17, QueueAssumption, HeadTailProperties DEF Deliver, TypeOK
  <2>2. message' \in BOOLEAN
    BY <1>17 DEF Deliver, TypeOK
  <2> QED
    BY <1>1, <1>17, <2>1, <2>2 DEF Deliver, TypeOK, environment
<1>18. CASE \E s \in AppState : Move(s)
  <2> PICK s \in AppState : Move(s)
    BY <1>18
  <2>1. queue' \in Seq(Signal) /\ Len(queue') = Len(queue) + Len(Signals(s))
    BY SignalsType, ConcatProperties DEF Move, TypeOK
  <2> QED
    BY <1>1, <2>1 DEF Move, TypeOK, preview, environment
<1> QED
  BY <1>4, <1>5, <1>6, <1>7, <1>8, <1>9, <1>10, <1>11, <1>12, <1>13, <1>14,
     <1>15, <1>16, <1>17, <1>18 DEF Next

\* Type correctness: the window always shows a state, hotkeys are counted, and
\* signals are queued within the bound.
THEOREM WindowTypeCorrect == Spec => []TypeOK
  BY InitType, NextType, PTL DEF Spec

-----------------------------------------------------------------------------
(* The hotkeys of a run.                                                   *)

\* Whatever starts, failures and the shutdown come in between, a monitor that is
\* installed is known to the service or left by a start that failed half way, for
\* any number of such failures.
THEOREM InstalledIsRecorded == Spec => []MonitorsAreRecorded
<1>1. Init => MonitorsAreRecorded
  BY DEF Init, HotkeyInit, MonitorsAreRecorded
<1>2. TypeOK /\ MonitorsAreRecorded /\ [Next]_vars => MonitorsAreRecorded'
  BY RecordedKept, HotkeySteps DEF TypeOK
<1> QED
  BY <1>1, <1>2, WindowTypeCorrect, PTL DEF Spec

\* Only Start leads from IDLE to ARMING.
LEMMA OnlyStartArms ==
    ASSUME [Next]_vars, state = "IDLE", state' = "ARMING"
    PROVE  Start
<1>1. CASE UNCHANGED vars
  BY <1>1 DEF vars
<1>2. CASE MoveFocus \/ RefreshPreview \/ RefreshBanner \/ EditText \/ Outside
  BY <1>2 DEF MoveFocus, RefreshPreview, RefreshBanner, EditText, Outside
<1>3. CASE StartRefused
  BY <1>3, StartMoves DEF StartRefused, Direct
<1>4. CASE PressPause \/ PressAbort \/ PressHotkey \/ PressReset \/ Close \/ Deliver
  BY <1>4 DEF PressPause, PressAbort, PressHotkey, PressReset, Close, Deliver, Direct
<1>5. CASE DoPause \/ DoResume \/ DoAbort
  BY <1>5 DEF DoPause, DoResume, DoAbort, Direct
<1>6. CASE \E s \in AppState : Move(s)
  BY <1>6 DEF Move, Elsewhere
<1> QED
  BY <1>1, <1>2, <1>3, <1>4, <1>5, <1>6 DEF Next

\* No run is armed unless the abort hotkey is installed and heard and keys are
\* really sent, also where partial faults happen.
THEOREM ArmedIsHeard == Spec => NeverArmedDeaf
<1>1. Init => HeardInv
  BY DEF Init, HotkeyInit, HeardInv
<1>2. TypeOK /\ HeardInv /\ [Next]_vars => HeardInv'
  BY HeardKept, HotkeySteps DEF TypeOK
<1>3. TypeOK /\ HeardInv /\ [Next]_vars =>
        [state = "IDLE" /\ state' = "ARMING" =>
          IsActive' /\ installed'["global"] > 0 /\ allowed' /\ ~backendError]_vars
  <2> SUFFICES ASSUME TypeOK, HeardInv, [Next]_vars, state = "IDLE", state' = "ARMING"
               PROVE  IsActive' /\ installed'["global"] > 0 /\ allowed' /\ ~backendError
    OBVIOUS
  <2>1. Start
    BY OnlyStartArms
  <2>2. allowed /\ ~backendError /\ EnsureHotkeys
    BY <2>1 DEF Start, CanStart
  <2>3. CASE IsActive /\ UNCHANGED hotkeyVars
    BY <2>2, <2>3 DEF IsActive, HeardInv, hotkeyVars, TypeOK, HotkeyTypeOK, Platform
  <2>4. CASE ~IsActive /\ StartSucceeds
    <3>1. PICK kinds \in {Monitors, {"global"}} :
                 recorded' = kinds /\ installed' = More(installed, kinds)
                 /\ allowed' = allowed
      BY <2>4 DEF StartSucceeds
    <3>2. "global" \in kinds /\ "global" \in Kind
      BY DEF Monitors, Kind
    <3>3. installed'["global"] = installed["global"] + 1 /\ installed["global"] \in Nat
      BY <3>1, <3>2, MoreType DEF TypeOK, HotkeyTypeOK
    <3>4. installed'["global"] > 0
      BY <3>3
    <3>5. IsActive'
      BY <3>1, <3>2, <3>4 DEF IsActive
    <3>6. allowed'
      BY <2>2, <3>1
    <3> QED
      BY <2>2, <3>4, <3>5, <3>6
  <2> QED
    BY <2>2, <2>3, <2>4 DEF EnsureHotkeys
<1> QED
  BY <1>1, <1>2, <1>3, WindowTypeCorrect, PTL DEF Spec, NeverArmedDeaf

-----------------------------------------------------------------------------
(* A run under way looks it.                                               *)

\* What a run can say of itself.
RunSignal == Abortable \cup Terminal \cup {"captured", "message"}
EndQueued == \E i \in 1 .. Len(queue) : queue[i] \in Terminal

\* While the end of a run is queued the window still shows the run as under way, and
\* offers neither Reset nor the text; the banner, which could show the end before
\* its signal, is gone since the run began.  So no next run begins before the signal
\* is delivered, and there is one such signal at most.
LooksInv ==
    /\ state \in Abortable => shown \in Abortable
    /\ EndQueued => state \in Terminal /\ shown \in Abortable
    /\ \A i \in 1 .. Len(queue) : queue[i] \in RunSignal
    /\ \A i, j \in 1 .. Len(queue) :
          queue[i] \in Terminal /\ queue[j] \in Terminal => i = j
    /\ blocked => state \notin Abortable /\ ~EndQueued

\* The kinds of states and signals.
LEMMA Kinds ==
    /\ Abortable \subseteq Active /\ Abortable \subseteq AppState
    /\ Terminal \subseteq AppState /\ Abortable \cap Terminal = {}
    /\ {"captured", "message"} \cap AppState = {}
    /\ "IDLE" \notin Abortable \cup Terminal
  BY DEF Abortable, Active, Terminal, AppState

\* A step that queues nothing keeps the invariant if it shows what it does.
LEMMA LooksDirect ==
    ASSUME LooksInv, UNCHANGED queue, ~EndQueued,
           state' \in Abortable => shown' \in Abortable,
           blocked' => state' \notin Abortable
    PROVE  LooksInv'
  BY DEF LooksInv, EndQueued

\* No step leaves a run under way looking over.
LEMMA LooksKept == TypeOK /\ LooksInv /\ [Next]_vars => LooksInv'
<1> SUFFICES ASSUME TypeOK, LooksInv, [Next]_vars PROVE LooksInv'
  OBVIOUS
<1>1. CASE UNCHANGED vars
  BY <1>1 DEF vars, LooksInv, EndQueued
<1>2. CASE MoveFocus \/ RefreshPreview \/ Outside \/ PressPause \/ PressAbort \/ PressHotkey \/ Close
  BY <1>2 DEF MoveFocus, RefreshPreview, Outside, PressPause, PressAbort, PressHotkey,
              Close, LooksInv, EndQueued
<1>3. CASE RefreshBanner
  <2>1. state \notin Abortable /\ ~EndQueued
    BY <1>3 DEF RefreshBanner, LooksInv
  <2> QED
    BY <1>3, <2>1, LooksDirect DEF RefreshBanner
<1>4. CASE EditText
  <2>1. state \notin Abortable /\ ~EndQueued
    BY <1>4, Kinds DEF EditText, Locked, LooksInv
  <2> QED
    BY <1>4, <2>1, LooksDirect DEF EditText, LooksInv
<1>5. CASE StartRefused \/ Start
  <2>1. ~EndQueued /\ shown' = state'
    BY <1>5, Kinds DEF StartRefused, Start, Direct, LooksInv
  <2>2. blocked' => state' \notin Abortable
    <3>1. CASE StartRefused
      <4>1. PICK s \in {"IDLE", "ERROR"} : state' = Via(state, "VALIDATING", s)
        BY <3>1 DEF StartRefused, Direct
      <4> QED
        BY <3>1, <4>1, StartMoves DEF StartRefused, Abortable
    <3>2. CASE Start
      BY <3>2 DEF Start, CanStart
    <3> QED
      BY <1>5, <3>1, <3>2
  <2>3. queue' = queue
    BY <1>5 DEF StartRefused, Start
  <2> QED
    BY <2>1, <2>2, <2>3, LooksDirect
<1>6. CASE DoPause \/ DoResume \/ DoAbort
  <2>1. CASE UNCHANGED <<state, shown>>
    BY <1>6, <2>1 DEF DoPause, DoResume, DoAbort, LooksInv, EndQueued
  <2>2. CASE ~UNCHANGED <<state, shown>>
    <3>1. state \in Abortable /\ shown' = state'
      BY <1>6, <2>2 DEF DoPause, DoResume, DoAbort, Direct, Abortable
    <3>2. ~EndQueued /\ ~blocked
      BY <3>1, Kinds DEF LooksInv
    <3> QED
      BY <1>6, <3>1, <3>2, LooksDirect DEF DoPause, DoResume, DoAbort
  <2> QED
    BY <2>1, <2>2
<1>7. CASE PressReset
  <2>1. ~EndQueued
    BY <1>7, Kinds DEF PressReset, CanReset, LooksInv
  <2>2. state' \in Abortable => shown' \in Abortable /\ ~blocked
    BY <1>7, Kinds DEF PressReset, Direct, LooksInv
  <2> QED
    BY <1>7, <2>1, <2>2, LooksDirect DEF PressReset
<1>8. CASE Deliver
  <2>1. Len(queue) \in Nat \ {0} /\ Head(queue) = queue[1]
    BY <1>8, EmptySeq, HeadTailProperties DEF Deliver, TypeOK
  <2>2. /\ queue' = Tail(queue)
        /\ \A i \in 1 .. Len(queue') :
              /\ i + 1 \in 1 .. Len(queue) /\ queue'[i] = queue[i + 1]
              /\ i + 1 # 1
    BY <1>8, <2>1, HeadTailProperties DEF Deliver, TypeOK
  <2>3. EndQueued' => EndQueued /\ Head(queue) \notin Terminal
    BY <2>1, <2>2 DEF EndQueued, LooksInv
  <2>4. shown' \in Abortable \/ UNCHANGED shown \/ Head(queue) \in Terminal
    <3>1. Head(queue) \in RunSignal
      BY <2>1 DEF LooksInv
    <3> QED
      BY <1>8, <3>1, Kinds DEF Deliver, RunSignal
  <2>5. Head(queue) \in Terminal => EndQueued
    BY <2>1 DEF EndQueued
  <2>6. /\ state' \in Abortable => shown' \in Abortable
        /\ EndQueued' => state' \in Terminal /\ shown' \in Abortable
        /\ blocked' => state' \notin Abortable /\ ~EndQueued'
    BY <1>8, <2>3, <2>4, <2>5, Kinds DEF Deliver, LooksInv
  <2>7. \A i \in 1 .. Len(queue') : queue'[i] \in RunSignal
    BY <2>2 DEF LooksInv
  <2>8. \A i, j \in 1 .. Len(queue') :
            queue'[i] \in Terminal /\ queue'[j] \in Terminal => i = j
    <3> SUFFICES ASSUME NEW i \in 1 .. Len(queue'), NEW j \in 1 .. Len(queue'),
                        queue'[i] \in Terminal, queue'[j] \in Terminal
                 PROVE  i = j
      OBVIOUS
    <3>1. i + 1 = j + 1
      BY <2>2 DEF LooksInv
    <3> QED
      BY <3>1
  <2> QED
    BY <2>6, <2>7, <2>8 DEF LooksInv, RunSignal
<1>9. CASE \E s \in AppState : Move(s)
  <2> PICK s \in AppState : Move(s)
    BY <1>9
  <2>1. state \in Abortable /\ state' = s /\ s \in Abortable \cup Terminal
    BY DEF Move, Elsewhere, Abortable, Terminal
  <2>2. ~EndQueued /\ shown' \in Abortable /\ ~blocked'
    BY <2>1, Kinds DEF LooksInv, Move
  <2> DEFINE new == Signals(s)
             n == Len(queue)
  <2>3. /\ new \in Seq(Signal) /\ Len(new) \in 1 .. 3
        /\ \A i \in 1 .. Len(new) : new[i] \in RunSignal
        /\ \A i \in 1 .. Len(new) : new[i] \in Terminal => i = 1 /\ s \in Terminal
    BY <2>1, SignalsType DEF Signals, RunSignal, Abortable, Terminal
  <2>4. n \in Nat /\ \A i \in 1 .. n : queue[i] \in RunSignal \ Terminal
    BY <2>2 DEF LooksInv, EndQueued, TypeOK
  <2>5. /\ Len(queue') = n + Len(new)
        /\ \A i \in 1 .. n + Len(new) :
              queue'[i] = IF i <= n THEN queue[i] ELSE new[i - n]
    BY <2>3, ConcatProperties DEF Move, TypeOK
  <2> HIDE DEF new, n
  <2>6. \A i \in 1 .. Len(queue') :
            /\ queue'[i] \in RunSignal
            /\ queue'[i] \in Terminal => i = n + 1 /\ s \in Terminal
    <3> SUFFICES ASSUME NEW i \in 1 .. Len(queue')
                 PROVE  /\ queue'[i] \in RunSignal
                        /\ queue'[i] \in Terminal => i = n + 1 /\ s \in Terminal
      OBVIOUS
    <3>1. CASE i <= n
      BY <2>3, <2>4, <2>5, <3>1
    <3>2. CASE ~(i <= n)
      <4>1. i - n \in 1 .. Len(new) /\ queue'[i] = new[i - n]
        BY <2>3, <2>4, <2>5, <3>2
      <4> QED
        BY <2>3, <2>4, <4>1
    <3> QED
      BY <3>1, <3>2
  <2> QED
    BY <2>1, <2>2, <2>6 DEF LooksInv, EndQueued
<1> QED
  BY <1>1, <1>2, <1>3, <1>4, <1>5, <1>6, <1>7, <1>8, <1>9 DEF Next

\* Whatever overtook what, a run under way offers Abort and locks the text, in
\* whatever order Qt delivers queued signals and clicks (overlay_window.py:1046).
THEOREM ActiveIsOffered == Spec => []ActiveLooksActive
<1>1. Init => LooksInv
  BY DEF Init, LooksInv, EndQueued, Abortable
<1>2. LooksInv => ActiveLooksActive
  BY DEF LooksInv, ActiveLooksActive, CanAbort, Locked, Abortable, Active
<1> QED
  BY <1>1, <1>2, LooksKept, WindowTypeCorrect, PTL DEF Spec

-----------------------------------------------------------------------------
(* A failure stays explained.                                              *)

\* Once all queued signals are delivered, ERROR is shown with its message: the two
\* are the last in the queue, or delivered already.  Shown as ERROR, the window
\* offers no button that would clear the message.
ExplainedInv ==
    state = "ERROR" =>
        /\ Len(queue) = 0 => shown = "ERROR" /\ message
        /\ Len(queue) = 1 => shown = "ERROR"
        /\ Len(queue) > 0 => queue[Len(queue)] = "message"
        /\ Len(queue) > 1 => queue[Len(queue) - 1] = "ERROR"

\* No step leaves a failure without its explanation.
LEMMA ExplainedKept ==
    ASSUME PostedFirst
    PROVE  TypeOK /\ ExplainedInv /\ [Next]_vars => ExplainedInv'
<1> SUFFICES ASSUME TypeOK, ExplainedInv, [Next]_vars, state' = "ERROR"
             PROVE  /\ Len(queue') = 0 => shown' = "ERROR" /\ message'
                    /\ Len(queue') = 1 => shown' = "ERROR"
                    /\ Len(queue') > 0 => queue'[Len(queue')] = "message"
                    /\ Len(queue') > 1 => queue'[Len(queue') - 1] = "ERROR"
  BY DEF ExplainedInv
<1>1. CASE UNCHANGED vars
  BY <1>1 DEF vars, ExplainedInv
<1>2. CASE MoveFocus \/ RefreshPreview \/ Outside \/ PressHotkey \/ Close
  BY <1>2 DEF MoveFocus, RefreshPreview, Outside, PressHotkey, Close, ExplainedInv
<1>3. CASE RefreshBanner \/ EditText
  BY <1>3 DEF RefreshBanner, EditText, ExplainedInv
<1>4. CASE StartRefused \/ Start
  <2>1. queue' = <<>> /\ shown' = state'
    BY <1>4 DEF StartRefused, Start, Ready, Direct
  <2>2. CASE StartRefused
    BY <2>1, <2>2, EmptySeq DEF StartRefused
  <2>3. CASE Start
    <3>1. ExpectedTarget = Nobody
      BY <2>3, StartMoves DEF Start, Direct
    <3>2. message'
      BY <2>3, <3>1 DEF Start
    <3> QED
      BY <2>1, <3>2, EmptySeq
  <2> QED
    BY <1>4, <2>2, <2>3
<1>5. CASE PressPause \/ PressAbort
  <2>1. queue = <<>> /\ state = "ERROR" /\ shown # "ERROR"
    BY <1>5 DEF PressPause, PressAbort, Ready, CanPause, CanAbort, Abortable
  <2> QED
    BY <2>1, EmptySeq DEF ExplainedInv
<1>6. CASE DoPause \/ DoResume \/ DoAbort
  BY <1>6 DEF DoPause, DoResume, DoAbort, Direct, ExplainedInv, Abortable
<1>7. CASE PressReset
  BY <1>7 DEF PressReset, Direct, Terminal
<1>8. CASE Deliver
  <2>1. state = "ERROR" /\ queue' = Tail(queue)
    BY <1>8 DEF Deliver
  <2>2. Len(queue) \in Nat \ {0} /\ Head(queue) = queue[1]
    BY <1>8, EmptySeq, HeadTailProperties DEF Deliver, TypeOK
  <2>3. Len(queue') = Len(queue) - 1
        /\ \A i \in 1 .. Len(queue') : queue'[i] = queue[i + 1]
    BY <1>8, <2>1, <2>2, HeadTailProperties DEF Deliver, TypeOK
  <2>4. "message" \notin AppState /\ "ERROR" \in AppState
    BY DEF AppState
  <2>5. CASE Len(queue) = 1
    <3>1. Head(queue) = "message" /\ shown = "ERROR"
      BY <2>1, <2>2, <2>5 DEF ExplainedInv
    <3>2. message'
      BY <1>8, <3>1 DEF Deliver
    <3>3. shown' = "ERROR"
      BY <1>8, <2>4, <3>1 DEF Deliver
    <3> QED
      BY <2>3, <2>5, <3>2, <3>3
  <2>6. CASE Len(queue) = 2
    <3>1. Head(queue) = "ERROR" /\ queue[2] = "message"
      BY <2>1, <2>2, <2>6 DEF ExplainedInv
    <3>2. shown' = "ERROR"
      BY <1>8, <2>4, <3>1 DEF Deliver
    <3> QED
      BY <2>3, <2>6, <3>1, <3>2
  <2>7. CASE Len(queue) > 2
    <3>1. queue[Len(queue)] = "message" /\ queue[Len(queue) - 1] = "ERROR"
      BY <2>1, <2>2, <2>7 DEF ExplainedInv
    <3>2. queue'[Len(queue')] = queue[Len(queue)]
      BY <2>2, <2>3, <2>7
    <3>3. queue'[Len(queue') - 1] = queue[Len(queue) - 1]
      BY <2>2, <2>3, <2>7
    <3> QED
      BY <2>2, <2>3, <2>7, <3>1, <3>2, <3>3
  <2>8. Len(queue) = 1 \/ Len(queue) = 2 \/ Len(queue) > 2
    <3> SUFFICES ASSUME NEW n \in Nat \ {0} PROVE n = 1 \/ n = 2 \/ n > 2
      BY <2>2
    <3> QED
      OBVIOUS
  <2> QED
    BY <2>5, <2>6, <2>7, <2>8
<1>9. CASE \E s \in AppState : Move(s)
  <2>1. Move("ERROR")
    BY <1>9 DEF Move
  <2> DEFINE failure == <<"ERROR", "message">>
  <2>2. queue' = queue \o failure
    BY <2>1 DEF Move, Signals
  <2>3. /\ failure \in Seq(Signal) /\ Len(failure) = 2
        /\ failure[1] = "ERROR" /\ failure[2] = "message"
    BY DEF Signal, AppState
  <2>4. queue \in Seq(Signal) /\ Len(queue) \in Nat
    BY DEF TypeOK
  <2> HIDE DEF failure
  <2>5. /\ Len(queue') = Len(queue) + 2
        /\ queue'[Len(queue) + 1] = failure[1]
        /\ queue'[Len(queue) + 2] = failure[2]
    <3>1. /\ Len(queue \o failure) = Len(queue) + Len(failure)
          /\ \A i \in 1 .. Len(queue) + Len(failure) :
                (queue \o failure)[i] = IF i <= Len(queue) THEN queue[i]
                                        ELSE failure[i - Len(queue)]
      BY <2>3, <2>4, ConcatProperties
    <3>2. /\ Len(queue') = Len(queue) + 2
          /\ \A i \in 1 .. Len(queue) + 2 :
                queue'[i] = IF i <= Len(queue) THEN queue[i] ELSE failure[i - Len(queue)]
      BY <2>2, <2>3, <3>1
    <3>3. (Len(queue) + 1) - Len(queue) = 1 /\ (Len(queue) + 2) - Len(queue) = 2
      BY <2>4
    <3> QED
      BY <2>4, <3>2, <3>3
  <2> QED
    BY <2>3, <2>4, <2>5
<1> QED
  BY <1>1, <1>2, <1>3, <1>4, <1>5, <1>6, <1>7, <1>8, <1>9 DEF Next

\* A run that ended in ERROR says why, for any number of signals under way, if Qt
\* delivers what is queued before it takes the next click.
THEOREM FailureStaysExplained ==
    ASSUME PostedFirst
    PROVE  Spec => []FailureIsExplained
<1>1. Init => ExplainedInv
  BY DEF Init, ExplainedInv
<1>2. TypeOK /\ ExplainedInv => FailureIsExplained
  BY EmptySeq DEF ExplainedInv, FailureIsExplained, Quiet
<1> QED
  BY <1>1, <1>2, ExplainedKept, WindowTypeCorrect, PTL DEF Spec
=============================================================================
