---------------------------- MODULE OverlayWindow ----------------------------
(***************************************************************************)
(* The window (ui/overlay_window.py) in front of the controller, its       *)
(* signals (ui/worker.py) and the hotkeys.  The controller is reduced to   *)
(* its state and the moves its calls make (safety/controller.py, modelled  *)
(* in SafetyController).  A signal emitted by another thread is queued; one*)
(* emitted by the interface thread, out of a button's own handler, is      *)
(* delivered at once.  A handler may wait for the controller's lock, which *)
(* is when other threads come first: those that can are two steps.         *)
(*                                                                         *)
(* A move of the state and its signal are one step: they happen under the  *)
(* controller's lock, except when waiting for focus fails.  Layout,        *)
(* wording, estimates and progress are left out; restarts for a permission *)
(* are PermissionRestart's.                                                *)
(***************************************************************************)
EXTENDS AppStates, HotkeyService, Sequences

CONSTANTS
    App,            \* the applications in front
    Unknown, Self,  \* in front: nobody knows who, the overlay
    PostedFirst,    \* Qt delivers queued signals before it takes the next click
    MaxQueued       \* bound: signals queued at once

ASSUME FrontAssumption == {Unknown, Self} \cap App = {}
ASSUME QueueAssumption == PostedFirst \in BOOLEAN /\ MaxQueued \in Nat

VARIABLES
    state,          \* the controller's state
    lastExternal,   \* the controller's _last_external
    front,          \* environment: the frontmost application
    holding,        \* environment: the overlay holds the keyboard
    label,          \* what the target label says
    backendError,   \* no keyboard backend could be built: keys are only recorded
    textValid,      \* _text_is_valid
    blocked,        \* the banner's last reading refuses Start
    shown,          \* the state last applied to the widgets
    message,        \* the error label shows an error or a warning
    queue,          \* signals waiting for the interface thread
    main            \* where the interface thread is

environment == <<front, holding, backendError>>
preview == <<lastExternal, label>>
vars == <<state, preview, environment, textValid, blocked, shown, message, queue,
          main, hotkeyVars>>

Nobody == "nobody"
Signal == AppState \cup {"captured", "message"}

\* Off macOS UnavailableFocusGuard knows nothing, and so no run ever begins.
FrontCanBe(f, h) ==
    /\ f \in App \cup {Unknown, Self} /\ h \in BOOLEAN
    /\ service = "pynput" => f = Unknown /\ ~h

Init ==
    /\ state = "IDLE" /\ shown = "IDLE"
    /\ lastExternal = Nobody /\ label = Nobody
    /\ HotkeyInit /\ FrontCanBe(front, holding)
    /\ backendError \in BOOLEAN
    /\ textValid = FALSE /\ message = backendError /\ blocked = ~allowed
    /\ queue = <<>> /\ main = "idle"

-----------------------------------------------------------------------------
(* What _apply_state makes of the state it is given.                       *)

Abortable == {"ARMING", "ARMED", "RUNNING", "PAUSED"}
CanStart == shown = "IDLE" /\ textValid /\ ~blocked /\ ~backendError
CanPause == shown \in {"RUNNING", "PAUSED"}
CanAbort == shown \in Abortable
CanReset == shown \in Terminal
Locked == shown \in Active

\* Mutant: the slot takes the old state for the new one.
DirectOld(s) == state' = s /\ shown' = state

\* A signal of the interface thread itself reaches its slot at once.
Direct(s) == state' = s /\ shown' = s

\* Qt takes the next event of the user.
Ready == main = "idle" /\ (PostedFirst => queue = <<>>)

-----------------------------------------------------------------------------
(* The environment and the timers.                                         *)

MoveFocus ==
    /\ \E f \in App \cup {Unknown, Self}, h \in BOOLEAN :
        /\ FrontCanBe(f, h) /\ <<f, h>> # <<front, holding>>
        /\ front' = f /\ holding' = h
    /\ UNCHANGED <<state, preview, backendError, textValid, blocked, shown, message, queue, main,
                   hotkeyVars>>

Outside ==
    /\ FlipPermission \/ ListenerDies
    /\ UNCHANGED <<state, preview, environment, textValid, blocked, shown, message,
                   queue, main>>

\* frontmost_is_self: by identity, or because the overlay has the key window.
FrontIsSelf == front = Self \/ holding

\* _refresh_target_preview; asking for the frontmost application records it.
Previewed ==
    /\ lastExternal' = IF front \in App THEN front ELSE lastExternal
    /\ label' = IF front = Unknown THEN Unknown
                ELSE IF FrontIsSelf THEN Self ELSE front

RefreshPreview ==
    /\ main = "idle" /\ state = "IDLE"
    /\ Previewed
    /\ UNCHANGED <<state, environment, textValid, blocked, shown, message, queue,
                   main, hotkeyVars>>

\* _refresh_permission_banner, by its timer or its button, while it shows.
RefreshBanner ==
    /\ main = "idle" /\ blocked
    /\ blocked' = ~allowed
    /\ shown' = state
    /\ UNCHANGED <<state, preview, environment, textValid, message, queue, main,
                   hotkeyVars>>

-----------------------------------------------------------------------------
(* The user at the window.                                                 *)

EditText ==
    /\ Ready /\ ~Locked
    /\ textValid' \in BOOLEAN
    /\ shown' = state
    /\ UNCHANGED <<state, preview, environment, blocked, message, queue, main,
                   hotkeyVars>>

ExpectedTarget ==
    IF lastExternal # Nobody THEN lastExternal
    ELSE IF front \in App THEN front ELSE Nobody

\* Mutant: the error label is cleared last.
StartRefusedCleared ==
    /\ Ready /\ CanStart /\ state = "IDLE"
    /\ \E s \in {"IDLE", "ERROR"} : Direct(Via(state, "VALIDATING", s))
    /\ StartFails
    /\ message' = FALSE /\ blocked' = ~allowed
    /\ UNCHANGED <<preview, environment, textValid, queue, main>>

\* start_typing, refused by prepare: the text or the settings (back to IDLE), a
\* permission or the hotkeys (ERROR).  The banner is read again.
StartRefused ==
    /\ Ready /\ CanStart /\ state = "IDLE"
    /\ \E s \in {"IDLE", "ERROR"} : Direct(Via(state, "VALIDATING", s))
    /\ \/ UNCHANGED hotkeyVars
       \/ allowed /\ shown' = "ERROR" /\ StartFails
    /\ message' = TRUE /\ blocked' = ~allowed
    /\ UNCHANGED <<preview, environment, textValid, queue, main>>

\* Mutant: the hotkeys' own gate is thought to be enough.
StartUngated ==
    /\ Ready /\ CanStart /\ state = "IDLE"
    /\ EnsureHotkeys
    /\ Direct(IF ExpectedTarget = Nobody
              THEN After(Via(state, "VALIDATING", "ARMING"), "ERROR")
              ELSE Via(state, "VALIDATING", "ARMING"))
    /\ message' = (ExpectedTarget = Nobody)
    /\ UNCHANGED <<preview, environment, textValid, blocked, queue, main>>

\* ... and accepted.  _require_accessibility asks before the hotkeys, which an
\* active service would not; begin_typing fails without a target.
Start ==
    /\ Ready /\ CanStart /\ state = "IDLE"
    /\ allowed
    /\ EnsureHotkeys
    /\ Direct(IF ExpectedTarget = Nobody
              THEN After(Via(state, "VALIDATING", "ARMING"), "ERROR")
              ELSE Via(state, "VALIDATING", "ARMING"))
    /\ message' = (ExpectedTarget = Nobody)
    /\ UNCHANGED <<preview, environment, textValid, blocked, queue, main>>

\* The handlers that may find a lock taken.  The buttons clear the message.
PressPause ==
    /\ Ready /\ CanPause
    /\ message' = FALSE
    /\ main' = IF state = "PAUSED" THEN "resume" ELSE "pause"
    /\ UNCHANGED <<state, preview, environment, textValid, blocked, shown, queue,
                   hotkeyVars>>

PressAbort ==
    /\ Ready /\ CanAbort
    /\ message' = FALSE /\ main' = "abort"
    /\ UNCHANGED <<state, preview, environment, textValid, blocked, shown, queue,
                   hotkeyVars>>

\* NSEvent handlers run on the interface thread.  What a second monitor of the kind
\* makes of the same press counts as another press.
PressHotkey ==
    /\ Ready /\ service = "nsevent" /\ Heard
    /\ \/ main' = "abort"
       \/ state = "RUNNING" /\ main' = "pause"
       \/ state = "PAUSED" /\ main' = "resume"
    /\ UNCHANGED <<state, preview, environment, textValid, blocked, shown, message,
                   queue, hotkeyVars>>

\* pause(): warns with the reason; already paused nothing, else refused.
DoPause ==
    /\ main = "pause" /\ main' = "idle"
    /\ IF state = "RUNNING" THEN Direct("PAUSED") ELSE UNCHANGED <<state, shown>>
    /\ message' = (state # "PAUSED" \/ message)
    /\ UNCHANGED <<preview, environment, textValid, blocked, queue, hotkeyVars>>

\* resume(): refused, or RUNNING, perhaps with a warning about the cursor.
DoResume ==
    /\ main = "resume" /\ main' = "idle"
    /\ \/ state = "PAUSED" /\ Direct("RUNNING") /\ message' \in BOOLEAN
       \/ message' = TRUE /\ UNCHANGED <<state, shown>>
    /\ UNCHANGED <<preview, environment, textValid, blocked, queue, hotkeyVars>>

DoAbort ==
    /\ main = "abort" /\ main' = "idle"
    /\ IF state \in Abortable THEN Direct("ABORTED") ELSE UNCHANGED <<state, shown>>
    /\ UNCHANGED <<preview, environment, textValid, blocked, message, queue, hotkeyVars>>

\* _on_reset looks at the target again.
PressReset ==
    /\ Ready /\ CanReset
    /\ IF state \in Terminal
       THEN Direct("IDLE") /\ message' = FALSE /\ Previewed
       ELSE message' = TRUE /\ UNCHANGED <<state, shown, preview>>
    /\ UNCHANGED <<environment, textValid, blocked, queue, main, hotkeyVars>>

\* closeEvent, once: timers stop, shutdown() stops the hotkeys.
Close ==
    /\ Ready
    /\ main' = "closed"
    /\ Stop
    /\ UNCHANGED <<state, preview, environment, textValid, blocked, shown, message, queue>>

-----------------------------------------------------------------------------
(* Other threads and their signals.                                        *)

\* Moves of the focus-wait thread, the focus monitor and the worker; a hotkey that
\* pynput's listener thread delivers finds no run to stop (FrontCanBe).
Elsewhere(s) ==
    \/ state = "ARMING"  /\ s \in {"RUNNING", "ERROR"}
    \/ state = "RUNNING" /\ s \in {"PAUSED", "COMPLETED", "ERROR"}
    \/ state = "PAUSED"  /\ s \in {"RUNNING", "ERROR"}

\* _fail and an automatic pause announce the state first, then the message.
Signals(s) ==
    CASE s = "RUNNING" /\ state = "ARMING" -> <<"ARMED", "captured", "RUNNING">>
      [] s \in {"PAUSED", "ERROR"}         -> <<s, "message">>
      [] OTHER                             -> <<s>>

Move(s) ==
    /\ Elsewhere(s)
    /\ Len(queue) + Len(Signals(s)) <= MaxQueued
    /\ state' = s
    /\ queue' = queue \o Signals(s)
    /\ UNCHANGED <<preview, environment, textValid, blocked, shown, message, main,
                   hotkeyVars>>

\* Mutant: the end of a run is left to runFinished.
DeliverWhileActive ==
    /\ main = "idle" /\ queue # <<>>
    /\ queue' = Tail(queue)
    /\ shown' = IF Head(queue) \in Active THEN Head(queue) ELSE shown
    /\ message' = (Head(queue) = "message" \/ (message /\ Head(queue) # "RUNNING"))
    /\ label' = IF Head(queue) = "captured" THEN "typing" ELSE label
    /\ UNCHANGED <<state, lastExternal, environment, textValid, blocked, main, hotkeyVars>>

\* _on_state_changed clears a message that running makes stale.
Deliver ==
    /\ main = "idle" /\ queue # <<>>
    /\ queue' = Tail(queue)
    /\ shown' = IF Head(queue) \in AppState THEN Head(queue) ELSE shown
    /\ message' = (Head(queue) = "message" \/ (message /\ Head(queue) # "RUNNING"))
    /\ label' = IF Head(queue) = "captured" THEN "typing" ELSE label
    /\ UNCHANGED <<state, lastExternal, environment, textValid, blocked, main, hotkeyVars>>

-----------------------------------------------------------------------------
Next ==
    \/ MoveFocus \/ Outside \/ RefreshPreview \/ RefreshBanner
    \/ EditText \/ StartRefused \/ Start
    \/ PressPause \/ PressAbort \/ PressHotkey \/ PressReset \/ Close
    \/ DoPause \/ DoResume \/ DoAbort \/ Deliver
    \/ \E s \in AppState : Move(s)

Spec == Init /\ [][Next]_vars

\* The event loop runs, and a handler gets the lock it waits for.
FairSpec ==
    Spec /\ WF_vars(Deliver) /\ WF_vars(DoPause \/ DoResume \/ DoAbort)

-----------------------------------------------------------------------------
(* Correctness.                                                            *)

TypeOK ==
    /\ {state, shown} \subseteq AppState
    /\ lastExternal \in App \cup {Nobody}
    /\ label \in App \cup {Nobody, Unknown, Self, "typing"}
    /\ front \in App \cup {Unknown, Self}
    /\ {holding, backendError, textValid, blocked, message} \subseteq BOOLEAN
    /\ queue \in Seq(Signal) /\ Len(queue) <= MaxQueued
    /\ main \in {"idle", "pause", "resume", "abort", "closed"}
    /\ HotkeyTypeOK

Quiet == queue = <<>> /\ main = "idle"

\* Whatever overtook what, a run under way never looks over: Abort is offered,
\* and the text and the settings are locked, once no signal is left.
ActiveLooksActive == Quiet /\ state \in Abortable => CanAbort /\ Locked

\* A run that ended in ERROR says why: no late signal and no button that found
\* nothing to do leaves the message cleared.
FailureIsExplained == Quiet /\ state = "ERROR" => message

\* No run is armed unless the abort hotkey is installed and really heard, however
\* the permission was flipped since the run before, nor while the keys would only
\* be recorded.
NeverArmedDeaf ==
    [][state = "IDLE" /\ state' = "ARMING" =>
          IsActive' /\ installed'["global"] > 0 /\ allowed' /\ ~backendError]_vars

\* No monitor is installed that the service does not know, but for those a start
\* that failed half way left behind: whatever starts, failures, permissions and the
\* shutdown come in between, without such a failure one press is handled once (a
\* pause handled twice is a pause and a resume), and stop() leaves nothing behind.
MonitorsAreRecorded ==
    \A k \in Kind : installed[k] <= forgotten[k] + (IF k \in recorded THEN 1 ELSE 0)

\* The end of a run by another thread is shown.
EndIsShown ==
    \A s \in {"COMPLETED", "ERROR"} :
        state = s ~> shown = s \/ state # s \/ main = "closed"

-----------------------------------------------------------------------------
(* What the documentation says and the code does not do.                   *)

\* worker.py:5-6: signals are queued "because the emitting thread differs from
\* the receiving one", so they arrive in the order of the moves they report and
\* the window ends up showing the state there is.
ShownIsCurrent == Quiet => shown = state
=============================================================================
