-------------------------- MODULE PermissionRestart --------------------------
(***************************************************************************)
(* Getting the macOS permissions: the overlay's permission banner polls    *)
(* them, asks macOS once, and restarts the application to pick up a grant  *)
(* or to be asked again (ui/overlay_window.py, safety/permissions.py and   *)
(* the controller's two restarts).  One run of the application follows     *)
(* another; the marker it hands on says why.  Between two runs the bundle  *)
(* may be built anew.  On macOS the hotkeys do not need Input Monitoring,  *)
(* so that permission is only reported.                                    *)
(*                                                                         *)
(* Outside src/: Accessibility is answered afresh, Post Events and Input   *)
(* Monitoring as they were when the process started; one switch grants     *)
(* Accessibility and Post Events, but an entry made for another build      *)
(* grants Accessibility only.                                              *)
(***************************************************************************)
EXTENDS Permissions, DevBundle, Sequences

VARIABLES
    bundled,        \* runs as a .app bundle, with grants of its own
    preflight,      \* macOS has the preflight calls
    access, listen, \* the user's switches in System Settings
    entry,          \* the signature the entry behind access was made for
    proc,           \* off, starting (no window yet), running, clearing entries,
                    \* closing, gone
    toClear,        \* the services tccutil is still to be run for
    startPost, startListen,     \* what macOS answers this process for good
    marker,         \* TYPING_SIMULATOR_RESTARTED of this run
    attempted,      \* _restart_attempted
    promptSpent,    \* _permission_prompt_spent
    prompted,       \* macOS showed this process's dialog
    launching,      \* _request_permission_on_launch is still due
    seenAccess,     \* Accessibility in _permission_status, the banner's reading
    polling,        \* the banner's timer runs
    pending,        \* _restart_pending
    banner, remedy, \* what the banner says, and what it says on hover
    successor,      \* the marker of the run scheduled
    autos           \* history: restarts by itself since the user last did
                    \* something or the permissions last worked

machine == <<bundled, preflight>>
settings == <<access, listen, entry>>
process == <<startPost, startListen>>
shown == <<seenAccess, polling, banner, remedy>>
overlay == <<attempted, promptSpent, prompted, launching, pending, shown>>
run == <<proc, toClear>>
vars == <<bundleVars, machine, settings, run, process, marker, overlay, successor, autos>>

Marker == {"none", "apply", "reset"}
None == Signature({Leftover}, <<>>)     \* no entry: no build is only a leftover
TCC_SERVICES == <<"Accessibility", "PostEvent", "ListenEvent">>

\* Post Events really granted: the entry is this build's, and its seal holds.
Post == access /\ (bundled => entry.files = sealed.files /\ contents = sealed.files)

Reading(accessible) ==
    [accessibility |-> Answered(accessible), postEvents |-> startPost,
     inputMonitoring |-> startListen]

\* permission_status read afresh, and as the banner last took it.
Now == Reading(access)
Seen == Reading(seenAccess)

\* can_reset_permissions: only a bundle has entries of its own.
CanResetPermissions == bundled

\* A new process, given its answers for good; the window is not up yet.
Starts(reason) ==
    /\ proc' = "starting" /\ toClear' = <<>> /\ marker' = reason
    /\ contents' = contents \cup Written
    /\ startPost' = Preflight(preflight, Post)
    /\ startListen' = Preflight(preflight, listen)
    /\ attempted' = FALSE /\ promptSpent' = FALSE /\ prompted' = FALSE
    /\ launching' = TRUE
    /\ seenAccess' = access /\ polling' = FALSE
    /\ pending' = FALSE /\ banner' = "hidden" /\ remedy' = "nothing about typing"
    /\ UNCHANGED <<env, source, sealed, stage, machine>>

Init ==
    /\ BundleInit /\ bundled \in BOOLEAN /\ preflight \in BOOLEAN
    /\ access \in {FALSE, ~bundled} /\ listen \in BOOLEAN /\ entry = None
    /\ proc = "off" /\ toClear = <<>> /\ startPost = "unknown" /\ startListen = "unknown"
    /\ marker = "none" /\ attempted = FALSE /\ promptSpent = FALSE
    /\ prompted = FALSE /\ launching = TRUE /\ seenAccess = FALSE /\ polling = FALSE
    /\ pending = FALSE /\ banner = "hidden" /\ remedy = "nothing about typing"
    /\ successor = "none" /\ autos = 0

-----------------------------------------------------------------------------
(* The user and macOS.                                                     *)

\* Switched on by hand, an entry is the one there is or a new one for this build.
FlipAccess ==
    /\ access' = ~access /\ autos' = 0
    /\ bundled /\ entry = None => sealed # Unsigned
    /\ entry' = IF bundled /\ entry = None THEN sealed ELSE entry
    /\ UNCHANGED <<bundleVars, machine, listen, run, process, marker, overlay, successor>>

FlipListen ==
    /\ listen' = ~listen /\ autos' = 0
    /\ UNCHANGED <<bundleVars, machine, access, entry, run, process, marker, overlay, successor>>

\* Answering a prompt records the build that is running.
RenewEntry ==
    /\ proc \in {"running", "clearing"} /\ prompted /\ bundled
    /\ entry # None /\ entry.files # sealed.files
    /\ entry' = sealed /\ autos' = 0
    /\ UNCHANGED <<bundleVars, machine, access, listen, run, process, marker, overlay, successor>>

\* The process ends, with everything it had in memory.
Quit ==
    /\ proc \in {"starting", "running", "clearing"}
    /\ proc' = "off" /\ toClear' = <<>> /\ marker' = "none" /\ autos' = 0
    /\ startPost' = "unknown" /\ startListen' = "unknown"
    /\ attempted' = FALSE /\ promptSpent' = FALSE /\ prompted' = FALSE
    /\ launching' = TRUE /\ seenAccess' = FALSE /\ polling' = FALSE
    /\ pending' = FALSE /\ banner' = "hidden" /\ remedy' = "nothing about typing"
    /\ UNCHANGED <<bundleVars, machine, settings, successor>>

Open ==
    /\ proc = "off" /\ (bundled => Startable)
    /\ Starts("none")
    /\ UNCHANGED <<settings, successor, autos>>

\* The developer builds while the application is not running.
Make ==
    /\ proc = "off" /\ bundled
    /\ Build \/ Develop
    /\ UNCHANGED <<machine, settings, run, process, marker, overlay, successor, autos>>

-----------------------------------------------------------------------------
(* The application.                                                        *)

\* Mutant: closes without handing the reason on.
RelaunchUnmarked(reason) ==
    \/ bundled /\ proc' = "closing" /\ pending' = TRUE /\ UNCHANGED successor
    \/ proc' = "running" /\ pending' = FALSE /\ UNCHANGED successor

\* Mutant: what was asked for counts as scheduled.
RelaunchHoped(reason) ==
    \/ bundled /\ proc' = "closing" /\ pending' = TRUE /\ successor' = reason
    \/ proc' = "running" /\ pending' = TRUE /\ UNCHANGED successor

\* relaunch() and, where it worked, closing the window: only a bundle can, and
\* it may fail.
Relaunch(reason) ==
    \/ bundled /\ proc' = "closing" /\ pending' = TRUE /\ successor' = reason
    \/ proc' = "running" /\ pending' = FALSE /\ UNCHANGED successor

\* Mutant: forgets why this run was started.
MarkerUnread == TRUE

\* Mutant: any restart of ours uses the allowance up.
MarkerNone == marker = "none"

\* was_restarted_to_apply_permission() is false.
MayRestartAgain == marker # "apply"

\* _refresh_permission_banner: a working permission releases the marker; a
\* grant this process cannot see restarts it by itself.  n is autos so far.
Refresh(n) ==
    /\ seenAccess' = access'
    /\ marker' = IF CanType(Now') = "denied" THEN marker ELSE "none"
    /\ IF NeedsRestartToApply(Now') /\ MayRestartAgain /\ ~attempted
       THEN attempted' = TRUE /\ Relaunch("apply")
       ELSE proc' = "running" /\ UNCHANGED <<attempted, pending, successor>>
    /\ banner' = PermissionMessage(Now', pending') /\ polling' = (banner' # "hidden")
    /\ remedy' = DescribePermissionRemedy(Now', bundled, pending')
    /\ autos' = IF CanType(Now') # "denied" THEN 0
                ELSE IF proc' = "closing" THEN n + 1 ELSE n

\* The window's constructor.
Construct ==
    /\ proc = "starting"
    /\ UNCHANGED <<bundleVars, machine, settings, process, toClear, promptSpent, prompted,
                   launching>>
    /\ Refresh(autos)

\* The timer, the button to check again and a refused Start all refresh.
Poll ==
    /\ proc = "running"
    /\ UNCHANGED <<bundleVars, machine, settings, process, toClear, promptSpent, prompted,
                   launching>>
    /\ Refresh(autos)

\* request_permission: Post Events has a request of its own.  On macOS Input
\* Monitoring, which the hotkeys do not need, is never asked for.
Requested(s) ==
    {"Accessibility"} \cup IF s.postEvents = "denied" THEN {"PostEvent"} ELSE {}

\* macOS shows a dialog for a service this process is denied, once.
Shows(requested) ==
    \/ "Accessibility" \in requested /\ ~access
    \/ "PostEvent" \in requested

\* The one request per process that macOS acts on.
AskMacOSOnce(n) ==
    /\ promptSpent' = TRUE /\ prompted' = Shows(Requested(Now))
    /\ Refresh(n)

\* Mutant: only the first run asks on its own.
RequestUnlessRestarted ==
    /\ proc = "running" /\ launching
    /\ UNCHANGED <<bundleVars, machine, settings, process, toClear>>
    /\ launching' = FALSE
    /\ IF CanType(Seen) = "denied" /\ marker = "none"
       THEN AskMacOSOnce(autos)
       ELSE UNCHANGED <<attempted, promptSpent, prompted, pending, shown, proc, marker,
                        successor, autos>>

RequestOnLaunch ==
    /\ proc = "running" /\ launching
    /\ UNCHANGED <<bundleVars, machine, settings, process, toClear>>
    /\ launching' = FALSE
    /\ IF CanType(Seen) = "denied"
       THEN AskMacOSOnce(autos)
       ELSE UNCHANGED <<attempted, promptSpent, prompted, pending, shown, proc, marker,
                        successor, autos>>

\* _restart: a restart that failed refreshes the banner.
Restart(reason) ==
    \/ /\ bundled /\ proc' = "closing" /\ pending' = TRUE /\ successor' = reason
       /\ autos' = 0
       /\ UNCHANGED <<marker, attempted, shown>>
    \/ Refresh(0)

\* The button, while the banner's own reading says restart.
PressToApply ==
    /\ proc = "running" /\ NeedsRestartToApply(Seen)
    /\ UNCHANGED <<bundleVars, machine, settings, process, toClear, promptSpent, prompted,
                   launching>>
    /\ Restart("apply")

\* The first press asks macOS.
PressToAsk ==
    /\ proc = "running" /\ ~NeedsRestartToApply(Seen) /\ ~promptSpent
    /\ polling
    /\ UNCHANGED <<bundleVars, machine, settings, process, toClear, launching>>
    /\ AskMacOSOnce(0)

\* The first half of restart_for_permission, from a fresh reading: while any
\* service reads as granted nothing is to be cleared, only a restart to do.  The
\* second press; run from source it only explains.
PressAgain ==
    /\ proc = "running" /\ ~NeedsRestartToApply(Seen) /\ promptSpent
    /\ polling /\ CanResetPermissions
    /\ UNCHANGED <<bundleVars, machine, settings, process, promptSpent, prompted, launching>>
    /\ IF AnyGranted(Now)
       THEN Restart("apply") /\ UNCHANGED toClear
       ELSE /\ proc' = "clearing" /\ toClear' = TCC_SERVICES /\ autos' = 0
            /\ UNCHANGED <<marker, attempted, pending, shown, successor>>

\* tccutil deletes this bundle's entry for one service, or fails, whatever the
\* user has switched on since the reading.  The interface waits for it.
ClearEntry ==
    /\ proc = "clearing" /\ toClear # <<>>
    /\ toClear' = Tail(toClear)
    /\ \/ /\ Head(toClear) = "Accessibility" /\ access' \in {access, FALSE}
          /\ entry' = (IF access' THEN entry ELSE None) /\ UNCHANGED listen
       \/ /\ Head(toClear) = "PostEvent" /\ entry' \in {entry, None}
          /\ UNCHANGED <<access, listen>>
       \/ /\ Head(toClear) = "ListenEvent" /\ listen' \in {listen, FALSE}
          /\ UNCHANGED <<access, entry>>
    /\ UNCHANGED <<bundleVars, machine, proc, process, marker, overlay, successor, autos>>

\* The second half: whatever was cleared, the application starts anew.
RestartCleared ==
    /\ proc = "clearing" /\ toClear = <<>>
    /\ UNCHANGED <<bundleVars, machine, settings, process, toClear, promptSpent, prompted,
                   launching>>
    /\ Restart("reset")

\* closeEvent, the shutdown and the end of the process.
Exit ==
    /\ proc = "closing"
    /\ proc' = "gone"
    /\ UNCHANGED <<bundleVars, machine, settings, process, toClear, marker, overlay, successor,
                   autos>>

\* open -n --env TYPING_SIMULATOR_RESTARTED=..., a second after it was scheduled.
Successor ==
    /\ proc = "gone"
    /\ UNCHANGED <<settings, autos>>
    /\ Starts(successor) /\ successor' = "none"

User == FlipAccess \/ FlipListen \/ RenewEntry \/ Quit \/ Open
        \/ PressToApply \/ PressToAsk \/ PressAgain

Next == User \/ Make \/ Construct \/ Poll \/ RequestOnLaunch \/ ClearEntry \/ RestartCleared
        \/ Exit \/ Successor

Spec == Init /\ [][Next]_vars

\* The timers run, tccutil ends or is given up (permissions.py:625); a window
\* closing closes; the shell left behind opens the application again.
FairSpec ==
    /\ Spec
    /\ WF_vars(Construct) /\ WF_vars(polling /\ Poll) /\ WF_vars(RequestOnLaunch)
    /\ WF_vars(ClearEntry) /\ WF_vars(RestartCleared)
    /\ WF_vars(Exit) /\ WF_vars(Successor)

-----------------------------------------------------------------------------
(* Correctness.                                                            *)

TypeOK ==
    /\ {bundled, preflight, access, listen, pending} \subseteq BOOLEAN
    /\ {attempted, promptSpent, prompted, launching, seenAccess, polling} \subseteq BOOLEAN
    /\ Now \in Status /\ Seen \in Status
    /\ proc \in {"off", "starting", "running", "clearing", "closing", "gone"}
    /\ toClear \in {<<>>} \cup {SubSeq(TCC_SERVICES, n, 3) : n \in 1..3}
    /\ proc # "clearing" => toClear = <<>>
    /\ marker \in Marker /\ successor \in Marker
    /\ proc \in {"closing", "gone"} <=> successor # "none"
    /\ autos \in Nat

\* The application never restarts by itself twice in a row: a restart that
\* changed nothing is not repeated, across runs, until the user acts or the
\* permissions work ("a restart loop in front of someone who can see it").
NoRestartLoop == autos <= 1

\* "Announcing a restart that never comes is how a granted permission ends up
\* looking like a broken application" (overlay_window.py:732): the banner and
\* its explanation speak of a restart only when one is scheduled.
NoEmptyPromise ==
    banner = "restarting" \/ remedy = "sit tight" => proc \in {"closing", "gone"}

\* "The permission granted to it survives every edit" (dev_bundle.py:16): two
\* bundles built with one interpreter, in one place, on one virtualenv are one to
\* macOS, whatever was edited, left over, half removed, given up or run in
\* between; and a bundle that runs is what was signed.
RebuildKeepsGrant ==
    /\ sealed # Unsigned /\ entry.with = sealed.with => entry.files = sealed.files
    /\ bundled /\ proc # "off" => contents = sealed.files

\* A grant this run cannot see is picked up without the user's help, after a
\* restart to be asked again as well, unless the restart is not possible.
GrantIsPickedUp ==
    proc = "running" /\ Post /\ startPost = "denied" /\ marker # "apply" /\ ~attempted ~>
        CanType(Now) # "denied" \/ ~Post \/ proc = "off" \/ (attempted /\ proc = "running")

\* "What turns 'the button does nothing' into a prompt on screen"
\* (controller.py:479): the press that clears ends in a run that asks macOS on its
\* own, over all the steps between, unless the user switches access on, quits, or
\* the restart fails and the run that has asked before stays.
ClearingLeadsToAPrompt ==
    proc = "clearing" ~> access \/ proc = "off" \/ (proc = "running" /\ promptSpent)
=============================================================================
