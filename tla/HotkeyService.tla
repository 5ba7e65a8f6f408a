---------------------------- MODULE HotkeyService ----------------------------
(***************************************************************************)
(* The global hotkeys (safety/hotkeys.py): NSEventHotkeyService on macOS,  *)
(* PynputHotkeyService elsewhere, and the gate by which the controller     *)
(* refuses to type without them (_ensure_hotkeys).                         *)
(*                                                                         *)
(* Outside src/: macOS installs an event monitor whatever the permission   *)
(* says and simply never calls it without; it may refuse or fail to        *)
(* install one; a pynput listener may fail to start, and may die.          *)
(***************************************************************************)
EXTENDS Naturals

CONSTANT MaxFaults  \* bound: monitors that starts which failed half way leave behind

ASSUME FaultAssumption == MaxFaults \in Nat

VARIABLES
    service,    \* which implementation this platform has
    allowed,    \* Accessibility is granted; off macOS unknown, which refuses nothing
    recorded,   \* _monitors, or {"global"} for a _listener
    installed,  \* how many monitors of each kind there are; for pynput,
                \* whether the listener runs
    forgotten   \* history: how many of them a failed start left behind

hotkeyVars == <<service, allowed, recorded, installed, forgotten>>

Platform == {"nsevent", "pynput"}
Kind == {"global", "local"}
Monitors == IF service = "nsevent" THEN Kind ELSE {"global"}

HotkeyInit ==
    /\ service \in Platform
    /\ allowed \in BOOLEAN /\ (service = "pynput" => allowed)
    /\ recorded = {} /\ installed = [k \in Kind |-> 0] /\ forgotten = [k \in Kind |-> 0]

IsActive == recorded # {} /\ (service = "pynput" => installed["global"] > 0)

\* A key press reaches a handler: in front of another application only with the
\* permission, in the overlay itself always.
Heard == (installed["global"] > 0 /\ allowed) \/ installed["local"] > 0

\* The gate of start(): the permission this implementation needs is not refused.
MayInstall == allowed

More(count, kinds) == [k \in Kind |-> IF k \in kinds THEN count[k] + 1 ELSE count[k]]

\* Mutant: one of two monitors is kept in mind.
StartRecordingOne ==
    /\ MayInstall /\ ~IsActive
    /\ recorded' = {"global"} /\ installed' = More(installed, Monitors)
    /\ UNCHANGED <<service, allowed, forgotten>>

\* start(): nothing if it was started before; else what works is recorded, and the
\* local monitor may be missing.
StartSucceeds ==
    \/ IsActive /\ UNCHANGED hotkeyVars
    \/ /\ ~IsActive /\ MayInstall
       /\ \E kinds \in {Monitors, {"global"}} :
             recorded' = kinds /\ installed' = More(installed, kinds)
       /\ UNCHANGED <<service, allowed, forgotten>>

\* start() raises: no permission, refused, not started in time.  A monitor that was
\* installed by then stays installed and is forgotten.
StartFails ==
    /\ ~IsActive
    /\ \/ UNCHANGED <<installed, forgotten>>
       \/ /\ MayInstall /\ service = "nsevent"
          /\ forgotten["global"] + forgotten["local"] < MaxFaults
          /\ \E k \in Kind :
                installed' = More(installed, {k}) /\ forgotten' = More(forgotten, {k})
    /\ UNCHANGED <<service, allowed, recorded>>

\* _ensure_hotkeys: a service that is active is kept.
EnsureHotkeys == IF IsActive THEN UNCHANGED hotkeyVars ELSE StartSucceeds

\* Mutant: removes what was never there.
StopTwice ==
    /\ installed' = [k \in Kind |-> IF k \in recorded THEN installed[k] - 1 ELSE installed[k]]
    /\ recorded' = {}
    /\ UNCHANGED <<service, allowed, forgotten>>

\* stop(): what is recorded is removed.
Stop ==
    /\ installed' = [k \in Kind |-> IF k \in recorded /\ installed[k] > 0
                                    THEN installed[k] - 1 ELSE installed[k]]
    /\ recorded' = {}
    /\ UNCHANGED <<service, allowed, forgotten>>

\* The user flips the switch.
FlipPermission ==
    /\ service = "nsevent" /\ allowed' = ~allowed
    /\ UNCHANGED <<service, recorded, installed, forgotten>>

ListenerDies ==
    /\ service = "pynput" /\ installed["global"] > 0
    /\ installed' = [installed EXCEPT !["global"] = 0]
    /\ UNCHANGED <<service, allowed, recorded, forgotten>>

HotkeyTypeOK ==
    /\ service \in Platform /\ allowed \in BOOLEAN
    /\ recorded \in {{}, Monitors, {"global"}}
    /\ installed \in [Kind -> Nat] /\ forgotten \in [Kind -> Nat]
=============================================================================
