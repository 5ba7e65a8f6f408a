----------------------------- MODULE Permissions -----------------------------
(***************************************************************************)
(* What follows from one reading of the macOS permissions                  *)
(* (safety/permissions.py, and the banner's headline in                    *)
(* ui/overlay_window.py).  A probe answers granted, denied or unknown:     *)
(* True, False or None.                                                    *)
(***************************************************************************)

Answer == {"granted", "denied", "unknown"}
Status == [accessibility : Answer, postEvents : Answer, inputMonitoring : Answer]

Answered(yes) == IF yes THEN "granted" ELSE "denied"

\* _quartz_preflight: an older macOS has no such call, and that is no denial.
Preflight(exists, yes) == IF exists THEN Answered(yes) ELSE "unknown"

CanType(s) ==
    CASE "denied" \in {s.accessibility, s.postEvents} -> "denied"
      [] {s.accessibility, s.postEvents} = {"unknown"} -> "unknown"
      [] OTHER -> "granted"

NeedsRestartToApply(s) == s.accessibility = "granted" /\ s.postEvents = "denied"

StaleGrantSuspected(s) ==
    "unknown" \notin {s.accessibility, s.postEvents} /\ s.accessibility # s.postEvents

AnyGranted(s) == "granted" \in {s.accessibility, s.postEvents, s.inputMonitoring}

\* The one line of the banner; hidden when there is nothing to warn about.
PermissionMessage(s, restartPending) ==
    IF NeedsRestartToApply(s)
    THEN IF restartPending THEN "restarting" ELSE "press to restart"
    ELSE CASE CanType(s) # "denied" -> "hidden"
           [] CanType(s) = "denied" /\ StaleGrantSuspected(s) -> "press to clear"
           [] CanType(s) = "denied" /\ ~StaleGrantSuspected(s) -> "press to grant"

\* What to do, on hover and in the refusal of a run.
DescribePermissionRemedy(s, bundled, restartPending) ==
    CASE NeedsRestartToApply(s) /\ restartPending -> "sit tight"
      [] NeedsRestartToApply(s) /\ ~restartPending -> "press or reopen"
      [] ~NeedsRestartToApply(s) /\ StaleGrantSuspected(s) -> "press to clear"
      [] ~StaleGrantSuspected(s) /\ CanType(s) = "denied" ->
            IF bundled THEN "enable it" ELSE "build a bundle"
      [] OTHER -> "nothing about typing"
=============================================================================
