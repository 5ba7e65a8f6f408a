----------------------------- MODULE RunLifecycle -----------------------------
(***************************************************************************)
(* What the user is promised of a run, with no thread, lock or request in  *)
(* sight: a run begins only when it was armed and nothing of an earlier    *)
(* one is left; it types while it is shown RUNNING, and past a pause, an   *)
(* abort or the end of the program only the event already under way; it is *)
(* shown COMPLETED only if every event was typed; a pause the user made    *)
(* ends only once the user asked for its end and no other application was  *)
(* found in front; an ended run is put away before the next.               *)
(* SafetyController implements it (ImplementsRunLifecycle).                *)
(***************************************************************************)
EXTENDS AppStates, Naturals

CONSTANT Lengths      \* the lengths a plan may have, in events

VARIABLES
    shown,    \* the state the interface shows
    job,      \* none, starting, live, or how it ended and is yet to be reported
    typed,    \* events the live job has typed ...
    length,   \* ... of so many
    slip,     \* events typed since the request that stops it was made
    own,      \* the pause is one the user made
    front,    \* no other application than the target is in front
    checked,  \* the user asked to resume and front held when it was looked at
    stop      \* the run is asked to end: aborted, or the program ends

vars == <<shown, job, typed, length, slip, own, front, checked, stop>>

Outcome == {"COMPLETED", "ABORTED", "FAILED"}
NoJob == job = "none" /\ typed = 0 /\ length = 0

Init ==
    /\ shown = "IDLE" /\ NoJob /\ slip = 0
    /\ own = FALSE /\ stop = FALSE /\ front \in BOOLEAN /\ checked = FALSE

\* The user turns to another application, or asking to resume comes to nothing.
Turn == UNCHANGED <<shown, job, typed, length, slip, own, stop>>

\* Start is pressed: the text is armed, or refused with or without an error.
Arm ==
    /\ shown = "IDLE" /\ shown' \in {"ARMING", "ERROR"}
    /\ UNCHANGED <<job, typed, length, slip, own, stop>>

\* The wait for the target is given up by the user or runs out.
Disarm ==
    /\ shown = "ARMING" /\ shown' \in {"ABORTED", "ERROR"}
    /\ UNCHANGED <<job, typed, length, slip, own, stop>>

Begin ==
    /\ shown = "ARMING" /\ NoJob
    /\ shown' = "RUNNING" /\ job' = "starting" /\ stop' = FALSE
    /\ UNCHANGED <<typed, length, slip, own>>

Launch ==
    /\ job = "starting"
    /\ job' = "live" /\ typed' = 0 /\ length' \in Lengths
    /\ UNCHANGED <<shown, slip, own, stop>>

Type ==
    /\ job = "live" /\ typed < length
    /\ typed' = typed + 1
    /\ IF shown = "RUNNING" /\ ~stop THEN UNCHANGED slip ELSE slip = 0 /\ slip' = 1
    /\ UNCHANGED <<shown, job, length, own, stop>>

Pause ==
    /\ shown = "RUNNING" /\ shown' = "PAUSED"
    /\ own' \in BOOLEAN
    /\ UNCHANGED <<job, typed, length, slip, stop>>

\* The user asks for the end of a pause.
AskToResume ==
    /\ shown = "PAUSED" /\ front
    /\ checked' = TRUE
    /\ UNCHANGED <<shown, job, typed, length, slip, own, front, stop>>

Resume ==
    /\ shown = "PAUSED" /\ shown' = "RUNNING"
    /\ own => checked
    /\ own' = FALSE /\ slip' = IF stop THEN slip ELSE 0
    /\ UNCHANGED <<job, typed, length, stop>>

Abort ==
    /\ shown \in {"RUNNING", "PAUSED"} /\ shown' = "ABORTED"
    /\ stop' = TRUE /\ own' = FALSE /\ slip' = 0
    /\ UNCHANGED <<job, typed, length>>

\* The program ends: nothing is shown of it.
Close ==
    /\ ~stop /\ stop' = TRUE
    /\ slip' = 0
    /\ UNCHANGED <<shown, job, typed, length, own>>

\* COMPLETED is the outcome of no job that left an event out, ABORTED of none
\* that nobody stopped.
End ==
    /\ job = "live" /\ job' \in Outcome
    /\ job' = "COMPLETED" => typed = length
    /\ job' = "ABORTED" => stop
    /\ slip' = 0
    /\ UNCHANGED <<shown, typed, length, own, stop>>

\* A completed run that was paused at its last event is left PAUSED.
Report ==
    /\ job \in Outcome
    /\ shown' = IF shown \notin Active THEN shown
                ELSE CASE job = "COMPLETED" -> IF shown = "RUNNING" THEN job ELSE shown
                       [] job = "ABORTED" -> "ABORTED"
                       [] job = "FAILED" -> "ERROR"
    /\ job' = "none" /\ typed' = 0 /\ length' = 0
    /\ own' = (own /\ shown' = "PAUSED")
    /\ UNCHANGED <<slip, stop>>

PutAway ==
    /\ shown \in Terminal /\ NoJob /\ shown' = "IDLE"
    /\ own' = FALSE
    /\ UNCHANGED <<job, typed, length, slip, stop>>

\* What was looked at counts for the pause it was looked at in, and once.
Next ==
    \/ AskToResume
    \/ /\ front' \in BOOLEAN
       /\ checked' \in BOOLEAN /\ (checked' => checked /\ shown' = shown)
       /\ \/ Turn \/ Arm \/ Disarm \/ Begin \/ Launch \/ Type \/ Pause \/ Resume
          \/ Abort \/ Close \/ End \/ Report \/ PutAway

Spec == Init /\ [][Next]_vars
=============================================================================
