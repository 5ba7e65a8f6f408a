------------------------------ MODULE AppStates ------------------------------
(***************************************************************************)
(* The application states and the table of explicitly permitted moves      *)
(* (domain/state.py).  VALIDATING is entered and left within one call that *)
(* holds the controller's lock, so no other thread ever acts on it; moves  *)
(* through it are composed by Via.                                         *)
(***************************************************************************)
AppState == {"IDLE", "VALIDATING", "ARMING", "ARMED", "RUNNING", "PAUSED",
             "COMPLETED", "ABORTED", "ERROR"}
Active == {"VALIDATING", "ARMING", "ARMED", "RUNNING", "PAUSED"}
Terminal == {"COMPLETED", "ABORTED", "ERROR"}

Allowed ==
    [s \in AppState |->
        CASE s = "IDLE"       -> {"VALIDATING"}
          [] s = "VALIDATING" -> {"ARMING", "IDLE", "ERROR"}
          [] s = "ARMING"     -> {"ARMED", "ABORTED", "ERROR"}
          [] s = "ARMED"      -> {"RUNNING", "ABORTED", "ERROR"}
          [] s = "RUNNING"    -> {"PAUSED", "COMPLETED", "ABORTED", "ERROR"}
          [] s = "PAUSED"     -> {"RUNNING", "ABORTED", "ERROR"}
          [] OTHER            -> {"IDLE"}]

\* transition_to: a move outside the table raises and changes nothing.
After(s, to) == IF to \in Allowed[s] THEN to ELSE s
Via(s, middle, to) == After(After(s, middle), to)
=============================================================================
