------------------------- MODULE MCSafetyController -------------------------
(***************************************************************************)
(* A small instance: an editor and another application, one or two plans,  *)
(* threads enough for one run to begin while another is on its way out.    *)
(***************************************************************************)
EXTENDS SafetyController, TLC

CONSTANTS editor, mail, p1, p2, c1, c2, t1, t2, m1, m2, w1, w2

Symmetric == Permutations(Watcher) \cup Permutations(Monitor) \cup Permutations(Worker)
=============================================================================
