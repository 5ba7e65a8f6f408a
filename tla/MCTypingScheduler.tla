-------------------------- MODULE MCTypingScheduler --------------------------
(***************************************************************************)
(* A small instance: two thread identities for runs (an old worker on its  *)
(* way out beside the new one), up to two calling threads (the interface   *)
(* and the focus monitor), and a plan that presses a key, waits and        *)
(* releases it, or plans that overlap two keys.                            *)
(***************************************************************************)
EXTENDS TypingScheduler, TLC

CONSTANTS a, bs, w1, w2, c1, c2

KeyDown(k) == [kind |-> "down", key |-> k]
KeyUp(k) == [kind |-> "up", key |-> k]
Delay(n) == [kind |-> "delay", ticks |-> n]

OneKeyPlan == {<<KeyDown(a), KeyUp(a)>>}
DelayPlan == {<<KeyDown(bs), Delay(1), KeyUp(bs)>>}



Symmetric == Permutations(Worker) \cup Permutations(Caller)
=============================================================================
