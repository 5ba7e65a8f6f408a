--------------------------- MODULE TrackingBackend ---------------------------
(***************************************************************************)
(* TrackingKeyboardBackend (backends/base.py): the list of keys the        *)
(* backend believes are held, next to the keys the operating system really *)
(* holds down.  Every operation below is one indivisible step of the       *)
(* Python code; the list is guarded by a lock, the calls that post key     *)
(* events are made outside it, which is why key_down and key_up are two    *)
(* steps each and release_all is a step per key.                           *)
(***************************************************************************)
EXTENDS Naturals, Sequences, SequencesExt

CONSTANT Key

VARIABLES
    pressed,   \* _pressed: the keys believed held, oldest first
    down,      \* the keys the operating system has down
    stuck,     \* the keys whose last release raised (the OS may hold them)
    forgotten  \* history: the keys pressed when the list no longer had them

backendVars == <<pressed, down, stuck, forgotten>>

BackendTypeOK ==
    /\ pressed \in Seq(Key)
    /\ down \subseteq Key
    /\ stuck \subseteq Key
    /\ forgotten \subseteq Key

BackendInit == pressed = <<>> /\ down = {} /\ stuck = {} /\ forgotten = {}

-----------------------------------------------------------------------------
\* key_down: the key is tracked under the lock ...
Track(k) ==
    /\ pressed' = Append(pressed, k)
    /\ UNCHANGED <<down, stuck, forgotten>>

\* ... and pressed outside it.  A press that raises may have gone through.  Another
\* thread's release_all may have emptied the list since.
Press(k, raises) ==
    /\ \/ down' = down \cup {k}
       \/ raises /\ down' = down
    /\ stuck' = stuck \ {k}
    /\ forgotten' = IF k \in ToSet(pressed) THEN forgotten \ {k} ELSE forgotten \cup {k}
    /\ UNCHANGED pressed

\* The release hook.  One that raises leaves the key as it was.
Release(k, raises) ==
    /\ IF raises
       THEN stuck' = stuck \cup (down \cap {k}) /\ UNCHANGED <<down, forgotten>>
       ELSE /\ down' = down \ {k}
            /\ stuck' = stuck \ {k} /\ forgotten' = forgotten \ {k}
    /\ UNCHANGED pressed

\* key_up's finally clause: forget one occurrence, whether or not it released.
Untrack(k) ==
    /\ \/ \E i \in 1..Len(pressed) :
            /\ pressed[i] = k
            /\ \A j \in 1..(i - 1) : pressed[j] # k
            /\ pressed' = RemoveAt(pressed, i)
       \/ (\A i \in 1..Len(pressed) : pressed[i] # k) /\ pressed' = pressed
    /\ UNCHANGED <<down, stuck, forgotten>>

\* release_all's locked part; the caller keeps the copy it then releases.
TakeAll ==
    /\ pressed' = <<>>
    /\ UNCHANGED <<down, stuck, forgotten>>
=============================================================================
