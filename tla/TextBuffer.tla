------------------------------ MODULE TextBuffer ------------------------------
(***************************************************************************)
(* TextBuffer (simulation/text_buffer.py) in its strict mode, the one      *)
(* validate_plan uses.  Distinct characters have distinct keys             *)
(* (key_for_character), so a key that inserts text is its character.       *)
(***************************************************************************)
EXTENDS Integers, Sequences, SequencesExt

CONSTANTS Char, Backspace, Shift, Tab   \* what keys insert, and those that do not

ASSUME KeyAssumption == {Backspace, Shift, Tab} \cap Char = {}

Key == Char \cup {Backspace, Shift, Tab}

VARIABLES
    chars,      \* the text so far
    pressed,    \* keys down; strict mode keeps them distinct
    fault       \* an event raised PlanValidationError

bufferVars == <<chars, pressed, fault>>

BufferInit == chars = <<>> /\ pressed = {} /\ fault = FALSE

\* Mutant: a backspace deletes nothing.
InsertOnly(key) == IF key \in Char THEN Append(chars, key) ELSE chars

\* Backspace is a no-op on an empty buffer.
Typed(key) ==
    CASE key \in Char -> Append(chars, key)
      [] key = Backspace /\ chars # <<>> -> Front(chars)
      [] OTHER -> chars

Press(key) ==
    /\ IF key \in pressed THEN UNCHANGED <<chars, pressed>>
       ELSE pressed' = pressed \cup {key} /\ chars' = Typed(key)
    /\ fault' = (key \in pressed \/ key = Tab)

Release(key) ==
    /\ pressed' = pressed \ {key}
    /\ fault' = (key \notin pressed)
    /\ UNCHANGED chars
=============================================================================
