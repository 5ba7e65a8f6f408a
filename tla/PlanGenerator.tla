---------------------------- MODULE PlanGenerator ----------------------------
(***************************************************************************)
(* ProbabilisticBehaviorGenerator walks the text and emits a plan whose    *)
(* mistakes are followed by their correction (behavior/probabilistic.py);  *)
(* validate_plan replays the plan through the shadow buffer and is the gate *)
(* it must pass (simulation/text_buffer.py).  The dice are choices; a      *)
(* delay is an event without its length.                                   *)
(***************************************************************************)
EXTENDS TextBuffer, KeyboardMap

CONSTANTS
    Symbol,         \* what a text may hold, whether it can be typed or not
    Asks,           \* texts with settings, as callers hand them to generate
    WpmMin, WpmMax, TypoRateMax,    \* the rate in tenths of a percent
    Cooldown,       \* TYPO_COOLDOWN_CHARACTERS
    Given           \* texts with event sequences another generator delivers

ASSUME CharAssumption == Char = Supported /\ Char \subseteq Symbol
Settings == [wpm : Int, typoRate : Int, corrections : BOOLEAN, maxLength : Int]
Event == [kind : {"delay"}] \cup [kind : {"down", "up"}, key : Key]

ASSUME AskAssumption ==
    \A ask \in Asks : ask.text \in Seq(Symbol) /\ ask.settings \in Settings
ASSUME GivenAssumption ==
    \A g \in Given : /\ g.text \in Seq(Symbol) /\ g.settings \in Settings
                     /\ g.events \in Seq(Event)
ASSUME CooldownAssumption == Cooldown \in Nat

VARIABLES
    origin,         \* whose plan it is: built here, or given by another
    phase,          \* ask, then refused or build, replay, verified or rejected
    settings,       \* the settings asked with
    text,           \* _text, and the plan's expected_final_text
    index,          \* characters of text planned
    lastTypoEnd,    \* _last_typo_end
    events,         \* the plan so far
    pos             \* events replayed

vars ==
    <<bufferVars, origin, phase, settings, text, index, lastTypoEnd, events, pos>>

Delay == [kind |-> "delay"]
Down(k) == [kind |-> "down", key |-> k]
Up(k) == [kind |-> "up", key |-> k]

Ask ==
    /\ origin = "built" /\ phase = "ask"
    /\ \E ask \in Asks : text = ask.text /\ settings = ask.settings
    /\ index = 0 /\ lastTypoEnd = -(Cooldown + 1)
    /\ events = <<>>

\* BehaviorGenerator is a protocol, and its plans pass the same gate.
Take ==
    /\ origin = "given" /\ phase = "replay"
    /\ \E g \in Given : text = g.text /\ events = g.events /\ settings = g.settings
    /\ index = Len(text) /\ lastTypoEnd = 0

Init == BufferInit /\ pos = 0 /\ (Ask \/ Take)

-----------------------------------------------------------------------------
(* generate: the settings and the text are refused or planned as they are. *)

ValidSettings(s) ==
    s.wpm \in WpmMin .. WpmMax /\ s.typoRate \in 0 .. TypoRateMax /\ s.maxLength > 0

Accepts(t, s) ==
    /\ ValidSettings(s)
    /\ ~Blank(t) /\ Len(t) <= s.maxLength
    /\ FindUnsupported(t) = {}

Refuse ==
    /\ phase = "ask" /\ ~Accepts(NormalizeLineEndings(text), settings)
    /\ phase' = "refused"
    /\ UNCHANGED <<bufferVars, origin, settings, text, index, lastTypoEnd, events, pos>>

Generate ==
    /\ phase = "ask" /\ Accepts(NormalizeLineEndings(text), settings)
    /\ phase' = "build" /\ text' = NormalizeLineEndings(text)
    /\ UNCHANGED <<bufferVars, origin, settings, index, lastTypoEnd, events, pos>>

-----------------------------------------------------------------------------
(* Building the plan.  Indices count from zero as in the code.             *)

Here(i) == text[i + 1]
Exists(i) == i \in 0 .. Len(text) - 1
IsLetter(i) == Exists(i) /\ Here(i) \in Letters
IsNewline(i) == Exists(i) /\ Here(i) = Newline

Strike(c) == <<Delay, Down(c), Up(c)>>

\* Mutant: one backspace whatever the mistake.
CorrectionOfOne(n) == <<Delay>> \o Strike(Backspace) \o <<Delay>>

Correction(n) ==
    LET deletes == [i \in 1 .. 3 * n |-> Strike(Backspace)[1 + ((i - 1) % 3)]]
    IN  <<Delay>> \o deletes \o <<Delay>>

\* _is_typo_eligible, and the cooldown since the last mistake.
MayErr ==
    /\ settings.corrections /\ settings.typoRate > 0
    /\ index - lastTypoEnd >= Cooldown
    /\ IsLetter(index) /\ ~IsNewline(index - 1) /\ ~IsNewline(index + 1)

CanTranspose ==
    /\ IsLetter(index + 1) /\ Here(index) # Here(index + 1)
    /\ ~IsNewline(index + 2)

Emit(strokes, consumed) ==
    /\ phase = "build" /\ Exists(index)
    /\ events' = events \o strokes
    /\ index' = index + consumed
    /\ UNCHANGED <<bufferVars, origin, phase, settings, text, pos>>

TypeCharacter == Emit(Strike(Here(index)), 1) /\ UNCHANGED lastTypoEnd

Substitution ==
    /\ MayErr
    /\ \E wrong \in AdjacentLetters[Here(index)] :
          Emit(Strike(wrong) \o Correction(1) \o Strike(Here(index)), 1)
    /\ lastTypoEnd' = index'

\* Mutant: the last thing typed is deleted before the repeat lands.
DuplicateTooLate ==
    /\ MayErr
    /\ Emit(Correction(1) \o Strike(Here(index)) \o Strike(Here(index)), 1)
    /\ lastTypoEnd' = index'

Duplicate ==
    /\ MayErr
    /\ Emit(Strike(Here(index)) \o Strike(Here(index)) \o Correction(1), 1)
    /\ lastTypoEnd' = index'

\* Mutant: skips the character behind the pair.
TranspositionOvershoots ==
    /\ MayErr /\ CanTranspose
    /\ LET first == Strike(Here(index))
           second == Strike(Here(index + 1))
       IN  Emit(second \o first \o Correction(2) \o first \o second, 3)
    /\ lastTypoEnd' = index'

Transposition ==
    /\ MayErr /\ CanTranspose
    /\ LET first == Strike(Here(index))
           second == Strike(Here(index + 1))
       IN  Emit(second \o first \o Correction(2) \o first \o second, 2)
    /\ lastTypoEnd' = index'

-----------------------------------------------------------------------------
(* validate_plan.                                                          *)

StartReplay ==
    /\ phase = "build" /\ index = Len(text)
    /\ phase' = "replay"
    /\ UNCHANGED <<bufferVars, origin, settings, text, index, lastTypoEnd, events, pos>>

ReplayEvent ==
    /\ phase = "replay" /\ pos < Len(events)
    /\ LET e == events[pos + 1]
       IN  \/ e.kind = "delay" /\ UNCHANGED bufferVars
           \/ e.kind = "down" /\ Press(e.key)
           \/ e.kind = "up" /\ Release(e.key)
    /\ pos' = pos + 1
    /\ phase' = IF fault' THEN "rejected" ELSE phase
    /\ UNCHANGED <<origin, settings, text, index, lastTypoEnd, events>>

\* Mutant: keys still down at the end are let pass.
CompareTextOnly ==
    /\ phase = "replay" /\ pos = Len(events)
    /\ phase' = IF chars = text THEN "verified" ELSE "rejected"
    /\ UNCHANGED <<bufferVars, origin, settings, text, index, lastTypoEnd, events, pos>>

Compare ==
    /\ phase = "replay" /\ pos = Len(events)
    /\ phase' = IF pressed = {} /\ chars = text THEN "verified" ELSE "rejected"
    /\ UNCHANGED <<bufferVars, origin, settings, text, index, lastTypoEnd, events, pos>>

Done == phase \in {"refused", "verified", "rejected"} /\ UNCHANGED vars

Validate == ReplayEvent \/ Compare

Next ==
    \/ Refuse \/ Generate
    \/ TypeCharacter \/ Substitution \/ Duplicate \/ Transposition
    \/ StartReplay \/ Validate \/ Done

Spec == Init /\ [][Next]_vars

-----------------------------------------------------------------------------
(* Correctness.                                                            *)

TypeOK ==
    /\ chars \in Seq(Char) /\ pressed \subseteq Key /\ fault \in BOOLEAN
    /\ origin \in {"built", "given"}
    /\ phase \in {"ask", "refused", "build", "replay", "verified", "rejected"}
    /\ settings \in Settings
    /\ text \in Seq(Symbol) /\ index \in 0 .. Len(text)
    /\ lastTypoEnd \in Int /\ pos \in 0 .. Len(events)
    /\ events \in Seq(Event)

\* The first k characters typed are the first k asked for.
Right(k) == k <= Len(text) /\ SubSeq(chars, 1, k) = SubSeq(text, 1, k)

\* Every plan the generator builds passes the gate, whatever mistakes it chose
\* and wherever they fell: each is undone by its own correction.  And it passes
\* on its merits: the buffer takes a backspace on an empty text for nothing
\* (text_buffer.py:88), where a user's document loses a character to it; no
\* plan of the generator's has one.
PlansPassTheGate ==
    origin = "built" =>
        /\ phase # "rejected"
        /\ phase = "replay" /\ pos < Len(events) =>
              (events[pos + 1] = Down(Backspace) => chars # <<>>)

\* A run stopped at any event leaves at most the last two characters wrong,
\* and none with corrections switched off: corrections come before the text
\* goes on, and "with this off, no mistakes are introduced at all"
\* (overlay_window.py:483).
MistakesAreShallow ==
    origin = "built" =>
        \E k \in 0 .. Len(chars) :
            /\ k >= Len(chars) - (IF settings.corrections THEN 2 ELSE 0)
            /\ Right(k)

\* A newline is typed only where it belongs and behind nothing wrong: an
\* uncorrected line is never submitted.
LinesAreFinal ==
    origin = "built" => \A i \in 1 .. Len(chars) : chars[i] = Newline => Right(i)
=============================================================================
