------------------------------ MODULE TextPath ------------------------------
(***************************************************************************)
(* A text's whole way: the window offers to start with it                  *)
(* (ui/overlay_window.py), generate plans it, the gate verifies the plan,  *)
(* and the backend posts it event by event while the user may hold any     *)
(* modifiers.  The program's own hotkey monitor sees every event posted    *)
(* (safety/hotkeys.py).                                                    *)
(***************************************************************************)
EXTENDS PlanGenerator, QuartzBackend

CONSTANTS MaxTextLength     \* MAX_TEXT_LENGTH

ASSUME LengthAssumption == MaxTextLength \in Nat

\* The special keys by their names in SpecialKey.
ASSUME NameAssumption == Backspace = "BACKSPACE" /\ Shift = "SHIFT" /\ Tab = "TAB"

VARIABLES
    sent,           \* events handed to the backend
    broken          \* the backend raised KeyboardBackendError

pathVars == <<vars, quartzVars, sent, broken>>

PathInit == Init /\ QuartzInit /\ sent = 0 /\ broken = FALSE

-----------------------------------------------------------------------------
(* The window.                                                             *)

\* Mutant: the length is taken before the line endings are normalized.
OfferedByRawLength(raw) ==
    LET t == NormalizeLineEndings(raw)
    IN  /\ Len(raw) \in 1 .. MaxTextLength
        /\ FindUnsupported(t) = {}
        /\ ~Blank(t)

\* _text_is_valid
Offered(raw) ==
    LET t == NormalizeLineEndings(raw)
    IN  /\ Len(t) \in 1 .. MaxTextLength
        /\ FindUnsupported(t) = {}
        /\ ~Blank(t)

\* What the widgets can be set to.
WidgetSettings ==
    [wpm : WpmMin .. WpmMax, typoRate : 0 .. TypoRateMax, corrections : BOOLEAN,
     maxLength : {MaxTextLength}]

-----------------------------------------------------------------------------
(* The backend.                                                            *)

\* What the user may be holding: nothing, Shift, the modifiers of a hotkey.
HeldModifiers == {{}, {"shift"}, {"control", "option"}}

Plan == Next /\ UNCHANGED <<quartzVars, sent, broken>>

Sending == phase = "verified" /\ ~broken /\ sent < Len(events)

Deliver ==
    /\ Sending
    /\ LET e == events[sent + 1]
       IN  \/ e.kind = "delay" /\ UNCHANGED quartzVars
           \/ /\ e.kind # "delay"
              /\ \E held \in HeldModifiers :
                    Post(KeyForCharacter(e.key), e.kind = "down", held)
    /\ sent' = sent + 1
    /\ UNCHANGED <<vars, broken>>

\* CGEventCreateKeyboardEvent gives no event: the run ends where it is.
CreationFails ==
    /\ Sending /\ events[sent + 1].kind # "delay"
    /\ broken' = TRUE
    /\ UNCHANGED <<vars, quartzVars, sent>>

PathNext == Plan \/ Deliver \/ CreationFails

PathSpec == PathInit /\ [][PathNext]_pathVars

-----------------------------------------------------------------------------
(* The hotkey monitor.                                                     *)

\* _dispatch: Escape, or P by its code or its character.
Dispatches(event) ==
    /\ event.down /\ {"control", "option"} \subseteq event.flags
    /\ event.code \in {53, 35} \/ event.text \in {<<"p">>, <<"P">>}

-----------------------------------------------------------------------------
(* Correctness.                                                            *)

\* The window and the generator judge a text by two copies of one rule.  They
\* agree on every text: what the window offers to start is planned, and
\* nothing else is.
OfferedMeansAccepted ==
    [][origin = "built" /\ settings \in WidgetSettings /\ phase = "ask" =>
          (phase' = "build" <=> Offered(text))]_pathVars

\* What the presses among events i to j insert, less what they delete.
PressesOf(S) == {n \in 1 .. Len(events) : events[n].kind = "down" /\ events[n].key \in S}
Net(i, j) ==
    Cardinality(PressesOf(Char) \cap i .. j) - Cardinality(PressesOf({Backspace}) \cap i .. j)

\* The text that events leave, without replaying them: of the first m the character
\* stays that no stretch of events behind it deletes more than it inserts.
Staying(m) ==
    {i \in PressesOf(Char) \cap 1 .. m : \A j \in i + 1 .. m : Net(i + 1, j) >= 0}

\* What stays spells t, in the order it was pressed.
Spells(m, t) ==
    LET stay == Staying(m) IN
    /\ Cardinality(stay) = Len(t)
    /\ \A i \in stay : events[i].key = t[Cardinality(stay \cap 1 .. i)]

\* Key k is down after the first m events; only what is up is pressed, and no Tab,
\* and only what is down is released.
Held(k, m) == \E i \in 1 .. m : events[i] = Down(k) /\ \A j \in i + 1 .. m : events[j] # Up(k)
InOrder(i) ==
    /\ events[i].kind = "down" => events[i].key # Tab /\ ~Held(events[i].key, i - 1)
    /\ events[i].kind = "up" => Held(events[i].key, i - 1)

\* The gate lets through the plans that leave the text and no key down, and no
\* other ("no plan runs unverified", controller.py:179).
GateIsExact ==
    phase \in {"verified", "rejected"} /\ sent = 0 =>
        (phase = "verified" <=>
            /\ \A i \in 1 .. Len(events) : InOrder(i)
            /\ \A k \in Key : ~Held(k, Len(events))
            /\ Spells(Len(events), text))

\* An application that takes the text and one that takes the key codes show
\* the same document all along, also while the user holds modifiers, and when
\* the plan is through it is the text asked for.
ArrivesAsAsked ==
    /\ byText = byCode
    /\ phase = "verified" /\ sent = Len(events) => byText = text

\* No event the program posts is a hotkey to its own monitor: "a synthetic p
\* carrying Control+Option would re-trigger the pause hotkey"
\* (quartz_backend.py:184).
NoSelfHotkey == posted # Nothing => ~Dispatches(posted)
=============================================================================
