---------------------------- MODULE QuartzBackend ----------------------------
(***************************************************************************)
(* QuartzKeyboardBackend (backends/quartz_backend.py) posts one key event  *)
(* per key-down and key-up.  An event carries a US key code, the modifier  *)
(* flags, and the text it inserts.  An application takes what is typed     *)
(* from the text or from the code, so both readings are kept.              *)
(***************************************************************************)
EXTENDS KeyboardMap

CONSTANTS Sources       \* private, or null where it could not be created

ASSUME SourceAssumption == Sources \subseteq {"private", "null"}

VARIABLES
    source,     \* _source
    posted,     \* the last event posted, or Nothing
    byText,     \* the document of an application that takes the text
    byCode      \* the document of an application that takes the code

quartzVars == <<source, posted, byText, byCode>>

Nothing == [down |-> FALSE]
QuartzInit ==
    source \in Sources /\ posted = Nothing /\ byText = <<>> /\ byCode = <<>>

-----------------------------------------------------------------------------
(* The key tables: kVK_ANSI codes, shifted characters, special keys.       *)

ByCode == <<"a", "s", "d", "f", "h", "g", "z", "x", "c", "v", "none", "b", "q", "w",
            "e", "r", "y", "t", "1", "2", "3", "4", "6", "5", "=", "9", "7",
            "-", "8", "0", "]", "o", "u", "[", "i", "p", "none", "l", "j", "'", "k",
            "semicolon", "\\", "comma", "/", "n", "m", ".", "none", "none", "grave">>
UsVirtualKeys ==
    [c \in ToSet(ByCode) \ {"none"} |-> (CHOOSE n \in DOMAIN ByCode : ByCode[n] = c) - 1]

Shifted == <<"!", "@", "#", "$", "%", "^", "&", "*", "(", ")", "underscore", "+",
             "lbrace", "rbrace", "|", ":", "quote", "<", ">", "?", "~">>
Unshifted == <<"1", "2", "3", "4", "5", "6", "7", "8", "9", "0", "-", "=", "[",
               "]", "\\", "semicolon", "'", "comma", ".", "/", "grave">>
UsShiftedKeys ==
    [c \in ToSet(Shifted) |-> Unshifted[CHOOSE n \in DOMAIN Shifted : Shifted[n] = c]]

SpecialVirtualKeys ==
    [ENTER |-> 36, TAB |-> 48, SPACE |-> 49, BACKSPACE |-> 51, SHIFT |-> 56]

\* Mutant: a capital is sent with the code of its key and no Shift.
CapitalUnshifted(key) ==
    CASE key \in DOMAIN SpecialVirtualKeys ->
            [code |-> SpecialVirtualKeys[key], shift |-> FALSE, text |-> <<>>]
      [] key \in DOMAIN UsShiftedKeys ->
            [code |-> UsVirtualKeys[UsShiftedKeys[key]], shift |-> TRUE, text |-> <<key>>]
      [] OTHER ->
            [code |-> UsVirtualKeys[Lowered(key)], shift |-> FALSE, text |-> <<key>>]

\* The code of a key, whether it needs Shift, and the text it inserts.
VirtualKeyFor(key) ==
    CASE key \in DOMAIN SpecialVirtualKeys ->
            [code |-> SpecialVirtualKeys[key], shift |-> FALSE, text |-> <<>>]
      [] key \in DOMAIN UsShiftedKeys ->
            [code |-> UsVirtualKeys[UsShiftedKeys[key]], shift |-> TRUE, text |-> <<key>>]
      [] OTHER ->
            [code |-> UsVirtualKeys[Lowered(key)], shift |-> IsCapital(key), text |-> <<key>>]

-----------------------------------------------------------------------------
(* Posting.                                                                *)

\* A NULL source combines with the modifiers the user holds.
Created(key, down, held) ==
    [code |-> VirtualKeyFor(key).code, down |-> down, text |-> <<>>,
     flags |-> IF source = "null" THEN held ELSE {}]

\* Mutant: the flags of the created event are added to, not replaced.
FilledOver(event, key) ==
    [event EXCEPT
        !.flags = @ \cup IF VirtualKeyFor(key).shift THEN {"shift"} ELSE {},
        !.text = IF event.down THEN VirtualKeyFor(key).text ELSE <<>>]

\* The flags are set, never inherited; the text goes with the key-down alone.
Filled(event, key) ==
    [event EXCEPT
        !.flags = IF VirtualKeyFor(key).shift THEN {"shift"} ELSE {},
        !.text = IF event.down THEN VirtualKeyFor(key).text ELSE <<>>]

\* The keys of the special codes do what they are for, whatever the reading.
Struck(doc, code) ==
    CASE code = 36 -> Append(doc, Newline)
      [] code = 49 -> Append(doc, Space)
      [] code = 51 /\ doc # <<>> -> Front(doc)
      [] OTHER -> doc

\* An event with Control, Option or Command is a shortcut and types nothing.
Types(event) == event.flags \subseteq {"shift"}

ReadText(doc, event) ==
    CASE Types(event) /\ event.text # <<>> -> doc \o event.text
      [] Types(event) /\ event.text = <<>> /\ event.down -> Struck(doc, event.code)
      [] OTHER -> doc

Keycap(event) ==
    LET plain == ByCode[event.code + 1]
    IN  IF event.flags = {} THEN plain
        ELSE IF plain \in ToSet(Small) THEN Raised(plain)
        ELSE CHOOSE c \in ToSet(Shifted) : UsShiftedKeys[c] = plain

ReadCode(doc, event) ==
    IF ~Types(event) \/ ~event.down THEN doc
    ELSE IF event.code \in Range(SpecialVirtualKeys) THEN Struck(doc, event.code)
    ELSE Append(doc, Keycap(event))

Post(key, down, held) ==
    LET event == Filled(Created(key, down, held), key)
    IN  /\ posted' = event
        /\ byText' = ReadText(byText, event)
        /\ byCode' = ReadCode(byCode, event)
        /\ UNCHANGED source
=============================================================================
