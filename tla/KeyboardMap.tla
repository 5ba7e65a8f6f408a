----------------------------- MODULE KeyboardMap -----------------------------
(***************************************************************************)
(* What can be typed at all and which keys sit next to which               *)
(* (behavior/keyboard_map.py).  A character is a string of one character,  *)
(* or its name where the provers cannot read that: the space, grave, the   *)
(* comma, the semicolon, the quote, the underscore and the braces.         *)
(* Distances are in quarters of a key width, so they are whole numbers.    *)
(***************************************************************************)
EXTENDS Integers, Sequences, SequencesExt

Newline == "\n"
Return == "\r"
Space == "space"

Small == <<"a", "b", "c", "d", "e", "f", "g", "h", "i", "j", "k", "l", "m",
           "n", "o", "p", "q", "r", "s", "t", "u", "v", "w", "x", "y", "z">>
Capital == <<"A", "B", "C", "D", "E", "F", "G", "H", "I", "J", "K", "L", "M",
             "N", "O", "P", "Q", "R", "S", "T", "U", "V", "W", "X", "Y", "Z">>
Digits == {"0", "1", "2", "3", "4", "5", "6", "7", "8", "9"}
Punctuation ==
    {"grave", "-", "=", "[", "]", "\\", "semicolon", "'", "comma", ".", "/", "~",
     "!", "@", "#", "$", "%", "^", "&", "*", "(", ")", "underscore", "+", "lbrace",
     "rbrace", "|", ":", "quote", "<", ">", "?"}

Letters == ToSet(Small) \cup ToSet(Capital)
Supported == Letters \cup Digits \cup Punctuation \cup {Space, Newline}

IsCapital(c) == c \in ToSet(Capital)
Lowered(c) == IF IsCapital(c) THEN Small[CHOOSE n \in 1 .. 26 : Capital[n] = c] ELSE c
Raised(c) == Capital[CHOOSE n \in 1 .. 26 : Small[n] = c]

-----------------------------------------------------------------------------
(* Line endings, and what is refused.                                      *)

\* CRLF and lone CR become LF: the LF behind a CR goes, every CR is an LF.
NormalizeLineEndings(t) ==
    LET kept == {n \in DOMAIN t : ~(n > 1 /\ t[n - 1] = Return /\ t[n] = Newline)}
        from(n) == CHOOSE i \in kept : Cardinality({j \in kept : j <= i}) = n
    IN  [n \in 1 .. Cardinality(kept) |->
            IF t[from(n)] = Return THEN Newline ELSE t[from(n)]]

FindUnsupported(t) == ToSet(t) \ Supported

\* What str.strip leaves nothing of.
Blank(t) == ToSet(t) \subseteq {Space, Newline, Return, "\t"}

\* The key of a character; the special keys are named as in SpecialKey.
KeyForCharacter(c) ==
    CASE c = Newline -> "ENTER" [] c = Space -> "SPACE" [] OTHER -> c

-----------------------------------------------------------------------------
(* QWERTY adjacency.                                                       *)

Rows == << <<"grave", "1", "2", "3", "4", "5", "6", "7", "8", "9", "0", "-", "=">>,
           <<"q", "w", "e", "r", "t", "y", "u", "i", "o", "p", "[", "]", "\\">>,
           <<"a", "s", "d", "f", "g", "h", "j", "k", "l", "semicolon", "'">>,
           <<"z", "x", "c", "v", "b", "n", "m", "comma", ".", "/">> >>
Offset == <<0, 6, 7, 9>>
Plain == UNION {ToSet(Rows[row]) : row \in DOMAIN Rows}

Position ==
    [c \in Plain |->
        LET row == CHOOSE row \in DOMAIN Rows : c \in ToSet(Rows[row])
            column == CHOOSE n \in DOMAIN Rows[row] : Rows[row][n] = c
        IN  [x |-> Offset[row] + 4 * (column - 1), y |-> 4 * (row - 1)]]

\* The centres are at most 1.25 key widths apart, the rows at most one.
Near(c, d) ==
    LET dx == Position[c].x - Position[d].x
        dy == Position[c].y - Position[d].y
    IN  c # d /\ dy \in -4 .. 4 /\ dx * dx + dy * dy <= 25

\* adjacent_letters: only letters, in the case of the character.
AdjacentLetters ==
    [c \in Letters |->
        LET near == {d \in ToSet(Small) : Near(Lowered(c), d)}
        IN  IF IsCapital(c) THEN {Raised(d) : d \in near} ELSE near]
=============================================================================
