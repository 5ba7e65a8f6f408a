--------------------------- MODULE MCPlanGenerator ---------------------------
(***************************************************************************)
(* Texts of up to five characters over two letters, a space and a newline; *)
(* raw texts with every kind of line ending, a tab, and one character over *)
(* the limit; each character by itself; settings at and past each limit; a *)
(* cooldown short enough for two mistakes in one text.  For the gate alone,*)
(* every short sequence of presses and releases.                           *)
(***************************************************************************)
EXTENDS TextPath, TLC

Strings == STRING
Texts(S, n) == UNION {[1 .. k -> S] : k \in 0 .. n}
RawTexts ==
    Texts({"q", "P", Space, Newline}, 4) \cup Texts({"q", Space, Newline}, 5)
        \cup Texts({"q", "P"}, 5) \cup Texts({"q", Return, Newline}, 6)
        \cup Texts({"\t", Return, Space, "p"}, 3) \cup {<<c>> : c \in Supported}

Default == [wpm |-> 60, typoRate |-> 10, corrections |-> TRUE, maxLength |-> 5]
LimitSettings ==
    [wpm : {19, 20, 120, 121}, typoRate : {-1, 0, 50, 51}, corrections : BOOLEAN,
     maxLength : {0, 1, 5}]

AllAsks ==
    [text : RawTexts, settings : {Default}]
        \cup [text : Texts({"q", Space}, 3), settings : LimitSettings]

Presses == {Down(k) : k \in {"q", "P", Backspace}} \cup {Up(k) : k \in {"q", "P", Backspace}}
ShortPlans == UNION {[1 .. n -> Presses] : n \in 0 .. 5}
OddPlans == {<<Delay, Down(Tab)>>, <<Down(Shift), Down("q"), Up("q"), Up(Shift)>>}
AnyPlans ==
    [text : {<<"q">>, <<"q", "P">>}, events : ShortPlans \cup OddPlans, settings : {Default}]
=============================================================================
