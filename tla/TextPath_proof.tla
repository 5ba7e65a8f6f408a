--------------------------- MODULE TextPath_proof ---------------------------
(***************************************************************************)
(* A text's whole way, for every text, every setting, every choice of      *)
(* mistakes and every plan another generator delivers: what is offered is  *)
(* planned, what is planned passes the gate, what is wrong on the way      *)
(* stays shallow, what was asked for is what arrives, and the gate lets    *)
(* through exactly the plans that leave their text.                        *)
(***************************************************************************)
EXTENDS TextPath, FiniteSetTheorems, SequenceTheorems, TLAPS

-----------------------------------------------------------------------------
(* What the tables of the keyboard say.                                    *)

\* The rows of letters have 26 places each.
LEMMA TableSizes ==
    /\ DOMAIN Small = 1 .. 26 /\ \A n \in 1 .. 26 : Small[n] \in ToSet(Small)
    /\ DOMAIN Capital = 1 .. 26 /\ \A n \in 1 .. 26 : Capital[n] \in ToSet(Capital)
<1>1. DOMAIN Small = 1 .. 26 /\ DOMAIN Capital = 1 .. 26
  BY DEF Small, Capital
<1> QED
  BY <1>1 DEF ToSet

\* Neighbours are letters, letters can be typed, and a newline is none.
LEMMA LetterFacts ==
    /\ Letters \subseteq Char /\ Char = Supported /\ Newline \in Char
    /\ Newline \notin Letters
    /\ \A c \in Letters : AdjacentLetters[c] \subseteq Letters
<1>1. Newline \notin ToSet(Small) /\ Newline \notin ToSet(Capital)
  <2>1. Newline \notin ToSet(Small)
    BY DEF Newline, Small, ToSet
  <2>2. Newline \notin ToSet(Capital)
    BY DEF Newline, Capital, ToSet
  <2> QED
    BY <2>1, <2>2
<1>2. \A d \in ToSet(Small) : Raised(d) \in ToSet(Capital)
  BY TableSizes DEF Raised, ToSet
<1>3. \A c \in Letters : AdjacentLetters[c] \subseteq Letters
  BY <1>2 DEF AdjacentLetters, Letters
<1> QED
  BY <1>1, <1>3, CharAssumption DEF Letters, Supported

\* Normalizing leaves a sequence, of no matter what.
LEMMA NormalForm ==
    ASSUME NEW t \in Seq(Symbol)
    PROVE  NormalizeLineEndings(t) \in Seq(ToSet(NormalizeLineEndings(t)))
<1> DEFINE kept == {n \in DOMAIN t : ~(n > 1 /\ t[n - 1] = Return /\ t[n] = Newline)}
           N == NormalizeLineEndings(t)
<1>1. IsFiniteSet(kept)
  <2>1. DOMAIN t = 1 .. Len(t) /\ Len(t) \in Nat
    OBVIOUS
  <2>2. IsFiniteSet(1 .. Len(t))
    BY <2>1, FS_Interval
  <2> QED
    BY <2>1, <2>2, FS_Subset
<1>2. Cardinality(kept) \in Nat
  BY <1>1, FS_CardinalityType
<1>3. N = [n \in 1 .. Cardinality(kept) |-> N[n]]
  BY DEF NormalizeLineEndings
<1>4. DOMAIN N = 1 .. Cardinality(kept)
  BY <1>3
<1> HIDE DEF kept, N
<1>5. N \in Seq(ToSet(N))
  BY <1>2, <1>3, <1>4 DEF ToSet
<1> QED
  BY <1>5 DEF N

\* A text the generator accepts is made of characters that can be typed.
LEMMA AcceptedText ==
    ASSUME NEW t \in Seq(Symbol), FindUnsupported(NormalizeLineEndings(t)) = {}
    PROVE  /\ NormalizeLineEndings(t) \in Seq(Supported)
           /\ NormalizeLineEndings(t) \in Seq(Symbol)
<1> DEFINE N == NormalizeLineEndings(t)
<1>1. N \in Seq(ToSet(N))
  BY NormalForm
<1>2. ToSet(N) \subseteq Supported
  BY DEF FindUnsupported
<1> HIDE DEF N
<1>4. N \in Seq(Supported)
  BY <1>1, <1>2
<1>5. N \in Seq(Symbol)
  BY <1>4, CharAssumption
<1> QED
  BY <1>4, <1>5 DEF N

-----------------------------------------------------------------------------
(* Types.                                                                  *)

\* What is built is built from a text that can be typed.
TypeInv ==
    /\ TypeOK
    /\ phase = "ask" => index = 0
    /\ phase = "build" => text \in Seq(Supported)

\* A stroke is a delay, a key down and the key up.
LEMMA StrikeType ==
    ASSUME NEW c \in Key
    PROVE  /\ Strike(c) \in Seq(Event) /\ Len(Strike(c)) = 3
           /\ Strike(c)[1] = Delay /\ Strike(c)[2] = Down(c) /\ Strike(c)[3] = Up(c)
<1>1. Delay \in Event /\ Down(c) \in Event /\ Up(c) \in Event
  BY DEF Event, Delay, Down, Up
<1> QED
  BY <1>1 DEF Strike

\* A correction is one or two backspaces between two delays.
DeleteTwo ==
    <<Delay, Down(Backspace), Up(Backspace), Delay, Down(Backspace), Up(Backspace)>>

\* The two corrections the generator makes, written out.
LEMMA CorrectionForm ==
    /\ Correction(1) = <<Delay>> \o Strike(Backspace) \o <<Delay>>
    /\ Correction(2) = <<Delay>> \o DeleteTwo \o <<Delay>>
<1>1. ASSUME NEW a, NEW b, NEW c
      PROVE  /\ [i \in 1 .. 3 * 1 |-> <<a, b, c>>[1 + ((i - 1) % 3)]] = <<a, b, c>>
             /\ [i \in 1 .. 3 * 2 |-> <<a, b, c>>[1 + ((i - 1) % 3)]] = <<a, b, c, a, b, c>>
  OBVIOUS
<1> QED
  BY <1>1 DEF Correction, Strike, DeleteTwo

\* Sequences of events are joined to sequences of events.
LEMMA Join ==
    ASSUME NEW a \in Seq(Event), NEW b \in Seq(Event)
    PROVE  /\ a \o b \in Seq(Event)
           /\ Len(a \o b) = Len(a) + Len(b)
           /\ \A i \in 1 .. Len(a) : (a \o b)[i] = a[i]
           /\ \A i \in 1 .. Len(b) : (a \o b)[Len(a) + i] = b[i]
  OBVIOUS

\* Delays and corrections are events.
LEMMA CorrectionType ==
    /\ <<Delay>> \in Seq(Event) /\ DeleteTwo \in Seq(Event)
    /\ Correction(1) \in Seq(Event)
    /\ Correction(2) \in Seq(Event)
<1>1. Delay \in Event /\ Down(Backspace) \in Event /\ Up(Backspace) \in Event
  BY DEF Event, Delay, Down, Up, Key
<1>2. <<Delay>> \in Seq(Event) /\ DeleteTwo \in Seq(Event) /\ Strike(Backspace) \in Seq(Event)
  BY <1>1 DEF DeleteTwo, Strike
<1>3. Correction(1) \in Seq(Event)
  <2>1. <<Delay>> \o Strike(Backspace) \in Seq(Event)
    BY <1>2, Join
  <2> QED
    BY <1>2, <2>1, Join, CorrectionForm
<1>4. Correction(2) \in Seq(Event)
  <2>1. <<Delay>> \o DeleteTwo \in Seq(Event)
    BY <1>2, Join
  <2> QED
    BY <1>2, <2>1, Join, CorrectionForm
<1> QED
  BY <1>2, <1>3, <1>4

\* Every start has the types.
LEMMA TypesInit == PathInit => TypeInv
<1> SUFFICES ASSUME PathInit PROVE TypeInv
  OBVIOUS
<1>1. chars \in Seq(Char) /\ pressed \subseteq Key /\ fault \in BOOLEAN /\ pos = 0
  <2>1. chars = <<>> /\ pressed = {} /\ pos = 0
    BY DEF PathInit, Init, BufferInit
  <2>2. fault \in BOOLEAN
    BY Zenon DEF PathInit, Init, BufferInit
  <2> QED
    BY <2>1, <2>2
<1>2. CASE Ask
  <2>1. settings \in Settings /\ text \in Seq(Symbol)
    BY <1>2, AskAssumption DEF Ask
  <2>2. events \in Seq(Event) /\ Len(events) = 0
    BY <1>2 DEF Ask
  <2> QED
    BY <1>1, <1>2, <2>1, <2>2, CooldownAssumption DEF Ask, TypeInv, TypeOK
<1>3. CASE Take
  <2>1. settings \in Settings /\ text \in Seq(Symbol) /\ events \in Seq(Event)
    BY <1>3, GivenAssumption DEF Take
  <2> QED
    BY <1>1, <1>3, <2>1 DEF Take, TypeInv, TypeOK
<1> QED
  BY <1>2, <1>3 DEF PathInit, Init

\* What a press leaves is text again.
LEMMA TypedType ==
    ASSUME chars \in Seq(Char), NEW key \in Key
    PROVE  Typed(key) \in Seq(Char)
  BY KeyAssumption DEF Typed, Front

\* A plan that grows within the text keeps the types.
LEMMA EmitType ==
    ASSUME TypeInv, NEW strokes \in Seq(Event), NEW consumed \in 1 .. 2,
           index + consumed <= Len(text), Emit(strokes, consumed), lastTypoEnd' \in Int
    PROVE  TypeInv'
<1>1. events' \in Seq(Event) /\ Len(events') >= Len(events)
  BY DEF Emit, TypeInv, TypeOK
<1> QED
  BY <1>1 DEF TypeInv, TypeOK, Emit, bufferVars

\* Every step keeps the types.
LEMMA TypesStep == ASSUME TypeInv, [PathNext]_pathVars PROVE TypeInv'
<1>1. CASE Refuse
  BY <1>1 DEF Refuse, bufferVars, TypeInv, TypeOK
<1>2. CASE Generate
  BY <1>2, AcceptedText DEF Generate, Accepts, bufferVars, TypeInv, TypeOK
<1>3. CASE TypeCharacter
  <2>1. Here(index) \in Key /\ index + 1 <= Len(text)
    BY <1>3, CharAssumption DEF TypeCharacter, Emit, Exists, Here, Key, TypeInv, TypeOK
  <2> QED
    BY <1>3, <2>1, StrikeType, EmitType DEF TypeCharacter, TypeInv, TypeOK
<1>4. CASE Substitution
  <2>1. PICK wrong \in AdjacentLetters[Here(index)] :
           Emit(Strike(wrong) \o Correction(1) \o Strike(Here(index)), 1)
    BY <1>4 DEF Substitution
  <2>2. Here(index) \in Letters /\ index + 1 <= Len(text)
    BY <1>4 DEF Substitution, MayErr, IsLetter, Exists, TypeInv, TypeOK
  <2>3. wrong \in Key /\ Here(index) \in Key
    BY <2>1, <2>2, LetterFacts DEF Key
  <2>4. Strike(wrong) \o Correction(1) \o Strike(Here(index)) \in Seq(Event)
    <3>1. Strike(wrong) \o Correction(1) \in Seq(Event)
      BY <2>3, StrikeType, CorrectionType, Join
    <3> QED
      BY <2>3, <3>1, StrikeType, Join
  <2>5. lastTypoEnd' \in Int
    BY <1>4, <2>1 DEF Substitution, Emit, TypeInv, TypeOK
  <2> QED
    <3> DEFINE strokes == Strike(wrong) \o Correction(1) \o Strike(Here(index))
    <3>1. Emit(strokes, 1) /\ strokes \in Seq(Event)
      BY <2>1, <2>4
    <3> HIDE DEF strokes
    <3> QED
      BY <3>1, <2>2, <2>4, <2>5, EmitType
<1>5. CASE Duplicate
  <2>2. Here(index) \in Letters /\ index + 1 <= Len(text)
    BY <1>5 DEF Duplicate, MayErr, IsLetter, Exists, TypeInv, TypeOK
  <2>3. Here(index) \in Key
    BY <2>2, LetterFacts DEF Key
  <2>4. Strike(Here(index)) \o Strike(Here(index)) \o Correction(1) \in Seq(Event)
    <3>1. Strike(Here(index)) \o Strike(Here(index)) \in Seq(Event)
      BY <2>3, StrikeType, Join
    <3> QED
      BY <3>1, CorrectionType, Join
  <2>5. lastTypoEnd' \in Int
    BY <1>5 DEF Duplicate, Emit, TypeInv, TypeOK
  <2> QED
    <3> DEFINE strokes == Strike(Here(index)) \o Strike(Here(index)) \o Correction(1)
    <3>1. Emit(strokes, 1) /\ strokes \in Seq(Event)
      BY <1>5, <2>4 DEF Duplicate
    <3> HIDE DEF strokes
    <3> QED
      BY <3>1, <2>2, <2>4, <2>5, EmitType
<1>6. CASE Transposition
  <2> DEFINE first == Strike(Here(index))
             second == Strike(Here(index + 1))
  <2>2. /\ Here(index) \in Letters /\ Here(index + 1) \in Letters
        /\ index + 2 <= Len(text)
    BY <1>6 DEF Transposition, MayErr, CanTranspose, IsLetter, Exists, TypeInv, TypeOK
  <2>3. Here(index) \in Key /\ Here(index + 1) \in Key
    BY <2>2, LetterFacts DEF Key
  <2>4. first \in Seq(Event) /\ second \in Seq(Event)
    BY <2>3, StrikeType
  <2>5. second \o first \o Correction(2) \o first \o second \in Seq(Event)
    <3>1. second \o first \in Seq(Event)
      BY <2>4, Join
    <3>2. second \o first \o Correction(2) \in Seq(Event)
      BY <3>1, CorrectionType, Join
    <3>3. second \o first \o Correction(2) \o first \in Seq(Event)
      BY <2>4, <3>2, Join
    <3> QED
      BY <2>4, <3>3, Join
  <2>6. lastTypoEnd' \in Int
    BY <1>6 DEF Transposition, Emit, TypeInv, TypeOK
  <2> QED
    <3> DEFINE strokes == second \o first \o Correction(2) \o first \o second
    <3>1. Emit(strokes, 2) /\ strokes \in Seq(Event)
      BY <1>6, <2>5 DEF Transposition
    <3> HIDE DEF strokes
    <3> QED
      BY <3>1, <2>2, <2>6, EmitType
<1>7. CASE StartReplay
  BY <1>7 DEF StartReplay, bufferVars, TypeInv, TypeOK
<1>8. CASE ReplayEvent
  <2>1. events[pos + 1] \in Event /\ pos + 1 \in 1 .. Len(events)
    BY <1>8 DEF ReplayEvent, TypeInv, TypeOK
  <2> DEFINE e == events[pos + 1]
  <2>2. chars' \in Seq(Char) /\ pressed' \subseteq Key /\ fault' \in BOOLEAN
    <3>1. CASE e.kind = "delay"
      BY <1>8, <3>1 DEF ReplayEvent, bufferVars, TypeInv, TypeOK
    <3>2. CASE e.kind = "down" /\ Press(e.key)
      <4>1. e.key \in Key
        BY <2>1, <3>2 DEF Event
      <4>2. Typed(e.key) \in Seq(Char)
        BY <4>1, TypedType DEF TypeInv, TypeOK
      <4> QED
        BY <3>2, <4>1, <4>2 DEF Press, TypeInv, TypeOK
    <3>3. CASE e.kind = "up" /\ Release(e.key)
      BY <2>1, <3>3 DEF Release, TypeInv, TypeOK
    <3> QED
      BY <1>8, <2>1, <3>1, <3>2, <3>3 DEF ReplayEvent, Event, TypeInv, TypeOK
  <2>3. phase' \in {"replay", "rejected"}
    BY <1>8 DEF ReplayEvent
  <2> QED
    BY <1>8, <2>1, <2>2, <2>3 DEF ReplayEvent, TypeInv, TypeOK
<1>9. CASE Compare
  BY <1>9 DEF Compare, bufferVars, TypeInv, TypeOK
<1>10. CASE UNCHANGED vars
  BY <1>10 DEF vars, bufferVars, TypeInv, TypeOK
<1> QED
  BY <1>1, <1>2, <1>3, <1>4, <1>5, <1>6, <1>7, <1>8, <1>9, <1>10
  DEF PathNext, Plan, Next, Validate, Done, Deliver, CreationFails, pathVars

-----------------------------------------------------------------------------
(* The window and the hotkey monitor.                                      *)

\* Every variable keeps its type, for any texts, settings and given plans.
THEOREM PathTypeCorrect == PathSpec => []TypeOK
<1>1. TypeInv /\ [PathNext]_pathVars => TypeInv'
  BY TypesStep
<1>2. TypeInv => TypeOK
  BY DEF TypeInv
<1> QED
  BY <1>1, <1>2, TypesInit, PTL DEF PathSpec

\* The window and the generator judge every text alike (overlay_window.py:891,
\* probabilistic.py:74): what is offered is planned, and nothing else.
THEOREM OfferedIsAccepted == PathSpec => OfferedMeansAccepted
<1>1. ASSUME TypeInv, [PathNext]_pathVars
      PROVE  [origin = "built" /\ settings \in WidgetSettings /\ phase = "ask" =>
                (phase' = "build" <=> Offered(text))]_pathVars
  <2> SUFFICES ASSUME PathNext, settings \in WidgetSettings, phase = "ask"
               PROVE  phase' = "build" <=> Offered(text)
    BY <1>1
  <2> DEFINE N == NormalizeLineEndings(text)
  <2>1. N \in Seq(ToSet(N))
    BY <1>1, NormalForm DEF TypeInv, TypeOK
  <2>2. ~Blank(N) => Len(N) >= 1
    <3> HIDE DEF N
    <3>1. N = <<>> => Blank(N)
      BY DEF Blank, ToSet
    <3> QED
      BY <2>1, <3>1
  <2>3. Accepts(N, settings) <=> Offered(text)
    <3>1. settings.maxLength = MaxTextLength /\ (MaxTextLength > 0 => ValidSettings(settings))
      BY DEF WidgetSettings, ValidSettings
    <3> QED
      BY <2>1, <2>2, <3>1, LengthAssumption DEF Offered, Accepts, ValidSettings
  <2>4. phase' = "build" <=> Accepts(N, settings)
    BY DEF PathNext, Plan, Next, Refuse, Generate, TypeCharacter, Substitution,
       Duplicate, Transposition, MayErr, Emit, StartReplay, Validate, ReplayEvent,
       Compare, Done, Deliver, CreationFails, Sending
  <2> QED
    BY <2>3, <2>4
<1>2. TypeInv /\ [PathNext]_pathVars => TypeInv'
  BY TypesStep
<1> QED
  BY <1>1, <1>2, TypesInit, PTL DEF PathSpec, OfferedMeansAccepted

\* No event carries Control.
FlagsInv == posted = Nothing \/ "control" \notin posted.flags

\* No event the program posts is a hotkey to its own monitor
\* (quartz_backend.py:186), whatever the user holds.
THEOREM NeverOwnHotkey == PathSpec => []NoSelfHotkey
<1>1. PathInit => FlagsInv
  BY DEF PathInit, QuartzInit, FlagsInv
<1>2. ASSUME FlagsInv, [PathNext]_pathVars
      PROVE  FlagsInv'
  <2>1. ASSUME NEW key, NEW down, NEW held, Post(key, down, held)
        PROVE  "control" \notin posted'.flags
    BY <2>1 DEF Post, Filled, Created
  <2>2. UNCHANGED posted \/ \E key, down, held : Post(key, down, held)
    BY <1>2 DEF PathNext, Plan, Deliver, CreationFails, pathVars, quartzVars
  <2> QED
    BY <1>2, <2>1, <2>2 DEF FlagsInv, Nothing
<1>3. FlagsInv => NoSelfHotkey
  BY DEF FlagsInv, NoSelfHotkey, Dispatches
<1> QED
  BY <1>1, <1>2, <1>3, PTL DEF PathSpec

-----------------------------------------------------------------------------
(* What a sequence of events does to a text field: the states it passes     *)
(* through, as a function of the events done.                              *)

\* A text field and the keys down; at rest, none is.
State == [doc : Seq(Char), down : SUBSET Key]
Rest(d) == [doc |-> d, down |-> {}]

\* The text after a key.
After(key, doc) ==
    IF key \in Char THEN Append(doc, key)
    ELSE IF key = Backspace /\ doc # <<>> THEN Front(doc)
    ELSE doc

\* Event e is in order in state s, and leads to u.
Moves(e, s, u) ==
    \/ e.kind = "delay" /\ u = s
    \/ /\ e.kind = "down" /\ e.key \notin s.down /\ e.key # Tab
       /\ u = [doc |-> After(e.key, s.doc), down |-> s.down \cup {e.key}]
    \/ /\ e.kind = "up" /\ e.key \in s.down
       /\ u = [doc |-> s.doc, down |-> s.down \ {e.key}]

\* B names the states that the events of s pass through, one after another.
Trace(B, s) ==
    /\ B \in [0 .. Len(s) -> State]
    /\ \A i \in 1 .. Len(s) : Moves(s[i], B[i - 1], B[i])

\* From the empty text field to text t, with no key down at either end.
Reaches(s, t) ==
    \E B : Trace(B, s) /\ B[0] = Rest(<<>>) /\ B[Len(s)] = Rest(t)

\* As Moves, and what a backspace deletes is there.
MovesOn(e, s, u) == Moves(e, s, u) /\ (e = Down(Backspace) => s.doc # <<>>)

\* As Trace, through states of S only, and no backspace too many.
CleanTrace(B, S, s) ==
    /\ B \in [0 .. Len(s) -> S]
    /\ \A i \in 1 .. Len(s) : MovesOn(s[i], B[i - 1], B[i])

\* From text d with no key down to text e with none, by a clean trace.
Leads(S, s, d, e) ==
    \E B : CleanTrace(B, S, s) /\ B[0] = Rest(d) /\ B[Len(s)] = Rest(e)

\* S allows text d, whatever is down.
Allows(S, d) == \A down \in SUBSET Key : [doc |-> d, down |-> down] \in S

\* One trace after another is a trace.
LEMMA JoinTraces ==
    ASSUME NEW S, NEW a \in Seq(Event), NEW b \in Seq(Event), NEW d, NEW e, NEW f,
           Leads(S, a, d, e), Leads(S, b, e, f)
    PROVE  Leads(S, a \o b, d, f)
<1>1. PICK A : CleanTrace(A, S, a) /\ A[0] = Rest(d) /\ A[Len(a)] = Rest(e)
  BY DEF Leads
<1>2. PICK B : CleanTrace(B, S, b) /\ B[0] = Rest(e) /\ B[Len(b)] = Rest(f)
  BY DEF Leads
<1> DEFINE m == Len(a)
           n == Len(b)
           s == a \o b
           C == [i \in 0 .. m + n |-> IF i <= m THEN A[i] ELSE B[i - m]]
<1>3. m \in Nat /\ n \in Nat /\ Len(s) = m + n
  OBVIOUS
<1>4. /\ \A i \in 1 .. m : s[i] = a[i]
      /\ \A i \in m + 1 .. m + n : s[i] = b[i - m]
  <2>1. \A i \in 1 .. m : s[i] = a[i]
    OBVIOUS
  <2>2. \A i \in m + 1 .. m + n : i - m \in 1 .. n /\ i = m + (i - m)
    BY <1>3
  <2>3. \A i \in 1 .. n : s[m + i] = b[i]
    OBVIOUS
  <2> QED
    BY <2>1, <2>2, <2>3
<1> HIDE DEF s, m, n
<1>5. /\ A \in [0 .. m -> S] /\ \A i \in 1 .. m : MovesOn(a[i], A[i - 1], A[i])
      /\ B \in [0 .. n -> S] /\ \A i \in 1 .. n : MovesOn(b[i], B[i - 1], B[i])
      /\ A[m] = B[0]
  BY <1>1, <1>2 DEF CleanTrace, m, n
<1>6. C \in [0 .. m + n -> S]
  BY <1>3, <1>5
<1>7. ASSUME NEW i \in 1 .. m + n
      PROVE  MovesOn(s[i], C[i - 1], C[i])
  <2>1. CASE i <= m
    BY <1>3, <1>4, <1>5, <2>1
  <2>2. CASE i = m + 1
    <3>0. i - 1 = m /\ i - m = 1 /\ 1 \in 1 .. n
      BY <1>3, <2>2
    <3>1. C[i - 1] = B[0]
      BY <1>3, <1>5, <3>0
    <3>2. C[i] = B[1] /\ s[i] = b[1]
      BY <1>3, <1>4, <2>2, <3>0
    <3> QED
      BY <1>5, <3>0, <3>1, <3>2
  <2>3. CASE i > m + 1
    <3>1. C[i - 1] = B[i - m - 1] /\ C[i] = B[i - m] /\ s[i] = b[i - m] /\ i - m \in 1 .. n
      BY <1>3, <1>4, <2>3
    <3> QED
      BY <1>5, <3>1
  <2> QED
    BY <1>3, <2>1, <2>2, <2>3
<1>8. C[0] = Rest(d) /\ C[m + n] = Rest(f)
  <2>1. C[0] = A[0]
    BY <1>3
  <2>2. C[m + n] = IF n = 0 THEN A[m] ELSE B[n]
    BY <1>3
  <2> QED
    BY <1>1, <1>2, <1>5, <2>1, <2>2 DEF n
<1>9. CleanTrace(C, S, s)
  BY <1>3, <1>6, <1>7 DEF CleanTrace
<1> HIDE DEF C
<1>10. \E E : CleanTrace(E, S, s) /\ E[0] = Rest(d) /\ E[Len(s)] = Rest(f)
  BY <1>3, <1>8, <1>9
<1> QED
  BY <1>10 DEF Leads, s

\* A delay leads from a text to itself.
LEMMA DelayTrace ==
    ASSUME NEW S, NEW d \in Seq(Char), Allows(S, d)
    PROVE  Leads(S, <<Delay>>, d, d)
<1> DEFINE B == [i \in 0 .. 1 |-> Rest(d)]
<1>1. Rest(d) \in S
  BY DEF Rest, Allows
<1>2. CleanTrace(B, S, <<Delay>>)
  BY <1>1 DEF CleanTrace, MovesOn, Moves, Delay, Down
<1> QED
  BY <1>2 DEF Leads

\* A stroke leads to the text after its key.
LEMMA StrikeTrace ==
    ASSUME NEW S, NEW d \in Seq(Char), NEW c \in Key \ {Tab},
           c = Backspace => d # <<>>,
           Allows(S, d), Allows(S, After(c, d))
    PROVE  Leads(S, Strike(c), d, After(c, d))
<1> DEFINE e == After(c, d)
           B == [i \in 0 .. 3 |-> IF i <= 1 THEN Rest(d)
                                  ELSE IF i = 2 THEN [doc |-> e, down |-> {c}] ELSE Rest(e)]
<1> HIDE DEF e
<1>1. Rest(d) \in S /\ Rest(e) \in S /\ [doc |-> e, down |-> {c}] \in S
  BY DEF Rest, Allows, e
<1>2. /\ MovesOn(Delay, Rest(d), Rest(d))
      /\ MovesOn(Down(c), Rest(d), [doc |-> e, down |-> {c}])
      /\ MovesOn(Up(c), [doc |-> e, down |-> {c}], Rest(e))
  BY DEF MovesOn, Moves, Rest, Delay, Down, Up, e
<1>3. Len(Strike(c)) = 3 /\ \A i \in 1 .. 3 : MovesOn(Strike(c)[i], B[i - 1], B[i])
  BY <1>2, StrikeType
<1>4. CleanTrace(B, S, Strike(c))
  BY <1>1, <1>3 DEF CleanTrace
<1>5. B[0] = Rest(d) /\ B[Len(Strike(c))] = Rest(e)
  BY <1>3
<1> HIDE DEF B
<1> QED
  BY <1>4, <1>5 DEF Leads, e

\* A backspace takes away what was typed last.
LEMMA TakenBack ==
    ASSUME NEW d \in Seq(Char), NEW c \in Char
    PROVE  /\ Append(d, c) \in Seq(Char) /\ Append(d, c) # <<>> /\ After(c, d) = Append(d, c)
           /\ After(Backspace, Append(d, c)) = d
<1>1. Append(d, c) \in Seq(Char) /\ Append(d, c) # <<>> /\ Front(Append(d, c)) = d
  BY DEF Front
<1> QED
  BY <1>1, KeyAssumption DEF After

\* A stroke of the backspace.
LEMMA BackspaceTrace ==
    ASSUME NEW S, NEW d \in Seq(Char), NEW c \in Char,
           Allows(S, d), Allows(S, Append(d, c))
    PROVE  Leads(S, Strike(Backspace), Append(d, c), d)
<1> DEFINE e == Append(d, c)
<1>1. e \in Seq(Char) /\ e # <<>> /\ After(Backspace, e) = d
  BY TakenBack
<1>2. Backspace \in Key \ {Tab}
  BY NameAssumption DEF Key
<1>3. Allows(S, e)
  OBVIOUS
<1> HIDE DEF e
<1>4. Leads(S, Strike(Backspace), e, After(Backspace, e))
  BY <1>1, <1>2, <1>3, StrikeTrace
<1> QED
  BY <1>1, <1>4 DEF e

\* The correction of one mistake.
LEMMA CorrectionTrace ==
    ASSUME NEW S, NEW d \in Seq(Char), NEW c \in Char,
           Allows(S, d), Allows(S, Append(d, c))
    PROVE  Leads(S, Correction(1), Append(d, c), d)
<1> DEFINE e == Append(d, c)
<1>1. Leads(S, <<Delay>>, e, e) /\ Leads(S, <<Delay>>, d, d)
  BY DelayTrace, TakenBack
<1>2. Leads(S, Strike(Backspace), e, d)
  BY BackspaceTrace
<1>3. Strike(Backspace) \in Seq(Event)
  BY StrikeType DEF Key
<1>4. <<Delay>> \o Strike(Backspace) \in Seq(Event)
  BY <1>3, CorrectionType, Join
<1>5. Leads(S, <<Delay>> \o Strike(Backspace), e, d)
  BY <1>1, <1>2, <1>3, CorrectionType, JoinTraces
<1> QED
  BY <1>1, <1>4, <1>5, CorrectionType, CorrectionForm, JoinTraces

\* The correction of a pair.
LEMMA PairCorrectionTrace ==
    ASSUME NEW S, NEW d \in Seq(Char), NEW b \in Char, NEW c \in Char,
           Allows(S, d), Allows(S, Append(d, b)), Allows(S, Append(Append(d, b), c))
    PROVE  Leads(S, Correction(2), Append(Append(d, b), c), d)
<1> DEFINE e == Append(d, b)
           f == Append(Append(d, b), c)
           B == [i \in 0 .. 6 |->
                    CASE i \in {0, 1} -> Rest(f)
                      [] i = 2 -> [doc |-> e, down |-> {Backspace}]
                      [] i \in {3, 4} -> Rest(e)
                      [] i = 5 -> [doc |-> d, down |-> {Backspace}]
                      [] i = 6 -> Rest(d)]
<1>1. /\ e \in Seq(Char) /\ f \in Seq(Char) /\ e # <<>> /\ f # <<>>
      /\ After(Backspace, f) = e /\ After(Backspace, e) = d
  BY TakenBack
<1>2. Leads(S, <<Delay>>, f, f) /\ Leads(S, <<Delay>>, d, d)
  BY <1>1, DelayTrace
<1>3. Backspace \in Key \ {Tab}
  BY NameAssumption DEF Key
<1>4. Allows(S, e) /\ Allows(S, f)
  OBVIOUS
<1> HIDE DEF e, f
<1>5. CleanTrace(B, S, DeleteTwo)
  <2>1. /\ Rest(f) \in S /\ Rest(e) \in S /\ Rest(d) \in S
        /\ [doc |-> e, down |-> {Backspace}] \in S /\ [doc |-> d, down |-> {Backspace}] \in S
    BY <1>3, <1>4 DEF Allows, Rest
  <2>2. B \in [0 .. 6 -> S]
    BY <2>1
  <2>3. /\ MovesOn(Delay, Rest(f), Rest(f)) /\ MovesOn(Delay, Rest(e), Rest(e))
        /\ MovesOn(Down(Backspace), Rest(f), [doc |-> e, down |-> {Backspace}])
        /\ MovesOn(Up(Backspace), [doc |-> e, down |-> {Backspace}], Rest(e))
        /\ MovesOn(Down(Backspace), Rest(e), [doc |-> d, down |-> {Backspace}])
        /\ MovesOn(Up(Backspace), [doc |-> d, down |-> {Backspace}], Rest(d))
    BY <1>1, <1>3 DEF MovesOn, Moves, Rest, Delay, Down, Up
  <2>4. \A i \in 1 .. 6 : MovesOn(DeleteTwo[i], B[i - 1], B[i])
    BY <2>3 DEF DeleteTwo
  <2> QED
    BY <2>2, <2>4 DEF CleanTrace, DeleteTwo
<1>6. Leads(S, DeleteTwo, f, d)
  <2>1. B[0] = Rest(f) /\ B[6] = Rest(d) /\ Len(DeleteTwo) = 6
    BY DEF DeleteTwo
  <2> HIDE DEF B
  <2> QED
    BY <1>5, <2>1 DEF Leads
<1>7. <<Delay>> \o DeleteTwo \in Seq(Event)
  BY CorrectionType, Join
<1>8. Leads(S, <<Delay>> \o DeleteTwo, f, d)
  BY <1>2, <1>6, CorrectionType, JoinTraces
<1>9. Leads(S, Correction(2), f, d)
  BY <1>2, <1>7, <1>8, CorrectionType, CorrectionForm, JoinTraces
<1> QED
  BY <1>9 DEF f, e

-----------------------------------------------------------------------------
(* The texts a plan for t passes through, with or without mistakes.        *)

Slack(corrections) == IF corrections THEN 2 ELSE 0

\* MistakesAreShallow and LinesAreFinal, of any text d.
Agrees(t, d, k) == k <= Len(t) /\ SubSeq(d, 1, k) = SubSeq(t, 1, k)
Fine(t, corrections) ==
    {s \in State :
        /\ \E k \in 0 .. Len(s.doc) :
              k >= Len(s.doc) - Slack(corrections) /\ Agrees(t, s.doc, k)
        /\ \A i \in 1 .. Len(s.doc) : s.doc[i] = Newline => Agrees(t, s.doc, i)}

\* Good as far as t goes, then letters, one or two if mistakes are made.
LEMMA FineText ==
    ASSUME NEW t \in Seq(Char), NEW corrections \in BOOLEAN, NEW d \in Seq(Char),
           NEW k \in 0 .. Len(t), k <= Len(d), Len(d) <= k + Slack(corrections),
           \A i \in 1 .. k : d[i] = t[i],
           \A i \in k + 1 .. Len(d) : d[i] \in Letters
    PROVE  Allows(Fine(t, corrections), d)
<1>1. ASSUME NEW i \in 0 .. k
      PROVE  Agrees(t, d, i)
  BY DEF Agrees
<1>2. k \in 0 .. Len(d) /\ k >= Len(d) - Slack(corrections)
  BY DEF Slack
<1>3. \A i \in 1 .. Len(d) : d[i] = Newline => i \in 0 .. k
  BY LetterFacts
<1>4. ASSUME NEW down \in SUBSET Key
      PROVE  [doc |-> d, down |-> down] \in Fine(t, corrections)
  BY <1>1, <1>2, <1>3 DEF Fine, State
<1> QED
  BY <1>4 DEF Allows

\* The first k characters of the text, and one or two letters behind them.
Part(t, k) == SubSeq(t, 1, k)

\* What is fine: every beginning of the text, and one or two letters behind it where
\* corrections are on.
LEMMA FineTexts ==
    ASSUME NEW t \in Seq(Char), NEW corrections \in BOOLEAN, NEW k \in 0 .. Len(t)
    PROVE  /\ Part(t, k) \in Seq(Char)
           /\ Allows(Fine(t, corrections), Part(t, k))
           /\ \A b, c \in Letters : corrections =>
                 /\ Allows(Fine(t, corrections), Append(Part(t, k), b))
                 /\ Allows(Fine(t, corrections), Append(Append(Part(t, k), b), c))
           /\ k < Len(t) => Part(t, k + 1) = Append(Part(t, k), t[k + 1])
<1> DEFINE p == SubSeq(t, 1, k)
<1>1. p \in Seq(Char) /\ Len(p) = k /\ \A i \in 1 .. k : p[i] = t[i]
  OBVIOUS
<1>2. k < Len(t) => SubSeq(t, 1, k + 1) = Append(p, t[k + 1])
  OBVIOUS
<1> HIDE DEF p
<1>3. Allows(Fine(t, corrections), p)
  BY <1>1, FineText DEF Slack
<1>4. ASSUME NEW b \in Letters, NEW c \in Letters, corrections
      PROVE  /\ Allows(Fine(t, corrections), Append(p, b))
             /\ Allows(Fine(t, corrections), Append(Append(p, b), c))
  <2> DEFINE q == Append(p, b)
             r == Append(q, c)
  <2>1. b \in Char /\ c \in Char
    BY LetterFacts
  <2>2. /\ q \in Seq(Char) /\ Len(q) = k + 1 /\ q[k + 1] = b
        /\ \A i \in 1 .. k : q[i] = t[i]
    BY <1>1, <2>1
  <2> HIDE DEF q
  <2>3. /\ r \in Seq(Char) /\ Len(r) = k + 2 /\ r[k + 1] = b /\ r[k + 2] = c
        /\ \A i \in 1 .. k : r[i] = t[i]
    BY <2>1, <2>2
  <2> HIDE DEF r
  <2>4. Allows(Fine(t, corrections), q)
    <3>1. \A i \in k + 1 .. Len(q) : q[i] \in Letters
      BY <2>2
    <3>2. Len(q) <= k + Slack(corrections) /\ k <= Len(q)
      BY <1>4, <2>2 DEF Slack
    <3> QED
      BY <2>2, <3>1, <3>2, FineText
  <2>5. Allows(Fine(t, corrections), r)
    <3>1. \A i \in k + 1 .. Len(r) : i = k + 1 \/ i = k + 2
      BY <2>3
    <3>2. \A i \in k + 1 .. Len(r) : r[i] \in Letters
      BY <2>3, <3>1
    <3>3. Len(r) <= k + Slack(corrections) /\ k <= Len(r)
      BY <1>4, <2>3 DEF Slack
    <3> QED
      BY <2>3, <3>2, <3>3, FineText
  <2> QED
    BY <2>4, <2>5 DEF q, r
<1> QED
  BY <1>1, <1>2, <1>3, <1>4 DEF p, Part

-----------------------------------------------------------------------------
(* The plan built so far, and its replay.                                  *)

\* The shadow buffer.
Now == [doc |-> chars, down |-> pressed]

\* A plan leads from the empty text to the part of the text it covers, through
\* states that are fine; while it is replayed, the buffer is where it says.
PlanInv ==
    origin = "built" =>
        /\ phase # "rejected" /\ ~fault
        /\ phase \in {"ask", "refused", "build"} => chars = <<>> /\ pressed = {} /\ pos = 0
        /\ phase = "ask" => events = <<>>
        /\ phase = "build" =>
              Leads(Fine(text, settings.corrections), events, <<>>, Part(text, index))
        /\ phase \in {"replay", "verified"} =>
              \E B : /\ CleanTrace(B, Fine(text, settings.corrections), events)
                     /\ B[0] = Rest(<<>>) /\ B[Len(events)] = Rest(text)
                     /\ B[pos] = Now

\* The plan of nothing leads to the part of the text with nothing in it.
LEMMA EmptyPlan ==
    ASSUME NEW t \in Seq(Char), NEW corrections \in BOOLEAN
    PROVE  Leads(Fine(t, corrections), <<>>, <<>>, Part(t, 0))
<1>1. Part(t, 0) = <<>>
  BY DEF Part
<1>2. Rest(<<>>) \in Fine(t, corrections)
  <2>1. Allows(Fine(t, corrections), Part(t, 0))
    BY FineTexts
  <2> QED
    BY <1>1, <2>1 DEF Allows, Rest
<1> DEFINE B == [i \in 0 .. 0 |-> Rest(<<>>)]
<1>3. CleanTrace(B, Fine(t, corrections), <<>>)
  BY <1>2 DEF CleanTrace
<1> QED
  BY <1>1, <1>3 DEF Leads

\* What is emitted leads on from where the plan was.
LEMMA EmitPlan ==
    ASSUME TypeInv, PlanInv, NEW strokes \in Seq(Event), NEW n \in 1 .. 2,
           Emit(strokes, n),
           Leads(Fine(text, settings.corrections), strokes,
                 Part(text, index), Part(text, index + n))
    PROVE  PlanInv'
<1>1. ASSUME origin = "built"
      PROVE  Leads(Fine(text, settings.corrections), events \o strokes, <<>>,
                   Part(text, index + n))
  <2>1. Leads(Fine(text, settings.corrections), events, <<>>, Part(text, index))
    BY <1>1 DEF PlanInv, Emit
  <2>2. events \in Seq(Event)
    BY DEF TypeInv, TypeOK
  <2> QED
    BY <2>1, <2>2, JoinTraces
<1>2. phase = "build"
  BY DEF Emit
<1> QED
  BY <1>1, <1>2 DEF PlanInv, Emit, bufferVars

\* What one place of the text may be planned as.
LEMMA PlanPlace ==
    ASSUME NEW t \in Seq(Char), NEW corrections \in BOOLEAN, NEW i \in 0 .. Len(t) - 1
    PROVE  /\ Part(t, i + 1) = Append(Part(t, i), t[i + 1])
           /\ Part(t, i) \in Seq(Char) /\ t[i + 1] \in Char /\ Part(t, i + 1) \in Seq(Char)
           /\ Allows(Fine(t, corrections), Part(t, i))
           /\ Allows(Fine(t, corrections), Part(t, i + 1))
           /\ Leads(Fine(t, corrections), Strike(t[i + 1]), Part(t, i), Part(t, i + 1))
<1> DEFINE c == t[i + 1]
           p == Part(t, i)
           q == Part(t, i + 1)
           S == Fine(t, corrections)
<1>1. c \in Char
  OBVIOUS
<1>2. i \in 0 .. Len(t) /\ i + 1 \in 0 .. Len(t) /\ i < Len(t)
  OBVIOUS
<1>3. q = Append(p, c) /\ p \in Seq(Char) /\ Allows(S, p)
  BY <1>2, FineTexts
<1>4. Allows(S, q) /\ q \in Seq(Char)
  BY <1>2, FineTexts
<1> HIDE DEF c, p, q, S
<1>5. c \in Key \ {Tab} /\ c # Backspace
  BY <1>1, KeyAssumption DEF Key
<1>6. After(c, p) = q
  BY <1>1, <1>3, TakenBack
<1>7. Leads(S, Strike(c), p, q)
  BY <1>3, <1>4, <1>5, <1>6, StrikeTrace
<1> QED
  BY <1>1, <1>3, <1>4, <1>7 DEF c, p, q, S

\* One or two letters behind the text so far, where mistakes are made.
LEMMA WrongTexts ==
    ASSUME NEW t \in Seq(Char), NEW k \in 0 .. Len(t), NEW b \in Letters, NEW c \in Letters
    PROVE  /\ Allows(Fine(t, TRUE), Append(Part(t, k), b))
           /\ Allows(Fine(t, TRUE), Append(Append(Part(t, k), b), c))
  BY FineTexts

\* A wrong letter, its correction, the right one.
LEMMA PlanSubstitution ==
    ASSUME NEW t \in Seq(Char), NEW i \in 0 .. Len(t) - 1, NEW wrong \in Letters
    PROVE  Leads(Fine(t, TRUE), Strike(wrong) \o Correction(1) \o Strike(t[i + 1]),
                 Part(t, i), Part(t, i + 1))
<1> DEFINE S == Fine(t, TRUE)
           p == Part(t, i)
           c == t[i + 1]
           q == Part(t, i + 1)
<1>1. /\ p \in Seq(Char) /\ c \in Char /\ Allows(S, p)
      /\ Leads(S, Strike(c), p, q)
  BY PlanPlace
<1>2. wrong \in Char /\ Allows(S, Append(p, wrong))
  <2>1. wrong \in Char /\ i \in 0 .. Len(t)
    BY LetterFacts
  <2> QED
    BY <2>1, WrongTexts
<1> HIDE DEF S, p, c, q
<1>3. Leads(S, Strike(wrong), p, Append(p, wrong))
  <2>1. wrong \in Key \ {Tab} /\ wrong # Backspace
    BY <1>2, KeyAssumption DEF Key
  <2>2. After(wrong, p) = Append(p, wrong)
    BY <1>1, <1>2, TakenBack
  <2> QED
    BY <1>1, <1>2, <2>1, <2>2, StrikeTrace
<1>4. Leads(S, Correction(1), Append(p, wrong), p)
  BY <1>1, <1>2, CorrectionTrace
<1>5. Strike(wrong) \in Seq(Event) /\ Strike(c) \in Seq(Event)
  BY <1>1, <1>2, StrikeType DEF Key
<1>6. /\ Strike(wrong) \o Correction(1) \in Seq(Event)
      /\ Leads(S, Strike(wrong) \o Correction(1), p, p)
  BY <1>3, <1>4, <1>5, CorrectionType, Join, JoinTraces
<1>7. Leads(S, Strike(wrong) \o Correction(1) \o Strike(c), p, q)
  BY <1>1, <1>5, <1>6, JoinTraces
<1> QED
  BY <1>7 DEF S, p, c, q

\* A letter twice, and the correction of the second.
LEMMA PlanDuplicate ==
    ASSUME NEW t \in Seq(Char), NEW i \in 0 .. Len(t) - 1, t[i + 1] \in Letters
    PROVE  Leads(Fine(t, TRUE), Strike(t[i + 1]) \o Strike(t[i + 1]) \o Correction(1),
                 Part(t, i), Part(t, i + 1))
<1> DEFINE S == Fine(t, TRUE)
           p == Part(t, i)
           c == t[i + 1]
           q == Part(t, i + 1)
<1>1. /\ p \in Seq(Char) /\ c \in Char /\ q \in Seq(Char) /\ Allows(S, p) /\ Allows(S, q)
      /\ Leads(S, Strike(c), p, q)
  BY PlanPlace
<1>2. Allows(S, Append(q, c))
  <2>1. i + 1 \in 0 .. Len(t)
    OBVIOUS
  <2> QED
    BY <2>1, WrongTexts
<1> HIDE DEF S, p, c, q
<1>3. Leads(S, Strike(c), q, Append(q, c))
  <2>1. c \in Key \ {Tab} /\ c # Backspace
    BY <1>1, KeyAssumption DEF Key
  <2>2. After(c, q) = Append(q, c)
    BY <1>1, TakenBack
  <2> QED
    BY <1>1, <1>2, <2>1, <2>2, StrikeTrace
<1>4. Leads(S, Correction(1), Append(q, c), q)
  BY <1>1, <1>2, CorrectionTrace
<1>5. Strike(c) \in Seq(Event)
  BY <1>1, StrikeType DEF Key
<1>6. /\ Strike(c) \o Strike(c) \in Seq(Event)
      /\ Leads(S, Strike(c) \o Strike(c), p, Append(q, c))
  BY <1>1, <1>3, <1>5, Join, JoinTraces
<1>7. Leads(S, Strike(c) \o Strike(c) \o Correction(1), p, q)
  BY <1>4, <1>6, CorrectionType, JoinTraces
<1> QED
  BY <1>7 DEF S, p, c, q

\* Two letters in the wrong order, the correction of both, the right order.
LEMMA PlanTransposition ==
    ASSUME NEW t \in Seq(Char), NEW i \in 0 .. Len(t) - 2,
           t[i + 1] \in Letters, t[i + 2] \in Letters
    PROVE  Leads(Fine(t, TRUE),
                 Strike(t[i + 2]) \o Strike(t[i + 1]) \o Correction(2)
                     \o Strike(t[i + 1]) \o Strike(t[i + 2]),
                 Part(t, i), Part(t, i + 2))
<1> DEFINE S == Fine(t, TRUE)
           p == Part(t, i)
           c == t[i + 1]
           d == t[i + 2]
           q == Part(t, i + 1)
           r == Part(t, i + 2)
           first == Strike(c)
           second == Strike(d)
           u == Append(p, d)
           v == Append(u, c)
<1>1. /\ p \in Seq(Char) /\ c \in Char /\ q \in Seq(Char) /\ Allows(S, p) /\ Allows(S, q)
      /\ Leads(S, first, p, q)
  <2>1. i \in 0 .. Len(t) - 1
    OBVIOUS
  <2> QED
    BY <2>1, PlanPlace
<1>2. d \in Char /\ Leads(S, second, q, r)
  <2> DEFINE j == i + 1
  <2>1. j \in 0 .. Len(t) - 1 /\ j + 1 = i + 2
    OBVIOUS
  <2> HIDE DEF j
  <2>2. t[j + 1] \in Char /\ Leads(Fine(t, TRUE), Strike(t[j + 1]), Part(t, j), Part(t, j + 1))
    BY <2>1, PlanPlace
  <2> QED
    BY <2>1, <2>2 DEF j
<1>3. Allows(S, u) /\ Allows(S, v)
  <2>1. i \in 0 .. Len(t)
    OBVIOUS
  <2> QED
    BY <2>1, WrongTexts
<1> HIDE DEF S, p, c, d, q, r
<1>4. u \in Seq(Char)
  BY <1>1, <1>2, TakenBack
<1>5. Leads(S, second, p, u) /\ Leads(S, first, u, v)
  <2>1. c \in Key \ {Tab} /\ c # Backspace /\ d \in Key \ {Tab} /\ d # Backspace
    BY <1>1, <1>2, KeyAssumption DEF Key
  <2>2. After(d, p) = u /\ After(c, u) = v
    BY <1>1, <1>2, <1>4, TakenBack
  <2> QED
    BY <1>1, <1>3, <1>4, <2>1, <2>2, StrikeTrace
<1>6. Leads(S, Correction(2), v, p)
  BY <1>1, <1>2, <1>3, PairCorrectionTrace
<1>7. first \in Seq(Event) /\ second \in Seq(Event)
  BY <1>1, <1>2, StrikeType DEF Key
<1> HIDE DEF first, second, u, v
<1>8. second \o first \in Seq(Event) /\ Leads(S, second \o first, p, v)
  BY <1>5, <1>7, Join, JoinTraces
<1>9. /\ second \o first \o Correction(2) \in Seq(Event)
      /\ Leads(S, second \o first \o Correction(2), p, p)
  BY <1>6, <1>8, CorrectionType, Join, JoinTraces
<1>10. /\ second \o first \o Correction(2) \o first \in Seq(Event)
       /\ Leads(S, second \o first \o Correction(2) \o first, p, q)
  BY <1>1, <1>7, <1>9, Join, JoinTraces
<1>11. Leads(S, second \o first \o Correction(2) \o first \o second, p, r)
  BY <1>2, <1>7, <1>10, JoinTraces
<1> QED
  BY <1>11 DEF S, p, r, c, d, first, second

\* The generator's choices at one place of the text.
LEMMA PlanBuilt ==
    ASSUME TypeInv, PlanInv, TypeCharacter \/ Substitution \/ Duplicate \/ Transposition
    PROVE  PlanInv'
<1>1. /\ text \in Seq(Char) /\ settings.corrections \in BOOLEAN
      /\ index \in 0 .. Len(text) /\ Len(text) \in Nat
  BY CharAssumption DEF TypeInv, TypeOK, Settings, TypeCharacter, Substitution, Duplicate,
     Transposition, Emit
<1> DEFINE i == index
           S == Fine(text, settings.corrections)
<1>2. CASE TypeCharacter
  <2>1. i \in 0 .. Len(text) - 1 /\ Here(i) = text[i + 1]
    BY <1>2 DEF TypeCharacter, Emit, Exists, Here
  <2>2. Leads(S, Strike(Here(i)), Part(text, i), Part(text, i + 1))
    BY <1>1, <2>1, PlanPlace
  <2>3. Strike(Here(i)) \in Seq(Event)
    BY <1>1, <2>1, StrikeType DEF Key
  <2> QED
    BY <1>2, <2>2, <2>3, EmitPlan DEF TypeCharacter
<1>3. CASE Substitution
  <2>1. PICK wrong \in AdjacentLetters[Here(i)] :
           Emit(Strike(wrong) \o Correction(1) \o Strike(Here(i)), 1)
    BY <1>3 DEF Substitution
  <2>2. /\ i \in 0 .. Len(text) - 1 /\ Here(i) = text[i + 1] /\ Here(i) \in Letters
        /\ settings.corrections = TRUE
    BY <1>1, <1>3 DEF Substitution, MayErr, IsLetter, Exists, Here
  <2>3. wrong \in Letters
    BY <2>1, <2>2, LetterFacts
  <2> DEFINE strokes == Strike(wrong) \o Correction(1) \o Strike(Here(i))
  <2>4. Leads(S, strokes, Part(text, i), Part(text, i + 1))
    BY <1>1, <2>2, <2>3, PlanSubstitution
  <2>5. strokes \in Seq(Event)
    <3>1. Strike(wrong) \in Seq(Event) /\ Strike(Here(i)) \in Seq(Event)
      BY <2>2, <2>3, LetterFacts, StrikeType DEF Key
    <3>2. Strike(wrong) \o Correction(1) \in Seq(Event)
      BY <3>1, CorrectionType, Join
    <3> QED
      BY <3>1, <3>2, Join
  <2>6. Emit(strokes, 1)
    BY <2>1
  <2> HIDE DEF strokes
  <2> QED
    BY <2>4, <2>5, <2>6, EmitPlan
<1>4. CASE Duplicate
  <2> DEFINE strokes == Strike(Here(i)) \o Strike(Here(i)) \o Correction(1)
  <2>1. Emit(strokes, 1)
    BY <1>4 DEF Duplicate
  <2>2. /\ i \in 0 .. Len(text) - 1 /\ Here(i) = text[i + 1] /\ Here(i) \in Letters
        /\ settings.corrections = TRUE
    BY <1>1, <1>4 DEF Duplicate, MayErr, IsLetter, Exists, Here
  <2>4. Leads(S, strokes, Part(text, i), Part(text, i + 1))
    BY <1>1, <2>2, PlanDuplicate
  <2>5. strokes \in Seq(Event)
    <3>1. Strike(Here(i)) \in Seq(Event)
      BY <2>2, LetterFacts, StrikeType DEF Key
    <3>2. Strike(Here(i)) \o Strike(Here(i)) \in Seq(Event)
      BY <3>1, Join
    <3> QED
      BY <3>2, CorrectionType, Join
  <2> HIDE DEF strokes
  <2> QED
    BY <2>1, <2>4, <2>5, EmitPlan
<1>5. CASE Transposition
  <2> DEFINE first == Strike(Here(i))
             second == Strike(Here(i + 1))
             strokes == second \o first \o Correction(2) \o first \o second
  <2>1. Emit(strokes, 2)
    BY <1>5 DEF Transposition
  <2>2. /\ i \in 0 .. Len(text) - 2 /\ Here(i) = text[i + 1] /\ Here(i) \in Letters
        /\ Here(i + 1) = text[i + 2] /\ Here(i + 1) \in Letters
        /\ settings.corrections = TRUE
    BY <1>1, <1>5 DEF Transposition, MayErr, CanTranspose, IsLetter, Exists, Here
  <2>4. Leads(S, strokes, Part(text, i), Part(text, i + 2))
    BY <1>1, <2>2, PlanTransposition
  <2>5. strokes \in Seq(Event)
    <3>1. first \in Seq(Event) /\ second \in Seq(Event)
      BY <2>2, LetterFacts, StrikeType DEF Key
    <3> HIDE DEF first, second
    <3>2. second \o first \in Seq(Event)
      BY <3>1, Join
    <3>3. second \o first \o Correction(2) \in Seq(Event)
      BY <3>2, CorrectionType, Join
    <3>4. second \o first \o Correction(2) \o first \in Seq(Event)
      BY <3>1, <3>3, Join
    <3> QED
      BY <3>1, <3>4, Join
  <2> HIDE DEF strokes
  <2> QED
    BY <2>1, <2>4, <2>5, EmitPlan
<1> QED
  BY <1>2, <1>3, <1>4, <1>5

\* The buffer does what the plan says, so the gate has nothing to refuse.
LEMMA PlanReplayed ==
    ASSUME TypeInv, PlanInv, ReplayEvent
    PROVE  PlanInv'
<1> SUFFICES ASSUME origin = "built" PROVE PlanInv'
  BY DEF PlanInv, ReplayEvent
<1> DEFINE S == Fine(text, settings.corrections)
           e == events[pos + 1]
<1>1. PICK B : /\ CleanTrace(B, S, events) /\ B[0] = Rest(<<>>)
               /\ B[Len(events)] = Rest(text) /\ B[pos] = Now
  BY DEF PlanInv, ReplayEvent
<1>2. Moves(e, Now, B[pos + 1])
  <2>1. pos + 1 \in 1 .. Len(events) /\ (pos + 1) - 1 = pos
    BY DEF ReplayEvent, TypeInv, TypeOK
  <2>2. MovesOn(events[pos + 1], B[(pos + 1) - 1], B[pos + 1])
    BY <1>1, <2>1 DEF CleanTrace
  <2> QED
    BY <1>1, <2>1, <2>2 DEF MovesOn
<1>3. B[pos + 1] = Now' /\ ~fault'
  <2>1. CASE e.kind = "delay" /\ UNCHANGED bufferVars
    BY <1>2, <2>1 DEF Moves, Now, bufferVars, PlanInv
  <2>2. CASE e.kind = "down" /\ Press(e.key)
    BY <1>2, <2>2, KeyAssumption DEF Moves, Now, Press, Typed, After
  <2>3. CASE e.kind = "up" /\ Release(e.key)
    BY <1>2, <2>3 DEF Moves, Now, Release
  <2> QED
    BY <2>1, <2>2, <2>3 DEF ReplayEvent
<1>4. phase' = "replay" /\ pos' = pos + 1 /\ UNCHANGED <<origin, settings, text, events>>
  BY <1>3 DEF ReplayEvent
<1> QED
  BY <1>1, <1>3, <1>4 DEF PlanInv

\* Every step keeps the plan leading where it should.
LEMMA PlanStep == ASSUME TypeInv, PlanInv, [PathNext]_pathVars PROVE PlanInv'
<1>1. CASE Refuse
  BY <1>1 DEF Refuse, bufferVars, PlanInv
<1>2. CASE Generate
  <2>1. text' \in Seq(Char) /\ settings.corrections \in BOOLEAN /\ index = 0
    BY <1>2, AcceptedText, CharAssumption DEF Generate, Accepts, TypeInv, TypeOK, Settings
  <2>2. Leads(Fine(text', settings.corrections), <<>>, <<>>, Part(text', 0))
    BY <2>1, EmptyPlan
  <2> QED
    BY <1>2, <2>1, <2>2 DEF Generate, bufferVars, PlanInv
<1>3. CASE TypeCharacter \/ Substitution \/ Duplicate \/ Transposition
  BY <1>3, PlanBuilt
<1>4. CASE StartReplay
  <2>1. ASSUME origin = "built"
        PROVE  \E B : /\ CleanTrace(B, Fine(text, settings.corrections), events)
                      /\ B[0] = Rest(<<>>) /\ B[Len(events)] = Rest(text)
                      /\ B[pos] = Now
    <3>1. Part(text, index) = text
      BY <1>4 DEF StartReplay, TypeInv, TypeOK, Part
    <3>2. Now = Rest(<<>>) /\ pos = 0
      BY <1>4, <2>1 DEF StartReplay, PlanInv, Now, Rest
    <3>3. Leads(Fine(text, settings.corrections), events, <<>>, text)
      BY <1>4, <2>1, <3>1 DEF StartReplay, PlanInv
    <3> QED
      BY <3>2, <3>3 DEF Leads
  <2> QED
    BY <1>4, <2>1 DEF StartReplay, bufferVars, PlanInv, Now
<1>5. CASE ReplayEvent
  BY <1>5, PlanReplayed
<1>6. CASE Compare
  <2>1. ASSUME origin = "built"
        PROVE  chars = text /\ pressed = {}
    BY <1>6, <2>1 DEF Compare, PlanInv, Now, Rest
  <2> QED
    BY <1>6, <2>1 DEF Compare, bufferVars, PlanInv, Now
<1>7. CASE UNCHANGED vars
  BY <1>7 DEF vars, bufferVars, PlanInv, Now
<1> QED
  BY <1>1, <1>2, <1>3, <1>4, <1>5, <1>6, <1>7
  DEF PathNext, Plan, Next, Validate, Done, Deliver, CreationFails, pathVars

\* Nothing is planned at the start.
LEMMA PlanInit == PathInit => PlanInv
<1> SUFFICES ASSUME PathInit, origin = "built" PROVE PlanInv
  BY DEF PlanInv
<1>1. chars = <<>> /\ pressed = {} /\ pos = 0 /\ phase = "ask" /\ events = <<>>
  BY DEF PathInit, Init, BufferInit, Ask, Take
<1>2. ~fault
  BY Zenon DEF PathInit, Init, BufferInit
<1> QED
  BY <1>1, <1>2 DEF PlanInv

\* What is typed is fine, before the replay, in it and after it.
LEMMA FineNow ==
    ASSUME TypeInv, PlanInv, origin = "built"
    PROVE  chars = <<>> \/ Now \in Fine(text, settings.corrections)
<1>1. CASE phase \in {"replay", "verified"}
  <2>1. PICK B : CleanTrace(B, Fine(text, settings.corrections), events) /\ B[pos] = Now
    BY <1>1 DEF PlanInv
  <2>2. pos \in 0 .. Len(events)
    BY DEF TypeInv, TypeOK
  <2> QED
    BY <2>1, <2>2 DEF CleanTrace
<1>2. CASE phase \notin {"replay", "verified"}
  BY <1>2 DEF PlanInv, TypeInv, TypeOK
<1> QED
  BY <1>1, <1>2

\* Every plan the generator builds passes the gate (text_buffer.py:116), without a
\* backspace that finds nothing to delete (88), for every text, every cooldown and
\* every choice of mistakes.
THEOREM EveryPlanPasses == PathSpec => []PlansPassTheGate
<1>1. ASSUME TypeInv, PlanInv
      PROVE  PlansPassTheGate
  <2>1. ASSUME origin = "built", phase = "replay", pos < Len(events),
               events[pos + 1] = Down(Backspace)
        PROVE  chars # <<>>
    <3>1. PICK B : CleanTrace(B, Fine(text, settings.corrections), events) /\ B[pos] = Now
      BY <1>1, <2>1 DEF PlanInv
    <3>2. pos + 1 \in 1 .. Len(events) /\ (pos + 1) - 1 = pos
      BY <1>1, <2>1 DEF TypeInv, TypeOK
    <3>3. MovesOn(events[pos + 1], B[(pos + 1) - 1], B[pos + 1])
      BY <3>1, <3>2 DEF CleanTrace
    <3> QED
      BY <2>1, <3>1, <3>2, <3>3 DEF MovesOn, Now
  <2> QED
    BY <1>1, <2>1 DEF PlanInv, PlansPassTheGate
<1>2. TypeInv /\ PlanInv /\ [PathNext]_pathVars => TypeInv' /\ PlanInv'
  BY TypesStep, PlanStep
<1> QED
  BY <1>1, <1>2, TypesInit, PlanInit, PTL DEF PathSpec

\* A run of a built plan stopped at any event leaves at most the last two characters
\* wrong, and none with corrections switched off (probabilistic.py:268-367).
THEOREM MistakesStayShallow == PathSpec => []MistakesAreShallow
<1>1. ASSUME TypeInv, PlanInv
      PROVE  MistakesAreShallow
  <2> SUFFICES ASSUME origin = "built"
               PROVE  \E k \in 0 .. Len(chars) :
                         /\ k >= Len(chars) - (IF settings.corrections THEN 2 ELSE 0)
                         /\ Right(k)
    BY DEF MistakesAreShallow
  <2>1. CASE chars = <<>>
    <3>1. Len(chars) = 0 /\ Right(0)
      BY <1>1, <2>1 DEF Right, TypeInv, TypeOK
    <3> QED
      BY <3>1
  <2>2. CASE Now \in Fine(text, settings.corrections)
    BY <2>2 DEF Fine, Now, Agrees, Right, Slack
  <2> QED
    BY <1>1, <2>1, <2>2, FineNow
<1>2. TypeInv /\ PlanInv /\ [PathNext]_pathVars => TypeInv' /\ PlanInv'
  BY TypesStep, PlanStep
<1> QED
  BY <1>1, <1>2, TypesInit, PlanInit, PTL DEF PathSpec

\* A newline is typed only where it belongs, behind nothing wrong
\* (probabilistic.py:308-330): no wrong line is submitted.
THEOREM LinesStayFinal == PathSpec => []LinesAreFinal
<1>1. ASSUME TypeInv, PlanInv
      PROVE  LinesAreFinal
  <2> SUFFICES ASSUME origin = "built", NEW i \in 1 .. Len(chars), chars[i] = Newline
               PROVE  Right(i)
    BY DEF LinesAreFinal
  <2>1. CASE chars = <<>>
    BY <2>1
  <2>2. CASE Now \in Fine(text, settings.corrections)
    BY <2>2 DEF Fine, Now, Agrees, Right
  <2> QED
    BY <1>1, <2>1, <2>2, FineNow
<1>2. TypeInv /\ PlanInv /\ [PathNext]_pathVars => TypeInv' /\ PlanInv'
  BY TypesStep, PlanStep
<1> QED
  BY <1>1, <1>2, TypesInit, PlanInit, PTL DEF PathSpec

-----------------------------------------------------------------------------
(* What an application reads from the events posted.                       *)

\* The codes 36, 48 and 49 belong to no character.
LEMMA CodePlaces ==
    DOMAIN ByCode = 1 .. 51 /\ ByCode[37] = "none" /\ ByCode[49] = "none" /\ ByCode[50] = "none"
  BY DEF ByCode

\* Every small letter, digit and shared key has a code.
LEMMA CodeTable ==
    /\ \A n \in 1 .. 26 : \E k \in 1 .. 51 : ByCode[k] = Small[n]
    /\ \A n \in 1 .. 21 : \E k \in 1 .. 51 : ByCode[k] = Unshifted[n]
    /\ \A c \in Digits : \E k \in 1 .. 51 : ByCode[k] = c
<1>1. \A n \in 1 .. 26 : \E k \in 1 .. 51 : ByCode[k] = Small[n]
  BY DEF ByCode, Small
<1>2. \A n \in 1 .. 21 : \E k \in 1 .. 51 : ByCode[k] = Unshifted[n]
  BY DEF ByCode, Unshifted
<1>3. \A c \in Digits : \E k \in 1 .. 51 : ByCode[k] = c
  BY DEF ByCode, Digits
<1> QED
  BY <1>1, <1>2, <1>3

\* The shifted characters and the keys they share, place by place.
LEMMA ShiftPlaces == DOMAIN Shifted = 1 .. 21 /\ DOMAIN Unshifted = 1 .. 21
  BY DEF Shifted, Unshifted

\* No two share a key, and none shares a letter's.
LEMMA ShiftTable ==
    /\ \A i, j \in 1 .. 21 : Unshifted[i] = Unshifted[j] => i = j
    /\ \A i \in 1 .. 21 : Unshifted[i] # "none" /\ \A j \in 1 .. 26 : Unshifted[i] # Small[j]
<1>1. \A i, j \in 1 .. 21 : Unshifted[i] = Unshifted[j] => i = j
  BY DEF Unshifted
<1>2. \A i \in 1 .. 21 : Unshifted[i] # "none"
  BY DEF Unshifted
<1>3. \A i \in 1 .. 21, j \in 1 .. 26 : Unshifted[i] # Small[j]
  BY DEF Unshifted, Small
<1> QED
  BY <1>1, <1>2, <1>3

\* Every mark has a code or is a shifted character.
LEMMA MarkTable ==
    \A c \in Punctuation :
        (\E k \in 1 .. 51 : ByCode[k] = c) \/ (\E k \in 1 .. 21 : Shifted[k] = c)
  BY DEF ByCode, Punctuation, Shifted

\* Names that are no characters.
Special == {"ENTER", "TAB", "SPACE", "BACKSPACE", "SHIFT"}

\* No character is the name of a special key, and letters are told apart.
LEMMA NameTable ==
    /\ \A n \in 1 .. 26 : Small[n] \notin Special \cup {"none"} \cup ToSet(Shifted)
    /\ \A n \in 1 .. 26 : Capital[n] \notin Special \cup ToSet(Shifted)
    /\ \A c \in ToSet(Shifted) : c \notin Special
    /\ \A c \in Digits \cup Punctuation : c \notin Special \cup {"none"} /\ ~IsCapital(c)
    /\ \A i, j \in 1 .. 26 : Capital[i] # Small[j]
    /\ \A i, j \in 1 .. 26 : (Small[i] = Small[j] => i = j) /\ (Capital[i] = Capital[j] => i = j)
<1>1. /\ \A n \in 1 .. 26 : Small[n] \notin Special \cup {"none"}
      /\ \A n \in 1 .. 26 : Capital[n] \notin Special
  BY DEF Small, Capital, Special
<1>2. \A i \in 1 .. 26, j \in 1 .. 21 : Small[i] # Shifted[j] /\ Capital[i] # Shifted[j]
  BY DEF Small, Capital, Shifted
<1>3. \A c \in ToSet(Shifted) : \E j \in 1 .. 21 : c = Shifted[j]
  BY ShiftPlaces DEF ToSet
<1>4. \A c \in Digits \cup Punctuation : c \notin Special \cup {"none"}
  BY DEF Digits, Punctuation, Special
<1>5. \A c \in Digits \cup Punctuation, n \in 1 .. 26 : c # Capital[n]
  BY DEF Digits, Punctuation, Capital
<1>6. \A c \in Digits \cup Punctuation : ~IsCapital(c)
  BY <1>5, TableSizes DEF IsCapital, ToSet
<1>7. \A i, j \in 1 .. 26 : Capital[i] # Small[j]
  BY DEF Small, Capital
<1>8. \A i, j \in 1 .. 26 : Small[i] = Small[j] => i = j
  BY DEF Small
<1>9. \A i, j \in 1 .. 26 : Capital[i] = Capital[j] => i = j
  BY DEF Capital
<1>10. \A j \in 1 .. 21 : Shifted[j] \notin Special
  BY DEF Shifted, Special
<1>11. \A c \in ToSet(Shifted) : c \notin Special
  BY <1>3, <1>10
<1> QED
  BY <1>1, <1>2, <1>3, <1>4, <1>6, <1>7, <1>8, <1>9, <1>11

\* The code of a key that has one is where the layout shows the key.
LEMMA CodeOfKey ==
    ASSUME NEW c, c # "none", \E k \in 1 .. 51 : ByCode[k] = c
    PROVE  UsVirtualKeys[c] \notin {36, 48, 49, 51, 56} /\ ByCode[UsVirtualKeys[c] + 1] = c
<1> DEFINE n == CHOOSE k \in DOMAIN ByCode : ByCode[k] = c
<1>1. n \in 1 .. 51 /\ ByCode[n] = c
  BY CodePlaces
<1>2. c \in ToSet(ByCode) \ {"none"}
  BY CodePlaces DEF ToSet
<1>3. UsVirtualKeys[c] = n - 1
  BY <1>2 DEF UsVirtualKeys
<1> HIDE DEF n
<1> QED
  BY <1>1, <1>3, CodePlaces

\* The key of a shifted character shows it with Shift and shows no letter.
LEMMA ShiftedKey ==
    ASSUME NEW c \in ToSet(Shifted)
    PROVE  /\ UsShiftedKeys[c] \notin ToSet(Small) \cup {"none"}
           /\ \E k \in 1 .. 51 : ByCode[k] = UsShiftedKeys[c]
           /\ (CHOOSE d \in ToSet(Shifted) : UsShiftedKeys[d] = UsShiftedKeys[c]) = c
<1>1. ASSUME NEW d \in ToSet(Shifted)
      PROVE  \E i \in 1 .. 21 : Shifted[i] = d /\ UsShiftedKeys[d] = Unshifted[i]
  <2> DEFINE i == CHOOSE n \in DOMAIN Shifted : Shifted[n] = d
  <2>1. i \in 1 .. 21 /\ Shifted[i] = d
    BY ShiftPlaces DEF ToSet
  <2>2. UsShiftedKeys[d] = Unshifted[i]
    BY DEF UsShiftedKeys
  <2> HIDE DEF i
  <2> QED
    BY <2>1, <2>2
<1>2. \A d \in ToSet(Shifted) : UsShiftedKeys[d] = UsShiftedKeys[c] => d = c
  BY <1>1, ShiftTable
<1>3. UsShiftedKeys[c] \notin ToSet(Small) \cup {"none"}
  <2>1. PICK i \in 1 .. 21 : UsShiftedKeys[c] = Unshifted[i]
    BY <1>1
  <2>2. Unshifted[i] # "none" /\ \A j \in 1 .. 26 : Unshifted[i] # Small[j]
    BY ShiftTable
  <2>3. \A l \in ToSet(Small) : \E j \in 1 .. 26 : l = Small[j]
    BY TableSizes DEF ToSet
  <2> QED
    BY <2>1, <2>2, <2>3
<1>4. \E k \in 1 .. 51 : ByCode[k] = UsShiftedKeys[c]
  <2>1. PICK i \in 1 .. 21 : UsShiftedKeys[c] = Unshifted[i]
    BY <1>1
  <2>2. \E k \in 1 .. 51 : ByCode[k] = Unshifted[i]
    BY CodeTable
  <2> QED
    BY <2>1, <2>2
<1> QED
  BY <1>2, <1>3, <1>4

\* The key of a capital shows it with Shift.
LEMMA CapitalKey ==
    ASSUME NEW c \in ToSet(Capital)
    PROVE  Lowered(c) \in ToSet(Small) /\ Raised(Lowered(c)) = c
<1> DEFINE n == CHOOSE k \in 1 .. 26 : Capital[k] = c
<1>1. n \in 1 .. 26 /\ Capital[n] = c
  BY TableSizes DEF ToSet
<1>2. Lowered(c) = Small[n]
  BY DEF Lowered, IsCapital
<1> HIDE DEF n
<1>3. (CHOOSE k \in 1 .. 26 : Small[k] = Small[n]) = n
  BY <1>1, NameTable
<1> QED
  BY <1>1, <1>2, <1>3, TableSizes DEF Raised

\* The three ways a key is sent: by its code alone, or with the character it
\* types, with Shift or without.
SentAsKey(c, code) ==
    VirtualKeyFor(KeyForCharacter(c)) = [code |-> code, shift |-> FALSE, text |-> <<>>]
SentShifted(c, code) ==
    VirtualKeyFor(KeyForCharacter(c)) = [code |-> code, shift |-> TRUE, text |-> <<c>>]
SentPlain(c, code) ==
    VirtualKeyFor(KeyForCharacter(c)) = [code |-> code, shift |-> FALSE, text |-> <<c>>]

\* The special keys the gate lets through are sent by their codes.
LEMMA SpecialSent ==
    /\ SentAsKey(Newline, 36) /\ SentAsKey(Space, 49)
    /\ SentAsKey(Backspace, 51) /\ SentAsKey(Shift, 56)
<1>1. DOMAIN SpecialVirtualKeys = Special /\ DOMAIN UsShiftedKeys = ToSet(Shifted)
  BY DEF SpecialVirtualKeys, Special, UsShiftedKeys
<1>2. \A k \in Special :
         VirtualKeyFor(k) = [code |-> SpecialVirtualKeys[k], shift |-> FALSE, text |-> <<>>]
  BY <1>1, NameTable DEF VirtualKeyFor
<1>3. /\ SpecialVirtualKeys["ENTER"] = 36 /\ SpecialVirtualKeys["SPACE"] = 49
      /\ SpecialVirtualKeys["BACKSPACE"] = 51 /\ SpecialVirtualKeys["SHIFT"] = 56
  BY DEF SpecialVirtualKeys
<1>4. /\ KeyForCharacter(Newline) = "ENTER" /\ KeyForCharacter(Space) = "SPACE"
      /\ KeyForCharacter(Backspace) = "BACKSPACE" /\ KeyForCharacter(Shift) = "SHIFT"
  BY NameAssumption DEF KeyForCharacter, Newline, Space
<1>5. {"ENTER", "SPACE", "BACKSPACE", "SHIFT"} \subseteq Special
  BY DEF Special
<1> QED
  BY <1>2, <1>3, <1>4, <1>5 DEF SentAsKey

\* Every other character is sent with itself as its text: with Shift by the code of
\* the key it shares, or plainly by the code of its own.
LEMMA CharacterSent ==
    ASSUME NEW c \in Char \ {Newline, Space}
    PROVE  \/ /\ c \in ToSet(Shifted)
              /\ SentShifted(c, UsVirtualKeys[UsShiftedKeys[c]])
           \/ /\ c \in ToSet(Capital)
              /\ SentShifted(c, UsVirtualKeys[Lowered(c)])
           \/ /\ c # "none" /\ \E k \in 1 .. 51 : ByCode[k] = c
              /\ SentPlain(c, UsVirtualKeys[c])
<1>1. c \in ToSet(Small) \cup ToSet(Capital) \cup Digits \cup Punctuation
  BY CharAssumption DEF Supported, Letters
<1>2. /\ \A d \in ToSet(Small) : \E n \in 1 .. 26 : d = Small[n]
      /\ \A d \in ToSet(Capital) : \E n \in 1 .. 26 : d = Capital[n]
  BY TableSizes DEF ToSet
<1>3. c \notin Special /\ KeyForCharacter(c) = c
  <2>1. CASE c \in ToSet(Small)
    <3>1. PICK n \in 1 .. 26 : c = Small[n]
      BY <1>2, <2>1
    <3> QED
      BY <3>1, NameTable DEF KeyForCharacter
  <2>2. CASE c \in ToSet(Capital)
    <3>1. PICK n \in 1 .. 26 : c = Capital[n]
      BY <1>2, <2>2
    <3> QED
      BY <3>1, NameTable DEF KeyForCharacter
  <2>3. CASE c \in Digits \cup Punctuation
    BY <2>3, NameTable DEF KeyForCharacter
  <2> QED
    BY <1>1, <2>1, <2>2, <2>3
<1>4. DOMAIN SpecialVirtualKeys = Special /\ DOMAIN UsShiftedKeys = ToSet(Shifted)
  BY DEF SpecialVirtualKeys, Special, UsShiftedKeys
<1>5. CASE c \in ToSet(Shifted)
  BY <1>3, <1>4, <1>5 DEF SentShifted, VirtualKeyFor
<1>6. CASE c \in ToSet(Capital)
  <2>1. c \notin ToSet(Shifted) /\ IsCapital(c)
    <3>1. PICK n \in 1 .. 26 : c = Capital[n]
      BY <1>2, <1>6
    <3> QED
      BY <1>6, <3>1, NameTable DEF IsCapital
  <2> QED
    BY <1>3, <1>4, <1>6, <2>1 DEF SentShifted, VirtualKeyFor
<1>7. CASE c \notin ToSet(Shifted) /\ c \notin ToSet(Capital)
  <2>1. c # "none" /\ \E k \in 1 .. 51 : ByCode[k] = c
    <3>1. CASE c \in ToSet(Small)
      <4>1. PICK n \in 1 .. 26 : c = Small[n]
        BY <1>2, <3>1
      <4> QED
        BY <4>1, CodeTable, NameTable
    <3>2. CASE c \in Digits
      BY <3>2, CodeTable, NameTable
    <3>3. CASE c \in Punctuation
      <4>1. \A k \in 1 .. 21 : Shifted[k] # c
        BY <1>7, ShiftPlaces DEF ToSet
      <4>2. c # "none"
        BY <3>3, NameTable
      <4> QED
        BY <3>3, <4>1, <4>2, MarkTable
    <3> QED
      BY <1>1, <1>7, <3>1, <3>2, <3>3
  <2>2. IsCapital(c) = FALSE /\ Lowered(c) = c
    BY <1>7 DEF IsCapital, Lowered
  <2>3. VirtualKeyFor(c) = [code |-> UsVirtualKeys[c], shift |-> FALSE, text |-> <<c>>]
    <3>1. VirtualKeyFor(c) =
            [code |-> UsVirtualKeys[Lowered(c)], shift |-> IsCapital(c), text |-> <<c>>]
      BY <1>3, <1>4, <1>7 DEF VirtualKeyFor
    <3> QED
      BY <2>2, <3>1
  <2> QED
    BY <1>3, <2>1, <2>3 DEF SentPlain
<1> QED
  BY <1>5, <1>6, <1>7

\* The event posted for a character or special key going down, and going up.
DownOf(c, held) == Filled(Created(KeyForCharacter(c), TRUE, held), KeyForCharacter(c))
UpOf(c, held) == Filled(Created(KeyForCharacter(c), FALSE, held), KeyForCharacter(c))

\* A key going down carries its code, its text and its Shift, and nothing of what
\* the user holds.
LEMMA DownForm ==
    ASSUME NEW c, NEW held
    PROVE  LET v == VirtualKeyFor(KeyForCharacter(c))
           IN  /\ DownOf(c, held).code = v.code
               /\ DownOf(c, held).down = TRUE
               /\ DownOf(c, held).text = v.text
               /\ DownOf(c, held).flags = IF v.shift THEN {"shift"} ELSE {}
<1> DEFINE k == KeyForCharacter(c)
           v == VirtualKeyFor(k)
           f == Created(k, TRUE, held)
           e == Filled(f, k)
<1>1. /\ f.code = v.code /\ f.down = TRUE
      /\ DOMAIN f = {"code", "down", "text", "flags"}
  BY DEF Created
<1> HIDE DEF f
<1>2. /\ e.code = f.code /\ e.down = f.down
      /\ e.text = (IF f.down THEN v.text ELSE <<>>)
      /\ e.flags = (IF v.shift THEN {"shift"} ELSE {})
  BY <1>1 DEF Filled
<1> HIDE DEF e
<1>3. DownOf(c, held) = e
  BY DEF DownOf, e, f
<1> QED
  BY <1>1, <1>2, <1>3

\* A key going up is read as nothing.
LEMMA UpIsRead ==
    ASSUME NEW c, NEW held, NEW doc
    PROVE  ReadText(doc, UpOf(c, held)) = doc /\ ReadCode(doc, UpOf(c, held)) = doc
<1>1. UpOf(c, held).down = FALSE /\ UpOf(c, held).text = <<>>
  BY DEF UpOf, Filled, Created
<1> QED
  BY <1>1 DEF ReadText, ReadCode

\* A key without a text of its own is read by its code, whichever is read.
LEMMA CodeIsRead ==
    ASSUME NEW c, NEW held, NEW doc, NEW code \in {36, 49, 51, 56}, SentAsKey(c, code)
    PROVE  /\ ReadText(doc, DownOf(c, held)) = Struck(doc, code)
           /\ ReadCode(doc, DownOf(c, held)) = Struck(doc, code)
<1> DEFINE e == DownOf(c, held)
           v == VirtualKeyFor(KeyForCharacter(c))
<1>1. e.down = TRUE /\ e.text = <<>> /\ e.code = code /\ e.flags = {}
  <2>1. v.code = code /\ v.shift = FALSE /\ v.text = <<>>
    BY DEF SentAsKey
  <2>2. /\ e.code = v.code /\ e.down = TRUE /\ e.text = v.text
        /\ e.flags = IF v.shift THEN {"shift"} ELSE {}
    BY DownForm
  <2> HIDE DEF v, e
  <2> QED
    BY <2>1, <2>2
<1>2. code \in Range(SpecialVirtualKeys)
  <2>1. \A k \in Special : SpecialVirtualKeys[k] \in Range(SpecialVirtualKeys)
    BY DEF Special, SpecialVirtualKeys, Range
  <2>2. /\ SpecialVirtualKeys["ENTER"] = 36 /\ SpecialVirtualKeys["SPACE"] = 49
        /\ SpecialVirtualKeys["BACKSPACE"] = 51 /\ SpecialVirtualKeys["SHIFT"] = 56
    BY DEF SpecialVirtualKeys
  <2>3. {"ENTER", "SPACE", "BACKSPACE", "SHIFT"} \subseteq Special
    BY DEF Special
  <2> QED
    BY <2>1, <2>2, <2>3
<1> HIDE DEF e
<1>3. ReadText(doc, e) = Struck(doc, code) /\ ReadCode(doc, e) = Struck(doc, code)
  BY <1>1, <1>2 DEF ReadText, ReadCode, Types
<1> QED
  BY <1>3 DEF e

\* An event that carries the character its key shows is read as that character,
\* from its text and from its code.
LEMMA TextIsRead ==
    ASSUME NEW c \in Char, NEW doc \in Seq(Char), NEW e,
           e.down = TRUE, e.text = <<c>>, Types(e),
           e.code \notin {36, 48, 49, 51, 56}, Keycap(e) = c
    PROVE  ReadText(doc, e) = Append(doc, c) /\ ReadCode(doc, e) = Append(doc, c)
<1>1. e.code \notin Range(SpecialVirtualKeys)
  BY DEF SpecialVirtualKeys, Range
<1>2. ReadCode(doc, e) = Append(doc, c)
  BY <1>1 DEF ReadCode
<1>3. ReadText(doc, e) = Append(doc, c)
  <2>1. doc \o <<c>> = Append(doc, c)
    OBVIOUS
  <2>2. <<c>> # <<>>
    OBVIOUS
  <2> QED
    BY <2>1, <2>2 DEF ReadText
<1> QED
  BY <1>2, <1>3

\* So is a character sent with Shift.
LEMMA ShiftedIsRead ==
    ASSUME NEW c \in Char, NEW held, NEW doc \in Seq(Char), NEW code,
           SentShifted(c, code), code \notin {36, 48, 49, 51, 56},
           \A e : e.code = code /\ e.flags = {"shift"} => Keycap(e) = c
    PROVE  /\ ReadText(doc, DownOf(c, held)) = Append(doc, c)
           /\ ReadCode(doc, DownOf(c, held)) = Append(doc, c)
<1> DEFINE e == DownOf(c, held)
           v == VirtualKeyFor(KeyForCharacter(c))
<1>1. v.code = code /\ v.shift = TRUE /\ v.text = <<c>>
  BY DEF SentShifted
<1>2. /\ e.code = v.code /\ e.down = TRUE /\ e.text = v.text
      /\ e.flags = IF v.shift THEN {"shift"} ELSE {}
  BY DownForm
<1> HIDE DEF v, e
<1>3. e.code = code /\ e.down = TRUE /\ e.text = <<c>> /\ e.flags = {"shift"}
  BY <1>1, <1>2
<1>4. Keycap(e) = c /\ Types(e)
  BY <1>3 DEF Types
<1>5. ReadText(doc, e) = Append(doc, c) /\ ReadCode(doc, e) = Append(doc, c)
  BY <1>3, <1>4, TextIsRead
<1> QED
  BY <1>5 DEF e

\* So is one sent plainly.
LEMMA PlainIsRead ==
    ASSUME NEW c \in Char, NEW held, NEW doc \in Seq(Char), NEW code,
           SentPlain(c, code), code \notin {36, 48, 49, 51, 56},
           \A e : e.code = code /\ e.flags = {} => Keycap(e) = c
    PROVE  /\ ReadText(doc, DownOf(c, held)) = Append(doc, c)
           /\ ReadCode(doc, DownOf(c, held)) = Append(doc, c)
<1> DEFINE e == DownOf(c, held)
           v == VirtualKeyFor(KeyForCharacter(c))
<1>1. v.code = code /\ v.shift = FALSE /\ v.text = <<c>>
  BY DEF SentPlain
<1>2. /\ e.code = v.code /\ e.down = TRUE /\ e.text = v.text
      /\ e.flags = IF v.shift THEN {"shift"} ELSE {}
  BY DownForm
<1> HIDE DEF v, e
<1>3. e.code = code /\ e.down = TRUE /\ e.text = <<c>> /\ e.flags = {}
  BY <1>1, <1>2
<1>4. Keycap(e) = c /\ Types(e)
  BY <1>3 DEF Types
<1>5. ReadText(doc, e) = Append(doc, c) /\ ReadCode(doc, e) = Append(doc, c)
  BY <1>3, <1>4, TextIsRead
<1> QED
  BY <1>5 DEF e

\* Every key the gate lets through does to an application's text what it does to
\* the shadow buffer, whichever way the application reads it.
LEMMA DownIsRead ==
    ASSUME NEW c \in Key \ {Tab}, NEW held, NEW doc \in Seq(Char)
    PROVE  /\ ReadText(doc, DownOf(c, held)) = After(c, doc)
           /\ ReadCode(doc, DownOf(c, held)) = After(c, doc)
<1>1. CASE c \in {Newline, Space, Backspace, Shift}
  <2>1. Newline \in Char /\ Space \in Char /\ Backspace \notin Char /\ Shift \notin Char
    BY CharAssumption, KeyAssumption DEF Supported
  <2>2. /\ Struck(doc, 36) = After(Newline, doc) /\ Struck(doc, 49) = After(Space, doc)
        /\ Struck(doc, 51) = After(Backspace, doc) /\ Struck(doc, 56) = After(Shift, doc)
    BY <2>1, NameAssumption DEF Struck, After
  <2>3. ASSUME NEW code \in {36, 49, 51, 56}, Struck(doc, code) = After(c, doc),
               SentAsKey(c, code)
        PROVE  /\ ReadText(doc, DownOf(c, held)) = After(c, doc)
               /\ ReadCode(doc, DownOf(c, held)) = After(c, doc)
    BY <2>3, CodeIsRead
  <2>4. CASE c = Newline
    BY <2>2, <2>3, <2>4, SpecialSent
  <2>5. CASE c = Space
    BY <2>2, <2>3, <2>5, SpecialSent
  <2>6. CASE c = Backspace
    BY <2>2, <2>3, <2>6, SpecialSent
  <2>7. CASE c = Shift
    BY <2>2, <2>3, <2>7, SpecialSent
  <2> QED
    BY <1>1, <2>4, <2>5, <2>6, <2>7
<1>2. CASE c \in Char \ {Newline, Space}
  <2> USE DEF Keycap
  <2>1. CASE /\ c \in ToSet(Shifted)
             /\ SentShifted(c, UsVirtualKeys[UsShiftedKeys[c]])
    <3> DEFINE code == UsVirtualKeys[UsShiftedKeys[c]]
    <3>1. code \notin {36, 48, 49, 51, 56} /\ ByCode[code + 1] = UsShiftedKeys[c]
      BY <2>1, ShiftedKey, CodeOfKey
    <3>2. UsShiftedKeys[c] \notin ToSet(Small)
      BY <2>1, ShiftedKey
    <3>3. (CHOOSE d \in ToSet(Shifted) : UsShiftedKeys[d] = UsShiftedKeys[c]) = c
      BY <2>1, ShiftedKey
    <3> HIDE DEF code
    <3>4. \A e : e.code = code /\ e.flags = {"shift"} => Keycap(e) = c
      BY <3>1, <3>2, <3>3
    <3>5. SentShifted(c, code)
      BY <2>1 DEF code
    <3> QED
      BY <1>2, <3>1, <3>4, <3>5, ShiftedIsRead DEF After
  <2>2. CASE /\ c \in ToSet(Capital)
             /\ SentShifted(c, UsVirtualKeys[Lowered(c)])
    <3> DEFINE code == UsVirtualKeys[Lowered(c)]
    <3>1. Lowered(c) \in ToSet(Small) /\ Raised(Lowered(c)) = c
      BY <2>2, CapitalKey
    <3>2. Lowered(c) # "none" /\ \E k \in 1 .. 51 : ByCode[k] = Lowered(c)
      <4>1. PICK n \in 1 .. 26 : Lowered(c) = Small[n]
        BY <3>1, TableSizes DEF ToSet
      <4>2. Small[n] # "none"
        BY NameTable
      <4>3. \E k \in 1 .. 51 : ByCode[k] = Small[n]
        BY CodeTable
      <4> QED
        BY <4>1, <4>2, <4>3
    <3>3. code \notin {36, 48, 49, 51, 56} /\ ByCode[code + 1] = Lowered(c)
      BY <3>2, CodeOfKey
    <3> HIDE DEF code
    <3>4. \A e : e.code = code /\ e.flags = {"shift"} => Keycap(e) = c
      BY <3>1, <3>3
    <3>5. SentShifted(c, code)
      BY <2>2 DEF code
    <3> QED
      BY <1>2, <3>3, <3>4, <3>5, ShiftedIsRead DEF After
  <2>3. CASE /\ c # "none" /\ \E k \in 1 .. 51 : ByCode[k] = c
             /\ SentPlain(c, UsVirtualKeys[c])
    <3> DEFINE code == UsVirtualKeys[c]
    <3>1. code \notin {36, 48, 49, 51, 56} /\ ByCode[code + 1] = c
      BY <2>3, CodeOfKey
    <3> HIDE DEF code
    <3>4. \A e : e.code = code /\ e.flags = {} => Keycap(e) = c
      BY <3>1
    <3>5. SentPlain(c, code)
      BY <2>3 DEF code
    <3> QED
      BY <1>2, <3>1, <3>4, <3>5, PlainIsRead DEF After
  <2> QED
    BY <1>2, <2>1, <2>2, <2>3, CharacterSent
<1> QED
  BY <1>1, <1>2 DEF Key

-----------------------------------------------------------------------------
(* What arrives.  A verified plan has been replayed to the end, so there is *)
(* a trace from the empty text to the text asked for; the applications are  *)
(* where it is after the events delivered.                                 *)

\* Events 1 to n of s lead from the empty text to state u.
Reached(s, n, u) ==
    \E B : /\ B \in [0 .. n -> State] /\ B[0] = Rest(<<>>) /\ B[n] = u
           /\ \A i \in 1 .. n : Moves(s[i], B[i - 1], B[i])

\* The replay is where its events lead, and what has arrived of a verified plan is
\* where the events delivered lead.
ArrivalInv ==
    /\ sent \in 0 .. Len(events)
    /\ phase # "verified" => sent = 0 /\ byText = <<>> /\ byCode = <<>>
    /\ phase \in {"ask", "build"} => Now = Rest(<<>>) /\ pos = 0
    /\ phase = "replay" => Reached(events, pos, Now)
    /\ phase = "verified" =>
          \E B : /\ Trace(B, events)
                 /\ B[0] = Rest(<<>>) /\ B[Len(events)] = Rest(text)
                 /\ byText = B[sent].doc /\ byCode = B[sent].doc

\* Nothing has been done of a plan before its first event.
LEMMA ReachedFirst == ASSUME NEW s PROVE Reached(s, 0, Rest(<<>>))
<1> DEFINE B == [i \in 0 .. 0 |-> Rest(<<>>)]
<1>1. Rest(<<>>) \in State
  BY DEF Rest, State
<1>2. B \in [0 .. 0 -> State] /\ B[0] = Rest(<<>>)
  BY <1>1
<1>3. 1 .. 0 = {}
  OBVIOUS
<1> HIDE DEF B
<1> QED
  BY <1>2, <1>3 DEF Reached

\* One more event in order leads one state further.
LEMMA ReachedNext ==
    ASSUME NEW s, NEW n \in Nat, NEW u, NEW v \in State,
           Reached(s, n, u), Moves(s[n + 1], u, v)
    PROVE  Reached(s, n + 1, v)
<1>1. PICK B : /\ B \in [0 .. n -> State] /\ B[0] = Rest(<<>>) /\ B[n] = u
               /\ \A i \in 1 .. n : Moves(s[i], B[i - 1], B[i])
  BY DEF Reached
<1> DEFINE C == [i \in 0 .. n + 1 |-> IF i <= n THEN B[i] ELSE v]
<1>2. C \in [0 .. n + 1 -> State]
  BY <1>1
<1>3. C[0] = Rest(<<>>) /\ C[n + 1] = v
  BY <1>1
<1>4. ASSUME NEW i \in 1 .. n + 1
      PROVE  Moves(s[i], C[i - 1], C[i])
  <2>1. CASE i <= n
    BY <1>1, <2>1
  <2>2. CASE i = n + 1
    <3>1. C[i - 1] = u /\ C[i] = v /\ s[i] = s[n + 1]
      BY <1>1, <2>2
    <3> QED
      BY <3>1
  <2> QED
    BY <2>1, <2>2
<1> HIDE DEF C
<1> QED
  BY <1>2, <1>3, <1>4 DEF Reached

\* What the gate accepts moves as the events say.
LEMMA ReplayMoves ==
    ASSUME TypeInv, ReplayEvent, UNCHANGED <<quartzVars, sent, broken>>, phase' = "replay"
    PROVE  Moves(events[pos + 1], Now, Now') /\ Now' \in State
<1> DEFINE e == events[pos + 1]
<1>1. e \in Event
  BY DEF ReplayEvent, TypeInv, TypeOK
<1>2. ~fault'
  BY DEF ReplayEvent
<1>3. Now' \in State
  <2>1. TypeInv'
    BY TypesStep DEF PathNext, Plan, Next, Validate, pathVars
  <2> QED
    BY <2>1 DEF TypeInv, TypeOK, Now, State
<1> DEFINE now == [doc |-> chars', down |-> pressed']
<1>0. Now' = now /\ Now = [doc |-> chars, down |-> pressed]
  BY DEF Now
<1>4. CASE e.kind = "delay" /\ UNCHANGED bufferVars
  BY <1>0, <1>3, <1>4 DEF Moves, bufferVars
<1>5. CASE e.kind = "down" /\ Press(e.key)
  <2>1. e.key \notin pressed /\ e.key # Tab
    BY <1>2, <1>5 DEF Press
  <2>2. chars' = After(e.key, chars) /\ pressed' = pressed \cup {e.key}
    BY <1>5, <2>1, KeyAssumption DEF Press, Typed, After
  <2> QED
    BY <1>0, <1>3, <1>5, <2>1, <2>2 DEF Moves
<1>6. CASE e.kind = "up" /\ Release(e.key)
  <2>1. e.key \in pressed /\ chars' = chars /\ pressed' = pressed \ {e.key}
    BY <1>2, <1>6 DEF Release
  <2> QED
    BY <1>0, <1>3, <1>6, <2>1 DEF Moves
<1> QED
  BY <1>4, <1>5, <1>6 DEF ReplayEvent

\* What is delivered is read as the plan says, by both readings.
LEMMA DeliverMoves ==
    ASSUME TypeInv, ArrivalInv, Deliver
    PROVE  ArrivalInv'
<1> DEFINE e == events[sent + 1]
           n == sent + 1
<1>1. /\ phase = "verified" /\ n \in 1 .. Len(events) /\ n - 1 = sent /\ e \in Event
      /\ sent' = n /\ UNCHANGED <<phase, text, events>>
  BY DEF Deliver, Sending, ArrivalInv, TypeInv, TypeOK, vars
<1>2. PICK B : /\ Trace(B, events)
               /\ B[0] = Rest(<<>>) /\ B[Len(events)] = Rest(text)
               /\ byText = B[sent].doc /\ byCode = B[sent].doc
  BY <1>1 DEF ArrivalInv
<1>3. Moves(events[n], B[sent], B[n]) /\ B[sent] \in State
  <2>1. Moves(events[n], B[n - 1], B[n])
    BY <1>1, <1>2 DEF Trace
  <2>2. sent \in 0 .. Len(events)
    BY DEF ArrivalInv
  <2> QED
    BY <1>1, <1>2, <2>1, <2>2 DEF Trace
<1>4. byText \in Seq(Char) /\ byCode = byText
  BY <1>2, <1>3 DEF State
<1>5. byText' = B[n].doc /\ byCode' = B[n].doc
  <2>1. CASE e.kind = "delay" /\ UNCHANGED quartzVars
    <3>1. B[n] = B[sent]
      BY <1>3, <2>1 DEF Moves
    <3> QED
      BY <1>2, <2>1, <3>1 DEF quartzVars
  <2>2. CASE e.kind = "down"
    <3>1. PICK held \in HeldModifiers : Post(KeyForCharacter(e.key), e.kind = "down", held)
      BY <2>2 DEF Deliver
    <3>2. (e.kind = "down") = TRUE
      BY <2>2
    <3>3. Post(KeyForCharacter(e.key), TRUE, held)
      BY <3>1, <3>2
    <3>4. /\ byText' = ReadText(byText, DownOf(e.key, held))
          /\ byCode' = ReadCode(byCode, DownOf(e.key, held))
      BY <3>3 DEF Post, DownOf
    <3>5. e.key \in Key \ {Tab} /\ B[n].doc = After(e.key, byText)
      BY <1>1, <1>2, <1>3, <2>2 DEF Moves, Event
    <3> QED
      BY <1>4, <3>4, <3>5, DownIsRead
  <2>3. CASE e.kind = "up"
    <3>1. PICK held \in HeldModifiers : Post(KeyForCharacter(e.key), e.kind = "down", held)
      BY <2>3 DEF Deliver
    <3>2. (e.kind = "down") = FALSE
      BY <2>3
    <3>3. Post(KeyForCharacter(e.key), FALSE, held)
      BY <3>1, <3>2
    <3>4. /\ byText' = ReadText(byText, UpOf(e.key, held))
          /\ byCode' = ReadCode(byCode, UpOf(e.key, held))
      BY <3>3 DEF Post, UpOf
    <3>5. B[n].doc = byText
      BY <1>2, <1>3, <2>3 DEF Moves
    <3> QED
      BY <1>4, <3>4, <3>5, UpIsRead
  <2> QED
    BY <1>1, <2>1, <2>2, <2>3 DEF Deliver, Event
<1>6. B[sent'].doc = B[n].doc
  BY <1>1
<1>7. sent' \in 0 .. Len(events')
  BY <1>1
<1> QED
  BY <1>1, <1>2, <1>5, <1>6, <1>7 DEF ArrivalInv

\* Nothing has arrived at the start.
LEMMA ArrivalInit == PathInit => ArrivalInv
<1> SUFFICES ASSUME PathInit PROVE ArrivalInv
  OBVIOUS
<1>1. /\ Now = Rest(<<>>) /\ pos = 0 /\ sent = 0 /\ byText = <<>> /\ byCode = <<>>
      /\ phase \in {"ask", "replay"}
  BY DEF PathInit, Init, BufferInit, QuartzInit, Now, Rest, Ask, Take
<1>2. sent \in 0 .. Len(events)
  BY <1>1, TypesInit DEF TypeInv, TypeOK
<1> QED
  BY <1>1, <1>2, ReachedFirst DEF ArrivalInv

\* Every step keeps the applications where the events delivered put them.
LEMMA ArrivalStep == ASSUME TypeInv, ArrivalInv, [PathNext]_pathVars PROVE ArrivalInv'
<1>1. CASE Refuse /\ UNCHANGED <<quartzVars, sent>>
  BY <1>1 DEF Refuse, bufferVars, quartzVars, ArrivalInv
<1>2. CASE Generate /\ UNCHANGED <<quartzVars, sent>>
  BY <1>2 DEF Generate, bufferVars, quartzVars, ArrivalInv, Now
<1>3. CASE /\ TypeCharacter \/ Substitution \/ Duplicate \/ Transposition
           /\ UNCHANGED <<quartzVars, sent>>
  <2>1. TypeInv'
    BY <1>3, TypesStep DEF PathNext, Plan, Next
  <2> QED
    BY <1>3, <2>1 DEF TypeCharacter, Substitution, Duplicate, Transposition, Emit, TypeInv,
       TypeOK, bufferVars, quartzVars, ArrivalInv, Now
<1>4. CASE StartReplay /\ UNCHANGED <<quartzVars, sent>>
  BY <1>4, ReachedFirst DEF StartReplay, bufferVars, quartzVars, ArrivalInv, Now
<1>5. CASE ReplayEvent /\ UNCHANGED <<quartzVars, sent, broken>>
  <2>1. phase = "replay" /\ phase' \in {"replay", "rejected"} /\ pos' = pos + 1
        /\ UNCHANGED events
    BY <1>5 DEF ReplayEvent
  <2>2. phase' = "replay" => Reached(events', pos', Now')
    <3> SUFFICES ASSUME phase' = "replay" PROVE Reached(events, pos + 1, Now')
      BY <2>1
    <3>1. Moves(events[pos + 1], Now, Now') /\ Now' \in State
      BY <1>5, ReplayMoves
    <3>2. Reached(events, pos, Now) /\ pos \in Nat
      BY <2>1 DEF ArrivalInv, TypeInv, TypeOK
    <3> QED
      BY <3>1, <3>2, ReachedNext
  <2> QED
    BY <1>5, <2>1, <2>2 DEF ArrivalInv, quartzVars
<1>6. CASE Compare /\ UNCHANGED <<quartzVars, sent>>
  <2>1. phase = "replay" /\ UNCHANGED <<events, text>> /\ pos = Len(events)
    BY <1>6 DEF Compare
  <2>2. CASE phase' = "verified"
    <3>1. Now = Rest(text)
      BY <1>6, <2>2 DEF Compare, Now, Rest
    <3>2. PICK B : /\ B \in [0 .. pos -> State] /\ B[0] = Rest(<<>>) /\ B[pos] = Now
                   /\ \A i \in 1 .. pos : Moves(events[i], B[i - 1], B[i])
      BY <2>1 DEF ArrivalInv, Reached
    <3>3. Trace(B, events) /\ B[Len(events)] = Rest(text)
      BY <2>1, <3>1, <3>2 DEF Trace
    <3>4. sent = 0 /\ byText = <<>> /\ byCode = <<>> /\ B[sent].doc = <<>>
      BY <2>1, <3>2 DEF ArrivalInv, Rest
    <3> QED
      BY <1>6, <2>1, <2>2, <3>2, <3>3, <3>4 DEF ArrivalInv, quartzVars
  <2>3. CASE phase' = "rejected"
    BY <1>6, <2>1, <2>3 DEF ArrivalInv, quartzVars
  <2> QED
    BY <1>6, <2>2, <2>3 DEF Compare
<1>7. CASE Deliver
  BY <1>7, DeliverMoves
<1>8. CASE UNCHANGED vars /\ UNCHANGED <<quartzVars, sent>>
  BY <1>8 DEF vars, bufferVars, quartzVars, ArrivalInv, Now
<1> QED
  BY <1>1, <1>2, <1>3, <1>4, <1>5, <1>6, <1>7, <1>8
  DEF PathNext, Plan, Next, Validate, Done, CreationFails, pathVars

\* An application that takes the text and one that takes the key codes show the
\* same document all along, and when the plan is through it is the text asked for
\* (quartz_backend.py:106-196), whoever made the plan and whatever the user holds.
THEOREM TextArrives == PathSpec => []ArrivesAsAsked
<1>1. ASSUME TypeInv, ArrivalInv
      PROVE  ArrivesAsAsked
  <2>1. CASE phase # "verified"
    BY <1>1, <2>1 DEF ArrivalInv, ArrivesAsAsked
  <2>2. CASE phase = "verified"
    <3>1. PICK B : /\ B[Len(events)] = Rest(text)
                   /\ byText = B[sent].doc /\ byCode = B[sent].doc
      BY <1>1, <2>2 DEF ArrivalInv
    <3> QED
      BY <3>1 DEF ArrivesAsAsked, Rest
  <2> QED
    BY <2>1, <2>2
<1>2. TypeInv /\ ArrivalInv /\ [PathNext]_pathVars => TypeInv' /\ ArrivalInv'
  BY TypesStep, ArrivalStep
<1> QED
  BY <1>1, <1>2, TypesInit, ArrivalInit, PTL DEF PathSpec

-----------------------------------------------------------------------------
(* The gate lets through what leads to the text, and nothing else.         *)

\* B begins with the empty text and goes along with the first n events of s.
Follows(B, s, n) == B[0] = Rest(<<>>) /\ \A i \in 1 .. n : Moves(s[i], B[i - 1], B[i])

\* The replay is in the one state its events lead to; what was rejected leads nowhere
\* or elsewhere.
GateInv ==
    /\ phase \in {"ask", "build", "replay"} => ~fault
    /\ phase \in {"ask", "build"} => Now = Rest(<<>>) /\ pos = 0
    /\ phase = "replay" => \A B : Follows(B, events, pos) => B[pos] = Now
    /\ phase = "rejected" => ~Reaches(events, text)

\* One event more: nothing follows an event out of order, and only one state one
\* in order.
LEMMA GateReplays ==
    ASSUME TypeInv, GateInv, ReplayEvent
    PROVE  GateInv'
<1> DEFINE e == events[pos + 1]
           now == [doc |-> chars', down |-> pressed']
<1>0. Now' = now /\ Now = [doc |-> chars, down |-> pressed]
  BY DEF Now
<1>1. /\ phase = "replay" /\ phase' = (IF fault' THEN "rejected" ELSE "replay")
      /\ pos' = pos + 1 /\ UNCHANGED <<events, text>>
      /\ pos \in Nat /\ pos + 1 \in 1 .. Len(events) /\ e \in Event
  BY DEF ReplayEvent, TypeInv, TypeOK
<1>2. ASSUME NEW B, Follows(B, events, pos + 1)
      PROVE  Moves(e, Now, B[pos + 1])
  <2>1. Follows(B, events, pos)
    BY <1>1, <1>2 DEF Follows
  <2>2. B[pos] = Now
    BY <1>1, <2>1 DEF GateInv
  <2>3. pos + 1 \in 1 .. pos + 1 /\ (pos + 1) - 1 = pos
    BY <1>1
  <2>4. Moves(events[pos + 1], B[(pos + 1) - 1], B[pos + 1])
    BY <1>2, <2>3 DEF Follows
  <2> QED
    BY <2>2, <2>3, <2>4
<1>3. ASSUME NEW u, Moves(e, Now, u)
      PROVE  ~fault' /\ u = Now'
  <2>1. CASE e.kind = "delay" /\ UNCHANGED bufferVars
    <3>1. u = Now' /\ fault' = fault
      BY <1>0, <1>3, <2>1 DEF Moves, bufferVars
    <3> QED
      BY <1>1, <3>1 DEF GateInv
  <2>2. CASE e.kind = "down" /\ Press(e.key)
    <3>1. e.key \notin pressed /\ e.key # Tab
      BY <1>0, <1>3, <2>2 DEF Moves
    <3>2. chars' = After(e.key, chars) /\ pressed' = pressed \cup {e.key} /\ ~fault'
      BY <2>2, <3>1, KeyAssumption DEF Press, Typed, After
    <3> QED
      BY <1>0, <1>3, <2>2, <3>1, <3>2 DEF Moves
  <2>3. CASE e.kind = "up" /\ Release(e.key)
    <3>1. e.key \in pressed /\ chars' = chars /\ pressed' = pressed \ {e.key} /\ ~fault'
      BY <1>0, <1>3, <2>3 DEF Moves, Release
    <3> QED
      BY <1>0, <1>3, <2>3, <3>1 DEF Moves
  <2> QED
    BY <2>1, <2>2, <2>3 DEF ReplayEvent
<1>4. CASE phase' = "replay"
  <2>1. \A B : Follows(B, events, pos + 1) => B[pos + 1] = Now'
    BY <1>2, <1>3
  <2> QED
    BY <1>1, <1>4, <2>1 DEF GateInv
<1>5. CASE phase' = "rejected"
  <2>1. fault'
    BY <1>1, <1>5
  <2>2. ASSUME Reaches(events, text)
        PROVE  FALSE
    <3>1. PICK B : Trace(B, events) /\ B[0] = Rest(<<>>)
      BY <2>2 DEF Reaches
    <3>2. Follows(B, events, pos + 1)
      BY <1>1, <3>1 DEF Trace, Follows
    <3> QED
      BY <1>2, <1>3, <2>1, <3>2
  <2> QED
    BY <1>1, <1>5, <2>2 DEF GateInv
<1> QED
  BY <1>1, <1>4, <1>5

\* Nothing is judged at the start.
LEMMA GateInit == PathInit => GateInv
<1> SUFFICES ASSUME PathInit PROVE GateInv
  OBVIOUS
<1>1. Now = Rest(<<>>) /\ pos = 0 /\ phase \in {"ask", "replay"}
  BY DEF PathInit, Init, BufferInit, Now, Rest, Ask, Take
<1>2. ~fault
  BY Zenon DEF PathInit, Init, BufferInit
<1> QED
  BY <1>1, <1>2 DEF GateInv, Follows

\* Every step keeps the gate right.
LEMMA GateStep == ASSUME TypeInv, GateInv, [PathNext]_pathVars PROVE GateInv'
<1>1. CASE Refuse
  BY <1>1 DEF Refuse, bufferVars, GateInv
<1>2. CASE Generate
  BY <1>2 DEF Generate, bufferVars, GateInv, Now
<1>3. CASE TypeCharacter \/ Substitution \/ Duplicate \/ Transposition
  BY <1>3 DEF TypeCharacter, Substitution, Duplicate, Transposition, Emit, bufferVars,
     GateInv, Now
<1>4. CASE StartReplay
  BY <1>4 DEF StartReplay, bufferVars, GateInv, Now, Follows
<1>5. CASE ReplayEvent
  BY <1>5, GateReplays
<1>6. CASE Compare
  <2>1. phase = "replay" /\ pos = Len(events) /\ UNCHANGED <<events, text>>
    BY <1>6 DEF Compare
  <2>2. CASE phase' = "rejected"
    <3>1. Now # Rest(text)
      BY <1>6, <2>2 DEF Compare, Now, Rest
    <3>2. ASSUME Reaches(events, text)
          PROVE  FALSE
      <4>1. PICK B : /\ Trace(B, events)
                     /\ B[0] = Rest(<<>>) /\ B[Len(events)] = Rest(text)
        BY <3>2 DEF Reaches
      <4>2. Follows(B, events, pos)
        BY <2>1, <4>1 DEF Trace, Follows
      <4> QED
        BY <2>1, <3>1, <4>1, <4>2 DEF GateInv
    <3> QED
      BY <2>1, <2>2, <3>2 DEF GateInv
  <2>3. CASE phase' = "verified"
    BY <2>3 DEF GateInv
  <2> QED
    BY <1>6, <2>2, <2>3 DEF Compare
<1>7. CASE UNCHANGED vars
  BY <1>7 DEF vars, bufferVars, GateInv, Now
<1> QED
  BY <1>1, <1>2, <1>3, <1>4, <1>5, <1>6, <1>7
  DEF PathNext, Plan, Next, Validate, Done, Deliver, CreationFails, pathVars

\* The gate (text_buffer.py:116-137) lets through exactly the plans, of any length and
\* whoever made them, whose events are in order and lead from an empty text field to
\* the text asked for with no key left down.
THEOREM GateLetsThrough ==
    PathSpec => [](/\ phase = "verified" => Reaches(events, text)
                   /\ phase = "rejected" => ~Reaches(events, text))
<1>1. ASSUME ArrivalInv, GateInv
      PROVE  /\ phase = "verified" => Reaches(events, text)
             /\ phase = "rejected" => ~Reaches(events, text)
  BY <1>1 DEF ArrivalInv, GateInv, Reaches
<1>2. TypeInv /\ ArrivalInv /\ GateInv /\ [PathNext]_pathVars
         => TypeInv' /\ ArrivalInv' /\ GateInv'
  BY TypesStep, ArrivalStep, GateStep
<1> QED
  BY <1>1, <1>2, TypesInit, ArrivalInit, GateInit, PTL DEF PathSpec
-----------------------------------------------------------------------------
(* The gate against the text that events leave, which nobody replays.      *)

\* The definitions look at the events alone.
LEMMA SameEvents ==
    ASSUME UNCHANGED events
    PROVE  /\ \A m, t : Spells(m, t)' <=> Spells(m, t)
           /\ \A m : Staying(m)' = Staying(m)
           /\ \A i, j : Net(i, j)' = Net(i, j)
           /\ \A k, m : Held(k, m)' <=> Held(k, m)
           /\ \A i : InOrder(i)' <=> InOrder(i)
<1>1. \A S : PressesOf(S)' = PressesOf(S)
  BY DEF PressesOf
<1>2. \A i, j : Net(i, j)' = Net(i, j)
  BY <1>1 DEF Net
<1>3. \A m : Staying(m)' = Staying(m)
  BY <1>1, <1>2 DEF Staying
<1>4. \A k, m : Held(k, m)' <=> Held(k, m)
  BY DEF Held
<1> QED
  BY <1>2, <1>3, <1>4 DEF Spells, InOrder

\* One number more in a stretch.
LEMMA Counted ==
    ASSUME NEW S, NEW i \in Nat, NEW m \in Nat, i <= m + 1
    PROVE  /\ Cardinality(S \cap i .. m) \in Nat
           /\ Cardinality(S \cap i .. m + 1)
                 = Cardinality(S \cap i .. m) + (IF m + 1 \in S THEN 1 ELSE 0)
<1>1. IsFiniteSet(S \cap i .. m)
  <2>1. IsFiniteSet(i .. m)
    BY FS_Interval
  <2> QED
    BY <2>1, FS_Subset
<1>2. Cardinality(S \cap i .. m) \in Nat
  BY <1>1, FS_CardinalityType
<1>3. i .. m + 1 = (i .. m) \cup {m + 1} /\ m + 1 \notin i .. m
  OBVIOUS
<1>4. CASE m + 1 \in S
  <2>1. S \cap i .. m + 1 = (S \cap i .. m) \cup {m + 1} /\ m + 1 \notin S \cap i .. m
    BY <1>3, <1>4
  <2> QED
    BY <1>1, <1>2, <1>4, <2>1, FS_AddElement
<1>5. CASE m + 1 \notin S
  <2>1. S \cap i .. m + 1 = S \cap i .. m
    BY <1>3, <1>5
  <2> QED
    BY <1>2, <1>5, <2>1
<1> QED
  BY <1>4, <1>5

\* What event m + 1 adds to a stretch.
Gain(n) == IF n \in PressesOf(Char) THEN 1
           ELSE IF n \in PressesOf({Backspace}) THEN -1 ELSE 0

\* A stretch of nothing inserts nothing, and one event more adds its own.
LEMMA NetSteps ==
    ASSUME NEW i \in Nat, NEW m \in Nat, i <= m + 1
    PROVE  /\ Net(i, m) \in Int
           /\ i = m + 1 => Net(i, m) = 0
           /\ Net(i, m + 1) = Net(i, m) + Gain(m + 1)
<1> DEFINE Ins == PressesOf(Char)
           Del == PressesOf({Backspace})
           ins == Cardinality(Ins \cap i .. m)
           del == Cardinality(Del \cap i .. m)
<1>1. /\ m + 1 \in Ins => m + 1 \notin Del
      /\ Gain(m + 1) = IF m + 1 \in Ins THEN 1 ELSE IF m + 1 \in Del THEN -1 ELSE 0
  BY KeyAssumption DEF PressesOf, Gain
<1>2. i = m + 1 => ins = 0 /\ del = 0
  <2>1. i = m + 1 => Ins \cap i .. m = {} /\ Del \cap i .. m = {}
    OBVIOUS
  <2>2. Cardinality({}) = 0
    BY FS_EmptySet
  <2> QED
    BY <2>1, <2>2, Zenon
<1> HIDE DEF Ins, Del
<1>3. \A S : /\ Cardinality(S \cap i .. m) \in Nat
             /\ Cardinality(S \cap i .. m + 1)
                   = Cardinality(S \cap i .. m) + (IF m + 1 \in S THEN 1 ELSE 0)
  BY Counted
<1>4. /\ Net(i, m) = ins - del
      /\ Net(i, m + 1) = Cardinality(Ins \cap i .. m + 1) - Cardinality(Del \cap i .. m + 1)
  BY DEF Net, Ins, Del
<1>5. /\ ins \in Nat /\ del \in Nat
      /\ Cardinality(Ins \cap i .. m + 1) = ins + (IF m + 1 \in Ins THEN 1 ELSE 0)
      /\ Cardinality(Del \cap i .. m + 1) = del + (IF m + 1 \in Del THEN 1 ELSE 0)
  BY <1>3
<1> HIDE DEF ins, del
<1>6. Net(i, m + 1) = (ins + (IF m + 1 \in Ins THEN 1 ELSE 0))
                        - (del + (IF m + 1 \in Del THEN 1 ELSE 0))
  BY <1>4, <1>5, Zenon
<1> QED
  BY <1>1, <1>2, <1>4, <1>5, <1>6

\* One event more: what stayed stays if it is not deleted now.
LEMMA StayingStep ==
    ASSUME NEW m \in Nat
    PROVE  Staying(m + 1) = {i \in Staying(m) : Net(i + 1, m + 1) >= 0}
                                \cup (PressesOf(Char) \cap {m + 1})
<1>1. 1 .. m + 1 = (1 .. m) \cup {m + 1}
  OBVIOUS
<1>2. \A i \in 1 .. m : i + 1 .. m + 1 = (i + 1 .. m) \cup {m + 1}
  OBVIOUS
<1>3. (m + 1) + 1 .. m + 1 = {}
  OBVIOUS
<1>4. \A i \in 1 .. m : i \in Staying(m + 1) <=> i \in Staying(m) /\ Net(i + 1, m + 1) >= 0
  BY <1>1, <1>2 DEF Staying
<1>5. m + 1 \in Staying(m + 1) <=> m + 1 \in PressesOf(Char)
  BY <1>1, <1>3 DEF Staying
<1>6. Staying(m + 1) \subseteq 1 .. m + 1 /\ Staying(m) \subseteq 1 .. m
  BY DEF Staying
<1> QED
  BY <1>1, <1>4, <1>5, <1>6

\* f finds, for each character of t, the press that inserted it and stayed; what
\* came after it inserted the characters behind it.
Placed(f, m, t) ==
    /\ f \in [1 .. Len(t) -> 1 .. m]
    /\ Staying(m) = {f[n] : n \in 1 .. Len(t)}
    /\ \A n \in 1 .. Len(t) : events[f[n]].key = t[n] /\ Net(f[n] + 1, m) = Len(t) - n
    /\ \A n, p \in 1 .. Len(t) : n < p => f[n] < f[p]

\* A press that inserts puts its character behind the others.
LEMMA PlacedInsert ==
    ASSUME NEW m \in Nat, NEW t \in Seq(Char), NEW f, Placed(f, m, t),
           m + 1 \in PressesOf(Char)
    PROVE  \E g : Placed(g, m + 1, Append(t, events[m + 1].key))
<1> DEFINE u == Append(t, events[m + 1].key)
           g == [n \in 1 .. Len(t) + 1 |-> IF n = Len(t) + 1 THEN m + 1 ELSE f[n]]
<1>1. /\ Len(t) \in Nat /\ Len(u) = Len(t) + 1 /\ u[Len(t) + 1] = events[m + 1].key
      /\ \A n \in 1 .. Len(t) : u[n] = t[n] /\ n \in 1 .. Len(t) + 1 /\ n # Len(t) + 1
  OBVIOUS
<1>2. \A n \in 1 .. Len(t) : f[n] \in 1 .. m /\ g[n] = f[n]
  BY <1>1 DEF Placed
<1>3. g[Len(t) + 1] = m + 1
  BY <1>1
<1>4. 1 .. Len(t) + 1 = (1 .. Len(t)) \cup {Len(t) + 1}
  BY <1>1
<1> HIDE DEF u, g
<1>5. g \in [1 .. Len(u) -> 1 .. m + 1]
  <2>1. m + 1 \in 1 .. m + 1 /\ 1 .. m \subseteq 1 .. m + 1
    OBVIOUS
  <2>2. \A n \in 1 .. Len(t) + 1 : g[n] \in 1 .. m + 1
    BY <1>2, <1>3, <1>4, <2>1
  <2>3. g = [n \in 1 .. Len(t) + 1 |-> g[n]]
    BY DEF g
  <2> QED
    BY <1>1, <2>2, <2>3
<1>6. \A n \in 1 .. Len(t) : Net(f[n] + 1, m + 1) = Len(u) - n
  <2> SUFFICES ASSUME NEW n \in 1 .. Len(t) PROVE Net(f[n] + 1, m + 1) = Len(u) - n
    OBVIOUS
  <2>1. f[n] + 1 \in Nat /\ f[n] + 1 <= m + 1
    BY <1>2
  <2>2. Net(f[n] + 1, m) = Len(t) - n /\ Gain(m + 1) = 1
    BY DEF Placed, Gain
  <2>3. Net(f[n] + 1, m + 1) = Net(f[n] + 1, m) + Gain(m + 1)
    BY <2>1, NetSteps
  <2> QED
    BY <1>1, <2>2, <2>3
<1>7. Net((m + 1) + 1, m + 1) = 0
  BY NetSteps, m + 1 \in Nat, (m + 1) + 1 \in Nat
<1>8. Staying(m + 1) = {g[n] : n \in 1 .. Len(u)}
  <2>1. Staying(m) = {f[n] : n \in 1 .. Len(t)}
    BY DEF Placed
  <2>2. \A i \in Staying(m) : Net(i + 1, m + 1) >= 0
    BY <1>1, <1>6, <2>1
  <2>3. Staying(m + 1) = Staying(m) \cup {m + 1}
    BY <2>2, StayingStep
  <2>4. 1 .. Len(u) = (1 .. Len(t)) \cup {Len(u)}
    BY <1>1
  <2>5. {g[n] : n \in 1 .. Len(t)} = {f[n] : n \in 1 .. Len(t)}
    BY <1>2
  <2>6. {g[n] : n \in 1 .. Len(u)} = {g[n] : n \in 1 .. Len(t)} \cup {g[Len(u)]}
    BY <2>4
  <2> QED
    BY <1>1, <1>3, <2>1, <2>3, <2>5, <2>6
<1>9. \A n \in 1 .. Len(u) : events[g[n]].key = u[n] /\ Net(g[n] + 1, m + 1) = Len(u) - n
  <2>1. \A n \in 1 .. Len(t) : events[f[n]].key = t[n]
    BY DEF Placed
  <2>2. \A n \in 1 .. Len(t) :
            events[g[n]].key = u[n] /\ Net(g[n] + 1, m + 1) = Len(u) - n
    BY <1>1, <1>2, <1>6, <2>1
  <2>3. LET n == Len(t) + 1
        IN  events[g[n]].key = u[n] /\ Net(g[n] + 1, m + 1) = Len(u) - n
    BY <1>1, <1>3, <1>7
  <2> QED
    BY <1>1, <1>4, <2>2, <2>3
<1>10. \A n, p \in 1 .. Len(u) : n < p => g[n] < g[p]
  <2> SUFFICES ASSUME NEW n \in 1 .. Len(u), NEW p \in 1 .. Len(u), n < p
               PROVE  g[n] < g[p]
    OBVIOUS
  <2>1. n \in 1 .. Len(t)
    BY <1>1
  <2>2. CASE p = Len(t) + 1
    BY <1>2, <1>3, <2>1, <2>2
  <2>3. CASE p # Len(t) + 1
    <3>1. p \in 1 .. Len(t)
      BY <1>1, <2>3
    <3> QED
      BY <1>2, <2>1, <3>1 DEF Placed
  <2> QED
    BY <2>2, <2>3
<1>11. Placed(g, m + 1, u)
  BY <1>5, <1>8, <1>9, <1>10 DEF Placed
<1> QED
  BY <1>11 DEF u

\* A backspace takes the last of them away.
LEMMA PlacedDelete ==
    ASSUME NEW m \in Nat, NEW t \in Seq(Char), t # <<>>, NEW f, Placed(f, m, t),
           m + 1 \in PressesOf({Backspace})
    PROVE  \E g : Placed(g, m + 1, Front(t))
<1> DEFINE u == Front(t)
           g == [n \in 1 .. Len(t) - 1 |-> f[n]]
<1>1. /\ Len(t) \in Nat \ {0} /\ Len(u) = Len(t) - 1
      /\ \A n \in 1 .. Len(t) - 1 : u[n] = t[n] /\ n \in 1 .. Len(t)
  <2>1. Len(t) \in Nat \ {0}
    BY EmptySeq
  <2>2. \A n \in 1 .. Len(t) - 1 : n \in 1 .. Len(t) /\ t[n] \in Char
    BY <2>1
  <2> DEFINE l == Len(t) - 1
  <2>3. u = SubSeq(t, 1, l) /\ l \in Nat /\ \A n \in 1 .. l : t[n] \in Char
    BY <2>1, <2>2 DEF Front
  <2> HIDE DEF l, u
  <2>4. /\ Len(u) = IF 1 <= l THEN l - 1 + 1 ELSE 0
        /\ \A n \in 1 .. l - 1 + 1 : u[n] = t[1 + n - 1]
    BY <2>3, SubSeqProperties
  <2>5. Len(u) = l /\ \A n \in 1 .. l : u[n] = t[n]
    BY <2>3, <2>4
  <2> QED
    BY <2>1, <2>2, <2>5 DEF l
<1>2. /\ \A n \in 1 .. Len(t) : f[n] \in 1 .. m
      /\ \A n \in 1 .. Len(t) - 1 : g[n] = f[n]
  BY <1>1 DEF Placed
<1>3. 1 .. Len(t) = (1 .. Len(t) - 1) \cup {Len(t)}
  BY <1>1
<1> HIDE DEF u, g
<1>4. g \in [1 .. Len(u) -> 1 .. m + 1]
  BY <1>1, <1>2 DEF g
<1>5. m + 1 \notin PressesOf(Char)
  BY KeyAssumption DEF PressesOf
<1>6. \A n \in 1 .. Len(t) : Net(f[n] + 1, m + 1) = Len(u) - n
  <2> SUFFICES ASSUME NEW n \in 1 .. Len(t) PROVE Net(f[n] + 1, m + 1) = Len(u) - n
    OBVIOUS
  <2>1. f[n] + 1 \in Nat /\ f[n] + 1 <= m + 1
    BY <1>2
  <2>2. Net(f[n] + 1, m) = Len(t) - n /\ Gain(m + 1) = -1
    BY <1>5 DEF Placed, Gain
  <2>3. Net(f[n] + 1, m + 1) = Net(f[n] + 1, m) + Gain(m + 1)
    BY <2>1, NetSteps
  <2> QED
    BY <1>1, <2>2, <2>3
<1>7. Staying(m + 1) = {g[n] : n \in 1 .. Len(u)}
  <2>1. Staying(m) = {f[n] : n \in 1 .. Len(t)}
    BY DEF Placed
  <2>2. Staying(m + 1) = {i \in Staying(m) : Net(i + 1, m + 1) >= 0}
    BY <1>5, StayingStep
  <2>3. \A n \in 1 .. Len(t) - 1 : Net(f[n] + 1, m + 1) >= 0
    BY <1>1, <1>6
  <2>4. ~(Net(f[Len(t)] + 1, m + 1) >= 0)
    <3>1. Len(t) \in 1 .. Len(t) /\ Len(u) - Len(t) = -1
      BY <1>1
    <3>2. Net(f[Len(t)] + 1, m + 1) = -1
      BY <1>6, <3>1
    <3> QED
      BY <3>2
  <2>5. Staying(m) = {f[n] : n \in 1 .. Len(t) - 1} \cup {f[Len(t)]}
    BY <1>3, <2>1
  <2>6. Staying(m + 1) = {f[n] : n \in 1 .. Len(t) - 1}
    BY <2>2, <2>3, <2>4, <2>5
  <2>7. {g[n] : n \in 1 .. Len(t) - 1} = {f[n] : n \in 1 .. Len(t) - 1}
    BY <1>2
  <2> QED
    BY <1>1, <2>6, <2>7
<1>8. \A n \in 1 .. Len(u) : events[g[n]].key = u[n] /\ Net(g[n] + 1, m + 1) = Len(u) - n
  BY <1>1, <1>2, <1>6 DEF Placed
<1>9. \A n, p \in 1 .. Len(u) : n < p => g[n] < g[p]
  BY <1>1, <1>2 DEF Placed
<1>10. Placed(g, m + 1, u)
  BY <1>4, <1>7, <1>8, <1>9 DEF Placed
<1> QED
  BY <1>10 DEF u

\* Any other event, and a backspace on an empty text, leaves what was left.
LEMMA PlacedKept ==
    ASSUME NEW m \in Nat, NEW t \in Seq(Char), NEW f, Placed(f, m, t),
           m + 1 \notin PressesOf(Char), t = <<>> \/ m + 1 \notin PressesOf({Backspace})
    PROVE  Placed(f, m + 1, t)
<1>1. \A n \in 1 .. Len(t) : f[n] \in 1 .. m
  BY DEF Placed
<1>2. f \in [1 .. Len(t) -> 1 .. m + 1]
  <2>1. 1 .. m \subseteq 1 .. m + 1
    OBVIOUS
  <2> QED
    BY <2>1 DEF Placed
<1>3. \A n \in 1 .. Len(t) : Net(f[n] + 1, m + 1) = Len(t) - n
  <2> SUFFICES ASSUME NEW n \in 1 .. Len(t) PROVE Net(f[n] + 1, m + 1) = Len(t) - n
    OBVIOUS
  <2>1. f[n] + 1 \in Nat /\ f[n] + 1 <= m + 1
    BY <1>1
  <2>2. t # <<>>
    OBVIOUS
  <2>3. Net(f[n] + 1, m) = Len(t) - n /\ Gain(m + 1) = 0
    BY <2>2 DEF Placed, Gain
  <2>4. /\ Net(f[n] + 1, m + 1) = Net(f[n] + 1, m) + Gain(m + 1)
        /\ Net(f[n] + 1, m) \in Int
    BY <2>1, NetSteps
  <2> QED
    BY <2>3, <2>4
<1>4. Staying(m + 1) = Staying(m)
  <2>1. Staying(m) = {f[n] : n \in 1 .. Len(t)}
    BY DEF Placed
  <2>2. \A i \in Staying(m) : Net(i + 1, m + 1) >= 0
    BY <1>3, <2>1
  <2>3. PressesOf(Char) \cap {m + 1} = {}
    OBVIOUS
  <2>4. {i \in Staying(m) : Net(i + 1, m + 1) >= 0} = Staying(m)
    BY <2>2
  <2> QED
    BY <2>3, <2>4, StayingStep
<1> QED
  BY <1>2, <1>3, <1>4 DEF Placed

\* The values of a rising function are as many as its arguments.
LEMMA Counting ==
    ASSUME NEW k \in Nat, NEW f, \A n, p \in 1 .. k : n < p => f[n] < f[p],
           \A n \in 1 .. k : f[n] \in Nat, NEW T, T = {f[n] : n \in 1 .. k}
    PROVE  Cardinality(T) = k
<1> DEFINE g == [n \in 1 .. k |-> f[n]]
<1>1. \A n, p \in 1 .. k : g[n] = g[p] => n = p
  <2> SUFFICES ASSUME NEW n \in 1 .. k, NEW p \in 1 .. k, n # p PROVE g[n] # g[p]
    OBVIOUS
  <2>1. n < p \/ p < n
    OBVIOUS
  <2> QED
    BY <2>1
<1>2. g \in Bijection(1 .. k, T)
  BY <1>1 DEF Bijection, Injection, Surjection, IsInjective
<1>3. ExistsBijection(1 .. k, T)
  BY <1>2 DEF ExistsBijection
<1> QED
  BY <1>3, FS_CountingElements

\* As many presses stay as t has characters, and up to the k-th of them, k.
LEMMA Ranks ==
    ASSUME NEW m \in Nat, NEW t \in Seq(Char), NEW f, Placed(f, m, t)
    PROVE  /\ Cardinality(Staying(m)) = Len(t)
           /\ \A k \in 1 .. Len(t) : Cardinality(Staying(m) \cap 1 .. f[k]) = k
<1> DEFINE L == Len(t)
           T == Staying(m)
<1>1. /\ L \in Nat /\ T = {f[n] : n \in 1 .. L}
      /\ \A n, p \in 1 .. L : n < p => f[n] < f[p]
      /\ \A n \in 1 .. L : f[n] \in Nat \ {0}
  BY DEF Placed
<1> HIDE DEF L, T
<1>2. Cardinality(T) = L
  <2>1. \A n \in 1 .. L : f[n] \in Nat
    BY <1>1
  <2> QED
    BY <1>1, <2>1, Counting, SMTT(30)
<1>3. ASSUME NEW k \in 1 .. L
      PROVE  Cardinality(T \cap 1 .. f[k]) = k
  <2>1. \A n \in 1 .. L : f[n] \in 1 .. f[k] <=> n \in 1 .. k
    <3> SUFFICES ASSUME NEW n \in 1 .. L PROVE f[n] \in 1 .. f[k] <=> n \in 1 .. k
      OBVIOUS
    <3>1. f[n] \in Nat \ {0} /\ f[k] \in Nat \ {0}
      BY <1>1
    <3>2. (n < k => f[n] < f[k]) /\ (k < n => f[k] < f[n])
      BY <1>1
    <3>3. n \in Nat \ {0} /\ k \in Nat \ {0}
      BY <1>1
    <3>4. n \in 1 .. k <=> ~(k < n)
      BY <3>3
    <3>5. f[n] \in 1 .. f[k] <=> ~(f[k] < f[n])
      BY <3>1
    <3>6. f[k] < f[n] => ~(f[n] < f[k]) /\ f[n] # f[k]
      BY <3>1
    <3> QED
      BY <3>2, <3>3, <3>4, <3>5, <3>6
  <2>2. T \cap 1 .. f[k] = {f[n] : n \in 1 .. k}
    BY <1>1, <2>1
  <2>3. k \in Nat /\ 1 .. k \subseteq 1 .. L
    BY <1>1
  <2>4. /\ \A n, p \in 1 .. k : n < p => f[n] < f[p]
        /\ \A n \in 1 .. k : f[n] \in Nat
    BY <1>1, <2>3
  <2> QED
    BY <2>2, <2>3, <2>4, Counting
<1> QED
  BY <1>2, <1>3 DEF L, T

\* So what stays spells the text it places, and no other.
LEMMA Spelled ==
    ASSUME NEW m \in Nat, NEW t \in Seq(Char), NEW f, Placed(f, m, t), NEW u \in Seq(Symbol)
    PROVE  Spells(m, u) <=> u = t
<1> DEFINE stay == Staying(m)
<1>1. /\ Len(t) \in Nat /\ stay = {f[n] : n \in 1 .. Len(t)}
      /\ \A n \in 1 .. Len(t) : f[n] \in Nat \ {0} /\ events[f[n]].key = t[n]
      /\ \A n, p \in 1 .. Len(t) : n < p => f[n] < f[p]
  BY DEF Placed
<1>2. /\ Cardinality(stay) = Len(t)
      /\ \A n \in 1 .. Len(t) : Cardinality(stay \cap 1 .. f[n]) = n
  BY Ranks
<1> HIDE DEF stay
<1>4. Spells(m, u) <=> Len(u) = Len(t) /\ \A n \in 1 .. Len(t) : t[n] = u[n]
  <2>1. Spells(m, u) <=>
            /\ Cardinality(stay) = Len(u)
            /\ \A i \in stay : events[i].key = u[Cardinality(stay \cap 1 .. i)]
    BY DEF Spells, stay
  <2>2. (\A i \in stay : events[i].key = u[Cardinality(stay \cap 1 .. i)])
            <=> \A n \in 1 .. Len(t) : events[f[n]].key = u[Cardinality(stay \cap 1 .. f[n])]
    BY <1>1
  <2> QED
    BY <1>1, <1>2, <2>1, <2>2
<1>5. Len(u) = Len(t) /\ (\A n \in 1 .. Len(t) : t[n] = u[n]) => u = t
  BY SeqEqual, CharAssumption
<1> QED
  BY <1>4, <1>5
\* A key is down after an event that pressed it, or if it was and is not released.
LEMMA HeldStep ==
    ASSUME NEW m \in Nat, NEW k
    PROVE  Held(k, m + 1) <=> events[m + 1] = Down(k) \/ (Held(k, m) /\ events[m + 1] # Up(k))
<1>1. 1 .. m + 1 = (1 .. m) \cup {m + 1}
  OBVIOUS
<1>2. \A i \in 1 .. m : i + 1 .. m + 1 = (i + 1 .. m) \cup {m + 1}
  OBVIOUS
<1>3. (m + 1) + 1 .. m + 1 = {}
  OBVIOUS
<1>4. ASSUME events[m + 1] = Down(k)
      PROVE  Held(k, m + 1)
  BY <1>1, <1>3, <1>4 DEF Held
<1>5. ASSUME Held(k, m), events[m + 1] # Up(k)
      PROVE  Held(k, m + 1)
  BY <1>1, <1>2, <1>5 DEF Held
<1>6. ASSUME Held(k, m + 1), events[m + 1] # Down(k)
      PROVE  Held(k, m) /\ events[m + 1] # Up(k)
  <2>1. PICK i \in 1 .. m + 1 : events[i] = Down(k) /\ \A j \in i + 1 .. m + 1 : events[j] # Up(k)
    BY <1>6 DEF Held
  <2>2. i \in 1 .. m
    BY <1>1, <1>6, <2>1
  <2> QED
    BY <1>2, <2>1, <2>2 DEF Held
<1> QED
  BY <1>4, <1>5, <1>6

\* The gate's answer, as GateIsExact gives it.
Exact ==
    /\ \A i \in 1 .. Len(events) : InOrder(i)
    /\ \A k \in Key : ~Held(k, Len(events))
    /\ Spells(Len(events), text)

\* What was replayed is in order, the keys it left down are pressed and the text it
\* left is in the buffer.
Replayed ==
    /\ \A i \in 1 .. pos : InOrder(i)
    /\ pressed = {k \in Key : Held(k, pos)}
    /\ \E f : Placed(f, pos, chars)
ExactInv ==
    /\ phase = "replay" => Replayed
    /\ phase = "verified" => Exact
    /\ phase = "rejected" => ~Exact

\* Before the first event there is nothing.
LEMMA ExactStart ==
    ASSUME pos = 0, pressed = {}, chars = <<>>
    PROVE  Replayed
<1>1. 1 .. 0 = {} /\ Len(<<>>) = 0
  OBVIOUS
<1>2. Staying(0) = {}
  BY <1>1 DEF Staying
<1>3. Placed([n \in 1 .. 0 |-> n], 0, <<>>)
  BY <1>1, <1>2 DEF Placed
<1> QED
  BY <1>1, <1>3 DEF Held, Replayed

\* It stays so while neither the events nor the buffer change.
LEMMA ReplayedKept ==
    ASSUME Replayed, UNCHANGED <<events, pos, pressed, chars>>
    PROVE  Replayed'
<1> PICK f : Placed(f, pos, chars)
  BY DEF Replayed
<1>1. /\ \A n : Staying(n)' = Staying(n)
      /\ \A i, j : Net(i, j)' = Net(i, j)
      /\ \A k, n : Held(k, n)' <=> Held(k, n)
      /\ \A i : InOrder(i)' <=> InOrder(i)
  BY SameEvents
<1>2. Placed(f, pos, chars)'
  BY <1>1 DEF Placed
<1>3. (\A i \in 1 .. pos : InOrder(i))'
  BY <1>1 DEF Replayed
<1>4. (pressed = {k \in Key : Held(k, pos)})'
  BY <1>1 DEF Replayed
<1> QED
  BY <1>2, <1>3, <1>4 DEF Replayed

\* One event more.
LEMMA ExactReplays ==
    ASSUME TypeInv, GateInv, ExactInv, ReplayEvent
    PROVE  ExactInv'
<1> DEFINE m == pos
           e == events[m + 1]
<1>1. /\ phase = "replay" /\ phase' = (IF fault' THEN "rejected" ELSE "replay")
      /\ pos' = m + 1 /\ UNCHANGED <<events, text>>
      /\ m \in Nat /\ m + 1 \in 1 .. Len(events) /\ e \in Event
  BY DEF ReplayEvent, TypeInv, TypeOK
<1>2. /\ ~fault /\ chars \in Seq(Char)
      /\ \A i \in 1 .. m : InOrder(i)
      /\ pressed = {k \in Key : Held(k, m)}
  BY <1>1 DEF GateInv, ExactInv, Replayed, TypeInv, TypeOK
<1> PICK f : Placed(f, m, chars)
  BY <1>1 DEF ExactInv, Replayed
<1>3. /\ \A k \in Key : Held(k, m + 1) <=> e = Down(k) \/ (Held(k, m) /\ e # Up(k))
      /\ m + 1 \in PressesOf(Char) <=> e.kind = "down" /\ e.key \in Char
      /\ m + 1 \in PressesOf({Backspace}) <=> e.kind = "down" /\ e.key = Backspace
      /\ InOrder(m + 1) <=> /\ e.kind = "down" => e.key # Tab /\ ~Held(e.key, m)
                            /\ e.kind = "up" => Held(e.key, m)
  <2>1. (m + 1) - 1 = m
    BY <1>1
  <2> QED
    BY <1>1, <2>1, HeldStep DEF PressesOf, InOrder
<1>4. /\ e.kind = "delay" => \A k : e # Down(k) /\ e # Up(k)
      /\ e.kind = "down" => e.key \in Key /\ \A k : (e = Down(k) <=> k = e.key) /\ e # Up(k)
      /\ e.kind = "up" => e.key \in Key /\ \A k : (e = Up(k) <=> k = e.key) /\ e # Down(k)
      /\ e.kind \in {"delay", "down", "up"}
  BY <1>1 DEF Event, Down, Up
<1> HIDE DEF m, e
\* Out of order it is rejected, and in order its keys and its text are those left.
<1>5. fault' => ~InOrder(m + 1)
  BY <1>2, <1>3, <1>4 DEF ReplayEvent, Press, Release, bufferVars, m, e
<1>6. ASSUME ~fault'
      PROVE  /\ InOrder(m + 1)
             /\ pressed' = {k \in Key : Held(k, m + 1)}
             /\ \E g : Placed(g, m + 1, chars')
  <2>1. CASE e.kind = "delay" /\ UNCHANGED bufferVars
    <3>1. Placed(f, m + 1, chars')
      BY <1>1, <1>2, <1>3, <2>1, PlacedKept DEF bufferVars
    <3>2. pressed' = {k \in Key : Held(k, m + 1)}
      BY <1>2, <1>3, <1>4, <2>1 DEF bufferVars
    <3> QED
      BY <1>3, <2>1, <3>1, <3>2
  <2>2. CASE e.kind = "down" /\ Press(e.key)
    <3>1. e.key \notin pressed /\ e.key # Tab
      BY <1>6, <2>2 DEF Press
    <3>2. pressed' = pressed \cup {e.key} /\ chars' = Typed(e.key)
      BY <2>2, <3>1 DEF Press
    <3>3. InOrder(m + 1)
      BY <1>2, <1>3, <1>4, <2>2, <3>1
    <3>4. pressed' = {k \in Key : Held(k, m + 1)}
      BY <1>2, <1>3, <1>4, <2>2, <3>2
    <3>5. CASE e.key \in Char
      <4>1. chars' = Append(chars, e.key)
        BY <3>2, <3>5, KeyAssumption DEF Typed
      <4> QED
        BY <1>1, <1>2, <1>3, <2>2, <3>3, <3>4, <3>5, <4>1, PlacedInsert DEF e
    <3>6. CASE e.key = Backspace /\ chars # <<>>
      <4>1. chars' = Front(chars)
        BY <3>2, <3>6, KeyAssumption DEF Typed
      <4> QED
        BY <1>1, <1>2, <1>3, <2>2, <3>3, <3>4, <3>6, <4>1, PlacedDelete
    <3>7. CASE e.key \notin Char /\ ~(e.key = Backspace /\ chars # <<>>)
      <4>1. chars' = chars
        BY <3>2, <3>7 DEF Typed
      <4>2. Placed(f, m + 1, chars')
        BY <1>1, <1>2, <1>3, <3>7, <4>1, PlacedKept
      <4> QED
        BY <3>3, <3>4, <4>2
    <3> QED
      BY <3>5, <3>6, <3>7
  <2>3. CASE e.kind = "up" /\ Release(e.key)
    <3>1. e.key \in pressed /\ pressed' = pressed \ {e.key} /\ chars' = chars
      BY <1>6, <2>3 DEF Release
    <3>2. InOrder(m + 1)
      BY <1>2, <1>3, <2>3, <3>1
    <3>3. pressed' = {k \in Key : Held(k, m + 1)}
      BY <1>2, <1>3, <1>4, <2>3, <3>1
    <3>4. Placed(f, m + 1, chars')
      BY <1>1, <1>2, <1>3, <2>3, <3>1, PlacedKept
    <3> QED
      BY <3>2, <3>3, <3>4
  <2> QED
    BY <2>1, <2>2, <2>3 DEF ReplayEvent, m, e
<1>7. CASE fault'
  <2>1. ~Exact
    BY <1>1, <1>5, <1>7 DEF Exact
  <2>2. Exact' <=> Exact
    BY <1>1, SameEvents DEF Exact
  <2> QED
    BY <1>1, <1>7, <2>1, <2>2 DEF ExactInv
<1>8. CASE ~fault'
  <2>1. \A i \in 1 .. m + 1 : InOrder(i)
    BY <1>1, <1>2, <1>6, <1>8
  <2>2. pressed' = {k \in Key : Held(k, m + 1)}
    BY <1>6, <1>8
  <2>3. PICK g : Placed(g, m + 1, chars')
    BY <1>6, <1>8
  <2>4. /\ \A n : Staying(n)' = Staying(n)
        /\ \A i, j : Net(i, j)' = Net(i, j)
        /\ \A k, n : Held(k, n)' <=> Held(k, n)
        /\ \A i : InOrder(i)' <=> InOrder(i)
    BY <1>1, SameEvents
  <2>5. Placed(g, pos, chars)'
    BY <1>1, <2>3, <2>4 DEF Placed
  <2>6. (\A i \in 1 .. pos : InOrder(i))'
    BY <1>1, <2>1, <2>4
  <2>7. (pressed = {k \in Key : Held(k, pos)})'
    BY <1>1, <2>2, <2>4
  <2> QED
    BY <1>1, <1>8, <2>5, <2>6, <2>7 DEF ExactInv, Replayed
<1> QED
  BY <1>7, <1>8

\* Nothing is judged at the start.
LEMMA ExactInit == PathInit => ExactInv
<1> SUFFICES ASSUME PathInit PROVE ExactInv
  OBVIOUS
<1>1. pos = 0 /\ pressed = {} /\ chars = <<>> /\ phase \in {"ask", "replay"}
  BY DEF PathInit, Init, BufferInit, Ask, Take
<1> QED
  BY <1>1, ExactStart DEF ExactInv

\* Every step keeps the answer exact.
LEMMA ExactStep ==
    ASSUME TypeInv, GateInv, ExactInv, [PathNext]_pathVars
    PROVE  ExactInv'
<1>1. CASE Refuse \/ Generate \/ TypeCharacter \/ Substitution \/ Duplicate \/ Transposition
  <2>1. phase' \in {"refused", "build"}
    BY <1>1 DEF Refuse, Generate, Emit, TypeCharacter, Substitution, Duplicate, Transposition
  <2> QED
    BY <2>1 DEF ExactInv
<1>2. CASE StartReplay
  <2>1. pos' = 0 /\ pressed' = {} /\ chars' = <<>> /\ phase' = "replay"
    BY <1>2 DEF StartReplay, bufferVars, GateInv, Now, Rest
  <2>2. pos = 0 /\ pressed = {} /\ chars = <<>>
    BY <1>2 DEF StartReplay, bufferVars, GateInv, Now, Rest
  <2>3. Replayed
    BY <2>2, ExactStart
  <2>4. UNCHANGED <<events, pos, pressed, chars>>
    BY <1>2 DEF StartReplay, bufferVars
  <2> QED
    BY <2>1, <2>3, <2>4, ReplayedKept DEF ExactInv
<1>3. CASE ReplayEvent
  BY <1>3, ExactReplays
<1>4. CASE Compare
  <2>1. phase = "replay" /\ pos = Len(events) /\ UNCHANGED <<events, text>>
    BY <1>4 DEF Compare
  <2>2. /\ text \in Seq(Symbol) /\ chars \in Seq(Char) /\ pos \in Nat
        /\ \A i \in 1 .. pos : InOrder(i)
        /\ pressed = {k \in Key : Held(k, pos)}
    BY <2>1 DEF TypeInv, TypeOK, ExactInv, Replayed
  <2>3. PICK f : Placed(f, pos, chars)
    BY <2>1 DEF ExactInv, Replayed
  <2>4. Spells(pos, text) <=> text = chars
    BY <2>2, <2>3, Spelled
  <2>5. Exact <=> pressed = {} /\ chars = text
    BY <2>1, <2>2, <2>4 DEF Exact
  <2>6. Exact' <=> Exact
    BY <2>1, SameEvents DEF Exact
  <2> QED
    BY <1>4, <2>5, <2>6 DEF Compare, ExactInv
<1>5. CASE Deliver \/ CreationFails \/ Done \/ UNCHANGED pathVars
  <2>1. UNCHANGED vars
    BY <1>5 DEF Deliver, CreationFails, Done, pathVars
  <2>2. UNCHANGED <<events, text, phase, pos, pressed, chars>>
    BY <2>1 DEF vars, bufferVars
  <2>3. phase = "replay" => Replayed'
    BY <2>2, ReplayedKept DEF ExactInv
  <2>4. Exact' <=> Exact
    BY <2>2, SameEvents DEF Exact
  <2> QED
    BY <2>2, <2>3, <2>4 DEF ExactInv
<1> QED
  BY <1>1, <1>2, <1>3, <1>4, <1>5 DEF PathNext, Plan, Next, Validate

\* The gate (text_buffer.py:116-137) lets through the plans that press and release in
\* order and leave the text and no key down, and no other: for sequences of any
\* length, whoever made them, its replay agrees with a definition that replays nothing.
THEOREM GateAnswersExactly == PathSpec => []GateIsExact
<1>1. ExactInv => GateIsExact
  BY DEF ExactInv, Exact, GateIsExact
<1>2. TypeInv /\ GateInv /\ ExactInv /\ [PathNext]_pathVars
         => TypeInv' /\ GateInv' /\ ExactInv'
  BY TypesStep, GateStep, ExactStep
<1> QED
  BY <1>1, <1>2, TypesInit, GateInit, ExactInit, PTL DEF PathSpec
=============================================================================
