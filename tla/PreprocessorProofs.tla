------------------------- MODULE PreprocessorProofs -------------------------
(***************************************************************************)
(* The two passes of preprocess_macros, for every text and every limit:    *)
(* the tables are not overrun, and both passes together do what one        *)
(* reading of the text would do.                                           *)
(***************************************************************************)
EXTENDS Preprocessor, Integers, WellFoundedInduction, SequenceTheorems, FiniteSetTheorems, TLAPS

-----------------------------------------------------------------------------
(* Induction, with the least element of a set of naturals.                 *)

LEMMA LeastNat ==
    ASSUME NEW T, T \subseteq Nat, T # {}
    PROVE  \E x \in T : \A y \in T : x <= y
  <1> DEFINE Less == {ss \in Nat \X Nat : ss[1] < ss[2]}
  <1>1. IsWellFoundedOn(Less, Nat)
    BY NatLessThanWellFounded DEF OpToRel
  <1>2. PICK x \in T : \A y \in T : ~ (<<y, x>> \in Less)
    BY <1>1, WFMin, Zenon
  <1>3. \A y \in T : ~ (y < x)
    <2> TAKE y \in T
    <2>1. x \in Nat /\ y \in Nat
      OBVIOUS
    <2>2. y < x => <<y, x>> \in Less
      BY <2>1
    <2> QED BY <1>2, <2>2
  <1> QED BY <1>3

LEMMA Upwards ==
    ASSUME NEW N \in Nat, NEW P \in SUBSET (0..N), 0 \in P,
           \A n \in 0..N-1 : n \in P => n + 1 \in P
    PROVE  0..N \subseteq P
  <1> SUFFICES ASSUME (0..N) \ P # {} PROVE FALSE
    OBVIOUS
  <1>1. PICK x \in (0..N) \ P : \A y \in (0..N) \ P : x <= y
    BY LeastNat, (0..N) \ P \subseteq Nat
  <1>2. x # 0 /\ x - 1 \in 0..N-1 /\ x - 1 \in P
    BY <1>1
  <1> QED BY <1>1, <1>2

-----------------------------------------------------------------------------
(* The state of the reference, field by field.                             *)

State(d, l, ms, rd, m, o, k) ==
    [defines |-> d, levels |-> l, macros |-> ms, reading |-> rd, macro |-> m, out |-> o, ok |-> k]

LEMMA StateFields ==
    ASSUME NEW d, NEW l, NEW ms, NEW rd, NEW m, NEW o, NEW k
    PROVE  LET s == State(d, l, ms, rd, m, o, k)
           IN  /\ s.defines = d /\ s.levels = l /\ s.macros = ms /\ s.reading = rd /\ s.macro = m
               /\ s.out = o /\ s.ok = k
  BY DEF State

Marks == {"on", "off", "spent"}
Word == Words \cup {Empty, Malformed, Parameter}
Arg == Words \cup {Empty, Parameter}
Macro == [name : Word, param : Arg, body : Seq(Line)]
Takes == {"directive", "off", "on", "body"}

(* What holds of every state of the reference.                             *)
IsReader(s) ==
    /\ s = State(s.defines, s.levels, s.macros, s.reading, s.macro, s.out, s.ok)
    /\ s.levels \in Seq(Marks) /\ s.macros \in Seq(Macro) /\ s.macro \in Macro
    /\ s.reading \in BOOLEAN /\ s.ok \in BOOLEAN

LEMMA NoMacroTyped == NoMacro \in Macro
  BY DEF NoMacro, Macro, Word, Arg, Line

LEMMA StateIsReader ==
    ASSUME NEW d, NEW l \in Seq(Marks), NEW ms \in Seq(Macro), NEW rd \in BOOLEAN, NEW m \in Macro,
           NEW o, NEW k \in BOOLEAN
    PROVE  IsReader(State(d, l, ms, rd, m, o, k))
  <1> HIDE DEF Marks, Macro
  <1> QED BY StateFields DEF IsReader

LEMMA StartIsReader == IsReader(Reader) /\ Reader = State(CliDefines, <<>>, <<>>, FALSE, NoMacro, <<>>, TRUE)
  <1>1. Reader = State(CliDefines, <<>>, <<>>, FALSE, NoMacro, <<>>, TRUE)
    BY Zenon DEF Reader, State
  <1>2. <<>> \in Seq(Marks) /\ <<>> \in Seq(Macro)
    OBVIOUS
  <1> QED BY <1>1, <1>2, StateIsReader, NoMacroTyped

Active(s) == \A n \in DOMAIN s.levels : s.levels[n] = "on"

(* One step of the reference, a lemma for each kind of line.               *)
SetOk(s, x) == [s EXCEPT !.ok = x]
SetLevels(s, x) == [s EXCEPT !.levels = x]
SetDefines(s, x) == [s EXCEPT !.defines = x]
SetOut(s, x) == [s EXCEPT !.out = x]
SetMacro(s, x) == [s EXCEPT !.macro = x]

LEMMA SetsOne ==
    ASSUME NEW d, NEW l, NEW ms, NEW rd, NEW m, NEW o, NEW k, NEW x
    PROVE  LET s == State(d, l, ms, rd, m, o, k)
           IN  /\ SetOk(s, x) = State(d, l, ms, rd, m, o, x)
               /\ SetLevels(s, x) = State(d, x, ms, rd, m, o, k)
               /\ SetDefines(s, x) = State(x, l, ms, rd, m, o, k)
               /\ SetOut(s, x) = State(d, l, ms, rd, m, x, k)
               /\ SetMacro(s, x) = State(d, l, ms, rd, x, o, k)
  BY DEF State, SetOk, SetLevels, SetDefines, SetOut, SetMacro

WithLevel(s, x) == SetLevels(s, [s.levels EXCEPT ![Len(s.levels)] = x])
AddedMacro(s) == [s EXCEPT !.reading = FALSE, !.macros = Append(@, s.macro)]
BegunMacro(s, m) == [s EXCEPT !.reading = TRUE, !.macro = m]
LongerMacro(s, line) == [s EXCEPT !.macro.body = Append(@, line)]

LEMMA StuckReads ==
    ASSUME NEW s, ~ s.ok, NEW line
    PROVE  ReadLine(s, line) = s
  BY DEF ReadLine

LEMMA BodyReads ==
    ASSUME NEW s, s.ok, s.reading, NEW line
    PROVE  /\ line.kind = "endm" => ReadLine(s, line) = AddedMacro(s)
           /\ line.kind # "endm" => ReadLine(s, line) = LongerMacro(s, line)
  BY DEF ReadLine, AddedMacro, LongerMacro

LEMMA ConditionalReads ==
    ASSUME NEW s, s.ok, ~ s.reading, NEW line, line.kind \in Conditionals
    PROVE  /\ line.word = Malformed /\ (Active(s) \/ line.kind # "if")
                => ReadLine(s, line) = SetOk(s, FALSE)
           /\ ~ (line.word = Malformed /\ (Active(s) \/ line.kind # "if"))
                => ReadLine(s, line) =
                      SetLevels(s, Append(s.levels, IF line.word # Malformed /\ Truth(s, line) THEN "on" ELSE "off"))
  <1>1. line.kind \in {"if", "ifdef", "ifndef"}
    BY DEF Conditionals
  <1> QED BY <1>1 DEF ReadLine, SetOk, SetLevels, Active, Conditionals

LEMMA ElseReads ==
    ASSUME NEW s, s.ok, ~ s.reading, NEW line, line.kind = "else", Len(s.levels) \in Nat
    PROVE  /\ Len(s.levels) = 0 => ReadLine(s, line) = SetOk(s, FALSE)
           /\ Len(s.levels) > 0 => ReadLine(s, line) =
                 WithLevel(s, IF s.levels[Len(s.levels)] = "off" THEN "on" ELSE "spent")
  BY DEF ReadLine, SetOk, SetLevels, WithLevel, Conditionals

LEMMA EndIfReads ==
    ASSUME NEW s, s.ok, ~ s.reading, NEW line, line.kind = "endif", Len(s.levels) \in Nat
    PROVE  /\ Len(s.levels) = 0 => ReadLine(s, line) = SetOk(s, FALSE)
           /\ Len(s.levels) > 0 => ReadLine(s, line) = SetLevels(s, Front(s.levels))
  BY DEF ReadLine, SetOk, SetLevels, Conditionals

NewDefines(d, line) == [w \in DOMAIN d \cup {line.word} |-> IF w = line.word THEN line.arg ELSE d[w]]
LEMMA DefineReads ==
    ASSUME NEW s, s.ok, ~ s.reading, NEW line, line.kind = "define"
    PROVE  /\ line.word = Malformed => ReadLine(s, line) = SetOk(s, FALSE)
           /\ line.word # Malformed /\ Active(s) => ReadLine(s, line) = SetDefines(s, NewDefines(s.defines, line))
           /\ line.word # Malformed /\ ~ Active(s) => ReadLine(s, line) = s
  BY DEF ReadLine, SetOk, SetDefines, NewDefines, Active, Conditionals

Named(s, w) == \E n \in DOMAIN s.macros : s.macros[n].name = w
Begun(line) == [name |-> line.word, param |-> line.arg, body |-> <<>>]
LEMMA MacroReads ==
    ASSUME NEW s, s.ok, ~ s.reading, NEW line, line.kind = "macro"
    PROVE  /\ Active(s) /\ Named(s, line.word) => ReadLine(s, line) = SetOk(s, FALSE)
           /\ Active(s) /\ ~ Named(s, line.word) => ReadLine(s, line) = BegunMacro(s, Begun(line))
           /\ ~ Active(s) => ReadLine(s, line) = s
  BY DEF ReadLine, SetOk, BegunMacro, Begun, Named, Active, Conditionals

LEMMA ErrorReads ==
    ASSUME NEW s, s.ok, ~ s.reading, NEW line, line.kind = "error"
    PROVE  /\ Active(s) => ReadLine(s, line) = SetOk(s, FALSE)
           /\ ~ Active(s) => ReadLine(s, line) = s
  BY DEF ReadLine, SetOk, Active, Conditionals

LEMMA WarningReads ==
    ASSUME NEW s, s.ok, ~ s.reading, NEW line, line.kind = "warning"
    PROVE  ReadLine(s, line) = s
  BY DEF ReadLine, Conditionals

LEMMA TextReads ==
    ASSUME NEW s, s.ok, ~ s.reading, NEW line, line.kind \in {"endm", "times", "text"}
    PROVE  /\ Active(s) => ReadLine(s, line) = SetOut(s, s.out \o Text(s, line))
           /\ ~ Active(s) => ReadLine(s, line) = s
  BY DEF ReadLine, SetOut, Active, Conditionals

SetReading(s, x) == [s EXCEPT !.reading = x]
SetMacros(s, x) == [s EXCEPT !.macros = x]

LEMMA SetsMore ==
    ASSUME NEW d, NEW l, NEW ms, NEW rd, NEW m, NEW o, NEW k, NEW x
    PROVE  LET s == State(d, l, ms, rd, m, o, k)
           IN  /\ SetReading(s, x) = State(d, l, ms, x, m, o, k)
               /\ SetMacros(s, x) = State(d, l, x, rd, m, o, k)
  BY DEF State, SetReading, SetMacros

LEMMA SetDefinesIs ==
    ASSUME NEW s, IsReader(s), NEW x
    PROVE  LET r == SetDefines(s, x)
           IN  IsReader(r) /\ r.defines = x /\ r.levels = s.levels /\ r.macros = s.macros /\ r.reading = s.reading
               /\ r.macro = s.macro /\ r.out = s.out /\ r.ok = s.ok
  <1>1. PICK d, l, ms, rd, m, o, k : /\ s = State(d, l, ms, rd, m, o, k)
                                     /\ d = s.defines /\ l = s.levels /\ ms = s.macros /\ rd = s.reading
                                     /\ m = s.macro /\ o = s.out /\ k = s.ok
    BY Zenon DEF IsReader
  <1>2. SetDefines(State(d, l, ms, rd, m, o, k), x) = State(x, l, ms, rd, m, o, k)
    BY SetsOne
  <1>3. SetDefines(s, x) = State(x, l, ms, rd, m, o, k)
    BY <1>1, <1>2, Zenon
  <1>4. l \in Seq(Marks) /\ ms \in Seq(Macro) /\ rd \in BOOLEAN /\ m \in Macro /\ k \in BOOLEAN
    BY <1>1, Zenon DEF IsReader
  <1>5. IsReader(State(x, l, ms, rd, m, o, k))
    BY <1>4, StateIsReader
  <1>6. LET r == State(x, l, ms, rd, m, o, k)
        IN  /\ r.defines = x /\ r.levels = l /\ r.macros = ms /\ r.reading = rd /\ r.macro = m /\ r.out = o /\ r.ok = k
    BY StateFields
  <1> QED BY <1>1, <1>3, <1>5, <1>6, Zenon

LEMMA SetLevelsIs ==
    ASSUME NEW s, IsReader(s), NEW x \in Seq(Marks)
    PROVE  LET r == SetLevels(s, x)
           IN  IsReader(r) /\ r.defines = s.defines /\ r.levels = x /\ r.macros = s.macros /\ r.reading = s.reading
               /\ r.macro = s.macro /\ r.out = s.out /\ r.ok = s.ok
  <1>1. PICK d, l, ms, rd, m, o, k : /\ s = State(d, l, ms, rd, m, o, k)
                                     /\ d = s.defines /\ l = s.levels /\ ms = s.macros /\ rd = s.reading
                                     /\ m = s.macro /\ o = s.out /\ k = s.ok
    BY Zenon DEF IsReader
  <1>2. SetLevels(State(d, l, ms, rd, m, o, k), x) = State(d, x, ms, rd, m, o, k)
    BY SetsOne
  <1>3. SetLevels(s, x) = State(d, x, ms, rd, m, o, k)
    BY <1>1, <1>2, Zenon
  <1>4. l \in Seq(Marks) /\ ms \in Seq(Macro) /\ rd \in BOOLEAN /\ m \in Macro /\ k \in BOOLEAN
    BY <1>1, Zenon DEF IsReader
  <1>5. IsReader(State(d, x, ms, rd, m, o, k))
    BY <1>4, StateIsReader
  <1>6. LET r == State(d, x, ms, rd, m, o, k)
        IN  /\ r.defines = d /\ r.levels = x /\ r.macros = ms /\ r.reading = rd /\ r.macro = m /\ r.out = o /\ r.ok = k
    BY StateFields
  <1> QED BY <1>1, <1>3, <1>5, <1>6, Zenon

LEMMA SetMacrosIs ==
    ASSUME NEW s, IsReader(s), NEW x \in Seq(Macro)
    PROVE  LET r == SetMacros(s, x)
           IN  IsReader(r) /\ r.defines = s.defines /\ r.levels = s.levels /\ r.macros = x /\ r.reading = s.reading
               /\ r.macro = s.macro /\ r.out = s.out /\ r.ok = s.ok
  <1>1. PICK d, l, ms, rd, m, o, k : /\ s = State(d, l, ms, rd, m, o, k)
                                     /\ d = s.defines /\ l = s.levels /\ ms = s.macros /\ rd = s.reading
                                     /\ m = s.macro /\ o = s.out /\ k = s.ok
    BY Zenon DEF IsReader
  <1>2. SetMacros(State(d, l, ms, rd, m, o, k), x) = State(d, l, x, rd, m, o, k)
    BY SetsMore
  <1>3. SetMacros(s, x) = State(d, l, x, rd, m, o, k)
    BY <1>1, <1>2, Zenon
  <1>4. l \in Seq(Marks) /\ ms \in Seq(Macro) /\ rd \in BOOLEAN /\ m \in Macro /\ k \in BOOLEAN
    BY <1>1, Zenon DEF IsReader
  <1>5. IsReader(State(d, l, x, rd, m, o, k))
    BY <1>4, StateIsReader
  <1>6. LET r == State(d, l, x, rd, m, o, k)
        IN  /\ r.defines = d /\ r.levels = l /\ r.macros = x /\ r.reading = rd /\ r.macro = m /\ r.out = o /\ r.ok = k
    BY StateFields
  <1> QED BY <1>1, <1>3, <1>5, <1>6, Zenon

LEMMA SetReadingIs ==
    ASSUME NEW s, IsReader(s), NEW x \in BOOLEAN
    PROVE  LET r == SetReading(s, x)
           IN  IsReader(r) /\ r.defines = s.defines /\ r.levels = s.levels /\ r.macros = s.macros /\ r.reading = x
               /\ r.macro = s.macro /\ r.out = s.out /\ r.ok = s.ok
  <1>1. PICK d, l, ms, rd, m, o, k : /\ s = State(d, l, ms, rd, m, o, k)
                                     /\ d = s.defines /\ l = s.levels /\ ms = s.macros /\ rd = s.reading
                                     /\ m = s.macro /\ o = s.out /\ k = s.ok
    BY Zenon DEF IsReader
  <1>2. SetReading(State(d, l, ms, rd, m, o, k), x) = State(d, l, ms, x, m, o, k)
    BY SetsMore
  <1>3. SetReading(s, x) = State(d, l, ms, x, m, o, k)
    BY <1>1, <1>2, Zenon
  <1>4. l \in Seq(Marks) /\ ms \in Seq(Macro) /\ rd \in BOOLEAN /\ m \in Macro /\ k \in BOOLEAN
    BY <1>1, Zenon DEF IsReader
  <1>5. IsReader(State(d, l, ms, x, m, o, k))
    BY <1>4, StateIsReader
  <1>6. LET r == State(d, l, ms, x, m, o, k)
        IN  /\ r.defines = d /\ r.levels = l /\ r.macros = ms /\ r.reading = x /\ r.macro = m /\ r.out = o /\ r.ok = k
    BY StateFields
  <1> QED BY <1>1, <1>3, <1>5, <1>6, Zenon

LEMMA SetMacroIs ==
    ASSUME NEW s, IsReader(s), NEW x \in Macro
    PROVE  LET r == SetMacro(s, x)
           IN  IsReader(r) /\ r.defines = s.defines /\ r.levels = s.levels /\ r.macros = s.macros /\ r.reading = s.reading
               /\ r.macro = x /\ r.out = s.out /\ r.ok = s.ok
  <1>1. PICK d, l, ms, rd, m, o, k : /\ s = State(d, l, ms, rd, m, o, k)
                                     /\ d = s.defines /\ l = s.levels /\ ms = s.macros /\ rd = s.reading
                                     /\ m = s.macro /\ o = s.out /\ k = s.ok
    BY Zenon DEF IsReader
  <1>2. SetMacro(State(d, l, ms, rd, m, o, k), x) = State(d, l, ms, rd, x, o, k)
    BY SetsOne
  <1>3. SetMacro(s, x) = State(d, l, ms, rd, x, o, k)
    BY <1>1, <1>2, Zenon
  <1>4. l \in Seq(Marks) /\ ms \in Seq(Macro) /\ rd \in BOOLEAN /\ m \in Macro /\ k \in BOOLEAN
    BY <1>1, Zenon DEF IsReader
  <1>5. IsReader(State(d, l, ms, rd, x, o, k))
    BY <1>4, StateIsReader
  <1>6. LET r == State(d, l, ms, rd, x, o, k)
        IN  /\ r.defines = d /\ r.levels = l /\ r.macros = ms /\ r.reading = rd /\ r.macro = x /\ r.out = o /\ r.ok = k
    BY StateFields
  <1> QED BY <1>1, <1>3, <1>5, <1>6, Zenon

LEMMA SetOutIs ==
    ASSUME NEW s, IsReader(s), NEW x
    PROVE  LET r == SetOut(s, x)
           IN  IsReader(r) /\ r.defines = s.defines /\ r.levels = s.levels /\ r.macros = s.macros /\ r.reading = s.reading
               /\ r.macro = s.macro /\ r.out = x /\ r.ok = s.ok
  <1>1. PICK d, l, ms, rd, m, o, k : /\ s = State(d, l, ms, rd, m, o, k)
                                     /\ d = s.defines /\ l = s.levels /\ ms = s.macros /\ rd = s.reading
                                     /\ m = s.macro /\ o = s.out /\ k = s.ok
    BY Zenon DEF IsReader
  <1>2. SetOut(State(d, l, ms, rd, m, o, k), x) = State(d, l, ms, rd, m, x, k)
    BY SetsOne
  <1>3. SetOut(s, x) = State(d, l, ms, rd, m, x, k)
    BY <1>1, <1>2, Zenon
  <1>4. l \in Seq(Marks) /\ ms \in Seq(Macro) /\ rd \in BOOLEAN /\ m \in Macro /\ k \in BOOLEAN
    BY <1>1, Zenon DEF IsReader
  <1>5. IsReader(State(d, l, ms, rd, m, x, k))
    BY <1>4, StateIsReader
  <1>6. LET r == State(d, l, ms, rd, m, x, k)
        IN  /\ r.defines = d /\ r.levels = l /\ r.macros = ms /\ r.reading = rd /\ r.macro = m /\ r.out = x /\ r.ok = k
    BY StateFields
  <1> QED BY <1>1, <1>3, <1>5, <1>6, Zenon

LEMMA SetOkIs ==
    ASSUME NEW s, IsReader(s), NEW x \in BOOLEAN
    PROVE  LET r == SetOk(s, x)
           IN  IsReader(r) /\ r.defines = s.defines /\ r.levels = s.levels /\ r.macros = s.macros /\ r.reading = s.reading
               /\ r.macro = s.macro /\ r.out = s.out /\ r.ok = x
  <1>1. PICK d, l, ms, rd, m, o, k : /\ s = State(d, l, ms, rd, m, o, k)
                                     /\ d = s.defines /\ l = s.levels /\ ms = s.macros /\ rd = s.reading
                                     /\ m = s.macro /\ o = s.out /\ k = s.ok
    BY Zenon DEF IsReader
  <1>2. SetOk(State(d, l, ms, rd, m, o, k), x) = State(d, l, ms, rd, m, o, x)
    BY SetsOne
  <1>3. SetOk(s, x) = State(d, l, ms, rd, m, o, x)
    BY <1>1, <1>2, Zenon
  <1>4. l \in Seq(Marks) /\ ms \in Seq(Macro) /\ rd \in BOOLEAN /\ m \in Macro /\ k \in BOOLEAN
    BY <1>1, Zenon DEF IsReader
  <1>5. IsReader(State(d, l, ms, rd, m, o, x))
    BY <1>4, StateIsReader
  <1>6. LET r == State(d, l, ms, rd, m, o, x)
        IN  /\ r.defines = d /\ r.levels = l /\ r.macros = ms /\ r.reading = rd /\ r.macro = m /\ r.out = o /\ r.ok = x
    BY StateFields
  <1> QED BY <1>1, <1>3, <1>5, <1>6, Zenon

LEMMA LongerBody ==
    ASSUME NEW m \in Macro, NEW line \in Line
    PROVE  LET n == [m EXCEPT !.body = Append(@, line)]
           IN  n \in Macro /\ n.name = m.name /\ n.param = m.param /\ n.body = Append(m.body, line)
  <1> DEFINE b == Append(m.body, line)
             n == [m EXCEPT !.body = b]
  <1>1. b \in Seq(Line)
    <2>1. m.body \in Seq(Line)
      <3> HIDE DEF Line
      <3> QED BY DEF Macro
    <2> HIDE DEF Line
    <2> QED BY <2>1
  <1> HIDE DEF b
  <1>2. n \in Macro /\ n.name = m.name /\ n.param = m.param /\ n.body = b
    <2> HIDE DEF Line, Word, Arg
    <2> QED BY <1>1 DEF Macro
  <1> QED BY <1>2, Zenon DEF b

LEMMA AddedMacroIs ==
    ASSUME NEW s, IsReader(s)
    PROVE  LET r == AddedMacro(s)
           IN  IsReader(r) /\ r.defines = s.defines /\ r.levels = s.levels /\ r.macros = Append(s.macros, s.macro) /\ r.reading = FALSE
               /\ r.macro = s.macro /\ r.out = s.out /\ r.ok = s.ok
  <1> DEFINE x == Append(s.macros, s.macro)
             t == SetReading(s, FALSE)
  <1>1. x \in Seq(Macro)
    <2> HIDE DEF Macro
    <2> QED BY DEF IsReader
  <1>2. /\ IsReader(t) /\ t.defines = s.defines /\ t.levels = s.levels /\ t.macros = s.macros /\ t.reading = FALSE
        /\ t.macro = s.macro /\ t.out = s.out /\ t.ok = s.ok
    BY SetReadingIs
  <1>3. AddedMacro(s) = SetMacros(t, x)
    <2>1. s = State(s.defines, s.levels, s.macros, s.reading, s.macro, s.out, s.ok)
      BY Zenon DEF IsReader
    <2>2. DOMAIN s = {"defines", "levels", "macros", "reading", "macro", "out", "ok"}
      BY <2>1 DEF State
    <2> HIDE DEF x
    <2>3. AddedMacro(s) = [s EXCEPT !.reading = FALSE, !.macros = x]
      BY Zenon DEF AddedMacro, x
    <2> QED BY <2>2, <2>3 DEF SetMacros, SetReading
  <1> HIDE DEF x, t
  <1>4. LET r == SetMacros(t, x)
        IN  IsReader(r) /\ r.defines = t.defines /\ r.levels = t.levels /\ r.macros = x /\ r.reading = t.reading
               /\ r.macro = t.macro /\ r.out = t.out /\ r.ok = t.ok
    BY <1>1, <1>2, SetMacrosIs
  <1> QED BY <1>2, <1>3, <1>4 DEF x

LEMMA BegunMacroIs ==
    ASSUME NEW s, IsReader(s), NEW x \in Macro
    PROVE  LET r == BegunMacro(s, x)
           IN  IsReader(r) /\ r.defines = s.defines /\ r.levels = s.levels /\ r.macros = s.macros /\ r.reading = TRUE
               /\ r.macro = x /\ r.out = s.out /\ r.ok = s.ok
  <1> DEFINE t == SetReading(s, TRUE)
  <1>2. /\ IsReader(t) /\ t.defines = s.defines /\ t.levels = s.levels /\ t.macros = s.macros /\ t.reading = TRUE
        /\ t.macro = s.macro /\ t.out = s.out /\ t.ok = s.ok
    BY SetReadingIs
  <1>3. BegunMacro(s, x) = SetMacro(t, x)
    BY DEF BegunMacro, SetMacro, SetReading
  <1> HIDE DEF t
  <1>4. LET r == SetMacro(t, x)
        IN  IsReader(r) /\ r.defines = t.defines /\ r.levels = t.levels /\ r.macros = t.macros /\ r.reading = t.reading
               /\ r.macro = x /\ r.out = t.out /\ r.ok = t.ok
    BY <1>2, SetMacroIs
  <1> QED BY <1>2, <1>3, <1>4

LEMMA LongerMacroIs ==
    ASSUME NEW s, IsReader(s), NEW line \in Line
    PROVE  LET r == LongerMacro(s, line)
           IN  IsReader(r) /\ r.defines = s.defines /\ r.levels = s.levels /\ r.macros = s.macros /\ r.reading = s.reading
               /\ r.macro = [s.macro EXCEPT !.body = Append(@, line)] /\ r.out = s.out /\ r.ok = s.ok
  <1> DEFINE x == [s.macro EXCEPT !.body = Append(@, line)]
  <1>1. x \in Macro
    <2>1. s.macro \in Macro
      BY DEF IsReader
    <2> QED BY <2>1, LongerBody
  <1>2. LongerMacro(s, line) = SetMacro(s, x)
    BY Zenon DEF LongerMacro, SetMacro
  <1> HIDE DEF x
  <1>3. LET r == SetMacro(s, x)
        IN  IsReader(r) /\ r.defines = s.defines /\ r.levels = s.levels /\ r.macros = s.macros /\ r.reading = s.reading
               /\ r.macro = x /\ r.out = s.out /\ r.ok = s.ok
    BY <1>1, SetMacroIs
  <1> QED BY <1>2, <1>3, Zenon DEF x

\* What a line does not change.
Framed(s, line, r) ==
    /\ IsReader(r)
    /\ ~ (s.reading /\ line.kind = "endm") => r.macros = s.macros
    /\ s.reading \/ ~ Active(s) \/ line.kind \notin {"endm", "times", "text"} => r.out = s.out

LEMMA ReadLineFrame ==
    ASSUME NEW s, IsReader(s), NEW line \in Line
    PROVE  Framed(s, line, ReadLine(s, line))
  <1>0. /\ s.levels \in Seq(Marks) /\ s.macros \in Seq(Macro) /\ s.macro \in Macro
        /\ s.reading \in BOOLEAN /\ s.ok \in BOOLEAN /\ Len(s.levels) \in Nat
    <2> HIDE DEF Marks, Macro
    <2> QED BY DEF IsReader
  <1>k. line.kind \in Kinds /\ line.word \in Word /\ line.arg \in Arg
    BY DEF Line, Word, Arg
  <1>b. Framed(s, line, s)
    BY DEF Framed
  <1>1. CASE ~ s.ok
    BY <1>1, <1>b, StuckReads
  <1>a. Framed(s, line, SetOk(s, FALSE))
    BY SetOkIs DEF Framed
  <1>2. CASE s.ok /\ s.reading
    <2>1. line.kind = "endm" => Framed(s, line, AddedMacro(s))
      BY <1>2, AddedMacroIs DEF Framed
    <2>2. Framed(s, line, LongerMacro(s, line))
      BY LongerMacroIs DEF Framed
    <2> QED BY <1>2, <2>1, <2>2, BodyReads
  <1>3. CASE s.ok /\ ~ s.reading /\ line.kind \in Conditionals
    <2> DEFINE x == IF line.word # Malformed /\ Truth(s, line) THEN "on" ELSE "off"
    <2>1. x \in Marks
      BY DEF Marks
    <2> HIDE DEF x, Marks
    <2>2. Append(s.levels, x) \in Seq(Marks)
      BY <1>0, <2>1
    <2>3. Framed(s, line, SetLevels(s, Append(s.levels, x)))
      BY <2>2, SetLevelsIs DEF Framed
    <2> QED BY <1>3, <1>a, <2>3, ConditionalReads DEF x
  <1>4. CASE s.ok /\ ~ s.reading /\ line.kind = "else"
    <2> DEFINE x == IF s.levels[Len(s.levels)] = "off" THEN "on" ELSE "spent"
    <2>1. x \in Marks
      BY DEF Marks
    <2> HIDE DEF x, Marks
    <2>2. Len(s.levels) > 0 => [s.levels EXCEPT ![Len(s.levels)] = x] \in Seq(Marks)
      BY <1>0, <2>1
    <2>3. Len(s.levels) > 0 => Framed(s, line, WithLevel(s, x))
      BY <2>2, SetLevelsIs DEF WithLevel, Framed
    <2>4. /\ Len(s.levels) = 0 => ReadLine(s, line) = SetOk(s, FALSE)
          /\ Len(s.levels) > 0 => ReadLine(s, line) = WithLevel(s, x)
      BY <1>0, <1>4, ElseReads DEF x
    <2>5. Len(s.levels) = 0 \/ Len(s.levels) > 0
      BY <1>0
    <2> QED BY <1>a, <2>3, <2>4, <2>5, Zenon
  <1>5. CASE s.ok /\ ~ s.reading /\ line.kind = "endif"
    <2>1. Len(s.levels) > 0 => Front(s.levels) \in Seq(Marks)
      <3> HIDE DEF Marks
      <3> QED BY <1>0 DEF Front
    <2>2. Len(s.levels) > 0 => Framed(s, line, SetLevels(s, Front(s.levels)))
      BY <2>1, SetLevelsIs DEF Framed
    <2>4. /\ Len(s.levels) = 0 => ReadLine(s, line) = SetOk(s, FALSE)
          /\ Len(s.levels) > 0 => ReadLine(s, line) = SetLevels(s, Front(s.levels))
      BY <1>0, <1>5, EndIfReads
    <2>5. Len(s.levels) = 0 \/ Len(s.levels) > 0
      BY <1>0
    <2> QED BY <1>a, <2>2, <2>4, <2>5, Zenon
  <1>6. CASE s.ok /\ ~ s.reading /\ line.kind = "define"
    <2>1. Framed(s, line, SetDefines(s, NewDefines(s.defines, line)))
      BY SetDefinesIs DEF Framed
    <2> QED BY <1>6, <1>a, <1>b, <2>1, DefineReads
  <1>7. CASE s.ok /\ ~ s.reading /\ line.kind = "macro"
    <2>1. Begun(line) \in Macro
      BY <1>k DEF Begun, Macro
    <2>2. Framed(s, line, BegunMacro(s, Begun(line)))
      BY <2>1, BegunMacroIs DEF Framed
    <2> QED BY <1>7, <1>a, <1>b, <2>2, MacroReads
  <1>8. CASE s.ok /\ ~ s.reading /\ line.kind = "error"
    BY <1>8, <1>a, <1>b, ErrorReads
  <1>9. CASE s.ok /\ ~ s.reading /\ line.kind = "warning"
    BY <1>9, <1>b, WarningReads
  <1>10. CASE s.ok /\ ~ s.reading /\ line.kind \in {"endm", "times", "text"}
    <2>1. Active(s) => Framed(s, line, SetOut(s, s.out \o Text(s, line)))
      BY <1>10, SetOutIs DEF Framed
    <2> QED BY <1>10, <1>b, <2>1, TextReads
  <1> QED BY <1>0, <1>k, <1>1, <1>2, <1>3, <1>4, <1>5, <1>6, <1>7, <1>8, <1>9, <1>10 DEF Kinds

LEMMA ReadLineTyped ==
    ASSUME NEW s, IsReader(s), NEW line \in Line
    PROVE  IsReader(ReadLine(s, line))
  BY ReadLineFrame DEF Framed

-----------------------------------------------------------------------------
(* The reading of a text, line by line.                                    *)

\* The states of the reference: after k lines it is the one of index k.
Reading(src) ==
    LET f[k \in 0..Len(src)] == IF k = 0 THEN Reader ELSE ReadLine(f[k - 1], src[k]) IN f

Follow(t, src, m) ==
    /\ DOMAIN t = 0..m /\ t[0] = Reader
    /\ \A k \in 1..m : t[k] = ReadLine(t[k - 1], src[k])

LEMMA FollowExists ==
    ASSUME NEW src \in Seq(Line)
    PROVE  \E t : t = [k \in 0..Len(src) |-> IF k = 0 THEN Reader ELSE ReadLine(t[k - 1], src[k])]
  <1> DEFINE L == Len(src)
             P == {m \in 0..L : \E t : Follow(t, src, m)}
  <1>0. L \in Nat
    OBVIOUS
  <1>1. 0 \in P
    <2>1. Follow([k \in 0..0 |-> Reader], src, 0)
      BY DEF Follow
    <2> QED BY <2>1, <1>0
  <1>2. \A m \in 0..L-1 : m \in P => m + 1 \in P
    <2> SUFFICES ASSUME NEW m \in 0..L-1, m \in P PROVE m + 1 \in P
      OBVIOUS
    <2>1. PICK t : Follow(t, src, m)
      OBVIOUS
    <2> DEFINE last == ReadLine(t[m], src[m + 1])
               u == [k \in 0..m+1 |-> IF k <= m THEN t[k] ELSE last]
    <2> HIDE DEF last
    <2>2. DOMAIN u = 0..m+1 /\ u[0] = Reader
      BY <2>1, <1>0 DEF Follow
    <2>3. ASSUME NEW k \in 1..m PROVE u[k] = ReadLine(u[k - 1], src[k])
      <3>1. u[k] = t[k] /\ u[k - 1] = t[k - 1]
        BY <1>0
      <3> HIDE DEF u
      <3> QED BY <3>1, <2>1 DEF Follow
    <2>4. u[m + 1] = ReadLine(u[m], src[m + 1])
      <3>1. u[m + 1] = last /\ u[m] = t[m]
        BY <1>0
      <3> QED BY <3>1 DEF last
    <2> HIDE DEF u
    <2>5. ASSUME NEW k \in 1..m+1 PROVE u[k] = ReadLine(u[k - 1], src[k])
      <3>1. CASE k \in 1..m
        BY <3>1, <2>3
      <3>2. CASE k = m + 1
        <4>1. k - 1 = m
          BY <3>2, <1>0
        <4> QED BY <2>4, <3>2, <4>1
      <3> QED BY <3>1, <3>2, <1>0
    <2>6. Follow(u, src, m + 1)
      BY <2>2, <2>5 DEF Follow
    <2>7. m + 1 \in 0..L
      BY <1>0
    <2> HIDE DEF L
    <2> QED BY <2>6, <2>7
  <1>3. L \in P
    <2>1. P \in SUBSET (0..L) /\ L \in 0..L
      BY <1>0
    <2> HIDE DEF P, L
    <2> QED BY <2>1, <1>0, <1>1, <1>2, Upwards
  <1>4. PICK t : Follow(t, src, L)
    BY <1>3
  <1> DEFINE v == [k \in 0..L |-> t[k]]
  <1>5. ASSUME NEW k \in 0..L, k # 0 PROVE v[k] = ReadLine(v[k - 1], src[k])
    <2>1. v[k] = t[k] /\ v[k - 1] = t[k - 1] /\ k \in 1..L
      BY <1>0, <1>5
    <2> HIDE DEF v
    <2> QED BY <2>1, <1>4 DEF Follow
  <1>6. v[0] = Reader
    BY <1>0, <1>4 DEF Follow
  <1>7. v = [k \in 0..L |-> v[k]]
    OBVIOUS
  <1> HIDE DEF v
  <1>8. v = [k \in 0..L |-> IF k = 0 THEN Reader ELSE ReadLine(v[k - 1], src[k])]
    BY <1>5, <1>6, <1>7
  <1> QED BY <1>8

LEMMA ReadingStep ==
    ASSUME NEW src \in Seq(Line)
    PROVE  /\ Reading(src)[0] = Reader
           /\ \A k \in 1..Len(src) : Reading(src)[k] = ReadLine(Reading(src)[k - 1], src[k])
  <1> DEFINE T == Reading(src)
  <1>1. T = [k \in 0..Len(src) |-> IF k = 0 THEN Reader ELSE ReadLine(T[k - 1], src[k])]
    BY FollowExists, Zenon DEF Reading
  <1> HIDE DEF T
  <1>2. Len(src) \in Nat
    OBVIOUS
  <1>3. T[0] = Reader
    BY <1>1, <1>2
  <1>4. \A k \in 1..Len(src) : T[k] = ReadLine(T[k - 1], src[k])
    <2> TAKE k \in 1..Len(src)
    <2>1. k \in 0..Len(src) /\ k # 0
      BY <1>2
    <2> QED BY <1>1, <2>1
  <1> QED BY <1>3, <1>4 DEF T

LEMMA ReadingTyped ==
    ASSUME NEW src \in Seq(Line)
    PROVE  \A k \in 0..Len(src) : IsReader(Reading(src)[k])
  <1> DEFINE T == Reading(src)
             Q == {k \in 0..Len(src) : IsReader(T[k])}
  <1>0. Len(src) \in Nat
    OBVIOUS
  <1>1. 0 \in Q
    <2>1. T[0] = Reader
      BY ReadingStep
    <2> HIDE DEF T
    <2>2. IsReader(Reader)
      BY StartIsReader, Zenon
    <2>3. IsReader(T[0])
      BY <2>1, <2>2, Zenon
    <2> QED BY <1>0, <2>3
  <1>2. \A n \in 0..Len(src)-1 : n \in Q => n + 1 \in Q
    <2> SUFFICES ASSUME NEW n \in 0..Len(src)-1, n \in Q PROVE n + 1 \in Q
      OBVIOUS
    <2> DEFINE j == n + 1
    <2>1. j \in 1..Len(src) /\ j \in 0..Len(src) /\ j - 1 = n /\ src[j] \in Line
      <3> HIDE DEF Line
      <3> QED BY <1>0
    <2> HIDE DEF j
    <2>2. T[j] = ReadLine(T[n], src[j])
      BY <2>1, ReadingStep
    <2>3. IsReader(T[j])
      BY <2>1, <2>2, ReadLineTyped
    <2> QED BY <2>1, <2>3 DEF j
  <1>3. Q \in SUBSET (0..Len(src))
    OBVIOUS
  <1> HIDE DEF Q
  <1>4. 0..Len(src) \subseteq Q
    BY <1>0, <1>1, <1>2, <1>3, Upwards
  <1> QED BY <1>4 DEF Q

\* A fault is final.
LEMMA FaultStays ==
    ASSUME NEW src \in Seq(Line), NEW j \in 0..Len(src), ~ Reading(src)[j].ok
    PROVE  \A k \in j..Len(src) : ~ Reading(src)[k].ok
  <1> DEFINE T == Reading(src)
             Q == {k \in 0..Len(src) - j : ~ T[j + k].ok}
  <1>0. Len(src) \in Nat /\ j \in Nat /\ Len(src) - j \in Nat
    OBVIOUS
  <1>1. 0 \in Q
    BY <1>0
  <1>2. \A n \in 0..(Len(src)-j)-1 : n \in Q => n + 1 \in Q
    <2> SUFFICES ASSUME NEW n \in 0..(Len(src)-j)-1, n \in Q PROVE n + 1 \in Q
      OBVIOUS
    <2> DEFINE m == j + (n + 1)
    <2>1. m \in 1..Len(src) /\ m - 1 = j + n
      BY <1>0
    <2> HIDE DEF m
    <2>2. T[m] = ReadLine(T[j + n], src[m])
      BY <2>1, ReadingStep
    <2>3. ~ T[m].ok
      <3>1. ~ T[j + n].ok
        OBVIOUS
      <3>2. ReadLine(T[j + n], src[m]) = T[j + n]
        BY <3>1, StuckReads
      <3> HIDE DEF T
      <3> QED BY <2>2, <3>1, <3>2
    <2>4. n + 1 \in 0..Len(src) - j
      BY <1>0
    <2> QED BY <2>3, <2>4 DEF m
  <1>3. Q \in SUBSET (0..Len(src) - j)
    OBVIOUS
  <1> HIDE DEF Q
  <1>4. 0..Len(src) - j \subseteq Q
    BY <1>0, <1>1, <1>2, <1>3, Upwards
  <1> SUFFICES ASSUME NEW k \in j..Len(src) PROVE ~ T[k].ok
    OBVIOUS
  <1>5. k - j \in 0..Len(src) - j /\ j + (k - j) = k
    BY <1>0
  <1>6. k - j \in Q
    BY <1>4, <1>5
  <1>7. ~ T[j + (k - j)].ok
    BY <1>6 DEF Q
  <1> HIDE DEF T
  <1> QED BY <1>5, <1>7

-----------------------------------------------------------------------------
(* The state of preprocess_macros stays well formed.                       *)

\* Where the values of the symbols come from.
ValuesFrom ==
    \A w \in DOMAIN defines :
        \/ \E u \in DOMAIN CliDefines : defines[w] = CliDefines[u]
        \/ \E j \in 1..(i - 1) : defines[w] = source[j].arg

\* The tables of symbols and of macros.
Tables ==
    /\ defines \in [DOMAIN defines -> Arg] /\ IsFiniteSet(DOMAIN defines)
    /\ macros \in Seq(Macro) /\ current_macro \in Macro
    /\ Len(current_macro.body) <= MAX_MACRO_BODY_LINES
    /\ pc = "body" /\ pass = 1 => Len(macros) < MAX_MACROS

Typed ==
    /\ TypeOK /\ Tables /\ source \in Sources
    /\ trace \in [1..2 -> Seq(Takes)]
    /\ ValuesFrom

LEMMA Limits0 ==
    /\ PP_MAX_DEFINES \in Nat /\ PP_MAX_COND_DEPTH \in Nat
    /\ MAX_MACROS \in Nat /\ MAX_MACRO_BODY_LINES \in Nat
  BY LimitsNat

LEMMA TypedInit ==
    ASSUME Init
    PROVE  Typed
  <1>1. source \in Sources /\ source \in Seq(Line)
    <2> HIDE DEF Line
    <2> QED BY SourcesTyped DEF Init
  <1>2. pass \in {1, 2} /\ pc \in {"line", "body", "done", "failed"} /\ error \in Errors
    BY DEF Init, Errors
  <1>3. i \in 1..(Len(source) + 1)
    BY <1>1 DEF Init
  <1>4. /\ DOMAIN defines \subseteq Words /\ Cardinality(DOMAIN defines) <= PP_MAX_DEFINES
        /\ IsFiniteSet(DOMAIN defines) /\ defines \in [DOMAIN defines -> Arg]
    BY CliDefinesFit DEF Init, Arg
  <1>5. /\ cond_stack \in Seq([parent_active : BOOLEAN, branch_taken : BOOLEAN])
        /\ Len(cond_stack) <= PP_MAX_COND_DEPTH /\ current_active \in BOOLEAN
    BY Limits0 DEF Init
  <1>6. /\ macros \in Seq(Macro) /\ Len(macros) <= MAX_MACROS
        /\ \A k \in DOMAIN macros : Len(macros[k].body) <= MAX_MACRO_BODY_LINES
    <2> HIDE DEF Macro
    <2> QED BY Limits0 DEF Init
  <1>7. output \in Seq(Line) /\ trace \in [1..2 -> Seq(Takes)]
    <2> HIDE DEF Line, Takes
    <2>1. output = <<>> /\ trace = <<<<>>, <<>>>>
      BY DEF Init
    <2>2. <<>> \in Seq(Takes) /\ <<>> \in Seq(Line)
      OBVIOUS
    <2>3. trace = [k \in 1..2 |-> <<>>]
      BY <2>1
    <2>4. trace \in [1..2 -> Seq(Takes)]
      BY <2>2, <2>3
    <2> QED BY <2>1, <2>2, <2>4
  <1>8. current_macro \in Macro /\ Len(current_macro.body) <= MAX_MACRO_BODY_LINES
    BY NoMacroTyped, Limits0 DEF Init, NoMacro
  <1>9. ValuesFrom
    BY DEF Init, ValuesFrom
  <1>10. pc = "line"
    BY DEF Init
  <1> QED BY <1>1, <1>2, <1>3, <1>4, <1>5, <1>6, <1>7, <1>8, <1>9, <1>10 DEF Typed, TypeOK, Tables

LEMMA CurTyped ==
    ASSUME Typed, i <= Len(source)
    PROVE  /\ Cur \in Line /\ Cur.kind \in Kinds /\ Cur.word \in Word /\ Cur.arg \in Arg /\ Cur.n \in Nat
           /\ Cur.kind = "define" => Cur.word \in Words \cup {Malformed}
  <1>1. Cur \in Line /\ i \in DOMAIN source
    <2> HIDE DEF Line
    <2> QED BY DEF Typed, TypeOK, Cur
  <1>2. Cur.kind = "define" => Cur.word \in Words \cup {Malformed}
    BY <1>1, SourcesTyped DEF Typed, Cur
  <1> QED BY <1>1, <1>2 DEF Line, Word, Arg

LEMMA TypedStutters ==
    ASSUME Typed, UNCHANGED vars
    PROVE  Typed'
  BY DEF Typed, TypeOK, Tables, ValuesFrom, vars

LEMMA TypedFails ==
    ASSUME Typed, NEW e \in Errors, Fail(e)
    PROVE  Typed'
  <1>1. pc' \in {"line", "body", "done", "failed"} /\ error' \in Errors
    BY DEF Fail
  <1>2. Tables'
    BY DEF Typed, Tables, Fail
  <1>3. ValuesFrom' /\ source' \in Sources /\ trace' \in [1..2 -> Seq(Takes)]
    BY DEF Typed, ValuesFrom, Fail
  <1>4. TypeOK'
    BY <1>1 DEF Typed, TypeOK, Fail
  <1> QED BY <1>2, <1>3, <1>4 DEF Typed

\* What an advance does to the part of the state it changes.
LEMMA Advances ==
    ASSUME Typed, i <= Len(source), NEW how \in Takes, Advance(how)
    PROVE  /\ source' \in Seq(Line) /\ source' \in Sources
           /\ pass' \in {1, 2} /\ error' \in Errors /\ i' \in 1..(Len(source') + 1)
           /\ trace' \in [1..2 -> Seq(Takes)]
           /\ defines' = defines => ValuesFrom'
  <1>1. /\ source' = source /\ source \in Seq(Line) /\ source \in Sources
        /\ pass' = pass /\ error' = error /\ pass \in {1, 2} /\ error \in Errors
        /\ i' = i + 1 /\ i \in 1..(Len(source) + 1)
        /\ trace' = [trace EXCEPT ![pass] = Append(@, how)] /\ trace \in [1..2 -> Seq(Takes)]
    BY DEF Advance, Took, Typed, TypeOK
  <1> HIDE DEF Line
  <1>2. i' \in 1..(Len(source') + 1)
    BY <1>1
  <1>3. trace' \in [1..2 -> Seq(Takes)]
    <2> HIDE DEF Takes
    <2>1. Append(trace[pass], how) \in Seq(Takes)
      BY <1>1
    <2> QED BY <1>1, <2>1
  <1>4. defines' = defines => ValuesFrom'
    <2> SUFFICES ASSUME defines' = defines PROVE ValuesFrom'
      OBVIOUS
    <2>1. \A j \in 1..(i - 1) : j \in 1..(i' - 1)
      BY <1>1
    <2>2. ValuesFrom
      BY DEF Typed
    <2> QED BY <1>1, <2>1, <2>2 DEF ValuesFrom
  <1> QED BY <1>1, <1>2, <1>3, <1>4

\* The steps that leave the tables and the conditionals alone.
LEMMA QuietTyped ==
    ASSUME Typed, i <= Len(source), NEW how \in Takes, Advance(how),
           UNCHANGED <<pc, defines, macros, current_macro, output>>,
           cond_stack' \in Seq([parent_active : BOOLEAN, branch_taken : BOOLEAN]),
           Len(cond_stack') <= PP_MAX_COND_DEPTH, current_active' \in BOOLEAN
    PROVE  Typed'
  <1>1. /\ source' \in Seq(Line) /\ source' \in Sources
        /\ pass' \in {1, 2} /\ error' \in Errors /\ i' \in 1..(Len(source') + 1)
        /\ trace' \in [1..2 -> Seq(Takes)] /\ (defines' = defines => ValuesFrom') /\ pass' = pass
    BY Advances DEF Advance
  <1>2. Tables'
    BY <1>1 DEF Typed, Tables
  <1>3. TypeOK'
    BY <1>1 DEF Typed, TypeOK
  <1> QED BY <1>1, <1>2, <1>3 DEF Typed

LEMMA OpenTyped ==
    ASSUME Typed, OpenConditional
    PROVE  Typed'
  <1>1. CASE Fail("operand") \/ Fail("depth")
    BY <1>1, TypedFails DEF Errors
  <1>2. CASE ~ (Fail("operand") \/ Fail("depth"))
    <2>1. /\ i <= Len(source) /\ HasRoom /\ Advance("directive") /\ Frame
          /\ \E taken \in BOOLEAN :
                /\ cond_stack' = Append(cond_stack, [parent_active |-> current_active, branch_taken |-> taken])
                /\ current_active' = taken
      <3> DEFINE t == current_active /\ Holds(Cur)
      <3>1. t \in BOOLEAN
        OBVIOUS
      <3> HIDE DEF t
      <3>2. /\ cond_stack' = Append(cond_stack, [parent_active |-> current_active, branch_taken |-> t])
            /\ current_active' = t
        BY <1>2 DEF OpenConditional, t
      <3> QED BY <1>2, <3>1, <3>2 DEF OpenConditional, AtLine
    <2>2. PICK taken \in BOOLEAN :
                /\ cond_stack' = Append(cond_stack, [parent_active |-> current_active, branch_taken |-> taken])
                /\ current_active' = taken
      BY <2>1
    <2>3. /\ cond_stack' \in Seq([parent_active : BOOLEAN, branch_taken : BOOLEAN])
          /\ Len(cond_stack') <= PP_MAX_COND_DEPTH /\ current_active' \in BOOLEAN
      <3>1. current_active \in BOOLEAN
        BY DEF Typed, TypeOK
      <3> DEFINE r == [parent_active |-> current_active, branch_taken |-> taken]
                 S == [parent_active : BOOLEAN, branch_taken : BOOLEAN]
      <3>2. r \in S
        BY <3>1
      <3>3. cond_stack \in Seq(S)
        BY DEF Typed, TypeOK
      <3> HIDE DEF r, S
      <3>4. Append(cond_stack, r) \in Seq(S) /\ Len(Append(cond_stack, r)) = Len(cond_stack) + 1 /\ Len(cond_stack) \in Nat
        BY <3>2, <3>3
      <3>5. cond_stack' = Append(cond_stack, r)
        BY <2>2 DEF r
      <3>6. Len(cond_stack) < PP_MAX_COND_DEPTH
        BY <2>1 DEF HasRoom
      <3> QED BY <2>2, <3>4, <3>5, <3>6, Limits0 DEF S
    <2>4. "directive" \in Takes
      BY DEF Takes
    <2>5. UNCHANGED <<pc, defines, macros, current_macro, output>>
      BY <2>1 DEF Frame
    <2> QED BY <2>1, <2>3, <2>4, <2>5, QuietTyped
  <1> QED BY <1>1, <1>2

LEMMA LastIn ==
    ASSUME NEW S, NEW q \in Seq(S), q # <<>>
    PROVE  Len(q) \in DOMAIN q /\ q[Len(q)] \in S /\ Len(q) \in Nat /\ Len(q) > 0
  OBVIOUS

LEMMA ElseTyped ==
    ASSUME Typed, Else
    PROVE  Typed'
  <1>1. CASE Fail("unmatched")
    BY <1>1, TypedFails DEF Errors
  <1>2. CASE ~ Fail("unmatched")
    <2>1. /\ i <= Len(source) /\ cond_stack # <<>> /\ Advance("directive") /\ Frame
          /\ current_active' = (Top.parent_active /\ ~ Top.branch_taken)
          /\ cond_stack' = [cond_stack EXCEPT ![Len(cond_stack)].branch_taken = TRUE]
      BY <1>2 DEF Else, AtLine
    <2>2. /\ cond_stack \in Seq([parent_active : BOOLEAN, branch_taken : BOOLEAN])
          /\ Len(cond_stack) <= PP_MAX_COND_DEPTH
      BY DEF Typed, TypeOK
    <2>3. cond_stack' \in Seq([parent_active : BOOLEAN, branch_taken : BOOLEAN]) /\ Len(cond_stack') = Len(cond_stack)
      <3> DEFINE S == [parent_active : BOOLEAN, branch_taken : BOOLEAN]
                 top == [Top EXCEPT !.branch_taken = TRUE]
      <3>1. Len(cond_stack) \in DOMAIN cond_stack /\ Top \in S
        BY <2>1, <2>2, LastIn DEF Top
      <3>2. top \in S
        BY <3>1
      <3>3. cond_stack' = [cond_stack EXCEPT ![Len(cond_stack)] = top]
        BY <2>1 DEF Top
      <3> HIDE DEF S, top
      <3>4. cond_stack \in Seq(S)
        BY <2>2 DEF S
      <3>5. cond_stack' \in Seq(S) /\ Len(cond_stack') = Len(cond_stack)
        BY <3>1, <3>2, <3>3, <3>4
      <3> QED BY <3>5 DEF S
    <2>4. "directive" \in Takes
      BY DEF Takes
    <2>5. UNCHANGED <<pc, defines, macros, current_macro, output>> /\ current_active' \in BOOLEAN
      BY <2>1 DEF Frame
    <2> QED BY <2>1, <2>2, <2>3, <2>4, <2>5, QuietTyped
  <1> QED BY <1>1, <1>2

LEMMA EndIfTyped ==
    ASSUME Typed, EndIf
    PROVE  Typed'
  <1>1. CASE Fail("unmatched")
    BY <1>1, TypedFails DEF Errors
  <1>2. CASE ~ Fail("unmatched")
    <2>1. /\ i <= Len(source) /\ cond_stack # <<>> /\ Advance("directive") /\ Frame
          /\ current_active' = Top.parent_active /\ cond_stack' = Front(cond_stack)
      BY <1>2 DEF EndIf, AtLine
    <2>2. /\ cond_stack \in Seq([parent_active : BOOLEAN, branch_taken : BOOLEAN])
          /\ Len(cond_stack) <= PP_MAX_COND_DEPTH
      BY DEF Typed, TypeOK
    <2>3. /\ cond_stack' \in Seq([parent_active : BOOLEAN, branch_taken : BOOLEAN])
          /\ Len(cond_stack') <= Len(cond_stack) /\ current_active' \in BOOLEAN
      <3> DEFINE S == [parent_active : BOOLEAN, branch_taken : BOOLEAN]
      <3>1. Top \in S
        BY <2>1, <2>2, LastIn DEF Top
      <3>2. current_active' \in BOOLEAN
        BY <2>1, <3>1
      <3> HIDE DEF S
      <3>3. cond_stack \in Seq(S)
        BY <2>2 DEF S
      <3>4. Front(cond_stack) \in Seq(S) /\ Len(Front(cond_stack)) <= Len(cond_stack)
        BY <2>1, <3>3 DEF Front
      <3> QED BY <2>1, <3>2, <3>4 DEF S
    <2>4. "directive" \in Takes
      BY DEF Takes
    <2>5. UNCHANGED <<pc, defines, macros, current_macro, output>> /\ Len(cond_stack') <= PP_MAX_COND_DEPTH
      BY <2>1, <2>2, <2>3, Limits0 DEF Frame
    <2> QED BY <2>1, <2>2, <2>3, <2>4, <2>5, QuietTyped
  <1> QED BY <1>1, <1>2

LEMMA SkipTyped ==
    ASSUME Typed, SkipInactive
    PROVE  Typed'
  <1>1. CASE Fail("operand")
    BY <1>1, TypedFails DEF Errors
  <1>2. CASE ~ Fail("operand")
    <2>1. /\ i <= Len(source) /\ Advance("off")
          /\ UNCHANGED <<pc, defines, cond_stack, current_active, macros, current_macro, output>>
      BY <1>2 DEF SkipInactive, AtLine
    <2>2. "off" \in Takes
      BY DEF Takes
    <2>3. /\ cond_stack' \in Seq([parent_active : BOOLEAN, branch_taken : BOOLEAN])
          /\ Len(cond_stack') <= PP_MAX_COND_DEPTH /\ current_active' \in BOOLEAN
      BY <2>1 DEF Typed, TypeOK
    <2> QED BY <2>1, <2>2, <2>3, QuietTyped
  <1> QED BY <1>1, <1>2

LEMMA DefineTyped ==
    ASSUME Typed, Define
    PROVE  Typed'
  <1>1. CASE Fail("operand") \/ Fail("defines")
    BY <1>1, TypedFails DEF Errors
  <1>2. CASE ~ (Fail("operand") \/ Fail("defines"))
    <2> DEFINE w0 == Cur.word
               D == DOMAIN defines \cup {w0}
    <2>1. /\ i <= Len(source) /\ Cur.kind = "define" /\ w0 # Malformed
          /\ w0 \in DOMAIN defines \/ Cardinality(DOMAIN defines) < PP_MAX_DEFINES
          /\ defines' = [w \in D |-> IF w = w0 THEN Cur.arg ELSE defines[w]]
          /\ Advance("on")
          /\ UNCHANGED <<pc, cond_stack, current_active, macros, current_macro, output>>
      BY <1>2 DEF Define, AtActive, AtLine, pp_lookup_define
    <2>2. w0 \in Words /\ Cur.arg \in Arg
      BY <2>1, CurTyped
    <2>3. /\ defines \in [DOMAIN defines -> Arg] /\ IsFiniteSet(DOMAIN defines) /\ DOMAIN defines \subseteq Words
          /\ Cardinality(DOMAIN defines) <= PP_MAX_DEFINES
      BY DEF Typed, Tables, TypeOK
    <2> HIDE DEF w0
    <2>4. DOMAIN defines' = D /\ D \subseteq Words /\ defines' \in [D -> Arg]
      BY <2>1, <2>2, <2>3
    <2>5. IsFiniteSet(D) /\ Cardinality(D) <= PP_MAX_DEFINES
      <3>1. /\ IsFiniteSet(D) /\ Cardinality(DOMAIN defines) \in Nat
            /\ Cardinality(D) = IF w0 \in DOMAIN defines THEN Cardinality(DOMAIN defines)
                                                        ELSE Cardinality(DOMAIN defines) + 1
        BY <2>3, FS_AddElement, FS_CardinalityType
      <3> QED BY <3>1, <2>1, <2>3, Limits0
    <2>6. "on" \in Takes
      BY DEF Takes
    <2>7. /\ source' \in Seq(Line) /\ source' \in Sources
          /\ pass' \in {1, 2} /\ error' \in Errors /\ i' \in 1..(Len(source') + 1)
          /\ trace' \in [1..2 -> Seq(Takes)] /\ pass' = pass /\ source' = source /\ i' = i + 1
      BY <2>1, <2>6, Advances DEF Advance
    <2>8. Tables'
      BY <2>1, <2>4, <2>5, <2>7 DEF Typed, Tables
    <2>9. TypeOK'
      BY <2>1, <2>4, <2>5, <2>7 DEF Typed, TypeOK
    <2>10. ValuesFrom'
      <3>1. i \in Nat /\ i >= 1 /\ i \in 1..(i' - 1) /\ \A j \in 1..(i - 1) : j \in 1..(i' - 1)
        BY <2>7 DEF Typed, TypeOK
      <3>2. defines'[w0] = source'[i].arg
        BY <2>1, <2>7 DEF Cur
      <3>3. ASSUME NEW w \in DOMAIN defines', w # w0
            PROVE  \/ \E u \in DOMAIN CliDefines : defines'[w] = CliDefines[u]
                   \/ \E j \in 1..(i' - 1) : defines'[w] = source'[j].arg
        <4>1. w \in DOMAIN defines /\ defines'[w] = defines[w]
          BY <2>1, <2>4, <3>3
        <4>2. \/ \E u \in DOMAIN CliDefines : defines[w] = CliDefines[u]
              \/ \E j \in 1..(i - 1) : defines[w] = source[j].arg
          BY <4>1 DEF Typed, ValuesFrom
        <4> QED BY <4>1, <4>2, <3>1, <2>7
      <3> QED BY <3>1, <3>2, <3>3 DEF ValuesFrom
    <2> QED BY <2>7, <2>8, <2>9, <2>10 DEF Typed
  <1> QED BY <1>1, <1>2

LEMMA MacroFields ==
    ASSUME NEW m \in Macro
    PROVE  m.name \in Word /\ m.param \in Arg /\ m.body \in Seq(Line) /\ Len(m.body) \in Nat
  <1>1. m.name \in Word /\ m.param \in Arg /\ m.body \in Seq(Line)
    <2> HIDE DEF Word, Arg, Line
    <2> QED BY DEF Macro
  <1> HIDE DEF Line
  <1> QED BY <1>1

LEMMA BegunTyped ==
    ASSUME NEW line \in Line
    PROVE  Begun(line) \in Macro /\ Begun(line).body = <<>>
  BY DEF Begun, Macro, Line, Word, Arg

LEMMA StartTyped ==
    ASSUME Typed, StartMacro
    PROVE  Typed'
  <1>1. CASE Fail("macros") \/ Fail("duplicate")
    BY <1>1, TypedFails DEF Errors
  <1>2. CASE ~ (Fail("macros") \/ Fail("duplicate"))
    <2>1. /\ i <= Len(source)
          /\ pass = 1 => Len(macros) < MAX_MACROS
          /\ current_macro' = IF pass = 1 THEN Begun(Cur) ELSE current_macro
          /\ pc' = "body" /\ Advance("on")
          /\ UNCHANGED <<defines, cond_stack, current_active, macros, output>>
      BY <1>2 DEF StartMacro, AtActive, AtLine, Begun
    <2>2. Begun(Cur) \in Macro /\ Len(Begun(Cur).body) = 0
      BY <2>1, CurTyped, BegunTyped
    <2>3. current_macro \in Macro /\ Len(current_macro.body) <= MAX_MACRO_BODY_LINES
      BY DEF Typed, Tables
    <2>4. current_macro' \in Macro /\ Len(current_macro'.body) <= MAX_MACRO_BODY_LINES
      BY <2>1, <2>2, <2>3, Limits0
    <2>5. "on" \in Takes
      BY DEF Takes
    <2>6. /\ source' \in Seq(Line) /\ source' \in Sources
          /\ pass' \in {1, 2} /\ error' \in Errors /\ i' \in 1..(Len(source') + 1)
          /\ trace' \in [1..2 -> Seq(Takes)] /\ (defines' = defines => ValuesFrom') /\ pass' = pass
      BY <2>1, <2>5, Advances DEF Advance
    <2>7. Tables'
      BY <2>1, <2>4, <2>6 DEF Typed, Tables
    <2>8. TypeOK'
      BY <2>1, <2>6 DEF Typed, TypeOK
    <2> QED BY <2>1, <2>6, <2>7, <2>8 DEF Typed
  <1> QED BY <1>1, <1>2

\* A line added to a body that may be full.
Longer(m, line) == [m EXCEPT !.body = AddLine(@, line)]

LEMMA LongerTyped ==
    ASSUME NEW m \in Macro, NEW line \in Line
    PROVE  LET n == Longer(m, line)
           IN  /\ n \in Macro /\ n.name = m.name /\ n.param = m.param
               /\ n.body = AddLine(m.body, line)
               /\ Len(m.body) <= MAX_MACRO_BODY_LINES => Len(n.body) <= MAX_MACRO_BODY_LINES
  <1> DEFINE b == AddLine(m.body, line)
  <1>1. m.body \in Seq(Line)
    BY MacroFields
  <1>2. b \in Seq(Line) /\ (Len(m.body) <= MAX_MACRO_BODY_LINES => Len(b) <= MAX_MACRO_BODY_LINES)
    <2> HIDE DEF Line
    <2> QED BY <1>1, Limits0 DEF AddLine
  <1> HIDE DEF b
  <1>3. Longer(m, line) = [m EXCEPT !.body = b]
    BY DEF Longer, b
  <1>4. LET n == [m EXCEPT !.body = b]
        IN  n \in Macro /\ n.name = m.name /\ n.param = m.param /\ n.body = b
    <2> HIDE DEF Line, Word, Arg
    <2> QED BY <1>2 DEF Macro
  <1> QED BY <1>2, <1>3, <1>4 DEF b

LEMMA BodyTyped ==
    ASSUME Typed, MacroBody
    PROVE  Typed'
  <1>1. /\ i <= Len(source)
        /\ current_macro' = IF pass = 1 THEN Longer(current_macro, Cur) ELSE current_macro
        /\ Advance("body")
        /\ UNCHANGED <<pc, defines, cond_stack, current_active, macros, output>>
    BY DEF MacroBody, Longer
  <1>2. current_macro \in Macro /\ Len(current_macro.body) <= MAX_MACRO_BODY_LINES
    BY DEF Typed, Tables
  <1>3. current_macro' \in Macro /\ Len(current_macro'.body) <= MAX_MACRO_BODY_LINES
    BY <1>1, <1>2, CurTyped, LongerTyped
  <1>4. "body" \in Takes
    BY DEF Takes
  <1>5. /\ source' \in Seq(Line) /\ source' \in Sources
        /\ pass' \in {1, 2} /\ error' \in Errors /\ i' \in 1..(Len(source') + 1)
        /\ trace' \in [1..2 -> Seq(Takes)] /\ (defines' = defines => ValuesFrom') /\ pass' = pass
    BY <1>1, <1>4, Advances DEF Advance
  <1>6. Tables'
    BY <1>1, <1>3, <1>5 DEF Typed, Tables
  <1>7. TypeOK'
    BY <1>1, <1>5 DEF Typed, TypeOK
  <1> QED BY <1>1, <1>5, <1>6, <1>7 DEF Typed

LEMMA EndMacroTyped ==
    ASSUME Typed, EndMacro
    PROVE  Typed'
  <1>1. /\ i <= Len(source) /\ pc = "body" /\ pc' = "line"
        /\ macros' = IF pass = 1 THEN Append(macros, current_macro) ELSE macros
        /\ current_macro' = NoMacro
        /\ Advance("body")
        /\ UNCHANGED <<defines, cond_stack, current_active, output>>
    BY DEF EndMacro
  <1>2. /\ current_macro \in Macro /\ Len(current_macro.body) <= MAX_MACRO_BODY_LINES
        /\ macros \in Seq(Macro) /\ Len(macros) <= MAX_MACROS /\ (pass = 1 => Len(macros) < MAX_MACROS)
        /\ \A k \in DOMAIN macros : Len(macros[k].body) <= MAX_MACRO_BODY_LINES
    BY <1>1 DEF Typed, Tables, TypeOK
  <1>3. /\ macros' \in Seq(Macro) /\ Len(macros') <= MAX_MACROS
        /\ \A k \in DOMAIN macros' : Len(macros'[k].body) <= MAX_MACRO_BODY_LINES
    <2> HIDE DEF Macro
    <2>1. CASE pass = 1
      <3>1. macros' = Append(macros, current_macro)
        BY <1>1, <2>1
      <3>2. macros' \in Seq(Macro) /\ Len(macros') = Len(macros) + 1 /\ Len(macros) \in Nat
        BY <1>2, <3>1
      <3>3. ASSUME NEW k \in DOMAIN macros' PROVE Len(macros'[k].body) <= MAX_MACRO_BODY_LINES
        <4>1. k \in DOMAIN macros => macros'[k] = macros[k]
          BY <1>2, <3>1
        <4>2. k \notin DOMAIN macros => macros'[k] = current_macro
          BY <1>2, <3>1, <3>2
        <4> QED BY <4>1, <4>2, <1>2
      <3> QED BY <2>1, <1>2, <3>2, <3>3, Limits0
    <2>2. CASE pass # 1
      BY <2>2, <1>1, <1>2
    <2> QED BY <2>1, <2>2
  <1>4. "body" \in Takes /\ NoMacro \in Macro /\ Len(NoMacro.body) <= MAX_MACRO_BODY_LINES
    BY NoMacroTyped, Limits0 DEF Takes, NoMacro
  <1>5. /\ source' \in Seq(Line) /\ source' \in Sources
        /\ pass' \in {1, 2} /\ error' \in Errors /\ i' \in 1..(Len(source') + 1)
        /\ trace' \in [1..2 -> Seq(Takes)] /\ (defines' = defines => ValuesFrom') /\ pass' = pass
    BY <1>1, <1>4, Advances DEF Advance
  <1>6. Tables'
    BY <1>1, <1>3, <1>4, <1>5 DEF Typed, Tables
  <1>7. TypeOK'
    BY <1>1, <1>3, <1>5 DEF Typed, TypeOK
  <1> QED BY <1>1, <1>5, <1>6, <1>7 DEF Typed

LEMMA UnendedTyped ==
    ASSUME Typed, UnendedMacro
    PROVE  Typed'
  <1>1. NoMacro \in Macro /\ Len(NoMacro.body) <= MAX_MACRO_BODY_LINES
    BY NoMacroTyped, Limits0 DEF NoMacro
  <1>2. Tables'
    BY <1>1 DEF Typed, Tables, UnendedMacro
  <1>3. TypeOK'
    BY DEF Typed, TypeOK, UnendedMacro
  <1>4. ValuesFrom' /\ source' \in Sources /\ trace' \in [1..2 -> Seq(Takes)]
    BY DEF Typed, ValuesFrom, UnendedMacro
  <1> QED BY <1>2, <1>3, <1>4 DEF Typed

LEMMA OverlookTyped ==
    ASSUME Typed, Overlook
    PROVE  Typed'
  <1>1. /\ i <= Len(source) /\ Advance("on")
        /\ UNCHANGED <<pc, defines, cond_stack, current_active, macros, current_macro, output>>
    BY DEF Overlook, AtActive, AtLine
  <1>2. "on" \in Takes
    BY DEF Takes
  <1>3. /\ cond_stack' \in Seq([parent_active : BOOLEAN, branch_taken : BOOLEAN])
        /\ Len(cond_stack') <= PP_MAX_COND_DEPTH /\ current_active' \in BOOLEAN
    BY <1>1 DEF Typed, TypeOK
  <1> QED BY <1>1, <1>2, <1>3, QuietTyped

LEMMA DiagnoseTyped ==
    ASSUME Typed, Diagnose
    PROVE  Typed'
  <1>1. CASE Fail("error")
    BY <1>1, TypedFails DEF Errors
  <1>2. CASE ~ Fail("error")
    <2>1. /\ i <= Len(source) /\ Advance("on")
          /\ UNCHANGED <<pc, defines, cond_stack, current_active, macros, current_macro, output>>
      BY <1>2 DEF Diagnose, AtActive, AtLine
    <2>2. "on" \in Takes
      BY DEF Takes
    <2>3. /\ cond_stack' \in Seq([parent_active : BOOLEAN, branch_taken : BOOLEAN])
          /\ Len(cond_stack') <= PP_MAX_COND_DEPTH /\ current_active' \in BOOLEAN
      BY <2>1 DEF Typed, TypeOK
    <2> QED BY <2>1, <2>2, <2>3, QuietTyped
  <1> QED BY <1>1, <1>2

\* A line keeps its form when its words are replaced.
LEMMA LineFields ==
    ASSUME NEW line \in Line
    PROVE  line.kind \in Kinds /\ line.word \in Word /\ line.arg \in Arg /\ line.n \in Nat
  BY DEF Line, Word, Arg

With(line, w, a) == [line EXCEPT !.word = w, !.arg = a]

LEMMA Reworded ==
    ASSUME NEW line \in Line, NEW w \in Word, NEW a \in Arg
    PROVE  LET l == With(line, w, a)
           IN  l \in Line /\ l.kind = line.kind /\ l.word = w /\ l.arg = a /\ l.n = line.n
  BY DEF Line, Word, Arg, With

LEMMA ValueTyped ==
    ASSUME Typed
    PROVE  /\ \A w \in Word : Value(w) \in Word
           /\ \A w \in Arg : Value(w) \in Arg
  <1>1. \A w \in DOMAIN defines : defines[w] \in Arg
    BY DEF Typed, Tables
  <1>2. Arg \subseteq Word
    BY DEF Arg, Word
  <1> QED BY <1>1, <1>2 DEF Value, pp_lookup_define

LEMMA SubstituteTyped ==
    ASSUME Typed, NEW line \in Line
    PROVE  LET l == pp_substitute_defines(line)
           IN  l \in Line /\ l.kind = line.kind /\ l.word = Value(line.word) /\ l.arg = Value(line.arg)
               /\ l.n = line.n
  <1>1. Value(line.word) \in Word /\ Value(line.arg) \in Arg
    BY ValueTyped, LineFields
  <1>2. pp_substitute_defines(line) = With(line, Value(line.word), Value(line.arg))
    BY Zenon DEF pp_substitute_defines, With
  <1> QED BY <1>1, <1>2, Reworded

LEMMA ParameterTyped ==
    ASSUME NEW line \in Line, NEW m, NEW a \in Arg
    PROVE  substitute_params(line, m, a) \in Line
  <1> DEFINE Sub(w) == IF w = Parameter /\ m.param # Empty THEN a ELSE w
  <1>1. Sub(line.word) \in Word /\ Sub(line.arg) \in Arg
    <2>1. Arg \subseteq Word
      BY DEF Arg, Word
    <2> QED BY <2>1, LineFields
  <1>2. substitute_params(line, m, a) = With(line, Sub(line.word), Sub(line.arg))
    BY Zenon DEF substitute_params, With
  <1> HIDE DEF Sub
  <1> QED BY <1>1, <1>2, Reworded

LEMMA CopiesTyped ==
    ASSUME NEW line \in Line
    PROVE  Copies(line) \in Seq(Line)
  <1>1. [line EXCEPT !.kind = "text", !.n = 0] \in Line /\ line.n \in Nat
    BY DEF Line, Kinds
  <1> DEFINE c == [line EXCEPT !.kind = "text", !.n = 0]
  <1>2. Copies(line) = [k \in 1..line.n |-> c]
    BY DEF Copies
  <1>3. c \in Line /\ line.n \in Nat
    BY <1>1
  <1> HIDE DEF c, Line
  <1> QED BY <1>2, <1>3

LEMMA ExpansionTyped ==
    ASSUME Typed, NEW line \in Line
    PROVE  Expansion(line) \in Seq(Line)
  <1>1. CASE line.kind = "times"
    BY <1>1, CopiesTyped DEF Expansion
  <1>2. CASE line.kind = "text" /\ is_macro_name(line.word)
    <2> DEFINE m == macro_lookup(line.word)
               Made(k) == pp_substitute_defines(substitute_params(m.body[k], m, line.arg))
    <2>1. m \in Macro
      <3>1. \E k \in DOMAIN macros : macros[k].name = line.word
        BY <1>2 DEF is_macro_name
      <3>2. macros \in Seq(Macro)
        BY DEF Typed, Tables
      <3> HIDE DEF Macro
      <3> QED BY <3>1, <3>2 DEF macro_lookup
    <2> HIDE DEF m
    <2>2. m.body \in Seq(Line) /\ Len(m.body) \in Nat
      BY <2>1, MacroFields
    <2>3. ASSUME NEW k \in DOMAIN m.body PROVE Made(k) \in Line
      <3>1. m.body[k] \in Line /\ line.arg \in Arg
        <4>1. m.body[k] \in Line
          <5> HIDE DEF Line
          <5> QED BY <2>2
        <4> QED BY <4>1, LineFields
      <3>2. substitute_params(m.body[k], m, line.arg) \in Line
        BY <3>1, ParameterTyped
      <3> QED BY <3>2, SubstituteTyped
    <2>4. Expansion(line) = [k \in DOMAIN m.body |-> Made(k)]
      <3>1. expand_macro(line) = [k \in DOMAIN m.body |-> substitute_params(m.body[k], m, line.arg)]
        BY Zenon DEF expand_macro, m
      <3>2. Expansion(line) = LET body == expand_macro(line)
                              IN  [k \in DOMAIN body |-> pp_substitute_defines(body[k])]
        BY <1>2 DEF Expansion
      <3> QED BY <3>1, <3>2
    <2> HIDE DEF Made, Line
    <2>5. DOMAIN m.body = 1..Len(m.body)
      BY <2>2
    <2> QED BY <2>2, <2>3, <2>4, <2>5
  <1>3. CASE ~ (line.kind = "times") /\ ~ (line.kind = "text" /\ is_macro_name(line.word))
    <2>1. Expansion(line) = <<line>>
      BY <1>3 DEF Expansion
    <2> HIDE DEF Line
    <2> QED BY <2>1
  <1> QED BY <1>1, <1>2, <1>3

LEMMA EmitTyped ==
    ASSUME Typed, Emit
    PROVE  Typed'
  <1>1. CASE Fail("long")
    BY <1>1, TypedFails DEF Errors
  <1>2. CASE ~ Fail("long")
    <2> DEFINE line == pp_substitute_defines(Cur)
    <2>1. /\ i <= Len(source) /\ output' = output \o Expansion(line) /\ Advance("on")
          /\ UNCHANGED <<pc, defines, cond_stack, current_active, macros, current_macro>>
      BY <1>2 DEF Emit, AtActive, AtLine
    <2>2. line \in Line
      BY <2>1, CurTyped, SubstituteTyped
    <2>3. Expansion(line) \in Seq(Line) /\ output \in Seq(Line)
      BY <2>2, ExpansionTyped DEF Typed, TypeOK
    <2> HIDE DEF line
    <2>4. output' \in Seq(Line)
      <3> HIDE DEF Line
      <3> QED BY <2>1, <2>3
    <2>5. "on" \in Takes
      BY DEF Takes
    <2>6. /\ source' \in Seq(Line) /\ source' \in Sources
          /\ pass' \in {1, 2} /\ error' \in Errors /\ i' \in 1..(Len(source') + 1)
          /\ trace' \in [1..2 -> Seq(Takes)] /\ (defines' = defines => ValuesFrom') /\ pass' = pass
      BY <2>1, <2>5, Advances DEF Advance
    <2>7. Tables'
      BY <2>1, <2>6 DEF Typed, Tables
    <2>8. TypeOK'
      BY <2>1, <2>4, <2>6 DEF Typed, TypeOK
    <2> QED BY <2>1, <2>6, <2>7, <2>8 DEF Typed
  <1> QED BY <1>1, <1>2

LEMMA EndPassTyped ==
    ASSUME Typed, EndPass
    PROVE  Typed'
  <1>1. CASE Fail("unterminated")
    BY <1>1, TypedFails DEF Errors
  <1>2. CASE /\ pass' = 2 /\ i' = 1 /\ defines' = CliDefines /\ current_active' = TRUE
             /\ UNCHANGED <<source, pc, error, cond_stack, macros, current_macro, output, trace>>
    <2>1. /\ DOMAIN defines' \subseteq Words /\ Cardinality(DOMAIN defines') <= PP_MAX_DEFINES
          /\ IsFiniteSet(DOMAIN defines') /\ defines' \in [DOMAIN defines' -> Arg]
      BY <1>2, CliDefinesFit DEF Arg
    <2>2. Tables'
      BY <1>2, <2>1 DEF Typed, Tables
    <2>3. i' \in 1..(Len(source') + 1)
      BY <1>2 DEF Typed, TypeOK
    <2>4. TypeOK'
      BY <1>2, <2>1, <2>3 DEF Typed, TypeOK
    <2>5. ValuesFrom' /\ source' \in Sources /\ trace' \in [1..2 -> Seq(Takes)]
      BY <1>2 DEF Typed, ValuesFrom
    <2> QED BY <2>2, <2>4, <2>5 DEF Typed
  <1>3. CASE /\ pc' = "done"
             /\ UNCHANGED <<source, pass, error, i, defines, cond_stack, current_active,
                            macros, current_macro, output, trace>>
    <2>1. Tables' /\ TypeOK'
      BY <1>3 DEF Typed, Tables, TypeOK
    <2>2. ValuesFrom' /\ source' \in Sources /\ trace' \in [1..2 -> Seq(Takes)]
      BY <1>3 DEF Typed, ValuesFrom
    <2> QED BY <2>1, <2>2 DEF Typed
  <1> QED BY <1>1, <1>2, <1>3 DEF EndPass

LEMMA TypedStep ==
    ASSUME Typed, [Next]_vars
    PROVE  Typed'
  <1>1. CASE UNCHANGED vars
    BY <1>1, TypedStutters
  <1>2. CASE Finished
    BY <1>2, TypedStutters DEF Finished
  <1>3. CASE OpenConditional \/ Else \/ EndIf \/ SkipInactive
    BY <1>3, OpenTyped, ElseTyped, EndIfTyped, SkipTyped
  <1>4. CASE Define \/ StartMacro \/ MacroBody \/ EndMacro \/ UnendedMacro
    BY <1>4, DefineTyped, StartTyped, BodyTyped, EndMacroTyped, UnendedTyped
  <1>5. CASE Overlook \/ Diagnose \/ Emit \/ EndPass
    BY <1>5, OverlookTyped, DiagnoseTyped, EmitTyped, EndPassTyped
  <1> QED BY <1>1, <1>2, <1>3, <1>4, <1>5 DEF Next

LEMMA TypedHolds == Spec => []Typed
  <1>1. Typed /\ [Next]_vars => Typed'
    BY TypedStep
  <1> QED BY TypedInit, <1>1, PTL DEF Spec

\* The state of preprocess_macros stays well formed, and neither the symbols of
\* %define, nor the levels of conditionals, nor the macros, nor the lines of a
\* macro outgrow their arrays, whatever the text and the limits are.
THEOREM PreprocessorTyped == Spec => []TypeOK
  <1>1. Typed => TypeOK
    BY DEF Typed
  <1> QED BY <1>1, TypedHolds, PTL

-----------------------------------------------------------------------------
(* The conditional stack and the levels of the reference.                  *)

Cond == [parent_active : BOOLEAN, branch_taken : BOOLEAN]

\* All levels below the k-th are on.
OnBelow(ls, k) == \A n \in 1..(k - 1) : ls[n] = "on"

\* parent_active says whether the levels below are on; where they are,
\* branch_taken says that the level is no longer off.
LevelsMatch(cs, active, ls) ==
    /\ Len(cs) = Len(ls)
    /\ active <=> \A n \in DOMAIN ls : ls[n] = "on"
    /\ \A k \in DOMAIN cs :
          /\ cs[k].parent_active <=> OnBelow(ls, k)
          /\ cs[k].parent_active => (ls[k] = "off" <=> ~ cs[k].branch_taken)

Opened(active, taken) == [parent_active |-> active, branch_taken |-> taken]

LEMMA LevelOpens ==
    ASSUME NEW cs \in Seq(Cond), NEW active \in BOOLEAN, NEW ls \in Seq(Marks), LevelsMatch(cs, active, ls),
           NEW taken \in BOOLEAN, NEW mark \in {"on", "off"}, taken <=> active /\ mark = "on"
    PROVE  LevelsMatch(Append(cs, Opened(active, taken)), taken, Append(ls, mark))
  <1> DEFINE n == Len(ls)
             c == Opened(active, taken)
             ds == Append(cs, c)
             ms == Append(ls, mark)
  <1>1. /\ n \in Nat /\ Len(cs) = n /\ DOMAIN cs = 1..n /\ DOMAIN ls = 1..n
        /\ Len(ds) = n + 1 /\ DOMAIN ds = 1..(n + 1) /\ Len(ms) = n + 1 /\ DOMAIN ms = 1..(n + 1)
        /\ \A k \in 1..n : ds[k] = cs[k] /\ ms[k] = ls[k]
        /\ ds[n + 1] = c /\ ms[n + 1] = mark
    <2> HIDE DEF Cond, Marks, c
    <2> QED BY DEF LevelsMatch
  <1>2. c.parent_active = active /\ c.branch_taken = taken
    BY DEF Opened
  <1> HIDE DEF n, c, ds, ms
  <1>3. \A k \in 1..(n + 1) : OnBelow(ms, k) <=> OnBelow(ls, k)
    BY <1>1 DEF OnBelow
  <1>4. taken <=> \A k \in 1..(n + 1) : ms[k] = "on"
    <2>1. active <=> \A k \in 1..n : ls[k] = "on"
      BY <1>1 DEF LevelsMatch
    <2>2. (\A k \in 1..(n + 1) : ms[k] = "on") <=> (\A k \in 1..n : ls[k] = "on") /\ mark = "on"
      BY <1>1
    <2> QED BY <2>1, <2>2
  <1>5. ASSUME NEW k \in 1..(n + 1)
        PROVE  /\ ds[k].parent_active <=> OnBelow(ms, k)
               /\ ds[k].parent_active => (ms[k] = "off" <=> ~ ds[k].branch_taken)
    <2>1. CASE k \in 1..n
      <3>1. /\ cs[k].parent_active <=> OnBelow(ls, k)
            /\ cs[k].parent_active => (ls[k] = "off" <=> ~ cs[k].branch_taken)
        BY <1>1, <2>1 DEF LevelsMatch
      <3> QED BY <3>1, <1>1, <1>3, <2>1
    <2>2. CASE k = n + 1
      <3>1. OnBelow(ls, n + 1) <=> active
        BY <1>1 DEF OnBelow, LevelsMatch
      <3>2. ds[k].parent_active = active /\ ds[k].branch_taken = taken /\ ms[k] = mark
        BY <1>1, <1>2, <2>2
      <3>3. active => (mark = "off" <=> ~ taken)
        OBVIOUS
      <3> QED BY <3>1, <3>2, <3>3, <1>3, <2>2
    <2> QED BY <2>1, <2>2, <1>1
  <1>6. LevelsMatch(ds, taken, ms)
    BY <1>1, <1>4, <1>5 DEF LevelsMatch
  <1> QED BY <1>6 DEF ds, ms, c

TurnedConds(cs, n) == [cs EXCEPT ![n].branch_taken = TRUE]
TurnedLevels(ls, n) == [ls EXCEPT ![n] = IF ls[n] = "off" THEN "on" ELSE "spent"]

LEMMA LevelTurns ==
    ASSUME NEW cs \in Seq(Cond), NEW active \in BOOLEAN, NEW ls \in Seq(Marks), LevelsMatch(cs, active, ls),
           NEW n \in Nat, n = Len(ls), n > 0
    PROVE  LevelsMatch(TurnedConds(cs, n), cs[n].parent_active /\ ~ cs[n].branch_taken, TurnedLevels(ls, n))
  <1> DEFINE mark == IF ls[n] = "off" THEN "on" ELSE "spent"
             c == [cs[n] EXCEPT !.branch_taken = TRUE]
             ds == [cs EXCEPT ![n] = c]
             ms == [ls EXCEPT ![n] = mark]
             a == cs[n].parent_active /\ ~ cs[n].branch_taken
  <1>1. /\ Len(cs) = n /\ DOMAIN cs = 1..n /\ DOMAIN ls = 1..n
        /\ Len(ds) = n /\ DOMAIN ds = 1..n /\ Len(ms) = n /\ DOMAIN ms = 1..n
        /\ \A k \in 1..(n - 1) : ds[k] = cs[k] /\ ms[k] = ls[k]
        /\ ds[n] = c /\ ms[n] = mark /\ cs[n] \in Cond
    <2> HIDE DEF Cond, Marks, c, mark
    <2> QED BY DEF LevelsMatch
  <1>2. c.parent_active = cs[n].parent_active /\ c.branch_taken = TRUE
    BY <1>1 DEF Cond
  <1>3. ds = TurnedConds(cs, n)
    BY Zenon DEF TurnedConds
  <1>4. /\ cs[n].parent_active <=> OnBelow(ls, n)
        /\ cs[n].parent_active => (ls[n] = "off" <=> ~ cs[n].branch_taken)
    BY <1>1 DEF LevelsMatch
  <1>5. mark = "on" <=> ls[n] = "off"
    OBVIOUS
  <1>6. mark # "off"
    OBVIOUS
  <1> HIDE DEF c, ds, ms, mark
  <1>7. \A k \in 1..n : OnBelow(ms, k) <=> OnBelow(ls, k)
    BY <1>1 DEF OnBelow
  <1>8. a <=> \A k \in 1..n : ms[k] = "on"
    <2>1. (\A k \in 1..n : ms[k] = "on") <=> OnBelow(ls, n) /\ mark = "on"
      BY <1>1 DEF OnBelow
    <2> QED BY <2>1, <1>4, <1>5
  <1>9. ASSUME NEW k \in 1..n
        PROVE  /\ ds[k].parent_active <=> OnBelow(ms, k)
               /\ ds[k].parent_active => (ms[k] = "off" <=> ~ ds[k].branch_taken)
    <2>1. CASE k \in 1..(n - 1)
      <3>1. /\ cs[k].parent_active <=> OnBelow(ls, k)
            /\ cs[k].parent_active => (ls[k] = "off" <=> ~ cs[k].branch_taken)
        BY <1>1, <2>1 DEF LevelsMatch
      <3> QED BY <3>1, <1>1, <1>7, <2>1
    <2>2. CASE k = n
      BY <1>1, <1>2, <1>4, <1>6, <1>7, <2>2
    <2> QED BY <2>1, <2>2
  <1> HIDE DEF a
  <1>10. LevelsMatch(ds, a, ms)
    BY <1>1, <1>8, <1>9 DEF LevelsMatch
  <1> QED BY <1>10, <1>3 DEF ms, a, mark, TurnedLevels

LEMMA LevelCloses ==
    ASSUME NEW cs \in Seq(Cond), NEW active \in BOOLEAN, NEW ls \in Seq(Marks), LevelsMatch(cs, active, ls),
           NEW n \in Nat, n = Len(ls), n > 0
    PROVE  LevelsMatch(Front(cs), cs[n].parent_active, Front(ls))
  <1> DEFINE ds == Front(cs)
             ms == Front(ls)
  <1>1. /\ Len(cs) = n /\ DOMAIN cs = 1..n /\ DOMAIN ls = 1..n
        /\ Len(ds) = n - 1 /\ DOMAIN ds = 1..(n - 1) /\ Len(ms) = n - 1 /\ DOMAIN ms = 1..(n - 1)
        /\ \A k \in 1..(n - 1) : ds[k] = cs[k] /\ ms[k] = ls[k]
    <2> HIDE DEF Cond, Marks
    <2> QED BY DEF LevelsMatch, Front
  <1>2. cs[n].parent_active <=> OnBelow(ls, n)
    BY <1>1 DEF LevelsMatch
  <1> HIDE DEF ds, ms
  <1>3. \A k \in 1..(n - 1) : OnBelow(ms, k) <=> OnBelow(ls, k)
    BY <1>1 DEF OnBelow
  <1>4. cs[n].parent_active <=> \A k \in 1..(n - 1) : ms[k] = "on"
    BY <1>1, <1>2 DEF OnBelow
  <1>5. ASSUME NEW k \in 1..(n - 1)
        PROVE  /\ ds[k].parent_active <=> OnBelow(ms, k)
               /\ ds[k].parent_active => (ms[k] = "off" <=> ~ ds[k].branch_taken)
    <2>1. /\ cs[k].parent_active <=> OnBelow(ls, k)
          /\ cs[k].parent_active => (ls[k] = "off" <=> ~ cs[k].branch_taken)
      BY <1>1 DEF LevelsMatch
    <2> QED BY <2>1, <1>1, <1>3
  <1>6. LevelsMatch(ds, cs[n].parent_active, ms)
    BY <1>1, <1>4, <1>5 DEF LevelsMatch
  <1> QED BY <1>6 DEF ds, ms

-----------------------------------------------------------------------------
(* One line, read by preprocess_macros and by the reference.               *)

\* How a line is taken by a reader in the state s.
How(s, line) ==
    IF s.reading THEN "body"
    ELSE IF line.kind \in Conditionals \cup {"else", "endif"} THEN "directive"
    ELSE IF Active(s) THEN "on" ELSE "off"

Alike(d, cs, active, s) == d = s.defines /\ LevelsMatch(cs, active, s.levels)
Place(p, s) == (p = "body" => s.reading) /\ (p = "line" => ~ s.reading)

\* A step on a line either fails, where the reference finds a fault or a limit is
\* met, or takes the line as the reference does.  Pass 2 reports every fault, and
\* both report a macro defined twice.
Stops(r) == \E e \in Errors : Fail(e) /\ (e \in Limits \/ ~ r.ok)
Keeps(s, r) ==
    /\ Advance(How(s, Cur)) /\ pc' \in {"line", "body"}
    /\ r.ok => Alike(defines', cond_stack', current_active', r) /\ Place(pc', r)
    /\ pass = 2 \/ Cur.kind = "macro" => r.ok
Tracks(s, r) == Stops(r) \/ Keeps(s, r)

LEMMA ReaderFields ==
    ASSUME NEW s, IsReader(s)
    PROVE  /\ s.levels \in Seq(Marks) /\ s.macros \in Seq(Macro) /\ s.macro \in Macro
           /\ s.reading \in BOOLEAN /\ s.ok \in BOOLEAN
           /\ Len(s.levels) \in Nat /\ Len(s.macros) \in Nat
           /\ DOMAIN s.levels = 1..Len(s.levels) /\ DOMAIN s.macros = 1..Len(s.macros)
  <1>1. /\ s.levels \in Seq(Marks) /\ s.macros \in Seq(Macro) /\ s.macro \in Macro
        /\ s.reading \in BOOLEAN /\ s.ok \in BOOLEAN
    BY Zenon DEF IsReader
  <1> HIDE DEF Marks, Macro
  <1> QED BY <1>1

LEMMA TypedFields ==
    ASSUME Typed
    PROVE  /\ cond_stack \in Seq(Cond) /\ Len(cond_stack) \in Nat /\ current_active \in BOOLEAN
           /\ macros \in Seq(Macro) /\ Len(macros) \in Nat /\ DOMAIN macros = 1..Len(macros)
           /\ source \in Seq(Line) /\ Len(source) \in Nat /\ DOMAIN source = 1..Len(source)
           /\ i \in 1..(Len(source) + 1) /\ pass \in {1, 2} /\ current_macro \in Macro
  <1>1. /\ cond_stack \in Seq(Cond) /\ current_active \in BOOLEAN /\ macros \in Seq(Macro) /\ source \in Seq(Line)
        /\ i \in 1..(Len(source) + 1) /\ pass \in {1, 2} /\ current_macro \in Macro
    BY DEF Typed, TypeOK, Tables, Cond
  <1> HIDE DEF Cond, Macro, Line
  <1> QED BY <1>1

LEMMA ActiveIs ==
    ASSUME NEW s, Alike(defines, cond_stack, current_active, s)
    PROVE  current_active <=> Active(s)
  BY DEF Alike, LevelsMatch, Active

\* A symbol is true for preprocess_macros when it is for the reference.
LEMMA HoldsIsTruth ==
    ASSUME NEW s, defines = s.defines, NEW line, line.kind \in Conditionals,
           is_macro_name(line.word) <=> Named(s, line.word)
    PROVE  Holds(line) <=> Truth(s, line)
  <1>1. CASE line.kind = "if"
    <2> DEFINE w == line.word
               v == IF w \in DOMAIN s.defines \ Numbers THEN s.defines[w] ELSE w
               true == w \in Numbers \cup DOMAIN s.defines /\ v \notin FalseWords
               value == IF w \in Numbers THEN w \notin FalseWords
                        ELSE w \in DOMAIN s.defines /\ s.defines[w] \notin FalseWords
    <2>1. true <=> value
      OBVIOUS
    <2>2. Truth(s, line) <=> (true # (line.n = 1))
      BY <1>1 DEF Truth
    <2>3. Holds(line) <=> (IF line.n = 1 THEN ~ value ELSE value)
      BY <1>1 DEF Holds, pp_eval_number_or_symbol, pp_lookup_define
    <2> HIDE DEF true, value
    <2>4. true \in BOOLEAN /\ value \in BOOLEAN
      BY DEF true, value
    <2>5. CASE line.n = 1
      BY <2>1, <2>2, <2>3, <2>4, <2>5
    <2>6. CASE line.n # 1
      BY <2>1, <2>2, <2>3, <2>4, <2>6
    <2> QED BY <2>5, <2>6
  <1>2. CASE line.kind = "ifdef"
    BY <1>2 DEF Holds, Truth, Defined, Known, Named, pp_lookup_define
  <1>3. CASE line.kind = "ifndef"
    BY <1>3 DEF Holds, Truth, Defined, Known, Named, pp_lookup_define
  <1> QED BY <1>1, <1>2, <1>3 DEF Conditionals

LEMMA OpenTracks ==
    ASSUME Typed, OpenConditional, NEW s, IsReader(s), s.ok,
           Alike(defines, cond_stack, current_active, s), Place(pc, s),
           is_macro_name(Cur.word) <=> Named(s, Cur.word)
    PROVE  Tracks(s, ReadLine(s, Cur))
  <1>0. /\ pc = "line" /\ Cur.kind \in Conditionals /\ ~ s.reading /\ (current_active <=> Active(s))
    BY ActiveIs DEF OpenConditional, AtLine, Place
  <1>1. ASSUME Fail("operand"), BadOperand(Cur) PROVE Stops(ReadLine(s, Cur))
    <2>1. Cur.word = Malformed /\ (Active(s) \/ Cur.kind # "if")
      BY <1>0, <1>1 DEF BadOperand
    <2>2. ReadLine(s, Cur) = SetOk(s, FALSE)
      BY <1>0, <2>1, ConditionalReads
    <2>3. SetOk(s, FALSE).ok = FALSE
      BY SetOkIs
    <2> QED BY <1>1, <2>2, <2>3 DEF Stops, Errors
  <1>2. ASSUME Fail("depth") PROVE Stops(ReadLine(s, Cur))
    BY <1>2 DEF Stops, Errors, Limits
  <1>3. ASSUME /\ ~ BadOperand(Cur) /\ Advance("directive") /\ Frame,
               NEW taken \in BOOLEAN, taken <=> current_active /\ Holds(Cur),
               cond_stack' = Append(cond_stack, Opened(current_active, taken)), current_active' = taken
        PROVE  Keeps(s, ReadLine(s, Cur))
    <2> DEFINE mark == IF Cur.word # Malformed /\ Truth(s, Cur) THEN "on" ELSE "off"
               r == SetLevels(s, Append(s.levels, mark))
    <2>1. ReadLine(s, Cur) = r
      <3>1. ~ (Cur.word = Malformed /\ (Active(s) \/ Cur.kind # "if"))
        BY <1>0, <1>3 DEF BadOperand
      <3> QED BY <1>0, <3>1, ConditionalReads
    <2>2. Holds(Cur) <=> Truth(s, Cur)
      BY <1>0, HoldsIsTruth DEF Alike
    <2>3. current_active => Cur.word # Malformed
      BY <1>3 DEF BadOperand
    <2>4. taken <=> current_active /\ mark = "on"
      BY <1>3, <2>2, <2>3
    <2>5. mark \in {"on", "off"} /\ mark \in Marks
      BY DEF Marks
    <2> HIDE DEF mark
    <2>6. LevelsMatch(cond_stack', current_active', Append(s.levels, mark))
      BY <1>3, <2>4, <2>5, LevelOpens, TypedFields, ReaderFields DEF Alike
    <2>7. Append(s.levels, mark) \in Seq(Marks)
      <3> HIDE DEF Marks
      <3> QED BY <2>5, ReaderFields
    <2>8. r.defines = s.defines /\ r.levels = Append(s.levels, mark) /\ r.reading = s.reading /\ r.ok = s.ok
      BY <2>7, SetLevelsIs
    <2> HIDE DEF r
    <2>9. Alike(defines', cond_stack', current_active', r)
      BY <1>3, <2>6, <2>8 DEF Alike, Frame
    <2>10. pc' = "line" /\ Place(pc', r) /\ How(s, Cur) = "directive"
      BY <1>0, <1>3, <2>8 DEF Frame, Place, How
    <2> QED BY <1>3, <2>1, <2>8, <2>9, <2>10 DEF Keeps
  <1>4. CASE /\ ~ BadOperand(Cur)
             /\ LET taken == current_active /\ Holds(Cur)
                IN  /\ cond_stack' = Append(cond_stack, [parent_active |-> current_active,
                                                         branch_taken |-> taken])
                    /\ current_active' = taken
             /\ Advance("directive") /\ Frame
    <2> DEFINE taken == current_active /\ Holds(Cur)
    <2>1. taken \in BOOLEAN /\ (taken <=> current_active /\ Holds(Cur))
      OBVIOUS
    <2>2. cond_stack' = Append(cond_stack, Opened(current_active, taken)) /\ current_active' = taken
      BY <1>4 DEF Opened
    <2> HIDE DEF taken
    <2>3. PICK t \in BOOLEAN : t = taken
      BY <2>1
    <2> QED BY <1>3, <1>4, <2>1, <2>2, <2>3 DEF Tracks
  <1> QED BY <1>1, <1>2, <1>4 DEF OpenConditional, Tracks

LEMMA ReplacedIn ==
    ASSUME NEW S, NEW q \in Seq(S), NEW n \in 1..Len(q), NEW x \in S
    PROVE  [q EXCEPT ![n] = x] \in Seq(S)
  OBVIOUS

LEMMA ElseTracks ==
    ASSUME Typed, Else, NEW s, IsReader(s), s.ok,
           Alike(defines, cond_stack, current_active, s), Place(pc, s)
    PROVE  Tracks(s, ReadLine(s, Cur))
  <1>0. /\ pc = "line" /\ Cur.kind = "else" /\ ~ s.reading
        /\ Len(cond_stack) = Len(s.levels) /\ Len(s.levels) \in Nat /\ cond_stack \in Seq(Cond)
    BY TypedFields, ReaderFields DEF Else, AtLine, Place, Alike, LevelsMatch
  <1>1. CASE cond_stack = <<>> /\ Fail("unmatched")
    <2>1. Len(s.levels) = 0
      BY <1>0, <1>1
    <2>2. ReadLine(s, Cur) = SetOk(s, FALSE)
      BY <1>0, <2>1, ElseReads
    <2>3. SetOk(s, FALSE).ok = FALSE
      BY SetOkIs
    <2> QED BY <1>1, <2>2, <2>3 DEF Tracks, Stops, Errors
  <1>2. CASE /\ cond_stack # <<>>
             /\ current_active' = (Top.parent_active /\ ~ Top.branch_taken)
             /\ cond_stack' = [cond_stack EXCEPT ![Len(cond_stack)].branch_taken = TRUE]
             /\ Advance("directive") /\ Frame
    <2> DEFINE n == Len(s.levels)
               ls == TurnedLevels(s.levels, n)
               r == SetLevels(s, ls)
    <2>1. n > 0
      <3> HIDE DEF Cond
      <3>1. Len(cond_stack) > 0
        BY <1>0, <1>2, LastIn
      <3> QED BY <1>0, <3>1
    <2>2. ReadLine(s, Cur) = r
      BY <1>0, <2>1, ElseReads DEF WithLevel, TurnedLevels
    <2>3. LevelsMatch(cond_stack', current_active', ls)
      <3>1. LevelsMatch(cond_stack, current_active, s.levels) /\ s.levels \in Seq(Marks) /\ current_active \in BOOLEAN
        BY TypedFields, ReaderFields DEF Alike
      <3> HIDE DEF Cond, Marks
      <3>2. LevelsMatch(TurnedConds(cond_stack, n), cond_stack[n].parent_active /\ ~ cond_stack[n].branch_taken, ls)
        BY <1>0, <2>1, <3>1, LevelTurns
      <3>3. current_active' = (cond_stack[n].parent_active /\ ~ cond_stack[n].branch_taken)
        BY <1>0, <1>2 DEF Top
      <3>4. cond_stack' = TurnedConds(cond_stack, n)
        BY <1>0, <1>2 DEF TurnedConds
      <3> HIDE DEF ls, n
      <3> QED BY <3>2, <3>3, <3>4
    <2>4. ls \in Seq(Marks)
      <3> DEFINE x == IF s.levels[n] = "off" THEN "on" ELSE "spent"
      <3>1. x \in Marks
        BY DEF Marks
      <3>2. s.levels \in Seq(Marks) /\ n \in 1..Len(s.levels)
        BY <1>0, <2>1, ReaderFields
      <3>3. ls = [s.levels EXCEPT ![n] = x]
        BY Zenon DEF TurnedLevels
      <3> HIDE DEF x, n, Marks
      <3> QED BY <3>1, <3>2, <3>3, ReplacedIn
    <2> HIDE DEF ls
    <2>5. r.defines = s.defines /\ r.levels = ls /\ r.reading = s.reading /\ r.ok = s.ok
      BY <2>4, SetLevelsIs
    <2> HIDE DEF r
    <2>6. Alike(defines', cond_stack', current_active', r)
      BY <1>2, <2>3, <2>5 DEF Alike, Frame
    <2>7. pc' = "line" /\ Place(pc', r) /\ How(s, Cur) = "directive"
      BY <1>0, <1>2, <2>5 DEF Frame, Place, How
    <2> QED BY <1>2, <2>2, <2>5, <2>6, <2>7 DEF Keeps, Tracks
  <1> QED BY <1>1, <1>2 DEF Else

LEMMA EndIfTracks ==
    ASSUME Typed, EndIf, NEW s, IsReader(s), s.ok,
           Alike(defines, cond_stack, current_active, s), Place(pc, s)
    PROVE  Tracks(s, ReadLine(s, Cur))
  <1>0. /\ pc = "line" /\ Cur.kind = "endif" /\ ~ s.reading
        /\ Len(cond_stack) = Len(s.levels) /\ Len(s.levels) \in Nat /\ cond_stack \in Seq(Cond)
    BY TypedFields, ReaderFields DEF EndIf, AtLine, Place, Alike, LevelsMatch
  <1>1. CASE cond_stack = <<>> /\ Fail("unmatched")
    <2>1. Len(s.levels) = 0
      BY <1>0, <1>1
    <2>2. ReadLine(s, Cur) = SetOk(s, FALSE)
      BY <1>0, <2>1, EndIfReads
    <2>3. SetOk(s, FALSE).ok = FALSE
      BY SetOkIs
    <2> QED BY <1>1, <2>2, <2>3 DEF Tracks, Stops, Errors
  <1>2. CASE /\ cond_stack # <<>> /\ current_active' = Top.parent_active /\ cond_stack' = Front(cond_stack)
             /\ Advance("directive") /\ Frame
    <2> DEFINE n == Len(s.levels)
               ls == Front(s.levels)
               r == SetLevels(s, ls)
    <2>1. n > 0
      <3> HIDE DEF Cond
      <3>1. Len(cond_stack) > 0
        BY <1>0, <1>2, LastIn
      <3> QED BY <1>0, <3>1
    <2>2. ReadLine(s, Cur) = r
      BY <1>0, <2>1, EndIfReads
    <2>3. LevelsMatch(cond_stack', current_active', ls)
      <3>1. LevelsMatch(cond_stack, current_active, s.levels) /\ s.levels \in Seq(Marks) /\ current_active \in BOOLEAN
        BY TypedFields, ReaderFields DEF Alike
      <3> HIDE DEF Cond, Marks
      <3>2. LevelsMatch(Front(cond_stack), cond_stack[n].parent_active, ls)
        BY <1>0, <2>1, <3>1, LevelCloses
      <3>3. current_active' = cond_stack[n].parent_active
        BY <1>0, <1>2 DEF Top
      <3> HIDE DEF ls, n
      <3> QED BY <1>2, <3>2, <3>3
    <2>4. ls \in Seq(Marks)
      <3>1. s.levels \in Seq(Marks)
        BY ReaderFields
      <3> HIDE DEF Marks
      <3> QED BY <2>1, <3>1 DEF Front
    <2> HIDE DEF ls
    <2>5. r.defines = s.defines /\ r.levels = ls /\ r.reading = s.reading /\ r.ok = s.ok
      BY <2>4, SetLevelsIs
    <2> HIDE DEF r
    <2>6. Alike(defines', cond_stack', current_active', r)
      BY <1>2, <2>3, <2>5 DEF Alike, Frame
    <2>7. pc' = "line" /\ Place(pc', r) /\ How(s, Cur) = "directive"
      BY <1>0, <1>2, <2>5 DEF Frame, Place, How
    <2> QED BY <1>2, <2>2, <2>5, <2>6, <2>7 DEF Keeps, Tracks
  <1> QED BY <1>1, <1>2 DEF EndIf

\* The lines that are neither conditionals nor their branches.
Plain == {"define", "error", "warning", "macro", "endm", "times", "text"}

LEMMA PlainKinds == Kinds \ (Conditionals \cup {"else", "endif"}) = Plain
  BY DEF Kinds, Conditionals, Plain

LEMMA PlainHow ==
    ASSUME NEW s, ~ s.reading, NEW line, line.kind \in Plain
    PROVE  /\ Active(s) => How(s, line) = "on"
           /\ ~ Active(s) => How(s, line) = "off"
  BY DEF How, Plain, Conditionals

LEMMA InactiveReads ==
    ASSUME NEW s, s.ok, ~ s.reading, ~ Active(s), NEW line, line.kind \in Plain
    PROVE  /\ line.kind = "define" /\ line.word = Malformed => ReadLine(s, line) = SetOk(s, FALSE)
           /\ ~ (line.kind = "define" /\ line.word = Malformed) => ReadLine(s, line) = s
  <1>1. CASE line.kind = "define"
    BY <1>1, DefineReads
  <1>2. CASE line.kind = "error"
    BY <1>2, ErrorReads
  <1>3. CASE line.kind = "warning"
    BY <1>3, WarningReads
  <1>4. CASE line.kind = "macro"
    BY <1>4, MacroReads
  <1>5. CASE line.kind \in {"endm", "times", "text"}
    <2>1. ReadLine(s, line) = s
      BY <1>5, TextReads
    <2>2. line.kind # "define"
      BY <1>5
    <2> QED BY <2>1, <2>2
  <1> QED BY <1>1, <1>2, <1>3, <1>4, <1>5 DEF Plain

LEMMA SkipTracks ==
    ASSUME Typed, SkipInactive, NEW s, IsReader(s), s.ok,
           Alike(defines, cond_stack, current_active, s), Place(pc, s)
    PROVE  Tracks(s, ReadLine(s, Cur))
  <1>0. pc = "line" /\ ~ s.reading /\ ~ Active(s) /\ Cur.kind \in Plain
    <2>1. i <= Len(source) /\ pc = "line" /\ ~ current_active /\ Cur.kind \notin Conditionals \cup {"else", "endif"}
      BY DEF SkipInactive, AtLine
    <2>2. Cur.kind \in Kinds
      BY <2>1, CurTyped
    <2> QED BY <2>1, <2>2, PlainKinds, ActiveIs DEF Place
  <1>1. CASE Cur.kind = "define" /\ Cur.word = Malformed
    <2>1. ReadLine(s, Cur) = SetOk(s, FALSE)
      BY <1>0, <1>1, InactiveReads
    <2>2. SetOk(s, FALSE).ok = FALSE
      BY SetOkIs
    <2>3. CASE Fail("operand")
      BY <2>1, <2>2, <2>3 DEF Tracks, Stops, Errors
    <2>4. CASE ~ Fail("operand")
      <3>1. Advance("off") /\ pc' = pc /\ pass # 2
        BY <1>1, <2>4 DEF SkipInactive
      <3>2. How(s, Cur) = "off"
        BY <1>0, PlainHow
      <3>3. Cur.kind # "macro" /\ ~ ReadLine(s, Cur).ok
        BY <1>1, <2>1, <2>2
      <3>4. Advance(How(s, Cur)) /\ pc' = "line"
        BY <1>0, <3>1, <3>2
      <3> QED BY <3>1, <3>3, <3>4 DEF Tracks, Keeps
    <2> QED BY <2>3, <2>4
  <1>2. CASE ~ (Cur.kind = "define" /\ Cur.word = Malformed)
    <2>1. ReadLine(s, Cur) = s
      BY <1>0, <1>2, InactiveReads
    <2>2. Advance("off") /\ UNCHANGED <<pc, defines, cond_stack, current_active>>
      BY <1>2 DEF SkipInactive
    <2> QED BY <1>0, <2>1, <2>2, PlainHow DEF Tracks, Keeps, Place
  <1> QED BY <1>1, <1>2

LEMMA DefineTracks ==
    ASSUME Typed, Define, NEW s, IsReader(s), s.ok,
           Alike(defines, cond_stack, current_active, s), Place(pc, s)
    PROVE  Tracks(s, ReadLine(s, Cur))
  <1>0. pc = "line" /\ ~ s.reading /\ Active(s) /\ Cur.kind = "define"
    BY ActiveIs DEF Define, AtActive, AtLine, Place
  <1>1. CASE Cur.word = Malformed /\ Fail("operand")
    <2>1. ReadLine(s, Cur) = SetOk(s, FALSE)
      BY <1>0, <1>1, DefineReads
    <2>2. SetOk(s, FALSE).ok = FALSE
      BY SetOkIs
    <2> QED BY <1>1, <2>1, <2>2 DEF Tracks, Stops, Errors
  <1>2. CASE Fail("defines")
    BY <1>2 DEF Tracks, Stops, Errors, Limits
  <1>3. CASE /\ Cur.word # Malformed
             /\ defines' = [w \in DOMAIN defines \cup {Cur.word} |->
                                IF w = Cur.word THEN Cur.arg ELSE defines[w]]
             /\ Advance("on")
             /\ UNCHANGED <<pc, cond_stack, current_active, macros, current_macro, output>>
    <2> DEFINE r == SetDefines(s, NewDefines(s.defines, Cur))
    <2>1. ReadLine(s, Cur) = r
      BY <1>0, <1>3, DefineReads
    <2>2. r.defines = NewDefines(s.defines, Cur) /\ r.levels = s.levels /\ r.reading = s.reading /\ r.ok = s.ok
      BY SetDefinesIs
    <2> HIDE DEF r
    <2>3. defines' = NewDefines(s.defines, Cur)
      BY <1>3 DEF NewDefines, Alike
    <2>4. Alike(defines', cond_stack', current_active', r) /\ Place(pc', r)
      BY <1>0, <1>3, <2>2, <2>3 DEF Alike, Place
    <2>5. How(s, Cur) = "on"
      BY <1>0, PlainHow DEF Plain
    <2> QED BY <1>0, <1>3, <2>1, <2>2, <2>4, <2>5 DEF Tracks, Keeps
  <1> QED BY <1>1, <1>2, <1>3 DEF Define

LEMMA StartTracks ==
    ASSUME Typed, StartMacro, NEW s, IsReader(s), s.ok,
           Alike(defines, cond_stack, current_active, s), Place(pc, s),
           pass = 1 => (is_macro_name(Cur.word) <=> Named(s, Cur.word)),
           pass = 2 => ReadLine(s, Cur).ok
    PROVE  Tracks(s, ReadLine(s, Cur))
  <1>0. pc = "line" /\ ~ s.reading /\ Active(s) /\ Cur.kind = "macro" /\ i <= Len(source)
    BY ActiveIs DEF StartMacro, AtActive, AtLine, Place
  <1>1. CASE Fail("macros")
    BY <1>1 DEF Tracks, Stops, Errors, Limits
  <1>a. Named(s, Cur.word) => ReadLine(s, Cur) = SetOk(s, FALSE)
    BY <1>0, MacroReads
  <1>b. SetOk(s, FALSE).ok = FALSE
    BY SetOkIs
  <1>2. CASE pass = 1 /\ is_macro_name(Cur.word) /\ Fail("duplicate")
    BY <1>2, <1>a, <1>b DEF Tracks, Stops, Errors
  <1>3. CASE /\ pass = 1 => ~ is_macro_name(Cur.word)
             /\ pc' = "body" /\ Advance("on")
             /\ UNCHANGED <<defines, cond_stack, current_active, macros, output>>
    <2>1. How(s, Cur) = "on"
      BY <1>0, PlainHow DEF Plain
    <2>2. ~ Named(s, Cur.word)
      <3>1. pass # 1 => ReadLine(s, Cur).ok
        BY TypedFields
      <3> QED BY <1>3, <1>a, <1>b, <3>1
    <2> DEFINE r == BegunMacro(s, Begun(Cur))
    <2>3. ReadLine(s, Cur) = r
      BY <1>0, <2>2, MacroReads
    <2>4. Begun(Cur) \in Macro
      BY <1>0, CurTyped, BegunTyped
    <2>5. r.defines = s.defines /\ r.levels = s.levels /\ r.reading = TRUE /\ r.ok = s.ok
      BY <2>4, BegunMacroIs
    <2> HIDE DEF r
    <2>6. Alike(defines', cond_stack', current_active', r) /\ Place(pc', r)
      BY <1>3, <2>5 DEF Alike, Place
    <2> QED BY <1>3, <2>1, <2>3, <2>5, <2>6 DEF Tracks, Keeps
  <1> QED BY <1>1, <1>2, <1>3 DEF StartMacro

LEMMA BodyTracks ==
    ASSUME Typed, MacroBody, NEW s, IsReader(s), s.ok,
           Alike(defines, cond_stack, current_active, s), Place(pc, s)
    PROVE  /\ Keeps(s, ReadLine(s, Cur)) /\ s.reading
           /\ ReadLine(s, Cur) = LongerMacro(s, Cur) /\ ReadLine(s, Cur).ok
  <1>0. pc = "body" /\ s.reading /\ Cur.kind # "endm" /\ i <= Len(source)
    BY DEF MacroBody, Place
  <1> DEFINE r == LongerMacro(s, Cur)
  <1>1. ReadLine(s, Cur) = r
    BY <1>0, BodyReads
  <1>2. r.defines = s.defines /\ r.levels = s.levels /\ r.reading = s.reading /\ r.ok = s.ok
    BY <1>0, CurTyped, LongerMacroIs
  <1>3. Advance("body") /\ UNCHANGED <<pc, defines, cond_stack, current_active>>
    BY DEF MacroBody
  <1> HIDE DEF r
  <1>4. Alike(defines', cond_stack', current_active', r) /\ Place(pc', r) /\ How(s, Cur) = "body"
    BY <1>0, <1>2, <1>3 DEF Alike, Place, How
  <1>5. Keeps(s, r)
    BY <1>0, <1>2, <1>3, <1>4 DEF Keeps
  <1> QED BY <1>0, <1>1, <1>2, <1>5 DEF r

LEMMA EndMacroTracks ==
    ASSUME Typed, EndMacro, NEW s, IsReader(s), s.ok,
           Alike(defines, cond_stack, current_active, s), Place(pc, s)
    PROVE  /\ Keeps(s, ReadLine(s, Cur)) /\ s.reading
           /\ ReadLine(s, Cur) = AddedMacro(s) /\ ReadLine(s, Cur).ok
  <1>0. pc = "body" /\ s.reading /\ Cur.kind = "endm" /\ i <= Len(source)
    BY DEF EndMacro, Place
  <1> DEFINE r == AddedMacro(s)
  <1>1. ReadLine(s, Cur) = r
    BY <1>0, BodyReads
  <1>2. r.defines = s.defines /\ r.levels = s.levels /\ r.reading = FALSE /\ r.ok = s.ok
    BY AddedMacroIs
  <1>3. Advance("body") /\ pc' = "line" /\ UNCHANGED <<defines, cond_stack, current_active>>
    BY DEF EndMacro
  <1> HIDE DEF r
  <1>4. Alike(defines', cond_stack', current_active', r) /\ Place(pc', r) /\ How(s, Cur) = "body"
    BY <1>0, <1>2, <1>3 DEF Alike, Place, How
  <1>5. Keeps(s, r)
    BY <1>2, <1>3, <1>4 DEF Keeps
  <1> QED BY <1>0, <1>1, <1>2, <1>5 DEF r

\* A line that only changes the output of the reference.
LEMMA TextTracks ==
    ASSUME NEW s, IsReader(s), s.ok, ~ s.reading, Active(s),
           Alike(defines, cond_stack, current_active, s), Place(pc, s),
           Cur.kind \in {"endm", "times", "text"},
           Advance("on"), UNCHANGED <<pc, defines, cond_stack, current_active>>, pc = "line"
    PROVE  /\ Keeps(s, ReadLine(s, Cur))
           /\ ReadLine(s, Cur).out = s.out \o Text(s, Cur) /\ ReadLine(s, Cur).ok
  <1> DEFINE r == SetOut(s, s.out \o Text(s, Cur))
  <1>1. ReadLine(s, Cur) = r
    BY TextReads
  <1>2. /\ r.defines = s.defines /\ r.levels = s.levels /\ r.reading = s.reading /\ r.ok = s.ok
        /\ r.out = s.out \o Text(s, Cur)
    BY SetOutIs
  <1> HIDE DEF r
  <1>3. Alike(defines', cond_stack', current_active', r) /\ Place(pc', r)
    BY <1>2 DEF Alike, Place
  <1>4. How(s, Cur) = "on"
    <2>1. Cur.kind \in Plain
      BY DEF Plain
    <2> QED BY <2>1, PlainHow
  <1>5. Keeps(s, r)
    BY <1>2, <1>3, <1>4 DEF Keeps
  <1> QED BY <1>1, <1>2, <1>5

LEMMA WarningTracks ==
    ASSUME NEW s, s.ok, ~ s.reading, Active(s),
           Alike(defines, cond_stack, current_active, s), Place(pc, s),
           Cur.kind = "warning",
           Advance("on"), UNCHANGED <<pc, defines, cond_stack, current_active>>, pc = "line"
    PROVE  Keeps(s, ReadLine(s, Cur))
  <1>1. ReadLine(s, Cur) = s
    BY WarningReads
  <1>2. How(s, Cur) = "on"
    BY PlainHow DEF Plain
  <1> QED BY <1>1, <1>2 DEF Keeps, Place

LEMMA OverlookTracks ==
    ASSUME Typed, Overlook, NEW s, IsReader(s), s.ok,
           Alike(defines, cond_stack, current_active, s), Place(pc, s)
    PROVE  Tracks(s, ReadLine(s, Cur))
  <1>0. /\ pc = "line" /\ ~ s.reading /\ Active(s) /\ pass = 1
        /\ Cur.kind \in {"error", "warning", "endm", "times", "text"}
        /\ Advance("on") /\ UNCHANGED <<pc, defines, cond_stack, current_active>>
    BY ActiveIs DEF Overlook, AtActive, AtLine, Place
  <1>1. CASE Cur.kind = "error"
    <2>1. ReadLine(s, Cur) = SetOk(s, FALSE)
      BY <1>0, <1>1, ErrorReads
    <2>2. SetOk(s, FALSE).ok = FALSE
      BY SetOkIs
    <2>3. How(s, Cur) = "on"
      BY <1>0, <1>1, PlainHow DEF Plain
    <2>4. Advance(How(s, Cur)) /\ pc' = "line" /\ pass # 2 /\ ~ ReadLine(s, Cur).ok /\ Cur.kind # "macro"
      <3>1. pc' = "line" /\ pass # 2
        BY <1>0
      <3>2. Advance(How(s, Cur))
        BY <1>0, <2>3, Zenon
      <3>3. ~ ReadLine(s, Cur).ok
        BY <2>1, <2>2, Zenon
      <3>4. Cur.kind # "macro"
        BY <1>1
      <3> QED BY <3>1, <3>2, <3>3, <3>4
    <2> QED BY <2>4 DEF Tracks, Keeps
  <1>2. CASE Cur.kind = "warning"
    BY <1>0, <1>2, WarningTracks DEF Tracks
  <1>3. CASE Cur.kind \in {"endm", "times", "text"}
    <2>1. Keeps(s, ReadLine(s, Cur))
      BY <1>0, <1>3, TextTracks, Zenon
    <2> QED BY <2>1 DEF Tracks
  <1> QED BY <1>0, <1>1, <1>2, <1>3

LEMMA DiagnoseTracks ==
    ASSUME Typed, Diagnose, NEW s, IsReader(s), s.ok,
           Alike(defines, cond_stack, current_active, s), Place(pc, s)
    PROVE  Tracks(s, ReadLine(s, Cur))
  <1>0. pc = "line" /\ ~ s.reading /\ Active(s)
    BY ActiveIs DEF Diagnose, AtActive, AtLine, Place
  <1>1. CASE AtActive({"error"}) /\ Fail("error")
    <2>1. Cur.kind = "error"
      BY <1>1 DEF AtActive
    <2>2. ReadLine(s, Cur) = SetOk(s, FALSE)
      BY <1>0, <2>1, ErrorReads
    <2>3. SetOk(s, FALSE).ok = FALSE
      BY SetOkIs
    <2> QED BY <1>1, <2>2, <2>3 DEF Tracks, Stops, Errors
  <1>2. CASE /\ AtActive({"warning"}) /\ Advance("on")
             /\ UNCHANGED <<pc, defines, cond_stack, current_active, macros, current_macro, output>>
    <2>1. Cur.kind = "warning"
      BY <1>2 DEF AtActive
    <2> QED BY <1>0, <1>2, <2>1, WarningTracks DEF Tracks
  <1> QED BY <1>1, <1>2 DEF Diagnose

LEMMA EmitTracks ==
    ASSUME Typed, Emit, NEW s, IsReader(s), s.ok,
           Alike(defines, cond_stack, current_active, s), Place(pc, s)
    PROVE  \/ Stops(ReadLine(s, Cur))
           \/ /\ Keeps(s, ReadLine(s, Cur)) /\ ReadLine(s, Cur).out = s.out \o Text(s, Cur)
              /\ output' = output \o Expansion(pp_substitute_defines(Cur)) /\ macros' = macros
  <1>0. /\ pc = "line" /\ ~ s.reading /\ Active(s) /\ Cur.kind \in {"endm", "times", "text"}
    BY ActiveIs DEF Emit, AtActive, AtLine, Place
  <1>1. CASE Fail("long")
    BY <1>1 DEF Stops, Errors, Limits
  <1>2. CASE /\ output' = output \o Expansion(pp_substitute_defines(Cur))
             /\ Advance("on")
             /\ UNCHANGED <<pc, defines, cond_stack, current_active, macros, current_macro>>
    <2>1. Keeps(s, ReadLine(s, Cur)) /\ ReadLine(s, Cur).out = s.out \o Text(s, Cur)
      BY <1>0, <1>2, TextTracks, Zenon
    <2> QED BY <1>2, <2>1
  <1> QED BY <1>1, <1>2 DEF Emit

-----------------------------------------------------------------------------
(* The two passes follow the reference.                                    *)

\* How the first n lines are taken.
Hows(src, n) == [k \in 1..n |-> How(Reading(src)[k - 1], src[k])]

\* A recorded macro is the one of the reference, up to the lines it lost.
Same(m, full) ==
    /\ m.name = full.name /\ m.param = full.param
    /\ m.body = full.body \/ Len(m.body) >= MAX_MACRO_BODY_LINES

\* The macros recorded extend those the reference knows after k lines; the
\* others have their names from later lines.
Extends(ms, s, k, src) ==
    /\ Len(s.macros) <= Len(ms)
    /\ \A n \in 1..Len(s.macros) : Same(ms[n], s.macros[n])
    /\ ~ s.reading => \A n \in (Len(s.macros) + 1)..Len(ms) :
            \E j \in (k + 1)..Len(src) : src[j].kind = "macro" /\ src[j].word = ms[n].name

\* What the passes leave behind of the first n lines.
KnownSoFar(ms, src, n) ==
    \A k \in 0..n : Reading(src)[k].ok => Extends(ms, Reading(src)[k], k, src)
NoDuplicate(src, n) ==
    \A k \in 1..n : src[k].kind = "macro" /\ Reading(src)[k - 1].ok => Reading(src)[k].ok
NamesOnce(ms) == \A m, n \in 1..Len(ms) : ms[m].name = ms[n].name => m = n

\* The macro whose body is read began at a line from which on the reference
\* reads it as well.
NewName(w, ms) == \A n \in 1..Len(ms) : ms[n].name # w
Began(w, src, n) ==
    \E j \in 1..n : /\ src[j].kind = "macro" /\ src[j].word = w
                    /\ \A k \in j..n : Reading(src)[k].ok => Reading(src)[k].reading
Collects(m, ms, src, n) ==
    /\ NewName(m.name, ms) /\ Began(m.name, src, n)
    /\ Reading(src)[n].ok => Same(m, Reading(src)[n].macro)

Full(ms) == \A n \in DOMAIN ms : Len(ms[n].body) < MAX_MACRO_BODY_LINES

Seen == IF pass = 1 THEN i - 1 ELSE Len(source)

Now == Reading(source)[i - 1]
End == Reading(source)[Len(source)]

Level(s) ==
    /\ Alike(defines, cond_stack, current_active, s)
    /\ i <= Len(source) \/ pc = "body" => Place(pc, s)

\* In pass 1 the program agrees with the reference up to its first fault.
First ==
    /\ trace[2] = <<>> /\ output = <<>>
    /\ Now.ok => Level(Now) /\ Len(macros) = Len(Now.macros) /\ trace[1] = Hows(source, i - 1)
    /\ pc = "body" => Collects(current_macro, macros, source, i - 1)

\* Pass 2 stops at that fault.
Second ==
    /\ Now.ok /\ Level(Now) /\ trace[2] = Hows(source, i - 1)
    /\ Full(macros) => output = Now.out
    /\ End.ok => trace[1] = Hows(source, Len(source))
    /\ pc = "done" => i = Len(source) + 1 /\ End.levels = <<>>

Follows ==
    /\ KnownSoFar(macros, source, Seen) /\ NoDuplicate(source, Seen) /\ NamesOnce(macros)
    /\ pass = 1 /\ pc \in {"line", "body"} => First
    /\ pass = 2 /\ pc # "failed" => Second
    /\ pc = "done" => pass = 2
    /\ pc = "failed" /\ error \notin Limits => ~ (End.ok /\ End.levels = <<>>)

\* The reference at the line at hand.
LEMMA AtHand ==
    ASSUME Typed
    PROVE  /\ IsReader(Now) /\ Reading(source)[0] = Reader
           /\ i <= Len(source) => /\ Reading(source)[i] = ReadLine(Now, Cur) /\ IsReader(Reading(source)[i])
                                  /\ Reading(source)[i].ok => Now.ok
           /\ ~ Now.ok => ~ End.ok
           /\ i <= Len(source) /\ ~ Reading(source)[i].ok => ~ End.ok
           /\ IsReader(End)
  <1>0. source \in Seq(Line) /\ Len(source) \in Nat /\ i \in 1..(Len(source) + 1)
    BY TypedFields
  <1>1. /\ i - 1 \in 0..Len(source) /\ Len(source) \in (i - 1)..Len(source) /\ Len(source) \in 0..Len(source)
        /\ i <= Len(source) => i \in 1..Len(source) /\ i \in 0..Len(source) /\ Len(source) \in i..Len(source)
                               /\ i \in (i - 1)..Len(source)
    BY <1>0
  <1>2. IsReader(Now) /\ IsReader(End)
    BY <1>0, <1>1, ReadingTyped DEF Now, End
  <1>3. Reading(source)[0] = Reader
    BY <1>0, ReadingStep
  <1>4. ASSUME i <= Len(source)
        PROVE  Reading(source)[i] = ReadLine(Now, Cur) /\ IsReader(Reading(source)[i])
    <2>1. Reading(source)[i] = ReadLine(Now, Cur)
      BY <1>0, <1>1, <1>4, ReadingStep DEF Now, Cur
    <2>2. IsReader(Reading(source)[i])
      BY <1>0, <1>1, <1>4, ReadingTyped
    <2> QED BY <2>1, <2>2
  <1>5. ASSUME ~ Now.ok
        PROVE  \A k \in (i - 1)..Len(source) : ~ Reading(source)[k].ok
    BY <1>0, <1>1, <1>5, FaultStays DEF Now
  <1>6. ASSUME i <= Len(source), ~ Reading(source)[i].ok
        PROVE  ~ End.ok
    <2>1. \A k \in i..Len(source) : ~ Reading(source)[k].ok
      BY <1>0, <1>1, <1>6, FaultStays
    <2> QED BY <1>1, <1>6, <2>1 DEF End
  <1>7. ~ Now.ok => ~ End.ok
    BY <1>1, <1>5 DEF End
  <1>8. i <= Len(source) /\ ~ Now.ok => ~ Reading(source)[i].ok
    BY <1>1, <1>5
  <1>9. i <= Len(source) /\ Reading(source)[i].ok => Now.ok
    BY <1>8
  <1> QED BY <1>2, <1>3, <1>4, <1>6, <1>7, <1>9

LEMMA HowsGrow ==
    ASSUME NEW src \in Seq(Line), NEW n \in 1..Len(src)
    PROVE  Append(Hows(src, n - 1), How(Reading(src)[n - 1], src[n])) = Hows(src, n)
  <1> DEFINE F(k) == How(Reading(src)[k - 1], src[k])
  <1>1. Hows(src, n - 1) = [k \in 1..(n - 1) |-> F(k)] /\ Hows(src, n) = [k \in 1..n |-> F(k)]
    BY Zenon DEF Hows
  <1>2. F(n) = How(Reading(src)[n - 1], src[n])
    OBVIOUS
  <1>3. n \in Nat /\ n >= 1
    OBVIOUS
  <1> HIDE DEF F
  <1>4. Append([k \in 1..(n - 1) |-> F(k)], F(n)) = [k \in 1..n |-> F(k)]
    BY <1>3
  <1> QED BY <1>1, <1>2, <1>4

\* A macro named by a later line is not the one a line invokes.
LEMMA LaterNames ==
    ASSUME Typed, MacrosFirst, i <= Len(source), NEW j \in i..Len(source),
           source[j].kind = "macro", Cur.kind # "macro"
    PROVE  source[j].word # Cur.word /\ source[j].word # Value(Cur.word)
  <1>0. source \in Seq(Line) /\ Len(source) \in Nat /\ i \in 1..(Len(source) + 1) /\ DOMAIN source = 1..Len(source)
    BY TypedFields
  <1>1. j \in DOMAIN source /\ i \in 1..j /\ i # j /\ \A k \in 1..(i - 1) : k \in 1..j /\ k # j
    BY <1>0 DEF Cur
  <1>2. /\ \A w \in DOMAIN CliDefines : source[j].word # CliDefines[w]
        /\ \A k \in 1..j : k = j \/ source[j].word \notin {source[k].word, source[k].arg}
    BY <1>1 DEF MacrosFirst
  <1>3. source[j].word # Cur.word
    BY <1>1, <1>2 DEF Cur
  <1>4. ASSUME Cur.word \in DOMAIN defines
        PROVE  source[j].word # defines[Cur.word]
    <2>1. CASE \E u \in DOMAIN CliDefines : defines[Cur.word] = CliDefines[u]
      BY <1>2, <2>1
    <2>2. CASE \E k \in 1..(i - 1) : defines[Cur.word] = source[k].arg
      BY <1>1, <1>2, <2>2
    <2> QED BY <1>4, <2>1, <2>2 DEF Typed, ValuesFrom
  <1> QED BY <1>3, <1>4 DEF Value, pp_lookup_define

\* A name that no later line gives to a macro is known to both or to neither.
NotLater(src, k, w) == \A j \in (k + 1)..Len(src) : src[j].kind = "macro" => src[j].word # w
SameName(ms, s, w) ==
    \A n \in 1..Len(ms) : ms[n].name = w <=> n \in 1..Len(s.macros) /\ s.macros[n].name = w

LEMMA NamesAgree ==
    ASSUME NEW ms \in Seq(Macro), NEW s, IsReader(s), NEW k \in Nat, NEW src, Extends(ms, s, k, src), ~ s.reading,
           NEW w, NotLater(src, k, w)
    PROVE  SameName(ms, s, w)
  <1>0. Len(ms) \in Nat /\ Len(s.macros) \in Nat
    BY ReaderFields
  <1> SUFFICES ASSUME NEW n \in 1..Len(ms)
               PROVE  ms[n].name = w <=> n \in 1..Len(s.macros) /\ s.macros[n].name = w
    BY DEF SameName
  <1>1. CASE n \in 1..Len(s.macros)
    <2>1. ms[n].name = s.macros[n].name
      BY <1>1 DEF Extends, Same
    <2> QED BY <1>1, <2>1
  <1>2. CASE n \notin 1..Len(s.macros)
    <2>1. n \in (Len(s.macros) + 1)..Len(ms)
      BY <1>0, <1>2
    <2>2. ms[n].name # w
      BY <2>1 DEF Extends, NotLater
    <2> QED BY <1>2, <2>2
  <1> QED BY <1>1, <1>2

LEMMA SubstitutedIs ==
    ASSUME NEW s, defines = s.defines, NEW line
    PROVE  pp_substitute_defines(line) = Substituted(s, line)
  BY DEF pp_substitute_defines, Substituted, Value, pp_lookup_define

LEMMA MacroIs ==
    ASSUME NEW m \in Macro, NEW f \in Macro, Same(m, f), Len(m.body) < MAX_MACRO_BODY_LINES
    PROVE  m = f
  <1>1. m.name = f.name /\ m.param = f.param /\ m.body = f.body
    BY MacroFields, Limits0 DEF Same
  <1>2. /\ m = [name |-> m.name, param |-> m.param, body |-> m.body]
        /\ f = [name |-> f.name, param |-> f.param, body |-> f.body]
    <2> HIDE DEF Word, Arg, Line
    <2> QED BY DEF Macro
  <1> QED BY <1>1, <1>2, Zenon

\* What preprocess_macros writes for a line is what the reference writes, when no
\* macro lost a line.
LEMMA WrittenIsText ==
    ASSUME Typed, NEW s, IsReader(s), defines = s.defines,
           Full(macros), NamesOnce(macros), \A n \in 1..Len(s.macros) : Same(macros[n], s.macros[n]),
           Len(s.macros) <= Len(macros), NEW line \in Line,
           \A n \in 1..Len(macros) : macros[n].name = Value(line.word)
                => n \in 1..Len(s.macros) /\ s.macros[n].name = Value(line.word)
    PROVE  Expansion(pp_substitute_defines(line)) = Text(s, line)
  <1> DEFINE l == pp_substitute_defines(line)
  <1>1. l = Substituted(s, line)
    BY SubstitutedIs
  <1>2. l \in Line /\ l.word = Value(line.word)
    BY SubstituteTyped
  <1>3. /\ macros \in Seq(Macro) /\ Len(macros) \in Nat /\ DOMAIN macros = 1..Len(macros)
        /\ s.macros \in Seq(Macro) /\ Len(s.macros) \in Nat /\ DOMAIN s.macros = 1..Len(s.macros)
    BY TypedFields, ReaderFields
  <1>4. ASSUME NEW n \in 1..Len(s.macros)
        PROVE  n \in 1..Len(macros) /\ macros[n] = s.macros[n]
    <2>1. n \in 1..Len(macros)
      BY <1>3
    <2>2. macros[n] \in Macro /\ s.macros[n] \in Macro
      <3> HIDE DEF Macro
      <3> QED BY <1>3, <2>1
    <2>3. Len(macros[n].body) < MAX_MACRO_BODY_LINES
      BY <1>3, <2>1 DEF Full
    <2> QED BY <2>1, <2>2, <2>3, MacroIs
  <1> DEFINE found == {k \in DOMAIN s.macros : s.macros[k].name = l.word}
  <1>5. \A k \in DOMAIN macros : macros[k].name = l.word <=> k \in found
    BY <1>2, <1>3, <1>4
  <1>6. found \subseteq DOMAIN macros
    BY <1>3, <1>4
  <1>7. is_macro_name(l.word) <=> found # {}
    BY <1>5, <1>6 DEF is_macro_name
  <1> HIDE DEF l
  <1>8. CASE l.kind = "times"
    <2>1. Expansion(l) = Copies(l)
      BY <1>8 DEF Expansion
    <2>2. Text(s, line) = Copies(l)
      BY <1>1, <1>8 DEF Text
    <2> QED BY <2>1, <2>2 DEF l
  <1>9. CASE l.kind = "text" /\ found # {}
    <2> DEFINE m == s.macros[CHOOSE k \in found : TRUE]
               Made(b) == [k \in DOMAIN m.body |-> Substituted(s, substitute_params(m.body[k], m, l.arg))]
    <2>1. PICK n \in found : TRUE
      BY <1>9
    <2>2. \A k \in found : k = n
      <3> TAKE k \in found
      <3>1. k \in 1..Len(macros) /\ n \in 1..Len(macros) /\ macros[k].name = macros[n].name
        BY <1>3, <1>5, <1>6
      <3> QED BY <3>1 DEF NamesOnce
    <2>3. (CHOOSE k \in found : TRUE) = n
      BY <2>1, <2>2
    <2>4. (CHOOSE k \in DOMAIN macros : macros[k].name = l.word) = n
      <3>1. n \in DOMAIN macros /\ macros[n].name = l.word
        BY <1>5, <1>6, <2>1
      <3>2. \A k \in DOMAIN macros : macros[k].name = l.word => k = n
        BY <1>5, <2>2
      <3> HIDE DEF found
      <3> QED BY <3>1, <3>2
    <2>5. macros[n] = s.macros[n]
      BY <1>3, <1>4, <2>1
    <2>6. macro_lookup(l.word) = m
      BY <2>3, <2>4, <2>5 DEF macro_lookup
    <2>7. Text(s, line) = [k \in DOMAIN m.body |-> Substituted(s, substitute_params(m.body[k], m, l.arg))]
      BY <1>1, <1>9 DEF Text
    <2> HIDE DEF m, found
    <2>8. expand_macro(l) = [k \in DOMAIN m.body |-> substitute_params(m.body[k], m, l.arg)]
      BY <2>6 DEF expand_macro
    <2>9. Expansion(l) = [k \in DOMAIN m.body |-> pp_substitute_defines(substitute_params(m.body[k], m, l.arg))]
      <3>1. l.kind # "times" /\ l.kind = "text" /\ is_macro_name(l.word)
        BY <1>7, <1>9
      <3>2. Expansion(l) = LET body == expand_macro(l)
                           IN  [k \in DOMAIN body |-> pp_substitute_defines(body[k])]
        BY <3>1 DEF Expansion
      <3> QED BY <2>8, <3>2
    <2>10. \A k \in DOMAIN m.body :
              pp_substitute_defines(substitute_params(m.body[k], m, l.arg))
                = Substituted(s, substitute_params(m.body[k], m, l.arg))
      BY SubstitutedIs
    <2>11. Expansion(l) = [k \in DOMAIN m.body |-> Substituted(s, substitute_params(m.body[k], m, l.arg))]
      BY <2>9, <2>10
    <2> QED BY <2>7, <2>11 DEF l
  <1>10. CASE l.kind # "times" /\ ~ (l.kind = "text" /\ found # {})
    <2>1. Expansion(l) = <<l>>
      BY <1>7, <1>10 DEF Expansion
    <2>2. Text(s, line) = <<l>>
      BY <1>1, <1>10 DEF Text
    <2> QED BY <2>1, <2>2 DEF l
  <1> QED BY <1>8, <1>9, <1>10

LineStep ==
    \/ OpenConditional \/ Else \/ EndIf \/ SkipInactive \/ Define
    \/ StartMacro \/ MacroBody \/ EndMacro \/ Overlook \/ Diagnose \/ Emit

Fails == \E e \in Errors : Fail(e)
Moves == (\E how \in Takes : Advance(how)) /\ pc' \in {"line", "body"}

LEMMA FailsOrMoves ==
    ASSUME Typed, LineStep
    PROVE  Fails \/ Moves
  <1>1. "directive" \in Takes /\ "on" \in Takes /\ "off" \in Takes /\ "body" \in Takes
    BY DEF Takes
  <1>2. CASE OpenConditional \/ Else \/ EndIf
    <2>1. pc = "line"
      BY <1>2 DEF OpenConditional, Else, EndIf, AtLine
    <2>2. (Fail("operand") \/ Fail("depth") \/ Fail("unmatched")) \/ (Advance("directive") /\ Frame)
      BY <1>2 DEF OpenConditional, Else, EndIf
    <2>3. Frame => pc' = pc
      BY DEF Frame
    <2> QED BY <1>1, <2>1, <2>2, <2>3 DEF Fails, Moves, Errors
  <1>3. CASE SkipInactive \/ Define \/ Overlook \/ Diagnose \/ Emit
    <2>1. pc = "line"
      BY <1>3 DEF SkipInactive, Define, Overlook, Diagnose, Emit, AtActive, AtLine
    <2>2. \/ Fail("operand") \/ Fail("defines") \/ Fail("error") \/ Fail("long")
          \/ (Advance("on") \/ Advance("off")) /\ pc' = pc
      BY <1>3 DEF SkipInactive, Define, Overlook, Diagnose, Emit
    <2> QED BY <1>1, <2>1, <2>2 DEF Fails, Moves, Errors
  <1>4. CASE StartMacro
    <2>1. Fail("macros") \/ Fail("duplicate") \/ (Advance("on") /\ pc' = "body")
      BY <1>4 DEF StartMacro
    <2> QED BY <1>1, <2>1 DEF Fails, Moves, Errors
  <1>5. CASE MacroBody
    BY <1>1, <1>5 DEF MacroBody, Fails, Moves
  <1>6. CASE EndMacro
    BY <1>1, <1>6 DEF EndMacro, Fails, Moves
  <1> QED BY <1>2, <1>3, <1>4, <1>5, <1>6 DEF LineStep

LEMMA LinePlace ==
    ASSUME LineStep
    PROVE  i <= Len(source) /\ pc \in {"line", "body"}
  BY DEF LineStep, OpenConditional, Else, EndIf, SkipInactive, Define, StartMacro, MacroBody, EndMacro,
         Overlook, Diagnose, Emit, AtActive, AtLine

LEMMA LineMacros ==
    ASSUME LineStep, ~ EndMacro
    PROVE  macros' = macros
  <1>1. CASE OpenConditional \/ Else \/ EndIf \/ SkipInactive \/ Define
    BY <1>1 DEF OpenConditional, Else, EndIf, SkipInactive, Define, Frame, Fail
  <1>2. CASE StartMacro \/ MacroBody \/ Overlook \/ Diagnose \/ Emit
    BY <1>2 DEF StartMacro, MacroBody, Overlook, Diagnose, Emit, Fail
  <1> QED BY <1>1, <1>2 DEF LineStep

LEMMA LineOutput ==
    ASSUME LineStep, ~ Emit
    PROVE  output' = output
  <1>1. CASE OpenConditional \/ Else \/ EndIf \/ SkipInactive \/ Define
    BY <1>1 DEF OpenConditional, Else, EndIf, SkipInactive, Define, Frame, Fail
  <1>2. CASE StartMacro \/ MacroBody \/ EndMacro \/ Overlook \/ Diagnose
    BY <1>2 DEF StartMacro, MacroBody, EndMacro, Overlook, Diagnose, Fail
  <1> QED BY <1>1, <1>2 DEF LineStep

\* What the invariant says of the line at hand.
LEMMA NowKnown ==
    ASSUME Typed, Follows, pc \in {"line", "body"}, Now.ok
    PROVE  /\ Level(Now) /\ Extends(macros, Now, i - 1, source)
           /\ pass = 1 => Len(macros) = Len(Now.macros)
  <1>1. pass \in {1, 2} /\ i \in 1..(Len(source) + 1) /\ Len(source) \in Nat
    BY TypedFields
  <1>2. pc # "failed"
    OBVIOUS
  <1>3. Level(Now) /\ (pass = 1 => Len(macros) = Len(Now.macros))
    BY <1>1, <1>2 DEF Follows, First, Second
  <1>4. i - 1 \in 0..Seen
    BY <1>1 DEF Seen
  <1>5. Extends(macros, Now, i - 1, source)
    BY <1>4 DEF Follows, KnownSoFar, Now
  <1> QED BY <1>3, <1>5

LEMMA SeesNames ==
    ASSUME Typed, MacrosFirst, Follows, pc = "line", i <= Len(source), Now.ok,
           pass = 1 \/ Cur.kind # "macro"
    PROVE  is_macro_name(Cur.word) <=> Named(Now, Cur.word)
  <1>1. /\ macros \in Seq(Macro) /\ Len(macros) \in Nat /\ DOMAIN macros = 1..Len(macros)
        /\ pass \in {1, 2} /\ i \in 1..(Len(source) + 1) /\ Len(source) \in Nat
    BY TypedFields
  <1>2. IsReader(Now) /\ DOMAIN Now.macros = 1..Len(Now.macros) /\ Len(Now.macros) \in Nat
    BY AtHand, ReaderFields
  <1>3. Extends(macros, Now, i - 1, source) /\ ~ Now.reading
    BY NowKnown DEF Level, Place
  <1>4. CASE pass = 1
    <2>1. Len(macros) = Len(Now.macros)
      BY <1>4, NowKnown
    <2>2. \A n \in 1..Len(macros) : macros[n].name = Now.macros[n].name
      BY <1>3, <2>1 DEF Extends, Same
    <2> QED BY <1>1, <1>2, <2>1, <2>2 DEF is_macro_name, Named
  <1>5. CASE Cur.kind # "macro"
    <2>1. NotLater(source, i - 1, Cur.word)
      <3>1. (i - 1) + 1 = i
        BY <1>1
      <3> QED BY <1>5, <3>1, LaterNames DEF NotLater
    <2>2. SameName(macros, Now, Cur.word)
      <3>1. i - 1 \in Nat
        BY <1>1
      <3>2. macros \in Seq(Macro) /\ IsReader(Now)
        BY <1>1, <1>2
      <3> QED BY <1>3, <2>1, <3>1, <3>2, NamesAgree, Zenon
    <2>3. Len(Now.macros) <= Len(macros)
      BY <1>3 DEF Extends
    <2> QED BY <1>1, <1>2, <2>2, <2>3 DEF is_macro_name, Named, SameName
  <1> QED BY <1>4, <1>5

LEMMA LineTracks ==
    ASSUME Typed, MacrosFirst, Follows, LineStep, NEW s, s = Now, s.ok
    PROVE  Tracks(s, ReadLine(s, Cur))
  <1>1. i <= Len(source) /\ pc \in {"line", "body"} /\ IsReader(s)
    BY LinePlace, AtHand
  <1>2. Alike(defines, cond_stack, current_active, s) /\ Place(pc, s)
    BY <1>1, NowKnown DEF Level
  <1>3. pc = "line" /\ (pass = 1 \/ Cur.kind # "macro") => (is_macro_name(Cur.word) <=> Named(s, Cur.word))
    BY <1>1, SeesNames
  <1>4. CASE OpenConditional
    <2>1. pc = "line" /\ Cur.kind # "macro"
      BY <1>4 DEF OpenConditional, AtLine, Conditionals
    <2> QED BY <1>1, <1>2, <1>3, <1>4, <2>1, OpenTracks
  <1>5. CASE Else \/ EndIf \/ SkipInactive \/ Define
    BY <1>1, <1>2, <1>5, ElseTracks, EndIfTracks, SkipTracks, DefineTracks
  <1>6. CASE StartMacro
    <2>1. pc = "line" /\ Cur.kind = "macro"
      BY <1>6 DEF StartMacro, AtActive, AtLine
    <2>2. pass = 2 => ReadLine(s, Cur).ok
      <3> SUFFICES ASSUME pass = 2 PROVE ReadLine(s, Cur).ok
        OBVIOUS
      <3>1. i \in 1..Seen
        BY <1>1, TypedFields DEF Seen
      <3>2. Reading(source)[i].ok
        BY <2>1, <3>1 DEF Follows, NoDuplicate, Now, Cur
      <3>3. Reading(source)[i] = ReadLine(Now, Cur)
        BY <1>1, AtHand
      <3> QED BY <3>2, <3>3
    <2> QED BY <1>1, <1>2, <1>3, <1>6, <2>1, <2>2, StartTracks
  <1>7. CASE MacroBody \/ EndMacro
    BY <1>1, <1>2, <1>7, BodyTracks, EndMacroTracks DEF Tracks
  <1>8. CASE Overlook \/ Diagnose \/ Emit
    BY <1>1, <1>2, <1>8, OverlookTracks, DiagnoseTracks, EmitTracks DEF Tracks
  <1> QED BY <1>4, <1>5, <1>6, <1>7, <1>8 DEF LineStep

LEMMA FailsFollow ==
    ASSUME Typed, MacrosFirst, Follows, LineStep, NEW e \in Errors, Fail(e)
    PROVE  Follows'
  <1>1. /\ pc' = "failed" /\ error' = e /\ UNCHANGED <<source, pass, i, macros>>
    BY DEF Fail
  <1>2. Seen' = Seen /\ End' = End
    BY <1>1 DEF Seen, End
  <1>3. e \notin Limits => ~ End.ok
    <2> SUFFICES ASSUME e \notin Limits PROVE ~ End.ok
      OBVIOUS
    <2>1. i <= Len(source)
      BY LinePlace
    <2>2. CASE ~ Now.ok
      BY <2>2, AtHand
    <2>3. CASE Now.ok
      <3>1. PICK s : s = Now
        OBVIOUS
      <3>2. Tracks(s, ReadLine(s, Cur))
        BY <2>3, <3>1, LineTracks
      <3>3. ~ Keeps(s, ReadLine(s, Cur))
        BY <1>1 DEF Keeps
      <3>4. Stops(ReadLine(s, Cur))
        BY <3>2, <3>3 DEF Tracks
      <3>5. ~ ReadLine(s, Cur).ok
        BY <1>1, <3>4 DEF Stops, Fail
      <3> QED BY <2>1, <3>1, <3>5, AtHand
    <2> QED BY <2>2, <2>3
  <1>4. (KnownSoFar(macros, source, Seen) /\ NoDuplicate(source, Seen) /\ NamesOnce(macros))'
    BY <1>1, <1>2 DEF Follows
  <1>5. ~ (pc = "line")' /\ ~ (pc = "body")' /\ ~ (pc = "done")'
    BY <1>1
  <1> QED BY <1>1, <1>2, <1>3, <1>4, <1>5 DEF Follows

\* A line taken moves the program and the reference to the next line.
LEMMA MovesOn ==
    ASSUME Typed, MacrosFirst, Follows, LineStep, Moves, NEW s, s = Now, NEW r, r = Reading(source)[i]
    PROVE  /\ IsReader(s) /\ IsReader(r) /\ r = ReadLine(s, Cur) /\ Cur \in Line
           /\ r.ok => s.ok
           /\ s.ok => Keeps(s, r)
           /\ source' = source /\ pass' = pass /\ i' = i + 1 /\ i \in 1..Len(source)
           /\ pc \in {"line", "body"} /\ pc' \in {"line", "body"}
           /\ Now' = r /\ End' = End
  <1>1. /\ i <= Len(source) /\ pc \in {"line", "body"} /\ i \in 1..(Len(source) + 1) /\ Len(source) \in Nat
    BY LinePlace, TypedFields
  <1>2. source' = source /\ pass' = pass /\ i' = i + 1
    BY DEF Moves, Advance
  <1>3. Now' = r
    BY <1>1, <1>2 DEF Now
  <1>4. End' = End
    BY <1>2 DEF End
  <1>5. IsReader(s) /\ IsReader(r) /\ r = ReadLine(s, Cur) /\ (r.ok => s.ok) /\ Cur \in Line
    BY <1>1, AtHand, CurTyped
  <1>6. s.ok => Keeps(s, r)
    <2> SUFFICES ASSUME s.ok PROVE Keeps(s, r)
      OBVIOUS
    <2>1. Tracks(s, ReadLine(s, Cur))
      BY LineTracks
    <2>2. ~ Stops(ReadLine(s, Cur))
      BY DEF Stops, Fail, Moves
    <2> QED BY <1>5, <2>1, <2>2 DEF Tracks
  <1> QED BY <1>1, <1>2, <1>3, <1>4, <1>5, <1>6 DEF Moves

LEMMA TraceMoves ==
    ASSUME Typed, NEW how, Advance(how)
    PROVE  /\ pass = 1 => trace'[2] = trace[2] /\ trace'[1] = Append(trace[1], how)
           /\ pass = 2 => trace'[1] = trace[1] /\ trace'[2] = Append(trace[2], how)
  <1>1. trace \in [1..2 -> Seq(Takes)] /\ trace' = [trace EXCEPT ![pass] = Append(@, how)]
    BY DEF Typed, Advance, Took
  <1> HIDE DEF Takes
  <1> QED BY <1>1

\* Pass 1, when the macros keep up with those of the reference.
LEMMA FirstMoves ==
    ASSUME Typed, MacrosFirst, Follows, LineStep, Moves, pass = 1,
           NEW s, s = Now, NEW r, r = Reading(source)[i],
           r.ok => Len(macros') = Len(r.macros),
           pc' = "body" => Collects(current_macro', macros', source, i)
    PROVE  First'
  <1>1. /\ IsReader(s) /\ IsReader(r) /\ r = ReadLine(s, Cur)
        /\ (r.ok => s.ok) /\ (s.ok => Keeps(s, r))
        /\ source' = source /\ i' = i + 1 /\ i \in 1..Len(source) /\ pc \in {"line", "body"} /\ Now' = r
    BY MovesOn
  <1>2. First
    BY <1>1 DEF Follows
  <1>3. trace'[2] = <<>>
    <2>1. PICK how \in Takes : Advance(how)
      BY DEF Moves
    <2> QED BY <1>2, <2>1, TraceMoves DEF First
  <1>4. output' = <<>>
    <2>1. ~ Emit
      BY DEF Emit
    <2> QED BY <1>2, <2>1, LineOutput DEF First
  <1>5. ASSUME r.ok
        PROVE  (Level(Now) /\ trace[1] = Hows(source, i - 1))'
    <2>1. Keeps(s, r) /\ trace[1] = Hows(source, i - 1)
      BY <1>1, <1>2, <1>5 DEF First
    <2>2. Alike(defines', cond_stack', current_active', r) /\ Place(pc', r) /\ Advance(How(s, Cur))
      BY <1>5, <2>1 DEF Keeps
    <2>3. trace'[1] = Append(trace[1], How(s, Cur))
      BY <2>2, TraceMoves
    <2>4. Append(Hows(source, i - 1), How(s, Cur)) = Hows(source, i)
      <3>1. source \in Seq(Line)
        BY TypedFields
      <3> QED BY <1>1, <3>1, HowsGrow DEF Now, Cur
    <2>5. i' - 1 = i
      BY <1>1
    <2>6. Level(Now)'
      BY <1>1, <2>2 DEF Level
    <2> QED BY <1>1, <2>1, <2>3, <2>4, <2>5, <2>6
  <1>6. i' - 1 = i
    BY <1>1
  <1>7. (pc = "body" => Collects(current_macro, macros, source, i - 1))'
    BY <1>1, <1>6
  <1>8. (Now.ok => Level(Now) /\ Len(macros) = Len(Now.macros) /\ trace[1] = Hows(source, i - 1))'
    BY <1>1, <1>5
  <1> QED BY <1>3, <1>4, <1>7, <1>8 DEF First

\* The macros of one reading more: none was added, or the one just ended.
LEMMA KnownGrows ==
    ASSUME NEW ms, NEW src, NEW n \in Nat, KnownSoFar(ms, src, n - 1), n >= 1,
           Reading(src)[n].ok => Extends(ms, Reading(src)[n], n, src)
    PROVE  KnownSoFar(ms, src, n)
  <1>1. \A k \in 0..n : k \in 0..(n - 1) \/ k = n
    OBVIOUS
  <1> QED BY <1>1 DEF KnownSoFar

LEMMA DuplicateGrows ==
    ASSUME NEW src, NEW n \in Nat, NoDuplicate(src, n - 1), n >= 1,
           src[n].kind = "macro" /\ Reading(src)[n - 1].ok => Reading(src)[n].ok
    PROVE  NoDuplicate(src, n)
  <1>1. \A k \in 1..n : k \in 1..(n - 1) \/ k = n
    OBVIOUS
  <1> QED BY <1>1 DEF NoDuplicate

LEMMA ExtendsAll ==
    ASSUME NEW ms, NEW s, NEW r, NEW j, NEW k, NEW src, Extends(ms, s, j, src), r.macros = s.macros,
           Len(ms) = Len(s.macros), Len(ms) \in Nat
    PROVE  Extends(ms, r, k, src)
  BY DEF Extends

\* Pass 1 on a line that ends no macro.
LEMMA FirstLine ==
    ASSUME Typed, MacrosFirst, Follows, LineStep, Moves, pass = 1, macros' = macros,
           NEW s, s = Now, NEW r, r = Reading(source)[i],
           ~ (s.reading /\ Cur.kind = "endm") \/ ~ s.ok,
           pc' = "body" => Collects(current_macro', macros', source, i)
    PROVE  Follows'
  <1>1. /\ IsReader(s) /\ IsReader(r) /\ r = ReadLine(s, Cur) /\ Cur \in Line
        /\ (r.ok => s.ok) /\ (s.ok => Keeps(s, r))
        /\ source' = source /\ pass' = pass /\ i' = i + 1 /\ i \in 1..Len(source)
        /\ pc \in {"line", "body"} /\ pc' \in {"line", "body"} /\ Now' = r
    BY MovesOn
  <1>2. Len(macros) \in Nat /\ i \in Nat /\ i >= 1 /\ Seen = i - 1 /\ Seen' = i
    BY <1>1, TypedFields DEF Seen
  <1>3. ASSUME r.ok
        PROVE  Len(macros') = Len(r.macros) /\ Extends(macros, r, i, source)
    <2>1. r.macros = s.macros
      BY <1>1, <1>3, ReadLineFrame DEF Framed
    <2>2. Extends(macros, s, i - 1, source) /\ Len(macros) = Len(s.macros)
      BY <1>1, <1>3, NowKnown
    <2>3. Extends(macros, r, i, source)
      BY <1>2, <2>1, <2>2, ExtendsAll
    <2> QED BY <2>1, <2>2, <2>3
  <1>4. KnownSoFar(macros, source, i)
    <2>1. KnownSoFar(macros, source, i - 1)
      BY <1>2 DEF Follows
    <2>2. Reading(source)[i].ok => Extends(macros, Reading(source)[i], i, source)
      BY <1>3
    <2> QED BY <1>2, <2>1, <2>2, KnownGrows
  <1>5. NoDuplicate(source, i)
    <2>1. NoDuplicate(source, i - 1)
      BY <1>2 DEF Follows
    <2>2. source[i].kind = "macro" /\ Reading(source)[i - 1].ok => Reading(source)[i].ok
      BY <1>1 DEF Keeps, Now, Cur
    <2> QED BY <1>2, <2>1, <2>2, DuplicateGrows
  <1>6. First'
    BY <1>3, FirstMoves
  <1>7. (KnownSoFar(macros, source, Seen) /\ NoDuplicate(source, Seen) /\ NamesOnce(macros))'
    BY <1>1, <1>2, <1>4, <1>5 DEF Follows
  <1>8. pass' = 1 /\ pc' # "done" /\ pc' # "failed"
    BY <1>1
  <1> QED BY <1>6, <1>7, <1>8 DEF Follows

LEMMA BeginsCollecting ==
    ASSUME Typed, MacrosFirst, Follows, StartMacro, Moves, pass = 1,
           NEW s, s = Now, NEW r, r = Reading(source)[i]
    PROVE  Collects(current_macro', macros', source, i)
  <1>0. LineStep
    BY DEF LineStep
  <1>1. /\ IsReader(s) /\ IsReader(r) /\ r = ReadLine(s, Cur) /\ Cur \in Line
        /\ (r.ok => s.ok) /\ (s.ok => Keeps(s, r)) /\ i \in 1..Len(source) /\ pc' \in {"line", "body"}
    BY <1>0, MovesOn
  <1>2. /\ pc = "line" /\ current_active /\ Cur.kind = "macro" /\ i <= Len(source)
        /\ current_macro' = Begun(Cur) /\ pc' = "body" /\ ~ is_macro_name(Cur.word) /\ macros' = macros
    <2>1. ~ Fail("macros") /\ ~ Fail("duplicate")
      BY <1>1 DEF Fail
    <2> QED BY <2>1 DEF StartMacro, AtActive, AtLine, Begun
  <1>3. Begun(Cur).name = Cur.word /\ Begun(Cur).param = Cur.arg /\ Begun(Cur).body = <<>>
    BY DEF Begun
  <1>4. NewName(Cur.word, macros)
    BY <1>2, TypedFields DEF NewName, is_macro_name
  <1>5. r.ok => r.reading
    BY <1>1, <1>2 DEF Keeps, Place
  <1>6. Began(Cur.word, source, i)
    <2>1. i \in 1..i /\ source[i].kind = "macro" /\ source[i].word = Cur.word /\ \A k \in i..i : k = i
      BY <1>1, <1>2 DEF Cur
    <2>2. \A k \in i..i : Reading(source)[k].ok => Reading(source)[k].reading
      BY <1>5, <2>1
    <2> QED BY <2>1, <2>2 DEF Began
  <1>7. r.ok => Same(Begun(Cur), r.macro)
    <2> SUFFICES ASSUME r.ok PROVE Same(Begun(Cur), r.macro)
      OBVIOUS
    <2>1. Alike(defines, cond_stack, current_active, s) /\ Place(pc, s) /\ s.ok
      BY <1>1, <1>2, NowKnown DEF Level
    <2>2. ~ s.reading /\ Active(s)
      BY <1>2, <2>1, ActiveIs DEF Place
    <2>3. ~ Named(s, Cur.word)
      <3>1. Named(s, Cur.word) => ReadLine(s, Cur) = SetOk(s, FALSE)
        BY <1>2, <2>1, <2>2, MacroReads
      <3>2. SetOk(s, FALSE).ok = FALSE
        BY <1>1, SetOkIs
      <3> QED BY <1>1, <3>1, <3>2
    <2>4. r = BegunMacro(s, Begun(Cur))
      BY <1>1, <1>2, <2>1, <2>2, <2>3, MacroReads
    <2>5. BegunMacro(s, Begun(Cur)).macro = Begun(Cur)
      BY <1>1, BegunTyped, BegunMacroIs
    <2> QED BY <2>4, <2>5 DEF Same
  <1> QED BY <1>2, <1>3, <1>4, <1>6, <1>7 DEF Collects

LEMMA BeganStays ==
    ASSUME NEW w, NEW src, NEW n \in Nat, Began(w, src, n - 1), n >= 1,
           Reading(src)[n].ok => Reading(src)[n].reading
    PROVE  Began(w, src, n)
  <1>1. PICK j \in 1..(n - 1) : /\ src[j].kind = "macro" /\ src[j].word = w
                                /\ \A k \in j..(n - 1) : Reading(src)[k].ok => Reading(src)[k].reading
    BY DEF Began
  <1>2. j \in 1..n /\ \A k \in j..n : k \in j..(n - 1) \/ k = n
    OBVIOUS
  <1> QED BY <1>1, <1>2 DEF Began

LEMMA GoesOnCollecting ==
    ASSUME Typed, MacrosFirst, Follows, MacroBody, Moves, pass = 1,
           NEW s, s = Now, NEW r, r = Reading(source)[i]
    PROVE  Collects(current_macro', macros', source, i)
  <1>0. LineStep
    BY DEF LineStep
  <1>1. /\ IsReader(s) /\ IsReader(r) /\ r = ReadLine(s, Cur) /\ Cur \in Line
        /\ (r.ok => s.ok) /\ (s.ok => Keeps(s, r)) /\ i \in 1..Len(source)
    BY <1>0, MovesOn
  <1>2. /\ pc = "body" /\ pc' = "body" /\ macros' = macros /\ Cur.kind # "endm"
        /\ current_macro' = Longer(current_macro, Cur)
    BY DEF MacroBody, Longer
  <1>3. Collects(current_macro, macros, source, i - 1) /\ current_macro \in Macro
    BY <1>2, TypedFields DEF Follows, First
  <1>4. LET n == Longer(current_macro, Cur)
        IN  n.name = current_macro.name /\ n.param = current_macro.param /\ n.body = AddLine(current_macro.body, Cur)
    BY <1>1, <1>3, LongerTyped
  <1>5. Began(current_macro.name, source, i)
    <2>1. r.ok => r.reading
      BY <1>1, <1>2 DEF Keeps, Place
    <2>2. i \in Nat /\ i >= 1
      BY <1>1
    <2> QED BY <1>3, <2>1, <2>2, BeganStays DEF Collects
  <1>6. r.ok => Same(Longer(current_macro, Cur), r.macro)
    <2> SUFFICES ASSUME r.ok PROVE Same(Longer(current_macro, Cur), r.macro)
      OBVIOUS
    <2>1. Alike(defines, cond_stack, current_active, s) /\ Place(pc, s) /\ s.ok
      BY <1>1, <1>2, NowKnown DEF Level
    <2>2. r = LongerMacro(s, Cur)
      BY <1>1, <2>1, BodyTracks
    <2>3. r.macro = [s.macro EXCEPT !.body = Append(@, Cur)]
      BY <1>1, <2>2, LongerMacroIs
    <2>4. /\ r.macro.name = s.macro.name /\ r.macro.param = s.macro.param
          /\ r.macro.body = Append(s.macro.body, Cur)
      BY <1>1, <2>3, ReaderFields, LongerBody
    <2>5. Same(current_macro, s.macro)
      BY <1>3, <2>1 DEF Collects, Now
    <2>6. Len(current_macro.body) \in Nat
      BY <1>3, MacroFields
    <2>7. CASE Len(current_macro.body) < MAX_MACRO_BODY_LINES
      <3>1. current_macro.body = s.macro.body
        BY <2>5, <2>6, <2>7, Limits0 DEF Same
      <3>2. AddLine(current_macro.body, Cur) = Append(current_macro.body, Cur)
        BY <2>7 DEF AddLine
      <3> QED BY <1>4, <2>4, <2>5, <3>1, <3>2 DEF Same
    <2>8. CASE ~ (Len(current_macro.body) < MAX_MACRO_BODY_LINES)
      <3>1. AddLine(current_macro.body, Cur) = current_macro.body
        BY <2>8 DEF AddLine
      <3>2. Len(current_macro.body) >= MAX_MACRO_BODY_LINES
        BY <2>6, <2>8, Limits0
      <3> QED BY <1>4, <2>4, <2>5, <3>1, <3>2 DEF Same
    <2> QED BY <2>7, <2>8
  <1> QED BY <1>2, <1>3, <1>4, <1>5, <1>6 DEF Collects

\* A macro that ends joins those recorded.
LEMMA ExtendsMore ==
    ASSUME NEW ms \in Seq(Macro), NEW m \in Macro, NEW s, IsReader(s), NEW src, NEW n \in Nat, NEW k \in 0..n,
           s = Reading(src)[k], s.ok, Extends(ms, s, k, src), Began(m.name, src, n), n <= Len(src), Len(src) \in Nat
    PROVE  Extends(Append(ms, m), s, k, src)
  <1> DEFINE mt == Append(ms, m)
  <1>0. /\ Len(ms) \in Nat /\ Len(mt) = Len(ms) + 1 /\ mt[Len(mt)] = m
        /\ \A x \in 1..Len(ms) : mt[x] = ms[x]
    <2> HIDE DEF Macro
    <2> QED OBVIOUS
  <1> HIDE DEF mt
  <1>1. Len(s.macros) \in Nat /\ Len(s.macros) <= Len(ms)
    BY ReaderFields DEF Extends
  <1>2. Len(s.macros) <= Len(mt) /\ \A x \in 1..Len(s.macros) : Same(mt[x], s.macros[x])
    <2>1. \A x \in 1..Len(s.macros) : x \in 1..Len(ms)
      BY <1>0, <1>1
    <2> QED BY <1>0, <1>1, <2>1 DEF Extends
  <1>3. ASSUME ~ s.reading, NEW x \in (Len(s.macros) + 1)..Len(mt)
        PROVE  \E j \in (k + 1)..Len(src) : src[j].kind = "macro" /\ src[j].word = mt[x].name
    <2>1. CASE x \in (Len(s.macros) + 1)..Len(ms)
      <3>1. x \in 1..Len(ms)
        BY <1>1, <2>1
      <3> QED BY <1>0, <1>3, <2>1, <3>1 DEF Extends
    <2>2. CASE x = Len(mt)
      <3>1. PICK j \in 1..n : /\ src[j].kind = "macro" /\ src[j].word = m.name
                              /\ \A y \in j..n : Reading(src)[y].ok => Reading(src)[y].reading
        BY DEF Began
      <3>2. k \notin j..n
        BY <1>3, <3>1
      <3>3. j \in (k + 1)..Len(src)
        BY <3>2
      <3> QED BY <1>0, <2>2, <3>1, <3>3
    <2> QED BY <1>0, <1>1, <2>1, <2>2
  <1> QED BY <1>2, <1>3 DEF Extends, mt

LEMMA KnownMore ==
    ASSUME NEW ms \in Seq(Macro), NEW m \in Macro, NEW src \in Seq(Line), NEW n \in Nat, n <= Len(src),
           KnownSoFar(ms, src, n), Began(m.name, src, n)
    PROVE  KnownSoFar(Append(ms, m), src, n)
  <1> SUFFICES ASSUME NEW k \in 0..n, Reading(src)[k].ok
               PROVE  Extends(Append(ms, m), Reading(src)[k], k, src)
    BY DEF KnownSoFar
  <1>1. Len(src) \in Nat /\ k \in 0..Len(src)
    <2> HIDE DEF Line
    <2> QED OBVIOUS
  <1>2. IsReader(Reading(src)[k])
    BY <1>1, ReadingTyped
  <1>3. Extends(ms, Reading(src)[k], k, src)
    BY DEF KnownSoFar
  <1> HIDE DEF Macro, Line
  <1> QED BY <1>1, <1>2, <1>3, ExtendsMore

LEMMA NamesOnceMore ==
    ASSUME NEW ms \in Seq(Macro), NEW m \in Macro, NamesOnce(ms), NewName(m.name, ms)
    PROVE  NamesOnce(Append(ms, m))
  <1> DEFINE mt == Append(ms, m)
  <1>1. /\ Len(ms) \in Nat /\ Len(mt) = Len(ms) + 1 /\ mt[Len(mt)] = m
        /\ \A x \in 1..Len(ms) : mt[x] = ms[x]
    <2> HIDE DEF Macro
    <2> QED OBVIOUS
  <1> HIDE DEF mt
  <1>2. ASSUME NEW x \in 1..Len(mt), NEW y \in 1..Len(mt), mt[x].name = mt[y].name PROVE x = y
    <2>1. /\ x \in 1..Len(ms) \/ x = Len(mt)
          /\ y \in 1..Len(ms) \/ y = Len(mt)
      BY <1>1
    <2> QED BY <1>1, <1>2, <2>1 DEF NamesOnce, NewName
  <1> QED BY <1>2 DEF NamesOnce, mt

LEMMA FirstEndMacro ==
    ASSUME Typed, MacrosFirst, Follows, EndMacro, Moves, pass = 1,
           NEW s, s = Now, NEW r, r = Reading(source)[i]
    PROVE  Follows'
  <1>0. LineStep
    BY DEF LineStep
  <1>1. /\ IsReader(s) /\ IsReader(r) /\ r = ReadLine(s, Cur) /\ Cur \in Line
        /\ (r.ok => s.ok) /\ (s.ok => Keeps(s, r))
        /\ source' = source /\ pass' = pass /\ i' = i + 1 /\ i \in 1..Len(source)
        /\ pc \in {"line", "body"} /\ pc' \in {"line", "body"} /\ Now' = r
    BY <1>0, MovesOn
  <1>2. /\ pc = "body" /\ pc' = "line" /\ Cur.kind = "endm" /\ macros' = Append(macros, current_macro)
    BY DEF EndMacro
  <1>3. /\ macros \in Seq(Macro) /\ current_macro \in Macro /\ source \in Seq(Line)
        /\ Len(macros) \in Nat /\ Len(source) \in Nat
    BY TypedFields
  <1>4. Collects(current_macro, macros, source, i - 1)
    BY <1>2 DEF Follows, First
  <1>5. i \in Nat /\ i >= 1 /\ i - 1 \in Nat /\ i - 1 <= Len(source) /\ Seen = i - 1 /\ Seen' = i
    BY <1>1, <1>3 DEF Seen
  <1>6. Len(macros') = Len(macros) + 1 /\ macros'[Len(macros) + 1] = current_macro
        /\ \A n \in 1..Len(macros) : macros'[n] = macros[n]
    <2> HIDE DEF Macro
    <2> QED BY <1>2, <1>3
  <1>7. ASSUME r.ok
        PROVE  Len(macros') = Len(r.macros) /\ Extends(macros', r, i, source)
    <2>1. Alike(defines, cond_stack, current_active, s) /\ Place(pc, s) /\ s.ok
      BY <1>1, <1>2, <1>7, NowKnown DEF Level
    <2>2. Extends(macros, s, i - 1, source) /\ Len(macros) = Len(s.macros)
      BY <1>1, <1>7, NowKnown
    <2>3. r = AddedMacro(s)
      BY <1>1, <2>1, EndMacroTracks
    <2>4. r.macros = Append(s.macros, s.macro)
      BY <1>1, <2>3, AddedMacroIs
    <2>5. Len(r.macros) = Len(s.macros) + 1 /\ r.macros[Len(s.macros) + 1] = s.macro
          /\ \A n \in 1..Len(s.macros) : r.macros[n] = s.macros[n]
      <3>1. s.macros \in Seq(Macro) /\ s.macro \in Macro
        BY <1>1, ReaderFields
      <3> HIDE DEF Macro
      <3> QED BY <2>4, <3>1
    <2>6. Same(current_macro, s.macro)
      BY <1>4, <2>1 DEF Collects, Now
    <2>7. ASSUME NEW n \in 1..Len(r.macros) PROVE Same(macros'[n], r.macros[n])
      <3>1. CASE n \in 1..Len(macros)
        BY <1>6, <2>2, <2>5, <3>1 DEF Extends
      <3>2. CASE n = Len(macros) + 1
        BY <1>6, <2>2, <2>5, <2>6, <3>2
      <3> QED BY <1>3, <2>2, <2>5, <3>1, <3>2
    <2>8. Len(macros') = Len(r.macros) /\ (Len(r.macros) + 1)..Len(macros') = {}
      BY <1>3, <1>6, <2>2, <2>5
    <2>9. Len(r.macros) <= Len(macros')
      BY <1>3, <1>6, <2>8
    <2> QED BY <2>7, <2>8, <2>9 DEF Extends
  <1>8. KnownSoFar(macros', source, i)
    <2>1. KnownSoFar(macros, source, i - 1)
      BY <1>5 DEF Follows
    <2>2. KnownSoFar(macros', source, i - 1)
      BY <1>2, <1>3, <1>4, <1>5, <2>1, KnownMore DEF Collects
    <2>3. Reading(source)[i].ok => Extends(macros', Reading(source)[i], i, source)
      BY <1>7
    <2> QED BY <1>5, <2>2, <2>3, KnownGrows
  <1>9. NoDuplicate(source, i)
    <2>1. NoDuplicate(source, i - 1)
      BY <1>5 DEF Follows
    <2>2. source[i].kind # "macro"
      BY <1>2 DEF Cur
    <2> QED BY <1>5, <2>1, <2>2, DuplicateGrows
  <1>10. NamesOnce(macros')
    BY <1>2, <1>3, <1>4, NamesOnceMore DEF Collects, Follows
  <1>11. First'
    BY <1>0, <1>2, <1>7, FirstMoves
  <1>12. (KnownSoFar(macros, source, Seen) /\ NoDuplicate(source, Seen) /\ NamesOnce(macros))'
    BY <1>1, <1>5, <1>8, <1>9, <1>10
  <1>13. pass' = 1 /\ pc' # "done" /\ pc' # "failed"
    BY <1>1, <1>2
  <1> QED BY <1>11, <1>12, <1>13 DEF Follows

LEMMA FirstStep ==
    ASSUME Typed, MacrosFirst, Follows, LineStep, Moves, pass = 1
    PROVE  Follows'
  <1>1. PICK s, r : s = Now /\ r = Reading(source)[i]
    OBVIOUS
  <1>2. pc' # "failed" /\ i <= Len(source)
    BY LinePlace DEF Moves
  <1>3. CASE StartMacro
    <2>1. Cur.kind = "macro" /\ macros' = macros
      BY <1>3, LineMacros DEF StartMacro, EndMacro, AtActive, AtLine
    <2>2. Collects(current_macro', macros', source, i)
      BY <1>1, <1>3, BeginsCollecting
    <2> QED BY <1>1, <2>1, <2>2, FirstLine
  <1>4. CASE MacroBody
    <2>1. Cur.kind # "endm" /\ macros' = macros
      BY <1>4 DEF MacroBody
    <2>2. Collects(current_macro', macros', source, i)
      BY <1>1, <1>4, GoesOnCollecting
    <2> QED BY <1>1, <2>1, <2>2, FirstLine
  <1>5. CASE EndMacro
    BY <1>1, <1>5, FirstEndMacro
  <1>6. CASE OpenConditional \/ Else \/ EndIf \/ SkipInactive \/ Define \/ Overlook \/ Diagnose \/ Emit
    <2>1. pc = "line"
      BY <1>6 DEF OpenConditional, Else, EndIf, SkipInactive, Define, Overlook, Diagnose, Emit, AtActive, AtLine
    <2>2. pc' = "line"
      BY <1>2, <1>6, <2>1 DEF OpenConditional, Else, EndIf, SkipInactive, Define, Overlook, Diagnose, Emit, Frame, Fail
    <2>3. macros' = macros
      BY <2>1, LineMacros DEF EndMacro
    <2>4. ~ s.reading \/ ~ s.ok
      BY <1>1, <1>2, <2>1, NowKnown DEF Level, Place
    <2> QED BY <1>1, <2>2, <2>3, <2>4, FirstLine
  <1> QED BY <1>3, <1>4, <1>5, <1>6 DEF LineStep

\* In pass 2 every line is written as the reference writes it.
LEMMA SecondOutput ==
    ASSUME Typed, MacrosFirst, Follows, LineStep, Moves, pass = 2, Full(macros),
           NEW s, s = Now, NEW r, r = Reading(source)[i]
    PROVE  output' = r.out
  <1>1. /\ IsReader(s) /\ IsReader(r) /\ r = ReadLine(s, Cur) /\ Cur \in Line
        /\ i \in 1..Len(source) /\ pc \in {"line", "body"} /\ pc' # "failed"
    BY MovesOn DEF Moves
  <1>2. s.ok /\ Level(s) /\ output = s.out
    BY <1>1 DEF Follows, Second
  <1>3. Alike(defines, cond_stack, current_active, s) /\ Place(pc, s) /\ i <= Len(source)
    BY <1>1, <1>2, TypedFields DEF Level
  <1>4. CASE Emit
    <2>1. /\ r.out = s.out \o Text(s, Cur)
          /\ output' = output \o Expansion(pp_substitute_defines(Cur))
      <3>1. ~ Stops(ReadLine(s, Cur))
        BY <1>1 DEF Stops, Fail
      <3> QED BY <1>1, <1>2, <1>3, <1>4, <3>1, EmitTracks
    <2>2. Extends(macros, s, i - 1, source)
      BY <1>1, <1>2, NowKnown
    <2>3. ~ s.reading /\ Cur.kind # "macro"
      BY <1>3, <1>4 DEF Emit, AtActive, AtLine, Place
    <2>4. SameName(macros, s, Value(Cur.word))
      <3>1. NotLater(source, i - 1, Value(Cur.word))
        <4>1. (i - 1) + 1 = i
          BY <1>1
        <4> QED BY <1>3, <2>3, <4>1, LaterNames DEF NotLater
      <3>2. i - 1 \in Nat /\ macros \in Seq(Macro)
        BY <1>1, TypedFields
      <3> QED BY <1>1, <2>2, <2>3, <3>1, <3>2, NamesAgree, Zenon
    <2>5. NamesOnce(macros) /\ defines = s.defines
      BY <1>3 DEF Follows, Alike
    <2>6. /\ Len(s.macros) <= Len(macros) /\ \A n \in 1..Len(s.macros) : Same(macros[n], s.macros[n])
      BY <2>2 DEF Extends
    <2>7. \A n \in 1..Len(macros) : macros[n].name = Value(Cur.word)
                => n \in 1..Len(s.macros) /\ s.macros[n].name = Value(Cur.word)
      BY <2>4 DEF SameName
    <2>8. Expansion(pp_substitute_defines(Cur)) = Text(s, Cur)
      BY <1>1, <2>5, <2>6, <2>7, WrittenIsText, Zenon
    <2> QED BY <1>2, <2>1, <2>8
  <1>5. CASE ~ Emit
    <2>1. output' = output
      BY <1>5, LineOutput
    <2>2. s.reading \/ ~ Active(s) \/ Cur.kind \notin {"endm", "times", "text"}
      <3>1. CASE OpenConditional \/ Else \/ EndIf
        BY <3>1 DEF OpenConditional, Else, EndIf, Conditionals
      <3>2. CASE SkipInactive
        BY <1>3, <3>2, ActiveIs DEF SkipInactive
      <3>3. CASE Define \/ StartMacro \/ Diagnose
        BY <3>3 DEF Define, StartMacro, Diagnose, AtActive
      <3>4. CASE MacroBody \/ EndMacro
        BY <1>3, <3>4 DEF MacroBody, EndMacro, Place
      <3>5. ~ Overlook
        BY DEF Overlook
      <3> QED BY <1>5, <3>1, <3>2, <3>3, <3>4, <3>5 DEF LineStep
    <2>3. r.out = s.out
      BY <1>1, <2>2, ReadLineFrame DEF Framed
    <2> QED BY <1>2, <2>1, <2>3
  <1> QED BY <1>4, <1>5

LEMMA SecondStep ==
    ASSUME Typed, MacrosFirst, Follows, LineStep, Moves, pass = 2
    PROVE  Follows'
  <1>1. PICK s, r : s = Now /\ r = Reading(source)[i]
    OBVIOUS
  <1>2. /\ IsReader(s) /\ IsReader(r) /\ r = ReadLine(s, Cur) /\ Cur \in Line
        /\ (r.ok => s.ok) /\ (s.ok => Keeps(s, r))
        /\ source' = source /\ pass' = pass /\ i' = i + 1 /\ i \in 1..Len(source)
        /\ pc \in {"line", "body"} /\ pc' \in {"line", "body"} /\ Now' = r /\ End' = End
    BY <1>1, MovesOn
  <1>3. Second
    BY <1>2 DEF Follows
  <1>4. /\ r.ok /\ Alike(defines', cond_stack', current_active', r) /\ Place(pc', r) /\ Advance(How(s, Cur))
    BY <1>1, <1>2, <1>3 DEF Second, Keeps
  <1>5. trace'[1] = trace[1] /\ trace'[2] = Append(trace[2], How(s, Cur))
    BY <1>4, TraceMoves
  <1>6. Append(Hows(source, i - 1), How(s, Cur)) = Hows(source, i)
    <2>1. source \in Seq(Line)
      BY TypedFields
    <2> QED BY <1>1, <1>2, <2>1, HowsGrow DEF Now, Cur
  <1>7. i' - 1 = i
    BY <1>2
  <1>8. macros' = macros
    <2>1. EndMacro => macros' = macros
      BY DEF EndMacro
    <2> QED BY <2>1, LineMacros
  <1>9. (Now.ok /\ Level(Now) /\ trace[2] = Hows(source, i - 1))'
    <2>1. Level(Now)'
      BY <1>2, <1>4 DEF Level
    <2> QED BY <1>2, <1>3, <1>4, <1>5, <1>6, <1>7, <2>1 DEF Second
  <1>10. (Full(macros) => output = Now.out)'
    BY <1>1, <1>2, <1>8, SecondOutput
  <1>11. (End.ok => trace[1] = Hows(source, Len(source)))'
    BY <1>2, <1>3, <1>5 DEF Second
  <1>12. Second'
    BY <1>2, <1>9, <1>10, <1>11 DEF Second
  <1>13. Seen' = Seen
    BY <1>2 DEF Seen
  <1>14. (KnownSoFar(macros, source, Seen) /\ NoDuplicate(source, Seen) /\ NamesOnce(macros))'
    BY <1>2, <1>8, <1>13 DEF Follows
  <1> QED BY <1>2, <1>12, <1>14 DEF Follows

LEMMA FollowsInit ==
    ASSUME Typed, Init
    PROVE  Follows
  <1>1. /\ pass = 1 /\ pc = "line" /\ i = 1 /\ defines = CliDefines /\ cond_stack = <<>>
        /\ current_active = TRUE /\ macros = <<>> /\ output = <<>> /\ trace = <<<<>>, <<>>>>
    BY DEF Init
  <1>2. Len(source) \in Nat /\ Seen = 0 /\ i - 1 = 0
    BY <1>1, TypedFields DEF Seen
  <1>3. /\ Reading(source)[0] = Reader /\ Now = Reader
        /\ Reader.ok = TRUE /\ Reader.macros = <<>> /\ Reader.levels = <<>> /\ Reader.defines = CliDefines
        /\ Reader.reading = FALSE
    BY <1>2, AtHand DEF Now, Reader
  <1>4. Extends(macros, Reader, 0, source)
    BY <1>1, <1>3 DEF Extends
  <1>5. KnownSoFar(macros, source, Seen)
    BY <1>2, <1>3, <1>4 DEF KnownSoFar
  <1>6. NoDuplicate(source, Seen) /\ NamesOnce(macros)
    BY <1>1, <1>2 DEF NoDuplicate, NamesOnce
  <1>7. Level(Now)
    BY <1>1, <1>3 DEF Level, Alike, LevelsMatch, Place
  <1>8. trace[1] = Hows(source, i - 1) /\ trace[2] = <<>>
    BY <1>1, <1>2 DEF Hows
  <1>9. Len(macros) = Len(Now.macros)
    BY <1>1, <1>3
  <1>10. First
    BY <1>1, <1>7, <1>8, <1>9 DEF First
  <1> QED BY <1>1, <1>5, <1>6, <1>10 DEF Follows

LEMMA UnendedFollows ==
    ASSUME Typed, Follows, UnendedMacro
    PROVE  Follows'
  <1>1. /\ pc = "body" /\ pc' = "line" /\ i > Len(source) /\ i \in 1..(Len(source) + 1) /\ Len(source) \in Nat
        /\ UNCHANGED <<source, pass, error, i, defines, cond_stack, current_active, macros, output, trace>>
    BY TypedFields DEF UnendedMacro
  <1>2. Seen' = Seen /\ Now' = Now /\ End' = End
    BY <1>1 DEF Seen, Now, End
  <1>3. Now.ok /\ Level(Now) => Level(Now)'
    BY <1>1, <1>2 DEF Level
  <1>4. First => First'
    BY <1>1, <1>2, <1>3 DEF First
  <1>5. Second => Second'
    BY <1>1, <1>2, <1>3 DEF Second
  <1>6. (KnownSoFar(macros, source, Seen) /\ NoDuplicate(source, Seen) /\ NamesOnce(macros))'
    BY <1>1, <1>2 DEF Follows
  <1> QED BY <1>1, <1>4, <1>5, <1>6 DEF Follows

\* At the end of the text the reference has no open level when the program has none.
LEMMA EndLevels ==
    ASSUME Typed, Follows, pc = "line", i > Len(source)
    PROVE  /\ i = Len(source) + 1 /\ Now = End /\ Seen = Len(source)
           /\ Now.ok => (cond_stack = <<>> <=> End.levels = <<>>)
  <1>1. i \in 1..(Len(source) + 1) /\ Len(source) \in Nat /\ cond_stack \in Seq(Cond)
    BY TypedFields
  <1>2. i = Len(source) + 1 /\ i - 1 = Len(source)
    BY <1>1
  <1>3. Now = End /\ Seen = Len(source)
    BY <1>2 DEF Now, End, Seen
  <1>4. Now.ok => Len(cond_stack) = Len(End.levels)
    BY <1>3, NowKnown DEF Level, Alike, LevelsMatch
  <1>5. End.levels \in Seq(Marks)
    BY AtHand, ReaderFields
  <1> HIDE DEF Cond, Marks
  <1>6. Now.ok => (cond_stack = <<>> <=> End.levels = <<>>)
    BY <1>1, <1>4, <1>5
  <1> QED BY <1>2, <1>3, <1>6

LEMMA EndPassFollows ==
    ASSUME Typed, Follows, EndPass
    PROVE  Follows'
  <1>1. pc = "line" /\ i > Len(source) /\ pass \in {1, 2}
    BY TypedFields DEF EndPass
  <1>2. /\ i = Len(source) + 1 /\ Now = End /\ Seen = Len(source)
        /\ Now.ok => (cond_stack = <<>> <=> End.levels = <<>>)
    BY <1>1, EndLevels
  <1>3. Len(source) \in Nat
    BY TypedFields
  <1>4. CASE cond_stack # <<>> /\ Fail("unterminated")
    <2>1. pc' = "failed" /\ UNCHANGED <<source, pass, i, macros>>
      BY <1>4 DEF Fail
    <2>2. Seen' = Seen /\ End' = End
      BY <2>1 DEF Seen, End
    <2>3. ~ (End.ok /\ End.levels = <<>>)
      BY <1>2, <1>4
    <2>4. (KnownSoFar(macros, source, Seen) /\ NoDuplicate(source, Seen) /\ NamesOnce(macros))'
      BY <2>1, <2>2 DEF Follows
    <2>5. ~ (pc = "line")' /\ ~ (pc = "body")' /\ ~ (pc = "done")'
      BY <2>1
    <2> QED BY <2>1, <2>2, <2>3, <2>4, <2>5 DEF Follows
  <1>5. CASE /\ cond_stack = <<>> /\ pass = 1
             /\ pass' = 2 /\ i' = 1 /\ defines' = CliDefines /\ current_active' = TRUE
             /\ UNCHANGED <<source, pc, error, cond_stack, macros, current_macro, output, trace>>
    <2>1. First
      BY <1>1, <1>5 DEF Follows
    <2>2. Seen' = Seen /\ End' = End
      BY <1>2, <1>5 DEF Seen, End
    <2>3. Now' = Reader
      <3>1. Reading(source)[0] = Reader
        BY AtHand
      <3>2. i' - 1 = 0
        BY <1>5
      <3> QED BY <1>5, <3>1, <3>2 DEF Now
    <2>4. /\ Reader.ok = TRUE /\ Reader.levels = <<>> /\ Reader.defines = CliDefines
          /\ Reader.reading = FALSE /\ Reader.out = <<>>
      BY DEF Reader
    <2>5. (Now.ok /\ Level(Now))'
      <3>1. LevelsMatch(<<>>, TRUE, <<>>)
        BY DEF LevelsMatch
      <3> QED BY <1>1, <1>5, <2>3, <2>4, <3>1 DEF Level, Alike, Place
    <2>6. (trace[2] = Hows(source, i - 1))'
      <3>1. i' - 1 = 0
        BY <1>5
      <3>2. Hows(source, 0) = <<>>
        BY DEF Hows
      <3> QED BY <1>5, <2>1, <3>1, <3>2 DEF First
    <2>7. (End.ok => trace[1] = Hows(source, Len(source)))'
      <3>1. i - 1 = Len(source)
        BY <1>2, <1>3
      <3> QED BY <1>2, <1>5, <2>1, <2>2, <3>1 DEF First
    <2>8. (output = Now.out)' /\ pc' # "done"
      BY <1>1, <1>5, <2>1, <2>3, <2>4 DEF First
    <2>9. Second'
      BY <2>5, <2>6, <2>7, <2>8 DEF Second
    <2>10. (KnownSoFar(macros, source, Seen) /\ NoDuplicate(source, Seen) /\ NamesOnce(macros))'
      BY <1>5, <2>2 DEF Follows
    <2>11. pass' # 1 /\ pc' = "line"
      BY <1>1, <1>5
    <2> QED BY <2>9, <2>10, <2>11 DEF Follows
  <1>6. CASE /\ cond_stack = <<>> /\ pass = 2 /\ pc' = "done"
             /\ UNCHANGED <<source, pass, error, i, defines, cond_stack, current_active,
                            macros, current_macro, output, trace>>
    <2>1. Second
      BY <1>1, <1>6 DEF Follows
    <2>2. Seen' = Seen /\ End' = End /\ Now' = Now
      BY <1>6 DEF Seen, End, Now
    <2>3. (i = Len(source) + 1 /\ End.levels = <<>>)'
      BY <1>2, <1>6, <2>1, <2>2 DEF Second
    <2>4. Level(Now)'
      BY <1>1, <1>2, <1>3, <1>6, <2>1, <2>2 DEF Second, Level, Place
    <2>5. Second'
      BY <1>6, <2>1, <2>2, <2>3, <2>4 DEF Second
    <2>6. (KnownSoFar(macros, source, Seen) /\ NoDuplicate(source, Seen) /\ NamesOnce(macros))'
      BY <1>6, <2>2 DEF Follows
    <2>7. pass' = 2 /\ pc' = "done"
      BY <1>6
    <2> QED BY <2>5, <2>6, <2>7 DEF Follows
  <1> QED BY <1>4, <1>5, <1>6 DEF EndPass

LEMMA FollowsStutters ==
    ASSUME Typed, Follows, UNCHANGED vars
    PROVE  Follows'
  <1>1. /\ pc' = pc /\ source' = source /\ pass' = pass /\ error' = error /\ i' = i /\ defines' = defines
        /\ cond_stack' = cond_stack /\ current_active' = current_active /\ macros' = macros
        /\ current_macro' = current_macro /\ output' = output /\ trace' = trace
    BY DEF vars
  <1>2. Seen' = Seen /\ Now' = Now /\ End' = End
    BY <1>1 DEF Seen, Now, End
  <1>3. Level(Now)' <=> Level(Now)
    BY <1>1, <1>2 DEF Level
  <1>4. First => First'
    BY <1>1, <1>2, <1>3 DEF First
  <1>5. Second => Second'
    BY <1>1, <1>2, <1>3 DEF Second
  <1> QED BY <1>1, <1>2, <1>4, <1>5 DEF Follows

LEMMA FollowsStep ==
    ASSUME Typed, MacrosFirst, Follows, [Next]_vars
    PROVE  Follows'
  <1>1. CASE UNCHANGED vars \/ Finished
    BY <1>1, FollowsStutters DEF Finished
  <1>2. CASE UnendedMacro \/ EndPass
    BY <1>2, UnendedFollows, EndPassFollows
  <1>3. CASE LineStep
    <2>1. Fails \/ Moves
      BY <1>3, FailsOrMoves
    <2>2. CASE Fails
      BY <1>3, <2>2, FailsFollow DEF Fails
    <2>3. CASE Moves
      <3>1. pass = 1 \/ pass = 2
        BY TypedFields
      <3> QED BY <1>3, <2>3, <3>1, FirstStep, SecondStep
    <2> QED BY <2>1, <2>2, <2>3
  <1> QED BY <1>1, <1>2, <1>3 DEF Next, LineStep

LEMMA FollowsHolds == Spec => [](MacrosFirst => Follows)
  <1>1. Init => (MacrosFirst => Follows)
    BY TypedInit, FollowsInit
  <1>2. Typed /\ (MacrosFirst => Follows) /\ [Next]_vars => (MacrosFirst => Follows)'
    <2> SUFFICES ASSUME Typed, MacrosFirst => Follows, [Next]_vars, MacrosFirst' PROVE Follows'
      OBVIOUS
    <2>1. source' = source
      BY DEF Next, OpenConditional, Else, EndIf, SkipInactive, Define, StartMacro, MacroBody, EndMacro,
             UnendedMacro, Overlook, Diagnose, Emit, EndPass, Finished, Advance, Fail, vars
    <2>2. MacrosFirst
      BY <2>1 DEF MacrosFirst
    <2> QED BY <2>2, FollowsStep
  <1> QED BY <1>1, <1>2, TypedHolds, PTL DEF Spec

\* Both passes of preprocess_macros take every line alike, and together they do
\* what one reading does: a text is accepted only when that reading finds no
\* fault, it is refused for a fault only when the reading finds one, and the
\* output is that of the reading unless a macro lost lines to its array.
THEOREM PassesAsOne == Spec => []TwoPassesAsOne
  <1>1. Typed /\ (MacrosFirst => Follows) => TwoPassesAsOne
    <2> SUFFICES ASSUME Typed, MacrosFirst, Follows
                 PROVE  /\ pc = "done" => trace[1] = trace[2]
                        /\ pc = "done" /\ Full(macros) => ReadOnce.ok /\ output = ReadOnce.out
                        /\ pc = "failed" /\ error \notin Limits => ~ ReadOnce.ok
      BY DEF TwoPassesAsOne, Full
    <2>1. ReadOnce = SetOk(End, End.ok /\ End.levels = <<>>)
      BY Zenon DEF ReadOnce, Reading, End, SetOk
    <2>2. IsReader(End) /\ (End.ok /\ End.levels = <<>>) \in BOOLEAN
      BY AtHand
    <2>3. ReadOnce.out = End.out /\ ReadOnce.ok = (End.ok /\ End.levels = <<>>)
      BY <2>1, <2>2, SetOkIs
    <2>4. ASSUME pc = "done"
          PROVE  trace[1] = trace[2] /\ ReadOnce.ok /\ (Full(macros) => output = ReadOnce.out)
      <3>1. Second
        BY <2>4 DEF Follows
      <3>2. i = Len(source) + 1 /\ End.levels = <<>>
        BY <2>4, <3>1 DEF Second
      <3>3. i - 1 = Len(source)
        BY <3>2, TypedFields
      <3>4. Now = End
        BY <3>3 DEF Now, End
      <3> QED BY <2>3, <3>1, <3>2, <3>3, <3>4 DEF Second
    <2>5. ASSUME pc = "failed", error \notin Limits
          PROVE  ~ ReadOnce.ok
      BY <2>3, <2>5 DEF Follows
    <2> QED BY <2>4, <2>5
  <1> QED BY <1>1, TypedHolds, FollowsHolds, PTL

=============================================================================
