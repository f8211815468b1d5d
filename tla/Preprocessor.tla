---------------------------- MODULE Preprocessor ----------------------------
(***************************************************************************)
(* preprocess_macros: conditionals, %define, %error and %warning, macro    *)
(* definitions and invocations, after the include files were expanded.     *)
(*                                                                         *)
(* The function reads the text twice.  Pass 1 collects the macros, pass 2  *)
(* writes the output; each decides anew which lines are active.  One step  *)
(* handles one line.  A line is reduced to its kind and up to two words,   *)
(* and a word is replaced as a whole by the value of its %define.          *)
(***************************************************************************)
EXTENDS Naturals, Sequences, FiniteSets, SequencesExt

CONSTANTS
    Sources,                \* the programs considered
    Words,                  \* identifiers, values and literals
    Malformed,              \* stands for a missing or unparsable operand
    Parameter,              \* \p, a reference to the parameter of a macro
    Numbers,                \* the words that are numeric literals
    FalseWords,             \* the numbers that are zero
    LongWords,              \* words too long to be substituted into a line
    CliDefines,             \* the symbols of the -D options, with their values
    PP_MAX_DEFINES,
    PP_MAX_COND_DEPTH,
    MAX_MACROS,
    MAX_MACRO_BODY_LINES

(***************************************************************************)
(* word: the operand of a conditional, the symbol of a %define, the name   *)
(* of a macro, the first word of any other line.  arg: the value of a      *)
(* %define, the parameter of a macro, the second word of a line.  n: 1     *)
(* for a negated %if, the count of a times.                                *)
(***************************************************************************)
Conditionals == {"if", "ifdef", "ifndef"}
Kinds == Conditionals \cup {"else", "endif", "define", "error", "warning",
                            "macro", "endm", "times", "text"}
Empty == ""
Line  == [kind : Kinds, word : Words \cup {Empty, Malformed, Parameter},
          arg : Words \cup {Empty, Parameter}, n : Nat]

\* pp_parse_define_directive takes nothing but an identifier for a symbol.
ASSUME SourcesTyped ==
    /\ Sources \subseteq Seq(Line)
    /\ \A s \in Sources : \A k \in DOMAIN s :
          s[k].kind = "define" => s[k].word \in Words \cup {Malformed}
ASSUME LimitsNat == /\ PP_MAX_DEFINES \in Nat /\ PP_MAX_COND_DEPTH \in Nat
                    /\ MAX_MACROS \in Nat /\ MAX_MACRO_BODY_LINES \in Nat
ASSUME CliDefinesFit == /\ CliDefines \in [DOMAIN CliDefines -> Words \cup {Empty}]
                        /\ DOMAIN CliDefines \subseteq Words /\ IsFiniteSet(DOMAIN CliDefines)
                        /\ Cardinality(DOMAIN CliDefines) <= PP_MAX_DEFINES

VARIABLES
    source,             \* the text with its include files expanded
    pass,               \* 1 or 2
    pc, error,
    i,                  \* the line at hand
    defines,            \* a function from symbols to values
    cond_stack,         \* cond_stack[1 .. cond_depth]
    current_active,
    macros,             \* ctx->macros[0 .. macro_count-1]
    current_macro,      \* the macro whose body is read
    output,
    trace               \* trace[pass]: how every line was taken, for the properties

vars == <<source, pass, pc, error, i, defines, cond_stack, current_active, macros,
          current_macro, output, trace>>

NoMacro == [name |-> Empty, param |-> Empty, body |-> <<>>]

Init ==
    /\ source \in Sources
    /\ pass = 1 /\ pc = "line" /\ error = "none" /\ i = 1
    /\ defines = CliDefines
    /\ cond_stack = <<>> /\ current_active = TRUE
    /\ macros = <<>> /\ current_macro = NoMacro
    /\ output = <<>>
    /\ trace = <<<<>>, <<>>>>

Cur == source[i]

AtLine == pc = "line" /\ i <= Len(source)

Took(how) == trace' = [trace EXCEPT ![pass] = Append(@, how)]

Advance(how) == i' = i + 1 /\ Took(how) /\ UNCHANGED <<source, pass, error>>

Fail(e) ==
    /\ pc' = "failed" /\ error' = e
    /\ UNCHANGED <<source, pass, i, defines, cond_stack, current_active, macros,
                   current_macro, output, trace>>

pp_lookup_define(w) == w \in DOMAIN defines

is_macro_name(w) == \E k \in DOMAIN macros : macros[k].name = w
-----------------------------------------------------------------------------
(* Conditionals, which both passes handle alike.                            *)

\* A number, or a symbol, which is false when it is undefined or defined as 0.
pp_eval_number_or_symbol(line) ==
    LET value == IF line.word \in Numbers THEN line.word \notin FalseWords
                 ELSE pp_lookup_define(line.word) /\ defines[line.word] \notin FalseWords
    IN  IF line.n = 1 THEN ~ value ELSE value

Defined(w) == pp_lookup_define(w) \/ is_macro_name(w)

Holds(line) ==
    CASE line.kind = "if"     -> pp_eval_number_or_symbol(line)
      [] line.kind = "ifdef"  -> Defined(line.word)
      [] line.kind = "ifndef" -> ~ Defined(line.word)

\* The operand of %ifdef is parsed on every line, the one of %if only where the
\* line is active.
BadOperand(line) ==
    line.word = Malformed /\ (line.kind = "if" => current_active)

Frame == UNCHANGED <<pc, defines, macros, current_macro, output>>

(* Mutant: the depth limit is off by one. *)
HasRoom_OffByOne == Len(cond_stack) <= PP_MAX_COND_DEPTH

HasRoom == Len(cond_stack) < PP_MAX_COND_DEPTH

OpenConditional ==
    /\ AtLine /\ Cur.kind \in Conditionals
    /\ \/ /\ BadOperand(Cur) /\ (Cur.kind = "if" => HasRoom) /\ Fail("operand")
       \/ /\ ~ HasRoom /\ (Cur.kind # "if" => ~ BadOperand(Cur)) /\ Fail("depth")
       \/ /\ ~ BadOperand(Cur) /\ HasRoom
          /\ LET taken == current_active /\ Holds(Cur)
             IN  /\ cond_stack' = Append(cond_stack, [parent_active |-> current_active,
                                                      branch_taken |-> taken])
                 /\ current_active' = taken
          /\ Advance("directive") /\ Frame

Top == cond_stack[Len(cond_stack)]

(* Mutant: %else does not use up the block, and a second one is active again. *)
Else_Repeatable ==
    /\ AtLine /\ Cur.kind = "else"
    /\ \/ cond_stack = <<>> /\ Fail("unmatched")
       \/ /\ cond_stack # <<>>
          /\ current_active' = (Top.parent_active /\ ~ Top.branch_taken)
          /\ UNCHANGED cond_stack
          /\ Advance("directive") /\ Frame

Else ==
    /\ AtLine /\ Cur.kind = "else"
    /\ \/ cond_stack = <<>> /\ Fail("unmatched")
       \/ /\ cond_stack # <<>>
          /\ current_active' = (Top.parent_active /\ ~ Top.branch_taken)
          /\ cond_stack' = [cond_stack EXCEPT ![Len(cond_stack)].branch_taken = TRUE]
          /\ Advance("directive") /\ Frame

EndIf ==
    /\ AtLine /\ Cur.kind = "endif"
    /\ \/ cond_stack = <<>> /\ Fail("unmatched")
       \/ /\ cond_stack # <<>>
          /\ current_active' = Top.parent_active
          /\ cond_stack' = Front(cond_stack)
          /\ Advance("directive") /\ Frame

\* Lines of an inactive block; a malformed %define is still refused by pass 2.
SkipInactive ==
    /\ AtLine /\ ~ current_active
    /\ Cur.kind \notin Conditionals \cup {"else", "endif"}
    /\ IF pass = 2 /\ Cur.kind = "define" /\ Cur.word = Malformed
       THEN Fail("operand")
       ELSE /\ Advance("off")
            /\ UNCHANGED <<pc, defines, cond_stack, current_active, macros,
                           current_macro, output>>

AtActive(kinds) == AtLine /\ current_active /\ Cur.kind \in kinds

\* pp_define_set
Define ==
    /\ AtActive({"define"})
    /\ \/ Cur.word = Malformed /\ Fail("operand")
       \/ /\ Cur.word # Malformed /\ ~ pp_lookup_define(Cur.word)
          /\ Cardinality(DOMAIN defines) >= PP_MAX_DEFINES
          /\ Fail("defines")
       \/ /\ Cur.word # Malformed
          /\ pp_lookup_define(Cur.word) \/ Cardinality(DOMAIN defines) < PP_MAX_DEFINES
          /\ defines' = [w \in DOMAIN defines \cup {Cur.word} |->
                            IF w = Cur.word THEN Cur.arg ELSE defines[w]]
          /\ Advance("on")
          /\ UNCHANGED <<pc, cond_stack, current_active, macros, current_macro, output>>
-----------------------------------------------------------------------------
(* Macro definitions: pass 1 records them, pass 2 skips them.               *)

\* macro_define and macro_add_param in pass 1.
StartMacro ==
    /\ AtActive({"macro"})
    /\ \/ pass = 1 /\ Len(macros) >= MAX_MACROS /\ Fail("macros")
       \/ /\ pass = 1 /\ Len(macros) < MAX_MACROS /\ is_macro_name(Cur.word)
          /\ Fail("duplicate")
       \/ /\ pass = 1 => Len(macros) < MAX_MACROS /\ ~ is_macro_name(Cur.word)
          /\ current_macro' = IF pass = 1
                              THEN [name |-> Cur.word, param |-> Cur.arg, body |-> <<>>]
                              ELSE current_macro
          /\ pc' = "body"
          /\ Advance("on")
          /\ UNCHANGED <<defines, cond_stack, current_active, macros, output>>

\* A body longer than the array loses its last lines; an error is printed, and
\* preprocessing goes on.
AddLine(body, line) ==
    IF Len(body) < MAX_MACRO_BODY_LINES THEN Append(body, line) ELSE body

\* Every line up to the next endm belongs to the body, directives included.
MacroBody ==
    /\ pc = "body" /\ i <= Len(source) /\ Cur.kind # "endm"
    /\ current_macro' = IF pass = 1
                        THEN [current_macro EXCEPT !.body = AddLine(@, Cur)]
                        ELSE current_macro
    /\ Advance("body")
    /\ UNCHANGED <<pc, defines, cond_stack, current_active, macros, output>>

EndMacro ==
    /\ pc = "body" /\ i <= Len(source) /\ Cur.kind = "endm"
    /\ macros' = IF pass = 1 THEN Append(macros, current_macro) ELSE macros
    /\ current_macro' = NoMacro
    /\ pc' = "line"
    /\ Advance("body")
    /\ UNCHANGED <<defines, cond_stack, current_active, output>>

\* The text ends inside a body: the macro is forgotten, without an error.
UnendedMacro ==
    /\ pc = "body" /\ i > Len(source)
    /\ current_macro' = NoMacro
    /\ pc' = "line"
    /\ UNCHANGED <<source, pass, error, i, defines, cond_stack, current_active, macros,
                   output, trace>>
-----------------------------------------------------------------------------
(* The other active lines.                                                  *)

\* Pass 1 has no use for them.
Overlook ==
    /\ pass = 1 /\ AtActive({"error", "warning", "endm", "times", "text"})
    /\ Advance("on")
    /\ UNCHANGED <<pc, defines, cond_stack, current_active, macros, current_macro, output>>

Diagnose ==
    /\ pass = 2
    /\ \/ AtActive({"error"}) /\ Fail("error")
       \/ /\ AtActive({"warning"}) /\ Advance("on")
          /\ UNCHANGED <<pc, defines, cond_stack, current_active, macros, current_macro,
                         output>>

Value(w) == IF pp_lookup_define(w) THEN defines[w] ELSE w

pp_substitute_defines(line) ==
    [line EXCEPT !.word = Value(line.word), !.arg = Value(line.arg)]

TooLong(line) ==
    \E w \in {line.word, line.arg} : pp_lookup_define(w) /\ defines[w] \in LongWords

macro_lookup(w) == macros[CHOOSE k \in DOMAIN macros : macros[k].name = w]

\* substitute_params: a reference to the parameter becomes the argument.
substitute_params(line, macro, arg) ==
    LET Sub(w) == IF w = Parameter /\ macro.param # Empty THEN arg ELSE w
    IN  [line EXCEPT !.word = Sub(line.word), !.arg = Sub(line.arg)]

\* The expansion is not looked through for further invocations.
expand_macro(line) ==
    LET macro == macro_lookup(line.word)
    IN  [k \in DOMAIN macro.body |-> substitute_params(macro.body[k], macro, line.arg)]

Copies(line) == [k \in 1..line.n |-> [line EXCEPT !.kind = "text", !.n = 0]]

Expansion(line) ==
    CASE line.kind = "times" -> Copies(line)
      [] line.kind = "text" /\ is_macro_name(line.word) ->
            LET body == expand_macro(line)
            IN  [k \in DOMAIN body |-> pp_substitute_defines(body[k])]
      [] OTHER -> <<line>>

\* A define found while the expansion of a macro is substituted.
ExpansionTooLong(line) ==
    /\ line.kind = "text" /\ is_macro_name(line.word)
    /\ \E k \in DOMAIN expand_macro(line) : TooLong(expand_macro(line)[k])

Emit ==
    /\ pass = 2 /\ AtActive({"endm", "times", "text"})
    /\ LET line == pp_substitute_defines(Cur)
       IN  \/ (TooLong(Cur) \/ ExpansionTooLong(line)) /\ Fail("long")
           \/ /\ ~ TooLong(Cur) /\ ~ ExpansionTooLong(line)
              /\ output' = output \o Expansion(line)
              /\ Advance("on")
              /\ UNCHANGED <<pc, defines, cond_stack, current_active, macros, current_macro>>
-----------------------------------------------------------------------------
EndPass ==
    /\ pc = "line" /\ i > Len(source)
    /\ \/ cond_stack # <<>> /\ Fail("unterminated")
       \/ /\ cond_stack = <<>> /\ pass = 1
          /\ pass' = 2 /\ i' = 1
          /\ defines' = CliDefines
          /\ current_active' = TRUE
          /\ UNCHANGED <<source, pc, error, cond_stack, macros, current_macro, output, trace>>
       \/ /\ cond_stack = <<>> /\ pass = 2
          /\ pc' = "done"
          /\ UNCHANGED <<source, pass, error, i, defines, cond_stack, current_active,
                         macros, current_macro, output, trace>>

Finished == pc \in {"done", "failed"} /\ UNCHANGED vars

Next ==
    \/ OpenConditional \/ Else \/ EndIf \/ SkipInactive \/ Define
    \/ StartMacro \/ MacroBody \/ EndMacro \/ UnendedMacro
    \/ Overlook \/ Diagnose \/ Emit
    \/ EndPass \/ Finished

Spec == Init /\ [][Next]_vars
-----------------------------------------------------------------------------
(***************************************************************************)
(* The reference: a preprocessor that reads the text once.  A level of the *)
(* conditional stack is "on", "off" or, when its %else has nothing left to *)
(* offer, "spent"; a line is active when all levels are on.  A macro is    *)
(* known from its endm on.                                                 *)
(***************************************************************************)
Reader == [defines |-> CliDefines, levels |-> <<>>, macros |-> <<>>,
           reading |-> FALSE, macro |-> NoMacro, out |-> <<>>, ok |-> TRUE]

Known(s, w) == w \in DOMAIN s.defines \/ \E k \in DOMAIN s.macros : s.macros[k].name = w

Truth(s, line) ==
    LET v == IF line.word \in DOMAIN s.defines \ Numbers THEN s.defines[line.word] ELSE line.word
    IN  CASE line.kind = "ifdef"  -> Known(s, line.word)
          [] line.kind = "ifndef" -> ~ Known(s, line.word)
          [] line.kind = "if" ->
                LET true == /\ line.word \in Numbers \cup DOMAIN s.defines
                            /\ v \notin FalseWords
                IN  true # (line.n = 1)

Substituted(s, l) ==
    [l EXCEPT !.word = IF @ \in DOMAIN s.defines THEN s.defines[@] ELSE @,
              !.arg  = IF @ \in DOMAIN s.defines THEN s.defines[@] ELSE @]

Text(s, line) ==
    LET l == Substituted(s, line)
        found == {k \in DOMAIN s.macros : s.macros[k].name = l.word}
    IN  CASE l.kind = "times" -> Copies(l)
          [] l.kind = "text" /\ found # {} ->
                LET m == s.macros[CHOOSE k \in found : TRUE]
                IN  [k \in DOMAIN m.body |-> Substituted(s, substitute_params(m.body[k], m, l.arg))]
          [] OTHER -> <<l>>

ReadLine(s, line) ==
    LET active == \A k \in DOMAIN s.levels : s.levels[k] = "on"
        n == Len(s.levels)
        kind == line.kind
        bad == [s EXCEPT !.ok = FALSE]
    IN  CASE ~ s.ok -> s
          [] s.ok /\ s.reading ->
                IF kind = "endm"
                THEN [s EXCEPT !.reading = FALSE, !.macros = Append(@, s.macro)]
                ELSE [s EXCEPT !.macro.body = Append(@, line)]
          [] OTHER ->
             CASE kind \in Conditionals ->
                    IF line.word = Malformed /\ (active \/ kind # "if") THEN bad
                    ELSE [s EXCEPT !.levels = Append(@, IF line.word # Malformed /\ Truth(s, line)
                                                        THEN "on" ELSE "off")]
               [] kind = "else" /\ n > 0 ->
                    [s EXCEPT !.levels[n] = IF @ = "off" THEN "on" ELSE "spent"]
               [] kind = "endif" /\ n > 0 -> [s EXCEPT !.levels = Front(@)]
               [] kind \in {"else", "endif"} /\ n = 0 -> bad
               [] kind = "define" /\ line.word = Malformed -> bad
               [] kind = "error" /\ active -> bad
               [] kind = "define" /\ line.word # Malformed /\ active ->
                    [s EXCEPT !.defines = [w \in DOMAIN @ \cup {line.word} |->
                                              IF w = line.word THEN line.arg ELSE @[w]]]
               [] kind = "macro" /\ active ->
                    IF \E k \in DOMAIN s.macros : s.macros[k].name = line.word THEN bad
                    ELSE [s EXCEPT !.reading = TRUE,
                                   !.macro = [name |-> line.word, param |-> line.arg,
                                              body |-> <<>>]]
               [] kind \in {"endm", "times", "text"} /\ active ->
                    [s EXCEPT !.out = @ \o Text(s, line)]
               [] OTHER -> s

ReadOnce ==
    LET f[k \in 0..Len(source)] == IF k = 0 THEN Reader ELSE ReadLine(f[k - 1], source[k])
        last == f[Len(source)]
    IN  [last EXCEPT !.ok = @ /\ last.levels = <<>>]
-----------------------------------------------------------------------------
(* Properties.                                                              *)

Errors == {"none", "operand", "depth", "unmatched", "defines", "macros", "duplicate",
           "error", "long", "unterminated"}
Limits == {"depth", "defines", "macros", "long"}

\* The state of preprocess_macros stays well formed, and none of its tables is
\* written past its end.
TypeOK ==
    /\ source \in Seq(Line)
    /\ pass \in {1, 2} /\ pc \in {"line", "body", "done", "failed"} /\ error \in Errors
    /\ i \in 1..(Len(source) + 1)
    /\ DOMAIN defines \subseteq Words /\ Cardinality(DOMAIN defines) <= PP_MAX_DEFINES
    /\ cond_stack \in Seq([parent_active : BOOLEAN, branch_taken : BOOLEAN])
    /\ Len(cond_stack) <= PP_MAX_COND_DEPTH
    /\ current_active \in BOOLEAN
    /\ Len(macros) <= MAX_MACROS
    /\ \A k \in DOMAIN macros : Len(macros[k].body) <= MAX_MACRO_BODY_LINES
    /\ output \in Seq(Line)

\* No line uses the name of a macro that only a later line defines, nor does the
\* value of a -D option.
MacrosFirst ==
    \A k \in DOMAIN source : source[k].kind = "macro" =>
        /\ \A w \in DOMAIN CliDefines : source[k].word # CliDefines[w]
        /\ \A j \in 1..k : \/ j = k
                          \/ source[k].word \notin {source[j].word, source[j].arg}

\* Both passes of preprocess_macros take the same branch of every conditional
\* and give every line the same role, though the second starts with the macros
\* the first one found; so a text is accepted exactly when one reading of it
\* finds no fault, unless a limit is met, and gives the output of that reading.
TwoPassesAsOne ==
    MacrosFirst =>
        /\ pc = "done" => trace[1] = trace[2]
        /\ pc = "done" /\ (\A k \in DOMAIN macros :
                                Len(macros[k].body) < MAX_MACRO_BODY_LINES)
              => ReadOnce.ok /\ output = ReadOnce.out
        /\ pc = "failed" /\ error \notin Limits => ~ ReadOnce.ok
=============================================================================
