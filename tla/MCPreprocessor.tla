--------------------------- MODULE MCPreprocessor ---------------------------
(***************************************************************************)
(* Instances of Preprocessor: every text of a few lines over small sets of *)
(* lines.                                                                  *)
(***************************************************************************)
EXTENDS Preprocessor

CONSTANT MaxLines

Of(kind, word, arg) == [kind |-> kind, word |-> word, arg |-> arg, n |-> 0]
Bare(kind) == Of(kind, Empty, Empty)
Not(line) == [line EXCEPT !.n = 1]
Times(k, word) == [Of("times", word, Empty) EXCEPT !.n = k]

Texts(S) == UNION {[1..n -> S] : n \in 1..MaxLines}

NoDefines == [w \in {} |-> Empty]
OneDefine == [w \in {"D"} |-> "1"]

BranchLines ==
    {Of("if", "D", Empty), Not(Of("if", "1", Empty)), Of("ifdef", "X", Empty),
     Of("ifndef", "X", Empty), Bare("else"), Bare("endif"), Of("define", "X", "0"),
     Of("text", "X", "D"), Bare("error")}
BranchTexts == Texts(BranchLines)

MacroLines ==
    {Of("macro", "M", "p"), Bare("endm"), Of("text", "M", "X"), Of("text", Parameter, "X"),
     Of("define", "X", "Y"), Of("define", "Y", "M"), Of("ifdef", "M", Empty), Bare("endif"),
     Of("macro", "Y", Empty), Times(2, "X"), Bare("warning")}
MacroTexts == Texts(MacroLines)

\* Malformed operands, values too long to substitute, and the tables filled to
\* their limits.
LimitLines ==
    {Of("if", "D", Empty), Of("if", Malformed, Empty), Of("ifdef", Malformed, Empty),
     Bare("endif"), Of("define", "X", "long"), Of("define", "Y", "1"), Of("define", "p", "1"),
     Of("define", Malformed, Empty), Of("macro", "M", Empty), Of("macro", "X", Empty),
     Bare("endm"), Of("text", "X", Empty), Of("text", "M", Empty), Not(Of("if", "D", Empty))}
LimitTexts ==
    {t \in Texts(LimitLines) : Len(t) < MaxLines}
    \cup {<<Of("macro", a, Empty), Bare("endm"), Of("macro", b, Empty), Bare("endm"),
            Of("macro", c, Empty), Bare("endm")>> : a, b, c \in {"M", "X", "Y"}}

AllTexts == BranchTexts \cup MacroTexts \cup LimitTexts
=============================================================================
