------------------------------ MODULE MCLabels ------------------------------
(***************************************************************************)
(* Instances of Labels: every program of a few lines over small sets of    *)
(* lines.                                                                  *)
(***************************************************************************)
EXTENDS Labels

CONSTANT MaxLines

Line(type, label, refs) == [type |-> type, label |-> label, refs |-> refs]
Jump(label, name) == Line("other", label, <<name>>)

\* A name of six letters still fits behind "__loc_0_" and no longer behind
\* "__loc_1_": the limit bites when the number of the scope grows a digit.
MCFits(s, b) == b # "long" \/ s < 1

BoundedSeq(S) == UNION {[1..n -> S] : n \in 1..MaxLines}

ScopeLines ==
    {Jump(label, name) : label \in {NoLabel, Global("f"), Local("l"), AnonymousDef},
                         name \in {Local("l"), Forward, Backward}}
    \cup {Line("equ", Global("f"), <<Local("l"), Forward>>),
          Line("equ", Local("m"), <<Global("f")>>),
          Line("other", Local("l"), <<>>), Line("other", Backward, <<>>)}

ScopePrograms == BoundedSeq(ScopeLines)

CapacityLines ==
    {Line("other", label, <<>>) :
            label \in {Local("l"), Local("m"), Local("long"), Global("f"), AnonymousDef}}
    \cup {Jump(NoLabel, name) : name \in {Local("l"), Local("m"), Local("long"), Global("f"),
                                           Forward, Backward}}
    \cup {Jump(Local("l"), Local("m")), Jump(Global("f"), Local("l"))}

LabelPrograms == ScopePrograms \cup BoundedSeq(CapacityLines)

SectionPrograms ==
    BoundedSeq({Line("section", NoLabel, <<Local("data")>>),
                Line("section", NoLabel, <<Local("text")>>),
                Line("other", Global("f"), <<>>)})

\* classify_section_name: 1 for the data sections, 0 for any other name.
classify_section_name(name) ==
    IF name.kind \in {"local", "global"} /\ name.base \in {"data", "bss", "rodata"}
    THEN 1 ELSE 0

\* README.md: "`.data` - Initialized data (readable, writable)".  A section
\* directive still selects the section its operand named when asm_assemble
\* reads it: the operand is not a label to rewrite.
SectionOperandsKept ==
    pc = "done" =>
        \A k \in Lines : source[k].type = "section" =>
            classify_section_name(insts[k].refs[1]) =
                classify_section_name(source[k].refs[1])
=============================================================================
