---------------------------- MODULE MCAssembler ----------------------------
(***************************************************************************)
(* Small programs for TLC.  Addresses, estimates and encoded lengths are   *)
(* those of the real instructions; "res" blocks bring a label to the edge  *)
(* of the rel8 range.                                                      *)
(***************************************************************************)
EXTENDS Listing

(* Constructors of instructions.                                           *)
Blank == [type |-> "nop", label |-> NoName, target |-> NoName, rhs |-> NoName,
          form |-> "none", est |-> 0, off |-> 0, tail |-> 0, n |-> 0]
At(name, inst) == [inst EXCEPT !.label = name]
Label(name) == At(name, Blank)
Nop == [Blank EXCEPT !.n = 1]
Op(est, len) == [Blank EXCEPT !.type = "op", !.est = est, !.n = len]
To(type, name) == [Blank EXCEPT !.type = type, !.form = "label", !.target = name]
Jmp(name) == To("jmp", name)
Jcc(name) == To("jcc", name)
Call(name) == To("call", name)
Load(name) == To("load", name)
Mem(form, name, off, tail, addend) ==
    [Blank EXCEPT !.type = "mem", !.form = form, !.target = name, !.est = 9 + tail,
                  !.off = off, !.tail = tail, !.n = addend]
Data(width, items) == [Blank EXCEPT !.type = "data", !.est = width * items,
                                    !.off = width * items]
Str(chars) == [Blank EXCEPT !.type = "data", !.est = 1, !.off = chars]
DataOf(width, name) == [Blank EXCEPT !.type = "data", !.form = "label", !.target = name,
                                     !.est = width, !.tail = width]
Res(k) == [Blank EXCEPT !.type = "res", !.form = "imm", !.n = k]
ResOf(name) == To("res", name)
Align(k) == [Blank EXCEPT !.type = "align", !.form = "imm", !.n = k]
AlignOf(name) == To("align", name)
Incbin(k) == [Blank EXCEPT !.type = "incbin", !.n = k]
Comm(name, size, m) == [To("comm", name) EXCEPT !.n = size, !.off = m]
Lcomm(name, size, m) == [To("lcomm", name) EXCEPT !.n = size, !.off = m]
Equ(name, k) == [Blank EXCEPT !.type = "equ", !.label = name, !.form = "imm", !.n = k]
EquDiff(name, l, r) == [Blank EXCEPT !.type = "equ", !.label = name, !.form = "diff",
                                     !.target = l, !.rhs = r]
EquOf(name, l) == At(name, To("equ", l))
Section(k) == [Blank EXCEPT !.type = "section", !.n = k]

CONSTANTS A, B, C, D, E

(* Branches around a block whose size puts the far label at the edge of    *)
(* the rel8 range; labels may be missing, repeated or in any order.        *)
BranchItems == {Jmp(A), Jcc(B), Call(A), Label(A), Label(B)}
BranchPrograms ==
    { <<w, x, Res(k), y, z>> :
        w \in BranchItems, x \in BranchItems, y \in BranchItems, z \in BranchItems,
        k \in {121, 123, 124, 125, 126, 127, 128} }

(* Every kind of instruction and directive, in the text and in the data    *)
(* section, with the operands the encoders reject among them.              *)
TextItems ==
    {Label(A), Nop, At(A, Nop), At(B, Op(9, 4)), Load(B), Jmp(B), Call(B),
     Mem("rip", A, 3, 4, 0), Mem("rip", B, 3, 0, 4), Mem("abs", B, 4, 0, 8), DataOf(8, B), Align(16),
     Comm(B, 4, 8), Lcomm(A, 4, 0), To("extern", B), To("global", A), To("weak", A),
     To("hidden", B), EquOf(A, B), Incbin(7), ResOf(B), AlignOf(B)}
DataItems ==
    {At(A, Str(5)), At(B, Data(8, 2)), At(B, Res(6)), Align(8), Comm(A, 4, 16),
     Equ(B, 4), EquDiff(A, B, B), DataOf(4, B), ResOf(A), Section(0), Op(3, 3)}
Rejected == {Align(3), Incbin(-1), Comm(A, 0, 0), At(A, Res(-1)), At(B, To("equ", A)),
             [To("weak", A) EXCEPT !.form = "imm"], [Equ(A, 0) EXCEPT !.form = "none"]}
DirectivePrograms ==
    { <<w, x, Section(1), y>> : w \in TextItems, x \in TextItems, y \in DataItems }
    \cup { <<w, Section(1), y, z>> : w \in TextItems, y \in DataItems, z \in DataItems }
    \cup { <<s, w, x>> : s \in {Section(0), Section(1)}, w \in TextItems, x \in Rejected }

(* More labels, references, attributes, lines and bytes than the tables    *)
(* and the sections hold: a table with one entry left, or a section with a *)
(* few bytes left, and two more instructions.                              *)
AlmostFullTables ==
    {<<Label(A), Label(B), Label(C)>>, <<Label(A), Call(A), Load(A), Call(A)>>,
     <<Label(A), Nop, Nop, Nop, Nop>>}
    \cup {<<Label(A), To(list, A), To(list, A), To(list, A)>> : list \in {"weak", "hidden"}}
AlmostFullSections ==
    {<<Label(A), Res(TextCapacity - room)>> : room \in 0..7}
    \cup {<<Label(A), Section(1), Res(DataCapacity - room)>> : room \in {0, 3}}
LimitItems ==
    {Label(D), At(E, Op(3, 3)), Jmp(A), Call(B), Load(B), Mem("rip", A, 3, 0, 0), Res(9),
     Data(4, 1), Equ(E, 7), Comm(E, 4, 8), To("extern", D), To("weak", A), To("hidden", B)}
LimitPrograms ==
    { f \o <<x, y>> :
        f \in AlmostFullTables \cup AlmostFullSections, x \in LimitItems, y \in LimitItems }

PassPrograms == BranchPrograms \cup DirectivePrograms \cup LimitPrograms

-----------------------------------------------------------------------------
(***************************************************************************)
(* Statements of the repository about its own program that the code does   *)
(* not satisfy, each checked by a run that expects the violation.          *)
(***************************************************************************)

(* docs/ASSEMBLY_REFERENCE.md and the test of label arithmetic: a name     *)
(* defined once, by equ, stands for its constant wherever it is used.      *)
(* The text pass takes the equ line for a label of the text section.       *)
EquConstantKept ==
    pc = "done" =>
        \A j, k \in DOMAIN insts :
            (/\ insts[j].type = "equ" /\ insts[j].form = "imm"
             /\ insts[k].type = "load" /\ insts[k].target = insts[j].label
             /\ \A m \in DOMAIN insts : insts[m].label = insts[j].label => m = j)
            => insts[k].form = "imm" /\ insts[k].n = insts[j].n
EquPrograms == { <<Equ(B, 7), x, Load(B)>> : x \in {Nop, Label(A), Section(0)} }

(* resolve_fixups (x86_64_asm.c:968): "RIP-relative addressing: offset     *)
(* from end of instruction to target".  The code takes the end of the      *)
(* field, where an immediate may follow: mov [rip + A], 7.                 *)
RipFieldsFromInstructionEnd ==
    pc = "done" =>
        \A k \in DOMAIN refs :
            refs[k].kind = "rel" =>
                refs[k].next + refs[k].disp = hash[refs[k].target].address + refs[k].addend
RipPrograms ==
    { <<Mem("rip", A, 3, tail, 0), x, Label(A)>> :
        tail \in {0, 1, 4}, x \in {Nop, Jmp(A), Section(1)} }
=============================================================================
