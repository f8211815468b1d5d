------------------------------ MODULE Assembler ------------------------------
(***************************************************************************)
(* The multi-pass pipeline of asm_assemble (src/src/x86_64_asm.c), from    *)
(* the canonicalized instruction list to the patched text section:         *)
(*                                                                         *)
(*   estimate -> labels -> equ -> relax* -> equ -> (text pass)* -> attrs   *)
(*            -> data -> fixups -> done                                    *)
(*                                                                         *)
(* One step processes one parsed instruction (or one attribute, or one     *)
(* fixup).  The byte contents are abstracted to what the passes decide:    *)
(* how many bytes an instruction takes, and the displacement written into  *)
(* every field that refers to a label (refs).                              *)
(***************************************************************************)
EXTENDS Integers, Sequences

CONSTANTS
    Names,          \* symbol names
    NoName,         \* absence of a label or of a label operand
    StartName,      \* "_start"
    Programs,       \* the parsed, canonicalized programs to assemble
    BaseAddress,    \* ctx->base_address
    MaxSymbols,     \* MAX_SYMBOLS: symbols, fixups and attribute lists
    MaxLineMap,     \* MAX_LINE_MAP
    TextCapacity,   \* ctx->text_capacity
    DataCapacity,   \* ctx->data_capacity
    RelaxLimit,     \* max_iterations of recompute_text_layout_relaxed
    PassLimit       \* text_pass_max_iterations

(***************************************************************************)
(* A parsed instruction.                                                   *)
(*   label   its own label, or NoName                                      *)
(*   target  the name in its label operand, or NoName                      *)
(*   form    what the operand is now: "label", "diff" (target - rhs),      *)
(*           "rip" ([rip+target]), "abs" ([target]), "imm", "none"         *)
(*   est     what estimate_instruction_size answers; for data directives   *)
(*           item size times operand count, the size pass 1a uses          *)
(*   off     mem: bytes before the displacement field;                     *)
(*           data: bytes of the immediate and string operands;             *)
(*           comm/lcomm: the alignment                                     *)
(*   tail    mem: immediate bytes after the displacement field;            *)
(*           data: bytes a label operand takes once it is a constant       *)
(*   n       op: encoded length; mem: displacement addend; res: bytes      *)
(*           reserved; align: the alignment; incbin: file size, -1 when    *)
(*           it cannot be opened; comm: size; equ: the constant;           *)
(*           section: 0 text, 1 data; a label operand that was rewritten   *)
(*           to an immediate: the constant                                 *)
(* A load (mov reg, label) is to one of the eight low registers, and every *)
(* constant fits 32 bits.  Alignments of comm are powers of two.           *)
(***************************************************************************)
InstTypes == {"op", "nop", "jmp", "jcc", "call", "load", "mem", "data", "res",
              "align", "incbin", "comm", "lcomm", "equ", "section", "global",
              "extern", "weak", "hidden"}

Forms == {"label", "diff", "rip", "abs", "imm", "none"}

NameOpt == Names \cup {NoName}

Inst == { inst \in [type : InstTypes, label : NameOpt, target : NameOpt,
                     rhs : NameOpt, form : Forms, est : Nat, off : Nat,
                     tail : Nat, n : Int] :
            /\ inst.type = "section" => inst.n \in {0, 1}
            /\ inst.type = "op" => inst.n \in Nat
            /\ inst.type = "mem" => inst.form \in {"rip", "abs"}
            /\ inst.type \in {"jmp", "jcc", "call", "load", "mem", "extern", "weak",
                              "hidden", "comm", "lcomm"} => inst.target \in Names
            /\ inst.form \in {"label", "diff"} =>
                  inst.target \in Names /\ inst.type \notin {"op", "nop", "mem", "section"} }

ASSUME NamesAssumption == NoName \notin Names /\ StartName \in Names
ASSUME LimitsAssumption ==
    /\ BaseAddress \in Nat /\ MaxLineMap \in Nat
    /\ TextCapacity \in Nat /\ DataCapacity \in Nat
    /\ MaxSymbols \in Nat \ {0} /\ RelaxLimit \in Nat \ {0} /\ PassLimit \in Nat \ {0}
ASSUME ProgramsAssumption == Programs \subseteq Seq(Inst)

(***************************************************************************)
(* ctx->symbols[j] and a hash_entry_t.  is_resolved is not kept: every     *)
(* entry is created resolved and no statement clears it.                   *)
(***************************************************************************)
Sections == {-1, 0, 1}      \* equ constant, text, data

Symbol == [name : Names, address : Int, section : Sections, is_external : BOOLEAN,
           is_global : BOOLEAN, is_function : BOOLEAN, is_weak : BOOLEAN,
           is_hidden : BOOLEAN]

HashEntry == [address : Int, section : Sections, is_external : BOOLEAN]

(* A displacement field in the text section: loc is the address of the     *)
(* field, next the address of the following instruction, disp its content. *)
Ref == [target : NameOpt, kind : {"short", "rel", "abs"}, loc : Int, size : {1, 4},
        next : Int, disp : Int, addend : Int]

(* One slot of ctx->fixups.                                                *)
Fixup == [label : NameOpt, location : Int, size : {4}, relative : BOOLEAN]

VARIABLES
    insts,              \* the parsed program; operands are rewritten in place
    pc,                 \* the phase of asm_assemble
    i,                  \* loop index of the phase
    current_section,
    current_address,
    data_address,       \* current_data_addr of pass 1b
    symbols,            \* ctx->symbols[0 .. symbol_count-1]
    hash,               \* ctx->symbol_hash as a map from names to entries
    text_size,
    data_size,
    refs,               \* the label-dependent fields of ctx->text_section
    fixups,
    line_map,           \* the addresses of ctx->line_map
    weak_attrs,
    hidden_attrs,
    changed,            \* changed / text_layout_changed
    iter,               \* iter / pass_iter
    mode_iter,
    converged,          \* text_mode_converged
    err                 \* why the assembly failed

vars == <<insts, pc, i, current_section, current_address, data_address, symbols,
          hash, text_size, data_size, refs, fixups, line_map, weak_attrs,
          hidden_attrs, changed, iter, mode_iter, converged, err>>

Phases == {"estimate", "labels", "equ1", "relax", "equ2", "startpass", "text",
           "encode", "attrs", "data", "dataencode", "fixups", "done", "failed"}

Errors == {"none", "reserve", "undefined_equ", "symbols_full", "equ_external",
           "attrs_full", "fixups_full", "text_full", "operand",
           "undefined_attr", "undefined", "bounds", "range"}

-----------------------------------------------------------------------------
(* Small helpers.                                                          *)

Lesser(a, b) == IF a < b THEN a ELSE b

Int8(v) == -128 <= v /\ v <= 127
Int32(v) == -2147483647 - 1 <= v /\ v <= 2147483647

PowerOfTwo(m) == m > 0 /\ \E k \in 0 .. 30 : m = 2 ^ k

(* Bytes from address a to the next multiple of alignment m.               *)
Padding(a, m) == IF m > 1 THEN (m - (a % m)) % m ELSE 0

Known(name) == name \in DOMAIN hash

InArray(name) == \E j \in DOMAIN symbols : symbols[j].name = name

find_symbol_entry(name) ==
    symbols[CHOOSE j \in DOMAIN symbols : symbols[j].name = name]

CurInst == insts[i]

HasInst == i <= Len(insts)

Fail(reason) == pc' = "failed" /\ err' = reason

-----------------------------------------------------------------------------
(* Symbol table operations, as new values of the array and of the hash.    *)

Put(h, name, entry) ==
    [m \in DOMAIN h \cup {name} |-> IF m = name THEN entry ELSE h[m]]

NewSymbol(name, addr, glob, ext, sec, fun) ==
    [name |-> name, address |-> addr, section |-> sec, is_external |-> ext,
     is_global |-> glob, is_function |-> fun, is_weak |-> FALSE,
     is_hidden |-> FALSE]

(* add_symbol succeeds when there is room and the name is new; its callers *)
(* in the passes ignore a failure.                                         *)
CanAdd(name) == Len(symbols) < MaxSymbols /\ ~Known(name)

AddToArray(name, addr, glob, ext, sec, fun) ==
    IF CanAdd(name) THEN Append(symbols, NewSymbol(name, addr, glob, ext, sec, fun))
                    ELSE symbols

AddToHash(name, addr, ext, sec) ==
    IF CanAdd(name)
      THEN Put(hash, name, [address |-> addr, section |-> sec, is_external |-> ext])
      ELSE hash

(* A pass over the code meets the label of an instruction: every array     *)
(* entry of that name moves, and the hash entry is synchronized with it.   *)
MoveInArray(name, addr) ==
    [j \in DOMAIN symbols |->
        IF symbols[j].name = name THEN [symbols[j] EXCEPT !.address = addr]
                                  ELSE symbols[j]]

(* Mutant: the hash entry is not kept in sync with the array.              *)
MoveInHash_Unsynced(name, addr) == hash

MoveInHash(name, addr) ==
    IF Known(name) /\ InArray(name)
      THEN Put(hash, name,
               [address |-> addr, section |-> find_symbol_entry(name).section,
                is_external |-> find_symbol_entry(name).is_external])
      ELSE hash

(* Mutant: only a label that moves up counts as a change.                  *)
Moves_UpOnly(name, addr) ==
    \E j \in DOMAIN symbols : symbols[j].name = name /\ symbols[j].address < addr

Moves(name, addr) ==
    \E j \in DOMAIN symbols : symbols[j].name = name /\ symbols[j].address # addr

-----------------------------------------------------------------------------
(* Sizes.                                                                  *)

estimate_instruction_size(inst) ==
    CASE inst.type \in {"op", "mem"} -> inst.est
      [] inst.type = "nop"           -> 1
      [] inst.type \in {"jmp", "call"} -> 5
      [] inst.type = "jcc"           -> 6
      [] inst.type = "load"          -> 7
      [] OTHER                       -> 15

DataSize(inst) == inst.off + IF inst.target # NoName THEN inst.tail ELSE 0

NearLength(inst) == IF inst.type = "jcc" THEN 6 ELSE 5

(* Pass 1a: the text bytes the instruction is counted for.                 *)
TextEstimate(inst) ==
    CASE inst.type = "data" -> inst.est
      [] inst.type \in {"global", "extern", "weak", "hidden", "nop"} -> 0
      [] OTHER -> estimate_instruction_size(inst)

(* Pass 1b: how far the instruction moves the address a of its section.    *)
LabelPassSize(inst, a) ==
    CASE inst.type = "data" -> DataSize(inst)
      [] inst.type = "res"  -> IF inst.form = "imm" THEN inst.n ELSE 0
      [] inst.type = "align" ->
            IF inst.form = "imm" /\ PowerOfTwo(inst.n) THEN Padding(a, inst.n) ELSE 0
      [] inst.type = "incbin" -> IF inst.n > 0 THEN inst.n ELSE 0
      [] inst.type \in {"comm", "lcomm"} ->
            IF inst.n > 0 THEN Padding(a, inst.off) + inst.n ELSE 0
      [] inst.type \in {"equ", "global", "extern", "weak", "hidden", "nop"} -> 0
      [] OTHER -> IF current_section = 0 THEN estimate_instruction_size(inst) ELSE 0

(* The relaxed estimate, with branches sized from the addresses h knows.   *)
RelaxedSize(inst, h, a) ==
    CASE inst.type \in {"global", "extern", "weak", "hidden", "equ"} -> 0
      [] inst.type = "nop" /\ inst.label # NoName -> 0
      [] inst.type = "data" -> DataSize(inst)
      [] inst.type = "res"  -> IF inst.form = "imm" THEN inst.n ELSE 0
      [] inst.type \in {"jmp", "jcc"} ->
            IF inst.target \in DOMAIN h /\ Int8(h[inst.target].address - (a + 2))
              THEN 2 ELSE NearLength(inst)
      [] OTHER -> estimate_instruction_size(inst)

-----------------------------------------------------------------------------
(* asm_init, and the start of asm_assemble after canonicalization.         *)
Init ==
    /\ insts \in Programs
    /\ pc = "estimate" /\ i = 1 /\ err = "none"
    /\ current_section = 0 /\ current_address = BaseAddress
    /\ data_address = BaseAddress
    /\ symbols = <<>> /\ hash = [m \in {} |-> 0]
    /\ text_size = 0 /\ data_size = 0
    /\ refs = <<>> /\ fixups = <<>> /\ line_map = <<>>
    /\ weak_attrs = <<>> /\ hidden_attrs = <<>>
    /\ changed = FALSE /\ iter = 0 /\ mode_iter = 0 /\ converged = FALSE

table == <<symbols, hash>>
output == <<text_size, data_size, refs, fixups, line_map>>
attrs == <<weak_attrs, hidden_attrs>>
control == <<changed, iter, mode_iter, converged>>

(* A section directive only switches the section.                          *)
apply_section_directive ==
    /\ CurInst.type = "section"
    /\ current_section' = CurInst.n
    /\ i' = i + 1

(* Pass 1a: add up the estimated text size; data will start after it.      *)
EstimateText ==
    /\ pc = "estimate" /\ HasInst
    /\ \/ /\ apply_section_directive
          /\ UNCHANGED data_address
       \/ /\ CurInst.type # "section"
          /\ data_address' = data_address
                + IF current_section = 0 THEN TextEstimate(CurInst) ELSE 0
          /\ i' = i + 1
          /\ UNCHANGED current_section
    /\ UNCHANGED <<insts, pc, err, current_address, table, output, attrs, control>>

EndEstimate ==
    /\ pc = "estimate" /\ ~HasInst
    /\ pc' = "labels" /\ i' = 1
    /\ current_section' = 0
    /\ current_address' = BaseAddress
    /\ UNCHANGED <<insts, err, data_address, table, output, attrs, control>>

(* Pass 1b: record the label, then account for the instruction's size.     *)
RecordLabel ==
    LET here == IF current_section = 0 THEN current_address ELSE data_address
        size == LabelPassSize(CurInst, here)
    IN  /\ CurInst.type # "section"
        /\ IF CurInst.label # NoName
             THEN /\ symbols' = AddToArray(CurInst.label, here, FALSE, FALSE, current_section,
                                           current_section = 0 /\ CurInst.label = StartName)
                  /\ hash' = AddToHash(CurInst.label, here, FALSE, current_section)
             ELSE UNCHANGED table
        /\ IF CurInst.type = "res" /\ CurInst.form = "imm" /\ CurInst.n < 0
             THEN /\ Fail("reserve")
                  /\ UNCHANGED <<i, current_address, data_address>>
             ELSE /\ i' = i + 1
                  /\ current_address' = current_address + IF current_section = 0 THEN size ELSE 0
                  /\ data_address' = data_address + IF current_section = 0 THEN 0 ELSE size
                  /\ UNCHANGED <<pc, err>>
        /\ UNCHANGED current_section

LabelPass ==
    /\ pc = "labels" /\ HasInst
    /\ \/ /\ apply_section_directive
          /\ UNCHANGED <<pc, err, current_address, data_address, table>>
       \/ RecordLabel
    /\ UNCHANGED <<insts, output, attrs, control>>

EndLabelPass ==
    /\ pc = "labels" /\ ~HasInst
    /\ pc' = "equ1" /\ i' = 1
    /\ UNCHANGED <<insts, err, current_section, current_address, data_address,
                   table, output, attrs, control>>

-----------------------------------------------------------------------------
(* resolve_equ_symbol_values and upsert_constant_symbol.                   *)

IsEqu(inst) == inst.type = "equ" /\ inst.label # NoName

EquSupported(inst) == inst.form \in {"imm", "label", "diff"}

EquDefined(inst) ==
    /\ inst.form \in {"label", "diff"} => Known(inst.target)
    /\ inst.form = "diff" => Known(inst.rhs)

EquValue(inst) ==
    CASE inst.form = "label" -> hash[inst.target].address
      [] inst.form = "diff"  -> hash[inst.target].address - hash[inst.rhs].address
      [] OTHER               -> inst.n

upsert_constant_symbol(name, value) ==
    \/ /\ Known(name)
       /\ IF hash[name].is_external
            THEN Fail("equ_external") /\ UNCHANGED <<symbols, hash, i>>
            ELSE /\ hash' = Put(hash, name, [address |-> value, section |-> -1,
                                             is_external |-> FALSE])
                 /\ symbols' = [j \in DOMAIN symbols |->
                        IF symbols[j].name = name
                          THEN [symbols[j] EXCEPT !.address = value, !.section = -1,
                                                  !.is_external = FALSE]
                          ELSE symbols[j]]
                 /\ i' = i + 1 /\ UNCHANGED <<pc, err>>
    \/ /\ ~Known(name)
       /\ IF CanAdd(name)
            THEN /\ symbols' = AddToArray(name, value, FALSE, FALSE, -1, FALSE)
                 /\ hash' = AddToHash(name, value, FALSE, -1)
                 /\ i' = i + 1 /\ UNCHANGED <<pc, err>>
            ELSE Fail("symbols_full") /\ UNCHANGED <<symbols, hash, i>>

ResolveEqu ==
    /\ pc \in {"equ1", "equ2"} /\ HasInst
    /\ \/ /\ ~IsEqu(CurInst)
          /\ i' = i + 1 /\ UNCHANGED <<pc, err, table>>
       \/ /\ IsEqu(CurInst) /\ ~EquSupported(CurInst)
          /\ Fail("operand") /\ UNCHANGED <<i, table>>
       \/ /\ IsEqu(CurInst) /\ EquSupported(CurInst) /\ ~EquDefined(CurInst)
          /\ Fail("undefined_equ") /\ UNCHANGED <<i, table>>
       \/ /\ IsEqu(CurInst) /\ EquSupported(CurInst) /\ EquDefined(CurInst)
          /\ upsert_constant_symbol(CurInst.label, EquValue(CurInst))
    /\ UNCHANGED <<insts, current_section, current_address, data_address, output,
                   attrs, control>>

(* The first scan is followed by relaxation, the second by the text passes *)
EndEqu ==
    /\ pc \in {"equ1", "equ2"} /\ ~HasInst
    /\ i' = 1 /\ iter' = 0
    /\ \/ /\ pc = "equ1" /\ pc' = "relax"
          /\ changed' = FALSE
          /\ current_section' = 0 /\ current_address' = BaseAddress
       \/ /\ pc = "equ2" /\ pc' = "startpass"
          /\ UNCHANGED <<changed, current_section, current_address>>
    /\ UNCHANGED <<insts, err, data_address, table, output, attrs, mode_iter, converged>>

-----------------------------------------------------------------------------
(* recompute_text_layout_relaxed: one instruction of one iteration.        *)

RelaxText ==
    LET inst == CurInst
        h == IF inst.label # NoName THEN MoveInHash(inst.label, current_address) ELSE hash
    IN  /\ inst.type # "section" /\ current_section = 0
        /\ hash' = h
        /\ IF inst.label # NoName
             THEN /\ symbols' = MoveInArray(inst.label, current_address)
                  /\ changed' = (changed \/ Moves(inst.label, current_address))
             ELSE UNCHANGED <<symbols, changed>>
        /\ current_address' = current_address + RelaxedSize(inst, h, current_address)
        /\ i' = i + 1
        /\ UNCHANGED current_section

Relax ==
    /\ pc = "relax" /\ HasInst
    /\ \/ /\ apply_section_directive
          /\ UNCHANGED <<current_address, table, changed>>
       \/ RelaxText
       \/ /\ CurInst.type # "section" /\ current_section = 1
          /\ i' = i + 1
          /\ UNCHANGED <<current_section, current_address, table, changed>>
    /\ UNCHANGED <<insts, pc, err, data_address, output, attrs, iter, mode_iter,
                   converged>>

EndRelax ==
    /\ pc = "relax" /\ ~HasInst
    /\ i' = 1 /\ current_section' = 0 /\ current_address' = BaseAddress
    /\ IF changed /\ iter + 1 < RelaxLimit
         THEN iter' = iter + 1 /\ changed' = FALSE /\ UNCHANGED pc
         ELSE pc' = "equ2" /\ UNCHANGED <<iter, changed>>
    /\ UNCHANGED <<insts, err, data_address, table, output, attrs, mode_iter, converged>>

-----------------------------------------------------------------------------
(* One text pass starts from an empty text section.                        *)
(* Mutant: the line map of the previous pass is kept.                      *)
StartTextPass_KeepLines ==
    /\ pc = "startpass"
    /\ pc' = "text" /\ i' = 1
    /\ current_address' = BaseAddress /\ current_section' = 0
    /\ text_size' = 0
    /\ fixups' = <<>> /\ refs' = <<>>
    /\ weak_attrs' = <<>> /\ hidden_attrs' = <<>>
    /\ changed' = FALSE
    /\ UNCHANGED <<insts, err, data_address, table, data_size, line_map, iter, mode_iter,
                   converged>>

StartTextPass ==
    /\ pc = "startpass"
    /\ pc' = "text" /\ i' = 1
    /\ current_address' = BaseAddress /\ current_section' = 0
    /\ text_size' = 0
    /\ fixups' = <<>> /\ refs' = <<>> /\ line_map' = <<>>
    /\ weak_attrs' = <<>> /\ hidden_attrs' = <<>>
    /\ changed' = FALSE
    /\ UNCHANGED <<insts, err, data_address, table, data_size, iter, mode_iter,
                   converged>>

(* rewrite_constant_label_operands: a label operand that names a constant  *)
(* of the table h becomes an immediate, for good.                          *)
Rewritten(inst, h) ==
    IF inst.form = "label" /\ inst.target \in DOMAIN h /\ h[inst.target].section = -1
      THEN [inst EXCEPT !.form = "imm", !.n = h[inst.target].address]
      ELSE inst

(* The label and the constant operands of the instruction, which a pass    *)
(* settles before it encodes anything.                                     *)
SettleOperands ==
    LET label == CurInst.label
        h == IF label # NoName THEN MoveInHash(label, current_address) ELSE hash
    IN  /\ hash' = h
        /\ symbols' = IF label # NoName THEN MoveInArray(label, current_address) ELSE symbols
        /\ insts' = [insts EXCEPT ![i] = Rewritten(CurInst, h)]

(* weak and hidden only collect their operand for the end of the passes.   *)
CollectAttribute ==
    LET weak == CurInst.type = "weak"
        list == IF weak THEN weak_attrs ELSE hidden_attrs
    IN  /\ CurInst.type \in {"weak", "hidden"}
        /\ \/ /\ CurInst.form # "label"
              /\ Fail("operand") /\ UNCHANGED <<i, attrs>>
           \/ /\ CurInst.form = "label" /\ Len(list) >= MaxSymbols
              /\ Fail("attrs_full") /\ UNCHANGED <<i, attrs>>
           \/ /\ CurInst.form = "label" /\ Len(list) < MaxSymbols
              /\ weak_attrs' = IF weak THEN Append(weak_attrs, CurInst.target) ELSE weak_attrs
              /\ hidden_attrs' = IF weak THEN hidden_attrs
                                         ELSE Append(hidden_attrs, CurInst.target)
              /\ i' = i + 1 /\ UNCHANGED <<pc, err>>

PlainInst == CurInst.type \notin {"section", "weak", "hidden"}

(* The head of the text pass's loop body.                                  *)
TextPass ==
    /\ pc = "text" /\ HasInst
    /\ \/ /\ apply_section_directive
          /\ UNCHANGED <<insts, pc, err, table, attrs, changed>>
       \/ /\ CollectAttribute
          /\ UNCHANGED <<insts, current_section, table, changed>>
       \/ /\ PlainInst /\ current_section = 1
          /\ i' = i + 1
          /\ UNCHANGED <<insts, pc, err, current_section, table, attrs, changed>>
       \/ /\ PlainInst /\ current_section = 0
          /\ SettleOperands
          /\ changed' = (changed \/ (CurInst.label # NoName
                                       /\ Moves(CurInst.label, current_address)))
          /\ pc' = "encode"
          /\ UNCHANGED <<i, err, current_section, attrs>>
    /\ UNCHANGED <<current_address, data_address, output, iter, mode_iter, converged>>

-----------------------------------------------------------------------------
(* encode_instruction.                                                     *)

(* encode_jmp and encode_jcc: rel8 straight from the symbol table.         *)
ShortBranch(inst, a) ==
    /\ inst.type \in {"jmp", "jcc"}
    /\ Known(inst.target)
    /\ mode_iter = 0 \/ hash[inst.target].address < a
    /\ Int8(hash[inst.target].address - (a + 2))

(* Directives whose emit_byte results are ignored.                         *)
Unchecked(inst) ==
    inst.type \in {"data", "res", "align", "incbin", "comm", "lcomm", "equ"}

EncodedLength(inst, a) ==
    CASE inst.type = "op"   -> inst.n
      [] inst.type = "nop"  -> 1
      [] inst.type \in {"jmp", "jcc"} ->
            IF ShortBranch(inst, a) THEN 2 ELSE NearLength(inst)
      [] inst.type = "call" -> 5
      [] inst.type = "load" -> IF inst.form = "imm" /\ inst.n >= 0 THEN 5 ELSE 7
      [] inst.type = "mem"  -> inst.off + 4 + inst.tail
      [] inst.type = "data" -> inst.off + IF inst.form = "imm" THEN inst.tail ELSE 0
      [] inst.type = "res"  -> IF inst.form = "imm" /\ inst.n > 0 THEN inst.n ELSE 0
      [] inst.type = "incbin" -> inst.n
      [] inst.type = "align" -> Padding(a, inst.n)
      [] inst.type \in {"comm", "lcomm"} -> Padding(a, inst.off) + inst.n
      [] OTHER -> 0

(* Mutant: a binary file that cannot be opened is not rejected.            *)
BadOperands_AnyFile(inst) ==
    \/ inst.type \in {"jmp", "jcc", "call"} /\ inst.form # "label"
    \/ inst.type = "align" /\ (inst.form # "imm" \/ ~PowerOfTwo(inst.n))
    \/ inst.type \in {"comm", "lcomm"} /\ (inst.form # "label" \/ inst.n <= 0)

(* Operands no encoder accepts.                                            *)
BadOperands(inst) ==
    \/ inst.type \in {"jmp", "jcc", "call"} /\ inst.form # "label"
    \/ inst.type = "align" /\ (inst.form # "imm" \/ ~PowerOfTwo(inst.n))
    \/ inst.type = "incbin" /\ inst.n < 0
    \/ inst.type \in {"comm", "lcomm"} /\ (inst.form # "label" \/ inst.n <= 0)

HasRef(inst) ==
    \/ inst.type \in {"jmp", "jcc", "call", "mem"}
    \/ inst.type = "load" /\ inst.form = "label"

(* Mutant: the location is taken after the placeholder was emitted.        *)
RefOffset_AfterField(inst, a) ==
    CASE inst.type = "mem"  -> inst.off + 4
      [] inst.type = "load" -> 7
      [] inst.type = "jcc" /\ ~ShortBranch(inst, a) -> 6
      [] OTHER -> 5

RefOffset(inst, a) ==
    CASE inst.type = "mem"  -> inst.off
      [] inst.type = "load" -> 3
      [] inst.type = "jcc" /\ ~ShortBranch(inst, a) -> 2
      [] OTHER -> 1

(* The displacement field the encoding of inst at a contains.              *)
RefAt(inst, a) ==
    LET short == ShortBranch(inst, a)
        addend == IF inst.type = "mem" THEN inst.n ELSE 0
    IN  [target |-> inst.target,
         kind |-> IF short THEN "short" ELSE IF inst.form = "abs" THEN "abs" ELSE "rel",
         loc |-> a + RefOffset(inst, a),
         size |-> IF short THEN 1 ELSE 4,
         next |-> a + EncodedLength(inst, a),
         disp |-> IF short THEN hash[inst.target].address - (a + 2) ELSE addend,
         addend |-> addend]

(* add_fixup, add_fixup_rip_relative and add_controlflow_fixup.            *)
(* Mutant: the absolute form is resolved like the relative one.            *)
FixupFor_AllRelative(ref) ==
    [label |-> ref.target, location |-> ref.loc, size |-> 4, relative |-> TRUE]

FixupFor(ref) ==
    [label |-> ref.target, location |-> ref.loc, size |-> 4,
     relative |-> ref.kind = "rel"]

NeedsFixup(inst, a) == HasRef(inst) /\ ~ShortBranch(inst, a)

-----------------------------------------------------------------------------
(* The rest of the text pass's loop body, one action per kind of work.     *)

NextInst == pc' = "text" /\ i' = i + 1 /\ UNCHANGED err

(* Frame of the actions that emit nothing.                                 *)
NothingEmitted == UNCHANGED <<current_address, output>>

EncodeFrame == UNCHANGED <<insts, current_section, data_address, data_size, attrs, control>>

(* global marks the array entry only.                                      *)
MarkGlobal ==
    /\ pc = "encode" /\ CurInst.type = "global"
    /\ symbols' = [j \in DOMAIN symbols |->
          IF CurInst.form = "label" /\ symbols[j].name = CurInst.target
            THEN [symbols[j] EXCEPT !.is_global = TRUE,
                                    !.is_function = @ \/ symbols[j].section = 0]
            ELSE symbols[j]]
    /\ NextInst
    /\ NothingEmitted /\ EncodeFrame /\ UNCHANGED hash

(* extern enters the symbol at address 0; repeats are refused, silently.   *)
DeclareExtern ==
    /\ pc = "encode" /\ CurInst.type = "extern"
    /\ IF CurInst.form = "label"
         THEN /\ symbols' = AddToArray(CurInst.target, 0, FALSE, TRUE, 0, FALSE)
              /\ hash' = AddToHash(CurInst.target, 0, TRUE, 0)
         ELSE UNCHANGED table
    /\ NextInst
    /\ NothingEmitted /\ EncodeFrame

(* A nop that carries a label is taken for a line with only a label.       *)
SkipLabelOnly ==
    /\ pc = "encode" /\ CurInst.type = "nop" /\ CurInst.label # NoName
    /\ NextInst
    /\ NothingEmitted /\ EncodeFrame /\ UNCHANGED table

Encodes(inst) ==
    /\ inst.type \notin {"global", "extern"}
    /\ inst.type = "nop" => inst.label = NoName

RecordLine ==
    line_map' = IF Len(line_map) < MaxLineMap THEN Append(line_map, current_address)
                                              ELSE line_map

(* call marks its target as a function before it is encoded.               *)
MarkCallee ==
    symbols' = [j \in DOMAIN symbols |->
        IF /\ CurInst.type = "call" /\ CurInst.form = "label"
           /\ symbols[j].name = CurInst.target /\ symbols[j].section = 0
          THEN [symbols[j] EXCEPT !.is_function = TRUE] ELSE symbols[j]]

EmitText(k) ==
    /\ text_size' = text_size + k
    /\ current_address' = current_address + k

(* Mutant: no capacity check.                                              *)
TextRoom_Unbounded(k) == k

TextRoom(k) == Lesser(k, TextCapacity - text_size)

(* A machine instruction: every emit_byte is checked, and a full text      *)
(* section or a full fixup list ends the assembly.                         *)
EncodeMachine ==
    LET inst == CurInst
        a == current_address
        len == EncodedLength(inst, a)
        got == TextRoom(len)
        fixes == NeedsFixup(inst, a) /\ got >= RefOffset(inst, a)
        full == fixes /\ Len(fixups) >= MaxSymbols
    IN  /\ pc = "encode" /\ Encodes(inst) /\ ~Unchecked(inst) /\ ~BadOperands(inst)
        /\ RecordLine /\ MarkCallee
        /\ fixups' = IF fixes /\ ~full THEN Append(fixups, FixupFor(RefAt(inst, a)))
                                       ELSE fixups
        /\ \/ /\ full
              /\ EmitText(RefOffset(inst, a))
              /\ Fail("fixups_full") /\ UNCHANGED <<i, refs>>
           \/ /\ ~full /\ got < len
              /\ EmitText(got)
              /\ Fail("text_full") /\ UNCHANGED <<i, refs>>
           \/ /\ ~full /\ got = len
              /\ EmitText(len)
              /\ refs' = IF HasRef(inst) THEN Append(refs, RefAt(inst, a)) ELSE refs
              /\ NextInst
        /\ EncodeFrame /\ UNCHANGED hash

(* A directive: what does not fit is dropped without an error.             *)
EncodeDirective ==
    LET inst == CurInst
    IN  /\ pc = "encode" /\ Unchecked(inst) /\ ~BadOperands(inst)
        /\ RecordLine
        /\ EmitText(TextRoom(EncodedLength(inst, current_address)))
        /\ IF inst.type \in {"comm", "lcomm"}
             THEN LET a == current_address + Padding(current_address, inst.off)
                  IN  /\ symbols' = AddToArray(inst.target, a, inst.type = "comm", FALSE, 1, FALSE)
                      /\ hash' = AddToHash(inst.target, a, FALSE, 1)
             ELSE UNCHANGED table
        /\ NextInst
        /\ EncodeFrame /\ UNCHANGED <<refs, fixups>>

EncodeRejected ==
    /\ pc = "encode" /\ BadOperands(CurInst)
    /\ RecordLine /\ MarkCallee
    /\ Fail("operand")
    /\ EncodeFrame /\ UNCHANGED <<i, hash, current_address, text_size, refs, fixups>>

(* The end of a text pass: stop when no label moved, fall back to the      *)
(* conservative mode after PassLimit passes, and give up, keeping the last *)
(* output, after PassLimit more.                                           *)
(* Mutant: the conservative mode has no cut-off.                           *)
EndTextPass_NoCutoff ==
    /\ pc = "text" /\ ~HasInst
    /\ i' = 1
    /\ IF changed
         THEN /\ pc' = "startpass"
              /\ mode_iter' = IF iter + 1 < PassLimit THEN mode_iter ELSE 1
              /\ iter' = IF iter + 1 < PassLimit THEN iter + 1 ELSE 0
              /\ UNCHANGED converged
         ELSE pc' = "attrs" /\ converged' = TRUE /\ UNCHANGED <<iter, mode_iter>>
    /\ UNCHANGED <<insts, err, current_section, current_address, data_address, table,
                   output, attrs, changed>>

EndTextPass ==
    /\ pc = "text" /\ ~HasInst
    /\ i' = 1
    /\ \/ /\ ~changed
          /\ pc' = "attrs" /\ converged' = TRUE
          /\ UNCHANGED <<iter, mode_iter>>
       \/ /\ changed /\ iter + 1 < PassLimit
          /\ pc' = "startpass" /\ iter' = iter + 1
          /\ UNCHANGED <<mode_iter, converged>>
       \/ /\ changed /\ iter + 1 >= PassLimit /\ mode_iter = 0
          /\ pc' = "startpass" /\ mode_iter' = 1 /\ iter' = 0
          /\ UNCHANGED converged
       \/ /\ changed /\ iter + 1 >= PassLimit /\ mode_iter = 1
          /\ pc' = "attrs"
          /\ UNCHANGED <<iter, mode_iter, converged>>
    /\ UNCHANGED <<insts, err, current_section, current_address, data_address, table,
                   output, attrs, changed>>

-----------------------------------------------------------------------------
(* apply_symbol_attributes, first for the weak list, then the hidden one.  *)

ApplyAttribute ==
    LET weak == i <= Len(weak_attrs)
        name == IF weak THEN weak_attrs[i] ELSE hidden_attrs[i - Len(weak_attrs)]
    IN  /\ pc = "attrs" /\ i <= Len(weak_attrs) + Len(hidden_attrs)
        /\ IF InArray(name)
             THEN /\ symbols' = [j \in DOMAIN symbols |->
                        IF symbols[j].name = name
                          THEN [symbols[j] EXCEPT !.is_weak = @ \/ weak,
                                                  !.is_hidden = @ \/ ~weak]
                          ELSE symbols[j]]
                  /\ i' = i + 1 /\ UNCHANGED <<pc, err>>
             ELSE Fail("undefined_attr") /\ UNCHANGED <<i, symbols>>
        /\ UNCHANGED <<insts, current_section, current_address, data_address, hash,
                       output, attrs, control>>

(* The data section starts right after the text that was emitted.          *)
(* Mutant: the data section is laid over the text.                         *)
EndAttributes_AtBase ==
    /\ pc = "attrs" /\ i > Len(weak_attrs) + Len(hidden_attrs)
    /\ pc' = "data" /\ i' = 1
    /\ current_section' = 0 /\ data_size' = 0
    /\ current_address' = BaseAddress
    /\ UNCHANGED <<insts, err, data_address, table, text_size, refs, fixups, line_map,
                   attrs, control>>

EndAttributes ==
    /\ pc = "attrs" /\ i > Len(weak_attrs) + Len(hidden_attrs)
    /\ pc' = "data" /\ i' = 1
    /\ current_section' = 0 /\ data_size' = 0
    /\ current_address' = BaseAddress + text_size
    /\ UNCHANGED <<insts, err, data_address, table, text_size, refs, fixups, line_map,
                   attrs, control>>

-----------------------------------------------------------------------------
(* The data pass.                                                          *)

(* Mutant: the data pass does not skip the text section.                   *)
DataPass_AllSections ==
    /\ pc = "data" /\ HasInst
    /\ \/ /\ apply_section_directive
          /\ UNCHANGED <<insts, pc, table>>
       \/ /\ CurInst.type # "section"
          /\ SettleOperands
          /\ pc' = "dataencode"
          /\ UNCHANGED <<i, current_section>>
    /\ UNCHANGED <<err, current_address, data_address, output, attrs, control>>

DataPass ==
    /\ pc = "data" /\ HasInst
    /\ \/ /\ apply_section_directive
          /\ UNCHANGED <<insts, pc, table>>
       \/ /\ CurInst.type # "section" /\ current_section = 0
          /\ i' = i + 1
          /\ UNCHANGED <<insts, pc, current_section, table>>
       \/ /\ CurInst.type # "section" /\ current_section = 1
          /\ SettleOperands
          /\ pc' = "dataencode"
          /\ UNCHANGED <<i, current_section>>
    /\ UNCHANGED <<err, current_address, data_address, output, attrs, control>>

DataTypes == {"data", "res", "align", "incbin", "comm", "lcomm"}

DataEncode ==
    LET inst == CurInst
        a == current_address
        got == IF inst.type \in DataTypes
                 THEN Lesser(EncodedLength(inst, a), DataCapacity - data_size) ELSE 0
    IN  /\ pc = "dataencode"
        /\ IF inst.type \in DataTypes /\ BadOperands(inst)
             THEN /\ Fail("operand")
                  /\ UNCHANGED <<i, table, data_size, current_address>>
             ELSE /\ data_size' = data_size + got
                  /\ current_address' = a + got
                  /\ IF inst.type \in {"comm", "lcomm"}
                       THEN LET p == a + Padding(a, inst.off)
                            IN  /\ symbols' = AddToArray(inst.target, p, inst.type = "comm",
                                                         FALSE, 1, FALSE)
                                /\ hash' = AddToHash(inst.target, p, FALSE, 1)
                       ELSE UNCHANGED table
                  /\ pc' = "data" /\ i' = i + 1 /\ UNCHANGED err
        /\ UNCHANGED <<insts, current_section, data_address, text_size, refs, fixups,
                       line_map, attrs, control>>

EndDataPass ==
    /\ pc = "data" /\ ~HasInst
    /\ pc' = "fixups" /\ i' = 1
    /\ UNCHANGED <<insts, err, current_section, current_address, data_address, table,
                   output, attrs, control>>

-----------------------------------------------------------------------------
(* resolve_fixups: one fixup.  The value is relative to the end of the     *)
(* 4-byte field, and is added to what the field already holds.             *)

ResolveFixup ==
    LET f == fixups[i]
        target == hash[f.label].address
        base == IF f.relative THEN target - (f.location + f.size) ELSE target
        Field(k) == refs[k].loc = f.location
        value(k) == base + refs[k].disp
    IN  /\ pc = "fixups" /\ i <= Len(fixups)
        /\ \/ /\ ~Known(f.label)
              /\ Fail("undefined") /\ UNCHANGED <<i, refs>>
           \/ /\ Known(f.label)
              /\ f.location - BaseAddress + f.size > text_size
              /\ Fail("bounds") /\ UNCHANGED <<i, refs>>
           \/ /\ Known(f.label)
              /\ f.location - BaseAddress + f.size <= text_size
              /\ \E k \in DOMAIN refs : Field(k) /\ ~Int32(value(k))
              /\ Fail("range") /\ UNCHANGED <<i, refs>>
           \/ /\ Known(f.label)
              /\ f.location - BaseAddress + f.size <= text_size
              /\ \A k \in DOMAIN refs : Field(k) => Int32(value(k))
              /\ refs' = [k \in DOMAIN refs |->
                            IF Field(k) THEN [refs[k] EXCEPT !.disp = value(k)] ELSE refs[k]]
              /\ i' = i + 1 /\ UNCHANGED <<pc, err>>
        /\ UNCHANGED <<insts, current_section, current_address, data_address, table,
                       text_size, data_size, fixups, line_map, attrs, control>>

EndFixups ==
    /\ pc = "fixups" /\ i > Len(fixups)
    /\ pc' = "done"
    /\ UNCHANGED <<insts, i, err, current_section, current_address, data_address, table,
                   output, attrs, control>>

Finished == pc \in {"done", "failed"} /\ UNCHANGED vars

Passes ==
    \/ EstimateText \/ EndEstimate \/ LabelPass \/ EndLabelPass
    \/ ResolveEqu \/ EndEqu \/ Relax \/ EndRelax
    \/ StartTextPass \/ TextPass
    \/ MarkGlobal \/ DeclareExtern \/ SkipLabelOnly
    \/ EncodeMachine \/ EncodeDirective \/ EncodeRejected \/ EndTextPass
    \/ ApplyAttribute \/ EndAttributes \/ DataPass \/ DataEncode \/ EndDataPass
    \/ ResolveFixup \/ EndFixups

Next == Passes \/ Finished

Spec == Init /\ [][Next]_vars

(* asm_assemble is one sequential function: it runs until it returns.      *)
FairSpec == Spec /\ WF_vars(Passes)

-----------------------------------------------------------------------------
(***************************************************************************)
(* Properties.                                                             *)
(***************************************************************************)

(* Type invariant of the assembler context.                                *)
TypeOK ==
    /\ insts \in Seq(Inst)
    /\ pc \in Phases /\ err \in Errors
    /\ i \in Nat \ {0} /\ iter \in Nat /\ mode_iter \in {0, 1}
    /\ current_section \in {0, 1}
    /\ current_address \in Int /\ data_address \in Int
    /\ symbols \in Seq(Symbol)
    /\ DOMAIN hash \subseteq Names
    /\ hash \in [DOMAIN hash -> HashEntry]
    /\ text_size \in Nat /\ data_size \in Nat
    /\ refs \in Seq(Ref) /\ fixups \in Seq(Fixup) /\ line_map \in Seq(Int)
    /\ weak_attrs \in Seq(Names) /\ hidden_attrs \in Seq(Names)
    /\ changed \in BOOLEAN /\ converged \in BOOLEAN

(* The two copies of the symbol table agree: the array has no name twice,  *)
(* holds exactly the names of the hash, and gives each the address, section*)
(* and externality that lookups through the hash see.                      *)
HashArrayAgree ==
    /\ \A j, k \in DOMAIN symbols : symbols[j].name = symbols[k].name => j = k
    /\ \A j \in DOMAIN symbols :
          /\ symbols[j].name \in DOMAIN hash
          /\ hash[symbols[j].name] =
                [address |-> symbols[j].address, section |-> symbols[j].section,
                 is_external |-> symbols[j].is_external]
    /\ \A name \in DOMAIN hash : InArray(name)

(* The instruction at index j lies in the data section.                    *)
InData(j) ==
    \E k \in 1 .. j - 1 :
        /\ insts[k].type = "section" /\ insts[k].n = 1
        /\ \A m \in k + 1 .. j - 1 : insts[m].type # "section"

(* Some line of the data section defines name.                             *)
DataLabel(name) ==
    \E j \in DOMAIN insts :
        insts[j].type # "section" /\ insts[j].label = name /\ InData(j)

(* When the text passes converge, a rel8 branch emitted from the addresses *)
(* known at that moment still lands on its label in the finished output,   *)
(* unless the label is in the data section, which moves afterwards         *)
(* (encode_jmp and encode_jcc write rel8 without a fixup).                 *)
ConvergedBranchesLand ==
    (pc = "done" /\ converged) =>
        \A k \in DOMAIN refs :
            (refs[k].kind = "short" /\ ~DataLabel(refs[k].target)) =>
                refs[k].next + refs[k].disp = hash[refs[k].target].address

(* Some instruction has an immediate behind the field of its [rip + name]. *)
ImmediateBehind(name) ==
    \E j \in DOMAIN insts :
        /\ insts[j].type = "mem" /\ insts[j].form = "rip"
        /\ insts[j].target = name /\ insts[j].tail > 0

(* In the finished output every 32-bit field holds the final address of    *)
(* its symbol plus the addend, absolute or, as the processor reads it,     *)
(* from the end of the instruction (resolve_fixups runs after the last     *)
(* label has moved).  resolve_fixups measures from the end of the field,   *)
(* which is too early when an immediate follows: those symbols are left to *)
(* RipFieldsFromInstructionEnd in MCAssembler.                             *)
FixedFieldsLand ==
    pc = "done" =>
        \A k \in DOMAIN refs :
            /\ refs[k].kind # "short" => Known(refs[k].target)
            /\ (refs[k].kind = "rel" /\ ~ImmediateBehind(refs[k].target)) =>
                  refs[k].next + refs[k].disp
                      = hash[refs[k].target].address + refs[k].addend
            /\ refs[k].kind = "abs" =>
                  refs[k].disp = hash[refs[k].target].address + refs[k].addend

(* The "Fixup location out of bounds" error of resolve_fixups is dead      *)
(* code: a fixup is only kept when the bytes it patches were emitted.      *)
FixupsInBounds == err # "bounds"

(* The buffers of fixed capacity are never overrun.                        *)
WithinCapacity ==
    /\ text_size <= TextCapacity /\ data_size <= DataCapacity
    /\ Len(symbols) <= MaxSymbols /\ Len(fixups) <= MaxSymbols
    /\ Len(line_map) <= MaxLineMap

(* The line map is sorted by address and stays within the emitted text, as *)
(* the DWARF line program built from it requires (advances are unsigned).  *)
LineMapSorted ==
    /\ \A j, k \in DOMAIN line_map : j < k => line_map[j] <= line_map[k]
    /\ \A j \in DOMAIN line_map : line_map[j] \in BaseAddress .. BaseAddress + text_size

(* name is defined by exactly one line and by no extern or comm.           *)
DefinedOnce(name, j) ==
    /\ insts[j].label = name
    /\ insts[j].type \notin {"section", "equ", "weak", "hidden"}
    /\ \A k \in DOMAIN insts :
          /\ k # j => insts[k].label # name
          /\ insts[k].type \in {"extern", "comm", "lcomm"} => insts[k].target # name

(* In the finished output a text label lies inside the text and a data     *)
(* label inside the data that follows it, whatever the earlier estimates   *)
(* of the text size were.                                                  *)
LabelsLandInSection ==
    pc = "done" =>
        \A j \in DOMAIN insts : \A name \in DOMAIN hash :
            DefinedOnce(name, j) =>
                IF InData(j)
                  THEN hash[name].address \in
                         BaseAddress + text_size .. BaseAddress + text_size + data_size
                  ELSE hash[name].address \in BaseAddress .. BaseAddress + text_size

(* Once the text passes are over no text label moves, no emitted text byte *)
(* is added or dropped and no reference is retargeted: only data labels    *)
(* move, and only displacement fields are patched.                         *)
TextFrozenStep ==
    pc \in {"attrs", "data", "dataencode", "fixups"} =>
        /\ text_size' = text_size /\ Len(refs') = Len(refs)
        /\ \A k \in DOMAIN refs : refs'[k].target = refs[k].target
                                   /\ refs'[k].next = refs[k].next
        /\ \A name \in DOMAIN hash :
              ~DataLabel(name) => hash'[name] = hash[name]
TextFrozen == [][TextFrozenStep]_vars

(* asm_assemble returns for every program, converging or not: both modes   *)
(* of the text passes and the relaxation are cut off.                      *)
Terminates == <>(pc \in {"done", "failed"})

=============================================================================
