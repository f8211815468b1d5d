-------------------------------- MODULE Codec --------------------------------
(***************************************************************************)
(* From instructions to bytes and back: the encoders write the text        *)
(* section, the disassembler prints it.                                    *)
(***************************************************************************)
EXTENDS ControlFlow, Disassembler

CONSTANT Programs       \* the sequences of instructions considered

Inst(type, cc, ops) == [type |-> type, cc |-> cc, ops |-> ops]

VARIABLES
    source,             \* the instructions
    ends                \* where the bytes of each one end, for those encoded

vars == <<source, ends, dis_vars>>

Init ==
    /\ source \in Programs /\ ends = <<>>
    /\ code = <<>> /\ offset = 0 /\ cursor = 0 /\ override = FALSE /\ rex = 0
    /\ rows = <<>> /\ pc = "encode"

Encode ==
    /\ pc = "encode" /\ Len(ends) < Len(source)
    /\ LET bytes == encode_instruction(source[Len(ends) + 1])
       IN  \/ /\ bytes # Rejected
              /\ code' = code \o bytes /\ ends' = Append(ends, Len(code) + Len(bytes))
              /\ pc' = pc
           \/ bytes = Rejected /\ pc' = "failed" /\ UNCHANGED <<code, ends>>
    /\ UNCHANGED <<source, offset, cursor, override, rex, rows>>

Disassemble ==
    /\ pc = "encode" /\ Len(ends) = Len(source)
    /\ pc' = "row"
    /\ UNCHANGED <<source, ends, code, offset, cursor, override, rex, rows>>

Decode == DecodeNext /\ UNCHANGED <<source, ends>>

Finished == pc \in {"done", "failed", "abandoned"} /\ UNCHANGED vars

Next == Encode \/ Disassemble \/ Decode \/ Finished

Spec == Init /\ [][Next]_vars
-----------------------------------------------------------------------------
(***************************************************************************)
(* The reference: what a row has to show for an instruction.               *)
(***************************************************************************)
Begin(k) == IF k = 1 THEN 0 ELSE ends[k - 1]

AddressOf(mem) ==
    Address(IF mem.has_base THEN mem.base ELSE NoReg, IF mem.has_index THEN mem.index ELSE NoReg,
            mem.scale, mem.displacement, mem.is_rip_relative)

\* An immediate is shown in the width of its field, which may be less than that of
\* the operand it is extended to.
Shows(shown, op, end) ==
    CASE op.type = "reg" -> shown = [reg |-> op.reg, size |-> op.size]
      [] op.type = "mem" -> shown = AddressOf(op.mem)
      [] op.type = "imm" -> /\ DOMAIN shown = {"imm"}
                            /\ shown.imm = Low(op.imm, Len(shown.imm))
      [] OTHER -> shown = [target |-> end + Int32(Low(op.imm, 4))]

\* The form in which the encoders read an instruction: a 64-bit register that is
\* set to an unsigned 32-bit number is set through its lower half, and a label as
\* the source of mov is a place in memory.
Canonical(inst) ==
    LET dst == inst.ops[1]
        src == inst.ops[2]
    IN  CASE inst.type = "mov" /\ Shape(inst) = <<"reg", "imm">> /\ fits_u32(src.imm)
             /\ dst.size = "64" -> [inst EXCEPT !.ops[1].size = "32"]
          [] inst.type = "mov" /\ Shape(inst) = <<"reg", "label">> ->
                [inst EXCEPT !.ops[2] = Mem([NoMem EXCEPT !.is_rip_relative = TRUE,
                                             !.displacement = Int32(Low(src.imm, 4))], "default")]
          [] inst.type = "sal" -> [inst EXCEPT !.type = "shl"]
          [] OTHER -> inst

ShownBy(row, inst, k) ==
    LET form == Canonical(inst)
    IN  /\ row.at = Begin(k) /\ row.len = ends[k] - Begin(k)
        /\ row.text.mn = form.type /\ row.text.cc = form.cc
        /\ Len(row.text.ops) = Len(form.ops)
        /\ \A j \in DOMAIN form.ops : Shows(row.text.ops[j], form.ops[j], ends[k])
-----------------------------------------------------------------------------
(***************************************************************************)
(* The forms of the slices A, B and C of docs/DISASSEMBLER_DESIGN.md that  *)
(* the decoder has and the encoders get right.  Left out are operands      *)
(* smaller than 32 bits where an encoder has no form for them, the short   *)
(* forms of the accumulator, shifts by one and by cl, and the extended     *)
(* registers in forms whose prefix does not reach them, immediates that    *)
(* are cut to the field, and r12 as an index, which is shown as none: the  *)
(* decoder takes the 4 in SIB for "no index" before it adds REX.X.         *)
(***************************************************************************)
Sizes(inst) == {inst.ops[k].size : k \in {j \in DOMAIN inst.ops : inst.ops[j].type = "reg"}}
Wide(inst)  == Sizes(inst) \subseteq {"32"} \/ Sizes(inst) \subseteq {"64"}
ByteReg(op) == op.type = "reg" => (op.size = "8" /\ op.reg \notin 4..7) \/ op.size = "8H"
GoodMem(op) ==
    op.type = "mem" =>
        /\ op.seg = "default"
        /\ op.mem.has_index =>
              op.mem.index \notin {4, 12} /\ (op.mem.base % 8 = 5 => op.mem.has_displacement)

RegImmCovered(dst, imm) ==
    /\ dst.size = "64" \/ (dst.size = "32" /\ dst.reg < 8)
    /\ dst.reg = 0 => fits8(imm)

Covered(inst) ==
    LET s == Shape(inst)
        dst == inst.ops[1]
        src == inst.ops[2]
    IN  /\ \A k \in DOMAIN inst.ops : GoodMem(inst.ops[k])
        /\ \A k \in DOMAIN inst.ops :
              inst.ops[k].type = "imm" /\ ~ (inst.type = "mov" /\ dst.type = "reg")
                  => fits_signed32(inst.ops[k].imm)
        /\ CASE inst.type = "mov" ->
                  CASE s = <<"reg", "imm">> ->
                         \/ dst.size \in {"16", "32"} /\ dst.reg < 8
                         \/ dst.size = "64" /\ (dst.reg < 8 \/ fits_u32(src.imm)
                                                \/ fits_signed32(src.imm))
                    [] s = <<"reg", "label">> -> dst.size = "64"
                    [] OTHER -> Wide(inst)
             [] inst.type \in {"push", "pop"} -> Sizes(inst) \subseteq {"64"}
             [] inst.type \in {"add", "sub", "cmp", "xor", "and", "or", "adc", "sbb"} ->
                  IF s = <<"reg", "imm">> THEN RegImmCovered(dst, src.imm)
                  ELSE Wide(inst) /\ (inst.type \in {"adc", "sbb"} => src.type = "imm")
             [] inst.type \in {"inc", "dec", "not", "neg", "bsf", "bsr", "bt", "bts", "btr", "btc"} ->
                  Wide(inst)
             [] inst.type \in {"lea", "cmov", "j", "nop", "leave", "syscall"} -> TRUE
             [] inst.type \in {"jmp", "call"} -> Sizes(inst) \subseteq {"64"}
             [] inst.type = "ret" -> s = <<>>
             [] inst.type = "set" -> ByteReg(dst)
             [] inst.type = "imul" -> Len(s) = 2 /\ Wide(inst)
             [] inst.type = "test" ->
                  IF s = <<"reg", "imm">>
                  THEN IF Wide(inst) THEN dst.reg # 0 ELSE dst.size = "8" /\ ByteReg(dst)
                  ELSE Wide(inst)
             [] inst.type \in {"rol", "ror", "shl", "sal", "shr", "sar"} ->
                  /\ Len(s) = 2 /\ src.type = "imm" /\ Low(src.imm, 4) # <<1, 0, 0, 0>>
                  /\ Wide(inst) \/ (dst.size = "8" /\ ByteReg(dst))
             [] OTHER -> FALSE
-----------------------------------------------------------------------------
(* Properties.                                                              *)

\* The rows cover the section from its beginning without gap or overlap, whatever
\* is data, unknown or cut off in it, and none reaches behind the end.  Only data can
\* make the disassembler give up before it: the instruction would have to begin with
\* more prefixes than any encoder writes, five at least.
RowsTileCode ==
    /\ offset <= Len(code)
    /\ \A k \in DOMAIN rows :
        /\ rows[k].at = IF k = 1 THEN 0 ELSE rows[k - 1].at + rows[k - 1].len
        /\ rows[k].len >= 1
    /\ rows # <<>> => rows[Len(rows)].at + rows[Len(rows)].len = offset
    /\ pc = "done" => offset = Len(code)
    /\ pc = "abandoned" =>
        /\ \A p \in offset..(offset + 4) : PrefixByte(Byte(p))
        /\ \E j \in DOMAIN source : source[j].type \in DOMAIN DataWidth

\* Instructions of the covered forms come back: one row for each, with exactly its
\* bytes, its mnemonic, its registers, its address and its target, so that the
\* decoder is where the next instruction begins.
RoundTrip ==
    (pc \in {"done", "abandoned"} /\ \A k \in DOMAIN source : Covered(source[k])) =>
        /\ Len(rows) = Len(source)
        /\ \A k \in DOMAIN source : ShownBy(rows[k], source[k], k)

\* The processor drops a REX prefix that another prefix follows: in everything the
\* encoders accept, the prefixes of segment, size and SSE come first, REX is the
\* last, and there is one of them.
RexIsLastPrefix ==
    \A k \in DOMAIN ends :
        source[k].type \notin DOMAIN DataWidth =>
            LET bytes == SubSeq(code, Begin(k) + 1, ends[k])
                isRex(j) == bytes[j] \in \h40..\h4F
                isLegacy(j) == bytes[j] \in {\h66, \hF2, \hF3, \h64, \h65}
                lead == {j \in DOMAIN bytes : \A i \in 1..j : isRex(i) \/ isLegacy(i)}
            IN  \A j \in lead : isRex(j) => j + 1 \notin lead

=============================================================================
