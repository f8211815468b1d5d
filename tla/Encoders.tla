------------------------------ MODULE Encoders ------------------------------
(***************************************************************************)
(* encode_instruction: the bytes of an instruction, encoder by encoder.    *)
(*                                                                         *)
(* An instruction has a type, a condition (of jcc, setcc and cmov) and     *)
(* operands.  An immediate is the sequence of the eight bytes of its       *)
(* int64_t, lowest first, so that the casts of the code take a prefix of   *)
(* it.  A label stands for the bytes that the fixup writes in the end;     *)
(* near says whether the branch knows its target when it is encoded.       *)
(* An encoder that returns -1 gives Rejected: nothing it has emitted is    *)
(* ever used, since the assembly ends.                                     *)
(***************************************************************************)
EXTENDS ModRM, FiniteSets

Rejected == <<>>

Zero == <<0, 0, 0, 0, 0, 0, 0, 0>>
None == [type |-> "none", reg |-> 0, size |-> "64", mem |-> NoMem, seg |-> "default",
         imm |-> Zero, near |-> FALSE]
Reg(r, size)   == [None EXCEPT !.type = "reg", !.reg = r, !.size = size]
Mem(mem, seg)  == [None EXCEPT !.type = "mem", !.mem = mem, !.seg = seg]
Imm(bytes)     == [None EXCEPT !.type = "imm", !.imm = bytes]
Label(rel, near) == [None EXCEPT !.type = "label", !.imm = rel, !.near = near]
Digit(d)       == [None EXCEPT !.reg = d]

is_xmm_reg(op) == op.type = "reg" /\ op.reg \in 16..31
XMM8 == 24

Shape(inst) == [k \in DOMAIN inst.ops |-> inst.ops[k].type]

\* The casts of an immediate, and the ranges it is compared with.
Low(imm, n) == SubSeq(imm, 1, n)
Extends(imm, n, m) == \A k \in (n + 1)..m : imm[k] = IF imm[n] >= 128 THEN 255 ELSE 0
fits8(imm) == Extends(imm, 1, 4)
fits_signed32(imm) == Extends(imm, 4, 8)
fits_u32(imm) == \A k \in 5..8 : imm[k] = 0
-----------------------------------------------------------------------------
(* What the encoders share.                                                 *)

Bit(b, v) == IF b THEN v ELSE 0
make_rex(w, r, x, b) == \h40 + Bit(w, 8) + Bit(r, 4) + Bit(x, 2) + Bit(b, 1)

needs_rex(op) ==
    \/ op.type = "reg" /\ (op.reg >= 8 \/ (op.size = "8" /\ op.reg >= 4))
    \/ op.type = "mem" /\ (op.mem.base >= 8 \/ op.mem.index >= 8)

check_rex_conflict(op1, op2) ==
    /\ \E op \in {op1, op2} : op.type = "reg" /\ op.size = "8H"
    /\ \E op \in {op1, op2} : needs_rex(op)

(* Mutant: the index register of an address has no bit of its own. *)
RexFor_NoIndex(w, reg_op, rm_op, extended) ==
    LET r == reg_op.type = "reg" /\ reg_op.reg >= extended
        b == \/ rm_op.type = "reg" /\ rm_op.reg >= extended
             \/ rm_op.type = "mem" /\ rex_bits(rm_op.mem).b
    IN  IF w \/ r \/ b THEN <<make_rex(w, r, FALSE, b)>> ELSE <<>>

\* extended is the first register number that has the bit set: 8, or xmm8.
RexFor(w, reg_op, rm_op, extended) ==
    LET r == reg_op.type = "reg" /\ reg_op.reg >= extended
        x == rm_op.type = "mem" /\ rex_bits(rm_op.mem).x
        b == \/ rm_op.type = "reg" /\ rm_op.reg >= extended
             \/ rm_op.type = "mem" /\ rex_bits(rm_op.mem).b
    IN  IF w \/ r \/ x \/ b THEN <<make_rex(w, r, x, b)>> ELSE <<>>

emit_rex(w, reg_op, rm_op) == RexFor(w, reg_op, rm_op, 8)

\* emit_modrm_sib takes registers and memory.
Encodable(rm_op) ==
    rm_op.type = "reg" \/ (rm_op.type = "mem" /\ EncoderError(rm_op.mem) = "none")
ModRMOf(reg_op, rm_op) ==
    IF rm_op.type = "reg" THEN <<make_modrm(3, reg_op.reg, rm_op.reg)>>
    ELSE emit_modrm_sib(rm_op.mem, reg_op.reg)

\* Prefix, REX, opcode, ModRM and what follows: the order of every encoder.
Emit(prefix, w, opcode, reg_op, rm_op, tail) ==
    IF Encodable(rm_op)
    THEN prefix \o emit_rex(w, reg_op, rm_op) \o opcode \o ModRMOf(reg_op, rm_op) \o tail
    ELSE Rejected

\* The size of the operation: that of the first register, and 64 bits without one.
SizeOf(ops) ==
    IF ops[1].type = "reg" THEN ops[1].size
    ELSE IF Len(ops) > 1 /\ ops[2].type = "reg" THEN ops[2].size ELSE "64"
DestSize(ops) == IF ops[1].type = "reg" THEN ops[1].size ELSE "64"
-----------------------------------------------------------------------------
(* x86_64_encoder.c.                                                        *)

\* The short forms put the register into the opcode, and only two of the prefixes
\* in front of them carry its high bit where the processor looks for it.
mov_reg_imm(dst, imm) ==
    LET low == dst.reg % 8
    IN  CASE dst.size = "64" /\ fits_u32(imm) ->
                (IF dst.reg >= 8 THEN <<make_rex(FALSE, FALSE, FALSE, TRUE)>> ELSE <<>>)
                \o <<\hB8 + low>> \o Low(imm, 4)
          [] dst.size = "64" /\ ~ fits_u32(imm) /\ ~ fits_signed32(imm) ->
                emit_rex(TRUE, dst, None) \o <<\hB8 + low>> \o imm
          [] dst.size = "64" /\ ~ fits_u32(imm) /\ fits_signed32(imm) ->
                Emit(<<>>, TRUE, <<\hC7>>, Digit(0), dst, Low(imm, 4))
          [] dst.size = "32" -> emit_rex(FALSE, dst, None) \o <<\hB8 + low>> \o Low(imm, 4)
          [] dst.size = "16" ->
                <<\h66>> \o emit_rex(FALSE, dst, None) \o <<\hB8 + low>> \o Low(imm, 2)
          [] dst.size = "8H" -> <<\hB0 + low>> \o Low(imm, 1)
          [] OTHER -> emit_rex(FALSE, dst, None) \o <<\hB0 + low>> \o Low(imm, 1)

\* Also movzx and movsx.  There is no form for bytes or words but mov reg, imm.
encode_mov(inst) ==
    LET dst == inst.ops[1]
        src == inst.ops[2]
        w   == SizeOf(inst.ops) = "64"
    IN  IF Len(inst.ops) # 2 \/ check_rex_conflict(dst, src) THEN Rejected
        ELSE CASE Shape(inst) = <<"reg", "label">> ->
                    emit_rex(TRUE, dst, None) \o <<\h8B, make_modrm(0, dst.reg, 5)>>
                    \o Low(src.imm, 4)
               [] Shape(inst) = <<"reg", "imm">> -> mov_reg_imm(dst, src.imm)
               [] Shape(inst) \in {<<"reg", "reg">>, <<"mem", "reg">>} ->
                    Emit(<<>>, w, <<\h89>>, src, dst, <<>>)
               [] Shape(inst) = <<"reg", "mem">> -> Emit(<<>>, w, <<\h8B>>, dst, src, <<>>)
               [] Shape(inst) = <<"mem", "imm">> ->
                    Emit(<<>>, w, <<\hC7>>, Digit(0), dst, Low(src.imm, 4))
               [] OTHER -> Rejected

encode_push_pop(inst) ==
    LET op == inst.ops[1]
        is_push == inst.type = "push"
    IN  CASE Shape(inst) = <<"reg">> ->
                (IF op.reg >= 8 THEN <<make_rex(FALSE, FALSE, FALSE, TRUE)>> ELSE <<>>)
                \o <<(IF is_push THEN \h50 ELSE \h58) + (op.reg % 8)>>
          [] Shape(inst) = <<"imm">> /\ is_push ->
                IF fits8(op.imm) THEN <<\h6A>> \o Low(op.imm, 1) ELSE <<\h68>> \o Low(op.imm, 4)
          [] Shape(inst) = <<"mem">> ->
                Emit(<<>>, TRUE, IF is_push THEN <<\hFF>> ELSE <<\h8F>>,
                     IF is_push THEN Digit(6) ELSE Digit(0), op, <<>>)
          [] OTHER -> Rejected

X86_GROUP1_TABLE == [add |-> 0, or |-> 1, adc |-> 2, sbb |-> 3, and |-> 4, sub |-> 5,
                     xor |-> 6, cmp |-> 7]

\* The prefix of the immediate forms is left out for all sizes but 64 bits.
arithmetic_reg_imm(dst, imm, digit) ==
    LET w == dst.size = "64"
        rex == IF w THEN emit_rex(TRUE, None, dst) ELSE <<>>
        opcode == IF fits8(imm) /\ dst.size # "8" THEN \h83 ELSE \h81
    IN  IF dst.reg = 0 /\ ~ fits8(imm) /\ dst.size \in {"32", "64"} /\ (w => fits_signed32(imm))
        THEN rex \o <<\h05 + 8 * digit>> \o Low(imm, 4)
        ELSE IF w /\ ~ fits_signed32(imm) THEN Rejected
        ELSE rex \o <<opcode>> \o ModRMOf(Digit(digit), dst)
             \o Low(imm, IF opcode = \h83 THEN 1 ELSE 4)

encode_arithmetic(inst) ==
    LET dst == inst.ops[1]
        src == inst.ops[2]
        w   == SizeOf(inst.ops) = "64"
        digit == X86_GROUP1_TABLE[inst.type]
    IN  IF Len(inst.ops) # 2 \/ check_rex_conflict(dst, src) THEN Rejected
        ELSE CASE Shape(inst) = <<"reg", "imm">> -> arithmetic_reg_imm(dst, src.imm, digit)
               [] Shape(inst) \in {<<"reg", "reg">>, <<"mem", "reg">>} ->
                    Emit(<<>>, w, <<\h01 + 8 * digit>>, src, dst, <<>>)
               [] Shape(inst) = <<"reg", "mem">> ->
                    Emit(<<>>, w, <<\h03 + 8 * digit>>, dst, src, <<>>)
               [] Shape(inst) = <<"mem", "imm">> ->
                    IF fits8(src.imm)
                    THEN Emit(<<>>, w, <<\h83>>, Digit(digit), dst, Low(src.imm, 1))
                    ELSE Emit(<<>>, w, <<\h81>>, Digit(digit), dst, Low(src.imm, 4))
               [] OTHER -> Rejected

Unary == [inc |-> <<\hFF, 0>>, dec |-> <<\hFF, 1>>, not |-> <<\hF7, 2>>, neg |-> <<\hF7, 3>>]
encode_unary_arithmetic(inst) ==
    IF Len(inst.ops) # 1 THEN Rejected
    ELSE Emit(<<>>, DestSize(inst.ops) = "64", <<Unary[inst.type][1]>>,
              Digit(Unary[inst.type][2]), inst.ops[1], <<>>)

encode_lea(inst) ==
    LET dst == inst.ops[1]
    IN  IF Shape(inst) # <<"reg", "mem">> \/ dst.size \in {"8", "8H"} THEN Rejected
        ELSE Emit(IF dst.size = "16" THEN <<\h66>> ELSE <<>>, dst.size = "64", <<\h8D>>, dst,
                  inst.ops[2], <<>>)

encode_string(inst) ==
    IF inst.ops # <<>> THEN Rejected
    ELSE [movsb |-> <<\hA4>>, movsw |-> <<\h66, \hA5>>, movsd |-> <<\hA5>>,
          movsq |-> <<\h48, \hA5>>][inst.type]
-----------------------------------------------------------------------------
(* SSE: mandatory prefix, REX, escape, opcode and ModRM.                    *)

(* Mutant: the mandatory prefix stands between REX and the opcode. *)
EmitSse_RexFirst(prefix, opcode, reg_op, rm_op) ==
    IF Encodable(rm_op)
    THEN RexFor(FALSE, reg_op, rm_op, XMM8) \o prefix \o opcode
         \o ModRMOf(reg_op, rm_op)
    ELSE Rejected

EmitSse(prefix, opcode, reg_op, rm_op) ==
    IF Encodable(rm_op)
    THEN prefix \o RexFor(FALSE, reg_op, rm_op, XMM8) \o opcode \o ModRMOf(reg_op, rm_op)
    ELSE Rejected

SseMov == [movaps |-> [prefix |-> <<>>,      load |-> \h28, store |-> \h29],
           movups |-> [prefix |-> <<>>,      load |-> \h10, store |-> \h11],
           movss  |-> [prefix |-> <<\hF3>>,  load |-> \h10, store |-> \h11],
           movapd |-> [prefix |-> <<\h66>>,  load |-> \h28, store |-> \h29],
           movupd |-> [prefix |-> <<\h66>>,  load |-> \h10, store |-> \h11],
           movsd_xmm |-> [prefix |-> <<\hF2>>, load |-> \h10, store |-> \h11],
           movdqa |-> [prefix |-> <<\h66>>,  load |-> \h6F, store |-> \h7F],
           movdqu |-> [prefix |-> <<\hF3>>,  load |-> \h6F, store |-> \h7F]]

\* A general register is refused as the source of a load, not as the destination
\* of an xmm register.
SseMovForm(dst, src) ==
    /\ dst.type = "mem" => is_xmm_reg(src)
    /\ is_xmm_reg(dst) => is_xmm_reg(src) \/ src.type = "mem"
    /\ is_xmm_reg(dst) \/ is_xmm_reg(src)

encode_sse_mov(inst) ==
    LET dst == inst.ops[1]
        src == inst.ops[2]
        row == SseMov[inst.type]
    IN  IF Len(inst.ops) # 2 \/ ~ SseMovForm(dst, src) THEN Rejected
        ELSE IF dst.type = "mem" THEN EmitSse(row.prefix, <<\h0F, row.store>>, src, dst)
        ELSE EmitSse(row.prefix, <<\h0F, row.load>>, dst, src)

\* xmm, xmm or xmm, memory.
SseRegRm(inst) ==
    Len(inst.ops) = 2 /\ is_xmm_reg(inst.ops[1])
    /\ (is_xmm_reg(inst.ops[2]) \/ inst.ops[2].type = "mem")

SseArith == [addss |-> <<<<\hF3>>, \h58>>, addps |-> <<<<>>, \h58>>,
             addsd |-> <<<<\hF2>>, \h58>>, addpd |-> <<<<\h66>>, \h58>>,
             subss |-> <<<<\hF3>>, \h5C>>, subps |-> <<<<>>, \h5C>>,
             subsd |-> <<<<\hF2>>, \h5C>>, subpd |-> <<<<\h66>>, \h5C>>,
             mulss |-> <<<<\hF3>>, \h59>>, mulps |-> <<<<>>, \h59>>,
             mulsd |-> <<<<\hF2>>, \h59>>, mulpd |-> <<<<\h66>>, \h59>>,
             divss |-> <<<<\hF3>>, \h5E>>, divps |-> <<<<>>, \h5E>>,
             divsd |-> <<<<\hF2>>, \h5E>>, divpd |-> <<<<\h66>>, \h5E>>]

encode_sse_arith(inst) ==
    IF ~ SseRegRm(inst) THEN Rejected
    ELSE EmitSse(SseArith[inst.type][1], <<\h0F, SseArith[inst.type][2]>>,
                 inst.ops[1], inst.ops[2])

PackedArith == [paddb |-> <<\hFC>>, paddw |-> <<\hFD>>, paddd |-> <<\hFE>>, paddq |-> <<\hD4>>,
                psubb |-> <<\hF8>>, psubw |-> <<\hF9>>, psubd |-> <<\hFA>>, psubq |-> <<\hFB>>]
PackedCmp == [pcmpeqb |-> <<\h74>>, pcmpeqw |-> <<\h75>>, pcmpeqd |-> <<\h76>>,
              pcmpeqq |-> <<\h38, \h29>>, pcmpgtb |-> <<\h64>>, pcmpgtw |-> <<\h65>>,
              pcmpgtd |-> <<\h66>>, pcmpgtq |-> <<\h38, \h37>>]
PackedLogic == [pand |-> <<\hDB>>, pandnpd |-> <<\hDF>>, por |-> <<\hEB>>, pxor |-> <<\hEF>>]

EmitPacked(inst, opcode) ==
    IF ~ SseRegRm(inst) THEN Rejected
    ELSE EmitSse(<<\h66>>, <<\h0F>> \o opcode, inst.ops[1], inst.ops[2])
encode_sse_packed_arith(inst) == EmitPacked(inst, PackedArith[inst.type])
encode_sse_packed_cmp(inst)   == EmitPacked(inst, PackedCmp[inst.type])
encode_sse_packed_logic(inst) == EmitPacked(inst, PackedLogic[inst.type])
=============================================================================
