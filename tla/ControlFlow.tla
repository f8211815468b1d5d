----------------------------- MODULE ControlFlow -----------------------------
(***************************************************************************)
(* The encoders of x86_64_controlflow.c, and the dispatch over all         *)
(* encoders.                                                               *)
(***************************************************************************)
EXTENDS Encoders, SequencesExt

ConditionCodes == [o |-> 0, no |-> 1, b |-> 2, ae |-> 3, e |-> 4, ne |-> 5, be |-> 6, a |-> 7,
                   s |-> 8, ns |-> 9, p |-> 10, np |-> 11, l |-> 12, ge |-> 13, le |-> 14,
                   g |-> 15]

\* A branch to a target that is known and near is short.
IsShort(op) == op.near /\ Extends(op.imm, 1, 8)

encode_jmp(inst) ==
    LET op == inst.ops[1]
    IN  CASE Shape(inst) = <<"label">> ->
                IF IsShort(op) THEN <<\hEB>> \o Low(op.imm, 1) ELSE <<\hE9>> \o Low(op.imm, 4)
          [] Shape(inst) \in {<<"reg">>, <<"mem">>} ->
                Emit(<<>>, TRUE, <<\hFF>>, Digit(4), op, <<>>)
          [] OTHER -> Rejected

encode_jcc(inst) ==
    LET op == inst.ops[1]
        cc == ConditionCodes[inst.cc]
    IN  IF Shape(inst) # <<"label">> THEN Rejected
        ELSE IF IsShort(op) THEN <<\h70 + cc>> \o Low(op.imm, 1)
        ELSE <<\h0F, \h80 + cc>> \o Low(op.imm, 4)

encode_ret(inst) ==
    CASE Shape(inst) = <<>> -> <<\hC3>>
      [] Shape(inst) = <<"imm">> -> <<\hC2>> \o Low(inst.ops[1].imm, 2)
      [] OTHER -> Rejected

encode_call(inst) ==
    CASE Shape(inst) = <<"label">> -> <<\hE8>> \o Low(inst.ops[1].imm, 4)
      [] Shape(inst) \in {<<"reg">>, <<"mem">>} ->
            Emit(<<>>, TRUE, <<\hFF>>, Digit(2), inst.ops[1], <<>>)
      [] OTHER -> Rejected

encode_int(inst) ==
    IF Shape(inst) # <<"imm">> THEN Rejected ELSE <<\hCD>> \o Low(inst.ops[1].imm, 1)

\* The instructions without operands.  These refuse operands, the others ignore
\* them.
Strict == [nop |-> <<\h90>>, cwd |-> <<\h66, \h99>>, cdq |-> <<\h99>>, cqo |-> <<\h48, \h99>>,
           cbw |-> <<\h66, \h98>>, cwde |-> <<\h98>>, cdqe |-> <<\h48, \h98>>]
Lenient == [syscall |-> <<\h0F, \h05>>, sysret |-> <<\h0F, \h07>>, hlt |-> <<\hF4>>,
            clc |-> <<\hF8>>, stc |-> <<\hF9>>, cmc |-> <<\hF5>>, cld |-> <<\hFC>>,
            std |-> <<\hFD>>, cli |-> <<\hFA>>, sti |-> <<\hFB>>, leave |-> <<\hC9>>]
encode_strict(inst) == IF inst.ops # <<>> THEN Rejected ELSE Strict[inst.type]

encode_enter(inst) ==
    IF \/ Shape(inst) # <<"imm", "imm">>
       \/ \E k \in 3..8 : inst.ops[1].imm[k] # 0
       \/ \E k \in 2..8 : inst.ops[2].imm[k] # 0
    THEN Rejected
    ELSE <<\hC8>> \o Low(inst.ops[1].imm, 2) \o Low(inst.ops[2].imm, 1)

encode_setcc(inst) ==
    IF \/ Len(inst.ops) # 1
       \/ inst.ops[1].type = "reg" /\ inst.ops[1].size \notin {"8", "8H"}
    THEN Rejected
    ELSE Emit(<<>>, FALSE, <<\h0F, \h90 + ConditionCodes[inst.cc]>>, Digit(0), inst.ops[1], <<>>)

encode_cmov(inst) ==
    LET size == inst.ops[1].size
    IN  IF \/ Shape(inst) \notin {<<"reg", "reg">>, <<"reg", "mem">>}
           \/ size \in {"8", "8H", "xmm"}
           \/ inst.ops[2].type = "reg" /\ inst.ops[2].size # size
        THEN Rejected
        ELSE Emit(IF size = "16" THEN <<\h66>> ELSE <<>>, size = "64",
                  <<\h0F, \h40 + ConditionCodes[inst.cc]>>, inst.ops[1], inst.ops[2], <<>>)

encode_bswap(inst) ==
    LET op == inst.ops[1]
    IN  IF Shape(inst) # <<"reg">> \/ op.size \notin {"32", "64"} THEN Rejected
        ELSE emit_rex(op.size = "64", None, op) \o <<\h0F, \hC8 + (op.reg % 8)>>

\* With rax on one side the other register goes into the opcode, whatever the size.
encode_xchg(inst) ==
    LET op1 == inst.ops[1]
        op2 == inst.ops[2]
        other == IF op1.reg = 0 THEN op2 ELSE op1
    IN  IF Len(inst.ops) # 2 \/ check_rex_conflict(op1, op2) THEN Rejected
        ELSE CASE Shape(inst) = <<"reg", "reg">> /\ 0 \in {op1.reg, op2.reg} ->
                    emit_rex(other.size = "64", None, other) \o <<\h90 + (other.reg % 8)>>
               [] Shape(inst) = <<"reg", "reg">> /\ 0 \notin {op1.reg, op2.reg} ->
                    Emit(<<>>, op1.size = "64", <<\h87>>, op2, op1, <<>>)
               [] Shape(inst) = <<"reg", "mem">> ->
                    Emit(<<>>, op1.size = "64", <<\h87>>, op1, op2, <<>>)
               [] Shape(inst) = <<"mem", "reg">> ->
                    Emit(<<>>, op2.size = "64", <<\h87>>, op2, op1, <<>>)
               [] OTHER -> Rejected

encode_imul(inst) ==
    LET dst == inst.ops[1]
        src == inst.ops[2]
        w   == DestSize(inst.ops) = "64"
    IN  CASE Len(inst.ops) = 1 -> Emit(<<>>, w, <<\hF7>>, Digit(5), dst, <<>>)
          [] Len(inst.ops) = 2 /\ dst.type = "reg" ->
                Emit(<<>>, w, <<\h0F, \hAF>>, dst, src, <<>>)
          [] Len(inst.ops) = 3 /\ dst.type = "reg" /\ inst.ops[3].type = "imm" ->
                IF fits8(inst.ops[3].imm)
                THEN Emit(<<>>, w, <<\h6B>>, dst, src, Low(inst.ops[3].imm, 1))
                ELSE Emit(<<>>, w, <<\h69>>, dst, src, Low(inst.ops[3].imm, 4))
          [] OTHER -> Rejected

MulDiv == [mul |-> 4, div |-> 6, idiv |-> 7]
encode_div_idiv_mul(inst) ==
    IF Len(inst.ops) # 1 THEN Rejected
    ELSE Emit(<<>>, DestSize(inst.ops) = "64", <<\hF7>>, Digit(MulDiv[inst.type]),
              inst.ops[1], <<>>)

test_rm_imm(op1, imm) ==
    LET size == IF op1.type = "reg" THEN op1.size ELSE "64"
    IN  CASE op1.type = "reg" /\ op1.reg = 0 /\ size # "8" ->
                emit_rex(size = "64", None, None) \o <<\hA9>> \o Low(imm, 4)
          [] size = "8" -> Emit(<<>>, FALSE, <<\hF6>>, Digit(0), op1, Low(imm, 1))
          [] OTHER -> Emit(<<>>, size = "64", <<\hF7>>, Digit(0), op1, Low(imm, 4))

encode_test(inst) ==
    LET op1 == inst.ops[1]
        op2 == inst.ops[2]
    IN  IF Len(inst.ops) # 2 \/ check_rex_conflict(op1, op2) THEN Rejected
        ELSE CASE Shape(inst) \in {<<"reg", "imm">>, <<"mem", "imm">>} -> test_rm_imm(op1, op2.imm)
               [] op2.type = "reg" -> Emit(<<>>, op2.size = "64", <<\h85>>, op2, op1, <<>>)
               [] OTHER -> Rejected

Group2 == [rol |-> 0, ror |-> 1, rcl |-> 2, rcr |-> 3, shl |-> 4, sal |-> 4, shr |-> 5,
           sar |-> 7]

\* Without a count the instruction shifts by one.  count is an int.
encode_shift(inst) ==
    LET op1 == inst.ops[1]
        size == DestSize(inst.ops)
        by_cl == Len(inst.ops) = 2 /\ inst.ops[2].type = "reg"
        count == IF Len(inst.ops) = 1 THEN <<1, 0, 0, 0>> ELSE Low(inst.ops[2].imm, 4)
        Op(byte, other) == IF size = "8" THEN <<byte>> ELSE <<other>>
        form == CASE by_cl -> [opcode |-> Op(\hD2, \hD3), tail |-> <<>>]
                  [] ~ by_cl /\ count = <<1, 0, 0, 0>> ->
                        [opcode |-> Op(\hD0, \hD1), tail |-> <<>>]
                  [] OTHER -> [opcode |-> Op(\hC0, \hC1), tail |-> Low(count, 1)]
    IN  IF \/ Len(inst.ops) \notin 1..2
           \/ Len(inst.ops) = 2 /\ inst.ops[2].type # "imm"
              /\ ~ (by_cl /\ inst.ops[2].reg = 1 /\ inst.ops[2].size = "8")
        THEN Rejected
        ELSE Emit(<<>>, size = "64", form.opcode, Digit(Group2[inst.type]), op1, form.tail)

BitTest == [bt |-> <<4, \hA3>>, bts |-> <<5, \hAB>>, btr |-> <<6, \hB3>>, btc |-> <<7, \hBB>>]

\* Any register with the number of cl counts as cl.
encode_bit_manip(inst) ==
    LET w == DestSize(inst.ops) = "64"
        op2 == inst.ops[2]
    IN  CASE Len(inst.ops) = 2 /\ op2.type = "imm" ->
                Emit(<<>>, w, <<\h0F, \hBA>>, Digit(BitTest[inst.type][1]), inst.ops[1],
                     Low(op2.imm, 1))
          [] Len(inst.ops) = 2 /\ op2.type = "reg" /\ op2.reg = 1 ->
                Emit(<<>>, w, <<\h0F, BitTest[inst.type][2]>>, op2, inst.ops[1], <<>>)
          [] OTHER -> Rejected

encode_shld_shrd(inst) ==
    LET dst == inst.ops[1]
        cnt == inst.ops[3]
        w   == DestSize(inst.ops) = "64"
        opcode == IF inst.type = "shld" THEN \hA4 ELSE \hAC
    IN  CASE Len(inst.ops) = 3 /\ inst.ops[2].type = "reg" /\ cnt.type = "imm" ->
                Emit(<<>>, w, <<\h0F, opcode>>, inst.ops[2], dst, Low(cnt.imm, 1))
          [] Len(inst.ops) = 3 /\ inst.ops[2].type = "reg" /\ cnt.type = "reg" /\ cnt.reg = 1 ->
                Emit(<<>>, w, <<\h0F, opcode + 1>>, inst.ops[2], dst, <<>>)
          [] OTHER -> Rejected

encode_bit_scan(inst) ==
    IF Len(inst.ops) # 2 \/ inst.ops[1].type # "reg" THEN Rejected
    ELSE Emit(<<>>, inst.ops[1].size = "64", <<\h0F, IF inst.type = "bsf" THEN \hBC ELSE \hBD>>,
              inst.ops[1], inst.ops[2], <<>>)
-----------------------------------------------------------------------------
(* encode_instruction.                                                      *)

\* Data between instructions.
DataWidth == [db |-> 1, dw |-> 2, dd |-> 4, dq |-> 8]
encode_data(inst) ==
    FlattenSeq([k \in DOMAIN inst.ops |-> Low(inst.ops[k].imm, DataWidth[inst.type])])

Body(inst) ==
    CASE inst.type \in {"mov", "movzx", "movsx"} -> encode_mov(inst)
      [] inst.type \in {"push", "pop"} -> encode_push_pop(inst)
      [] inst.type \in DOMAIN X86_GROUP1_TABLE -> encode_arithmetic(inst)
      [] inst.type \in DOMAIN Unary -> encode_unary_arithmetic(inst)
      [] inst.type = "lea" -> encode_lea(inst)
      [] inst.type = "jmp" -> encode_jmp(inst)
      [] inst.type = "j" -> encode_jcc(inst)
      [] inst.type = "call" -> encode_call(inst)
      [] inst.type = "ret" -> encode_ret(inst)
      [] inst.type = "int" -> encode_int(inst)
      [] inst.type \in DOMAIN Strict -> encode_strict(inst)
      [] inst.type \in DOMAIN Lenient -> Lenient[inst.type]
      [] inst.type = "enter" -> encode_enter(inst)
      [] inst.type = "set" -> encode_setcc(inst)
      [] inst.type = "cmov" -> encode_cmov(inst)
      [] inst.type = "xchg" -> encode_xchg(inst)
      [] inst.type = "bswap" -> encode_bswap(inst)
      [] inst.type = "imul" -> encode_imul(inst)
      [] inst.type \in DOMAIN MulDiv -> encode_div_idiv_mul(inst)
      [] inst.type = "test" -> encode_test(inst)
      [] inst.type \in DOMAIN Group2 -> encode_shift(inst)
      [] inst.type \in {"shld", "shrd"} -> encode_shld_shrd(inst)
      [] inst.type \in DOMAIN BitTest -> encode_bit_manip(inst)
      [] inst.type \in {"bsf", "bsr"} -> encode_bit_scan(inst)
      [] inst.type \in {"movsb", "movsw", "movsd", "movsq"} -> encode_string(inst)
      [] inst.type \in DOMAIN SseMov -> encode_sse_mov(inst)
      [] inst.type \in DOMAIN SseArith -> encode_sse_arith(inst)
      [] inst.type \in DOMAIN PackedArith -> encode_sse_packed_arith(inst)
      [] inst.type \in DOMAIN PackedCmp -> encode_sse_packed_cmp(inst)
      [] inst.type \in DOMAIN PackedLogic -> encode_sse_packed_logic(inst)
      [] inst.type \in DOMAIN DataWidth -> encode_data(inst)

Segments(inst) ==
    {inst.ops[k].seg : k \in {j \in DOMAIN inst.ops : inst.ops[j].type = "mem"}} \ {"default"}

encode_instruction(inst) ==
    LET prefix == CASE Segments(inst) = {"fs"} -> <<\h64>>
                    [] Segments(inst) = {"gs"} -> <<\h65>>
                    [] OTHER -> <<>>
        body == Body(inst)
    IN  IF Cardinality(Segments(inst)) > 1 \/ body = Rejected THEN Rejected
        ELSE prefix \o body
=============================================================================
