-------------------------------- MODULE ModRM --------------------------------
(***************************************************************************)
(* The bytes of x86_64_encoding_core.c that every encoder shares: ModRM,   *)
(* SIB, displacement and REX of an operand.  mem is a mem_operand_t, reg   *)
(* the register number or the opcode digit of the middle field.            *)
(***************************************************************************)
EXTENDS Integers, Sequences

Regs == 0..15

NoMem == [base |-> 0, index |-> 0, scale |-> 1, displacement |-> 0, has_base |-> FALSE,
          has_index |-> FALSE, has_displacement |-> FALSE, is_rip_relative |-> FALSE,
          label |-> FALSE]

is_valid_scale_factor(s) == s \in {1, 2, 4, 8}

make_modrm(mod, reg, rm) == 64 * mod + 8 * (reg % 8) + (rm % 8)

make_sib(scale, index, base) ==
    LET bits == CASE scale = 8 -> 3 [] scale = 4 -> 2 [] scale = 2 -> 1 [] OTHER -> 0
    IN  64 * bits + 8 * (index % 8) + (base % 8)

fits_in_int8(v) == v \in -128..127

disp8(v) == <<v % 256>>
emit_le32(v) ==
    <<v % 256, (v \div 256) % 256, (v \div 65536) % 256, (v \div 16777216) % 256>>

(* Mutant: rbp and r13 are taken for any other base. *)
BaseOnly_PlainRbp(mem, reg) ==
    LET base == mem.base % 8
        d == mem.displacement
        sib == IF base = 4 THEN <<make_sib(1, 4, base)>> ELSE <<>>
    IN  CASE ~ mem.has_displacement /\ base # 4 -> <<make_modrm(0, reg, base)>>
          [] mem.has_displacement /\ fits_in_int8(d) ->
                <<make_modrm(1, reg, base)>> \o sib \o disp8(d)
          [] OTHER -> <<make_modrm(2, reg, base)>> \o sib \o emit_le32(d)

\* A base alone: rsp and r12 need a SIB byte, rbp and r13 a displacement.
BaseOnly(mem, reg) ==
    LET base == mem.base % 8
        d == mem.displacement
        sib == IF base = 4 THEN <<make_sib(1, 4, base)>> ELSE <<>>
    IN  CASE ~ mem.has_displacement /\ base \notin {4, 5} ->
                <<make_modrm(0, reg, base)>>
          [] ~ mem.has_displacement /\ base = 5 -> <<make_modrm(1, reg, 5), 0>>
          [] mem.has_displacement /\ fits_in_int8(d) ->
                <<make_modrm(1, reg, base)>> \o sib \o disp8(d)
          [] OTHER -> <<make_modrm(2, reg, base)>> \o sib \o emit_le32(d)

WithIndex(mem, reg) ==
    LET base == IF mem.has_base THEN mem.base % 8 ELSE 5
        d == mem.displacement
        need_sib_disp == (~ mem.has_base \/ base = 5) /\ d = 0
        mod == IF mem.has_displacement \/ ~ mem.has_base THEN 2 ELSE 0
        sib == make_sib(mem.scale, mem.index, base)
    IN  IF mem.has_displacement /\ fits_in_int8(d) /\ ~ need_sib_disp
        THEN <<make_modrm(1, reg, 4), sib>> \o disp8(d)
        ELSE <<make_modrm(mod, reg, 4), sib>>
             \o (IF mod # 0 THEN emit_le32(d) ELSE <<>>)

rex_bits(mem) == [x |-> mem.has_index /\ mem.index >= 8, b |-> mem.has_base /\ mem.base >= 8]

EncoderError(mem) ==
    CASE mem.has_index /\ ~ is_valid_scale_factor(mem.scale) -> "encoder_scale"
      [] mem.is_rip_relative /\ (mem.has_index \/ mem.has_base) -> "encoder_rip"
      [] OTHER -> "none"

NoRegister(mem) == ~ mem.has_base /\ ~ mem.has_index

emit_modrm_sib(mem, reg) ==
    CASE mem.is_rip_relative ->
            <<make_modrm(0, reg, 5)>> \o emit_le32(mem.displacement)
      [] ~ mem.is_rip_relative /\ NoRegister(mem) ->
            <<make_modrm(0, reg, 4), make_sib(1, 4, 5)>> \o emit_le32(mem.displacement)
      [] mem.has_index -> WithIndex(mem, reg)
      [] OTHER -> BaseOnly(mem, reg)
=============================================================================
