---------------------------- MODULE Disassembler ----------------------------
(***************************************************************************)
(* disassemble_code_buffer and decode_one: the rows that are printed for   *)
(* the bytes of a text section.  A step reads one prefix, or decodes the   *)
(* opcode and what follows it.  Positions count from 0, like the code's.   *)
(*                                                                         *)
(* The text of a row is its mnemonic, the condition in it and the operands *)
(* it shows: a register with its size, an address, the bytes of an         *)
(* immediate, the target of a branch.                                      *)
(***************************************************************************)
EXTENDS Integers, Sequences

VARIABLES
    code,               \* the section
    offset,             \* of the next row
    cursor, override, rex,  \* of decode_one: position, prefix 66 seen, last REX
    rows, pc

dis_vars == <<code, offset, cursor, override, rex, rows, pc>>

DIS_MAX_INST_BYTES == 15

\* A byte behind the end is not read: the position is compared first.
Byte(p) == IF p < Len(code) THEN code[p + 1] ELSE 0
Bytes(p, n) == [k \in 1..n |-> Byte(p + k - 1)]

rex_w == (rex \div 8) % 2 = 1
Ext(v, shift) == v + 8 * ((rex \div shift) % 2)
RexR == 4
RexX == 2
RexB == 1
-----------------------------------------------------------------------------
(* Operands.                                                                *)

SignByte(b) == IF b >= 128 THEN b - 256 ELSE b
Int32(s) == s[1] + 256 * s[2] + 65536 * s[3] + 16777216 * SignByte(s[4])
SignExtended(b) == [k \in 1..8 |-> IF k = 1 THEN b ELSE IF b >= 128 THEN 255 ELSE 0]

\* Without REX the byte registers 4 to 7 are ah, ch, dh and bh.
select_reg_name(reg, bits) ==
    [reg |-> reg, size |-> IF bits = "8" /\ rex = 0 /\ reg \in 4..7 THEN "8H" ELSE bits]

NoReg == -1
Address(base, index, scale, disp, rip) ==
    [base |-> base, index |-> index, scale |-> IF index = NoReg THEN 1 ELSE scale,
     disp |-> disp, rip |-> rip]

\* What the operand behind the byte at p shows, and where it ends.
format_rm_operand(p, bits) ==
    LET mod == Byte(p) \div 64
        rm  == Byte(p) % 8
        sib == Byte(p + 1)
        has_sib == rm = 4
        raw_base == IF has_sib THEN sib % 8 ELSE rm
        no_base  == mod = 0 /\ raw_base = 5
        raw_index == (sib \div 8) % 8
        index == IF has_sib /\ raw_index # 4 THEN Ext(raw_index, RexX) ELSE NoReg
        first == p + (IF has_sib THEN 2 ELSE 1)
        disp_size == IF no_base \/ mod = 2 THEN 4 ELSE mod
        disp == CASE disp_size = 4 -> Int32(Bytes(first, 4))
                  [] disp_size = 1 -> SignByte(Byte(first))
                  [] OTHER -> 0
    IN  IF mod = 3 THEN [shown |-> select_reg_name(Ext(rm, RexB), bits), end |-> p + 1]
        ELSE [shown |-> Address(IF no_base THEN NoReg ELSE Ext(raw_base, RexB), index,
                                2^(sib \div 64), disp, no_base /\ ~ has_sib),
              end |-> first + disp_size]
-----------------------------------------------------------------------------
(* Rows.                                                                    *)

Text(mn, cc, ops) == [mn |-> mn, cc |-> cc, ops |-> ops]
Row(len, text) == [at |-> offset, len |-> len, text |-> text]

\* decode_one copies the bytes of the instruction, however many they are, to the
\* array bytes[DIS_MAX_INST_BYTES]; what does not fit runs over the text behind it
\* and from there over the stack, which ends the process.  If the process is still
\* there the 16th byte no longer fits into bytes_buf: no row is printed for the
\* instruction or for anything behind it.
PrintRow(len, text) ==
    /\ \/ /\ len <= DIS_MAX_INST_BYTES
          /\ rows' = Append(rows, Row(len, text))
          /\ offset' = offset + len
          /\ pc' = "row"
       \/ /\ len > DIS_MAX_INST_BYTES
          /\ pc' = "abandoned"
          /\ UNCHANGED <<rows, offset>>
    /\ UNCHANGED <<code, cursor, override, rex>>

\* One byte as data, for an opcode that is not known and for an instruction that
\* the end of the section cuts off.
Db == PrintRow(1, Text("db", "", <<[imm |-> <<Byte(offset)>>]>>))

(* Mutant: the last byte of the instruction may be missing. *)
Decoded_OffByOne(mn, cc, ops, end) ==
    IF end <= Len(code) + 1 THEN PrintRow(end - offset, Text(mn, cc, ops)) ELSE Db

\* end is the cursor behind the last byte that belongs to the instruction.
Decoded(mn, cc, ops, end) ==
    IF end <= Len(code) THEN PrintRow(end - offset, Text(mn, cc, ops)) ELSE Db

StartRow ==
    /\ pc = "row" /\ offset < Len(code)
    /\ cursor' = offset /\ override' = FALSE /\ rex' = 0 /\ pc' = "prefix"
    /\ UNCHANGED <<code, offset, rows>>

Ignored == {\h67, \hF0, \hF2, \hF3, \h2E, \h36, \h3E, \h26, \h64, \h65}
PrefixByte(b) == b \in {\h66} \cup Ignored \cup \h40..\h4F

\* There may be any number of them.
Prefix ==
    /\ pc = "prefix" /\ cursor < Len(code)
    /\ PrefixByte(Byte(cursor))
    /\ cursor' = cursor + 1
    /\ override' = (override \/ Byte(cursor) = \h66)
    /\ rex' = IF Byte(cursor) \in \h40..\h4F THEN Byte(cursor) ELSE rex
    /\ UNCHANGED <<code, offset, rows, pc>>

OnlyPrefixes == pc = "prefix" /\ cursor >= Len(code) /\ Db
-----------------------------------------------------------------------------
(* decode_one, by opcode.                                                   *)

At(opcodes) == pc = "prefix" /\ cursor < Len(code) /\ Byte(cursor) \in opcodes
opcode == Byte(cursor)
next == cursor + 1
SizeBits == IF rex_w THEN "64" ELSE IF override THEN "16" ELSE "32"

Conditions == <<"o", "no", "b", "ae", "e", "ne", "be", "a",
                "s", "ns", "p", "np", "l", "ge", "le", "g">>
cc_name(op) == Conditions[(op % 16) + 1]

Immediate(p, n) == [imm |-> Bytes(p, n)]
Signed8(p) == [imm |-> SignExtended(Byte(p))]
Target(rel, end) == [target |-> end + rel]

PushPop ==
    /\ At(\h50..\h5F)
    /\ Decoded(IF opcode <= \h57 THEN "push" ELSE "pop", "",
               <<[reg |-> Ext(opcode % 8, RexB), size |-> "64"]>>, next)

PushImmediate ==
    \/ At({\h6A}) /\ Decoded("push", "", <<Signed8(next)>>, next + 1)
    \/ At({\h68}) /\ Decoded("push", "", <<Immediate(next, 4)>>, next + 4)

ShortBranch ==
    LET shown == <<Target(SignByte(Byte(next)), next + 1)>>
    IN  \/ At(\h70..\h7F) /\ Decoded("j", cc_name(opcode), shown, next + 1)
        \/ At({\hEB}) /\ Decoded("jmp", "", shown, next + 1)

NearBranch ==
    /\ At({\hE8, \hE9})
    /\ Decoded(IF opcode = \hE8 THEN "call" ELSE "jmp", "",
               <<Target(Int32(Bytes(next, 4)), next + 4)>>, next + 4)

NoOperand ==
    \/ At({\h90}) /\ Decoded("nop", "", <<>>, next)
    \/ At({\hC9}) /\ Decoded("leave", "", <<>>, next)
    \/ At({\hC3}) /\ Decoded("ret", "", <<>>, next)

MovImmediate ==
    LET n == IF rex_w THEN 8 ELSE IF override THEN 2 ELSE 4
    IN  /\ At(\hB8..\hBF)
        /\ Decoded("mov", "", <<select_reg_name(Ext(opcode % 8, RexB), SizeBits),
                                Immediate(next, n)>>, next + n)
-----------------------------------------------------------------------------
(* Opcodes with a ModRM byte.                                               *)

\* reg_field and ext of the byte at p.
RegField(p, bits) == select_reg_name(Ext((Byte(p) \div 8) % 8, RexR), bits)
ext(p) == (Byte(p) \div 8) % 8

\* rm, reg and reg, rm.
RmReg(mn, cc, p, bits) ==
    LET rm == format_rm_operand(p, bits)
    IN  Decoded(mn, cc, <<rm.shown, RegField(p, bits)>>, rm.end)
RegRm(mn, cc, p, bits, rm_bits) ==
    LET rm == format_rm_operand(p, rm_bits)
    IN  Decoded(mn, cc, <<RegField(p, bits), rm.shown>>, rm.end)
Rm(mn, p, bits) ==
    LET rm == format_rm_operand(p, bits) IN Decoded(mn, "", <<rm.shown>>, rm.end)
RmImm(mn, p, bits, n) ==
    LET rm == format_rm_operand(p, bits)
    IN  Decoded(mn, "", <<rm.shown, Immediate(rm.end, n)>>, rm.end + n)
RmSigned8(mn, p, bits) ==
    LET rm == format_rm_operand(p, bits)
    IN  Decoded(mn, "", <<rm.shown, Signed8(rm.end)>>, rm.end + 1)

Group1 == <<"add", "or", "adc", "sbb", "and", "sub", "xor", "cmp">>
Group2Names == [e \in {0, 1, 4, 5, 7} |->
                  CASE e = 0 -> "rol" [] e = 1 -> "ror" [] e = 4 -> "shl" [] e = 5 -> "shr"
                    [] OTHER -> "sar"]
WordImm == IF override THEN 2 ELSE 4

Arithmetic ==
    LET mn == Group1[(opcode \div 8) + 1]
    IN  \/ At({\h01, \h09, \h21, \h29, \h31, \h39}) /\ RmReg(mn, "", next, SizeBits)
        \/ At({\h03, \h0B, \h23, \h2B, \h33, \h3B}) /\ RegRm(mn, "", next, SizeBits, SizeBits)

MovTestLea ==
    \/ At({\h89}) /\ RmReg("mov", "", next, SizeBits)
    \/ At({\h88}) /\ RmReg("mov", "", next, "8")
    \/ At({\h8B}) /\ RegRm("mov", "", next, SizeBits, SizeBits)
    \/ At({\h8A}) /\ RegRm("mov", "", next, "8", "8")
    \/ At({\h85}) /\ RmReg("test", "", next, SizeBits)
    \/ At({\h8D}) /\ RegRm("lea", "", next, SizeBits, SizeBits)
    \/ At({\h63}) /\ RegRm("movsxd", "", next, "64", "32")

ArithmeticImmediate ==
    LET mn == Group1[ext(next) + 1]
    IN  \/ At({\h80}) /\ RmImm(mn, next, "8", 1)
        \/ At({\h81}) /\ RmImm(mn, next, SizeBits, WordImm)
        \/ At({\h83}) /\ RmSigned8(mn, next, SizeBits)

Shift ==
    /\ At({\hC0, \hC1})
    /\ IF ext(next) \in DOMAIN Group2Names
       THEN RmImm(Group2Names[ext(next)], next, IF opcode = \hC0 THEN "8" ELSE SizeBits, 1)
       ELSE Db

MovRmImmediate ==
    /\ At({\hC7})
    /\ IF ext(next) = 0 THEN RmImm("mov", next, SizeBits, WordImm) ELSE Db

GroupFF ==
    LET names == <<"inc", "dec", "call", "", "jmp", "", "push", "">>
    IN  /\ At({\hFF})
        /\ IF ext(next) \in {0, 1, 2, 4, 6} THEN Rm(names[ext(next) + 1], next, SizeBits) ELSE Db

PopRm == At({\h8F}) /\ IF ext(next) = 0 THEN Rm("pop", next, SizeBits) ELSE Db

GroupF7 ==
    LET bits == IF opcode = \hF6 THEN "8" ELSE SizeBits
        n    == IF opcode = \hF6 THEN 1 ELSE IF ~ rex_w /\ override THEN 2 ELSE 4
    IN  /\ At({\hF6, \hF7})
        /\ CASE ext(next) = 0 -> RmImm("test", next, bits, n)
             [] ext(next) = 2 -> Rm("not", next, bits)
             [] ext(next) = 3 -> Rm("neg", next, bits)
             [] OTHER -> Db
-----------------------------------------------------------------------------
(* The opcodes behind 0f.                                                   *)

At2(opcodes) == At({\h0F}) /\ next < Len(code) /\ Byte(next) \in opcodes
op2 == Byte(next)
after == next + 1

NearJcc ==
    /\ At2(\h80..\h8F)
    /\ Decoded("j", cc_name(op2), <<Target(Int32(Bytes(after, 4)), after + 4)>>, after + 4)

SetCmov ==
    \/ At2(\h40..\h4F) /\ RegRm("cmov", cc_name(op2), after, SizeBits, SizeBits)
    \/ /\ At2(\h90..\h9F)
       /\ LET rm == format_rm_operand(after, "8")
          IN  Decoded("set", cc_name(op2), <<rm.shown>>, rm.end)

MulScan ==
    \/ At2({\hAF}) /\ RegRm("imul", "", after, SizeBits, SizeBits)
    \/ At2({\hBC, \hBD})
       /\ RegRm(IF op2 = \hBC THEN "bsf" ELSE "bsr", "", after, SizeBits, SizeBits)

BitTestNames == <<"bt", "bts", "btr", "btc">>
BitTests ==
    \/ At2({\hA3, \hAB, \hB3, \hBB})
       /\ RmReg(BitTestNames[((op2 - \hA3) \div 8) + 1], "", after, SizeBits)
    \/ /\ At2({\hBA})
       /\ IF ext(after) >= 4 THEN RmImm(BitTestNames[ext(after) - 3], after, SizeBits, 1) ELSE Db

Syscall == At2({\h05}) /\ Decoded("syscall", "", <<>>, after)

\* Instructions that this assembler does not write.
Foreign ==
    LET bits == IF op2 \in {\hB0, \hC0} THEN "8" ELSE SizeBits
        narrow == IF op2 \in {\hB6, \hBE} THEN "8" ELSE "16"
        rm == format_rm_operand(after, "32")
    IN  \/ At2({\hB6, \hB7}) /\ RegRm("movzx", "", after, SizeBits, narrow)
        \/ At2({\hBE, \hBF}) /\ RegRm("movsx", "", after, SizeBits, narrow)
        \/ At2({\hC0, \hC1}) /\ RmReg("xadd", "", after, bits)
        \/ At2({\hB0, \hB1}) /\ RmReg("cmpxchg", "", after, bits)
        \/ /\ At2({\h1F})
           /\ IF ext(after) # 0 THEN Db
              ELSE Decoded("nop", "", IF Byte(after) >= 192 THEN <<>> ELSE <<rm.shown>>, rm.end)

Known2 == {\h05, \h1F, \hA3, \hAB, \hAF} \cup \h40..\h4F \cup \h80..\h9F \cup \hB0..\hB1
          \cup {\hB3, \hB6, \hB7} \cup \hBA..\hBF \cup {\hC0, \hC1}
Known == {\h01, \h03, \h09, \h0B, \h0F, \h21, \h23, \h29, \h2B, \h31, \h33, \h39, \h3B, \h63,
          \h68, \h6A, \h80, \h81, \h83, \h85, \h90, \hC0, \hC1, \hC3, \hC7, \hC9, \hE8, \hE9,
          \hEB, \hF6, \hF7, \hFF} \cup \h50..\h5F \cup \h70..\h7F \cup \h88..\h8B
         \cup {\h8D, \h8F} \cup \hB8..\hBF

Unknown ==
    /\ pc = "prefix" /\ cursor < Len(code)
    /\ \/ opcode \notin Known /\ ~ PrefixByte(opcode)
       \/ opcode = \h0F /\ (next >= Len(code) \/ op2 \notin Known2)
    /\ Db

EndOfCode ==
    /\ pc = "row" /\ offset >= Len(code)
    /\ pc' = "done"
    /\ UNCHANGED <<code, offset, cursor, override, rex, rows>>

DecodeNext ==
    \/ StartRow \/ Prefix \/ OnlyPrefixes
    \/ PushPop \/ PushImmediate \/ ShortBranch \/ NearBranch \/ NoOperand \/ MovImmediate
    \/ Arithmetic \/ MovTestLea \/ ArithmeticImmediate \/ Shift \/ MovRmImmediate
    \/ GroupFF \/ PopRm \/ GroupF7
    \/ NearJcc \/ SetCmov \/ MulScan \/ BitTests \/ Syscall \/ Foreign
    \/ Unknown \/ EndOfCode
=============================================================================
