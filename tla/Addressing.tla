----------------------------- MODULE Addressing -----------------------------
(***************************************************************************)
(* Memory operands, from the terms between the brackets to the bytes of    *)
(* the instruction: parse_memory_operand, emit_rex and emit_modrm_sib.     *)
(* One step handles one term, the last one encodes.                        *)
(*                                                                         *)
(* A term is a register with or without a scale, rip, a number, a number   *)
(* with a $ in front ("dollar"), a label or a scale that follows no        *)
(* register; the sign in front of it may be missing, also where it is not  *)
(* the first.  A number is what the cast to int32_t leaves of it.          *)
(***************************************************************************)
EXTENDS ModRM, FiniteSets

CONSTANTS
    Operands,           \* the operands considered, sequences of terms
    RegOpcode           \* the register or opcode digit of the instruction, 0..15

RIP   == 32
Signs == {"", "+", "-"}
Kinds == {"reg", "rip", "num", "dollar", "label", "star", "abs"}
Term  == [sign : Signs, kind : Kinds, reg : Regs, scale : Nat, num : Int]

ASSUME OperandsTyped == Operands \subseteq Seq(Term)
ASSUME OpcodeTyped == RegOpcode \in Regs

VARIABLES
    terms, n,           \* the operand, and the next term
    mem,                \* the mem_operand_t
    pc, error,
    rex,                \* the bits X and B of the prefix
    bytes,              \* ModRM and what follows it
    fixup               \* the kind of fixup that was added

vars == <<terms, n, mem, pc, error, rex, bytes, fixup>>

Init ==
    /\ terms \in Operands /\ n = 1
    /\ mem = NoMem
    /\ pc = "parse" /\ error = "none"
    /\ rex = [x |-> FALSE, b |-> FALSE] /\ bytes = <<>> /\ fixup = "none"
-----------------------------------------------------------------------------
(* parse_memory_operand.                                                    *)

AtTerm(kinds) == pc = "parse" /\ n <= Len(terms) /\ terms[n].kind \in kinds

Cur == terms[n]

Fail(e) == pc' = "failed" /\ error' = e /\ UNCHANGED <<terms, n, mem, rex, bytes, fixup>>

Parsed(m) == mem' = m /\ n' = n + 1 /\ UNCHANGED <<terms, pc, error, rex, bytes, fixup>>

Indexed(reg, scale) == [mem EXCEPT !.index = reg, !.has_index = TRUE, !.scale = scale]

\* After a register the loop compares the token that follows it with "rip", and
\* forgets the register if that is what follows.
RipFollows == n < Len(terms) /\ terms[n + 1].sign = "" /\ terms[n + 1].kind = "rip"

\* A register that no sign precedes: the base, then the index.
FirstRegister ==
    /\ AtTerm({"reg"}) /\ Cur.sign = "" /\ Cur.scale = 0
    /\ \/ RipFollows /\ Parsed([mem EXCEPT !.is_rip_relative = TRUE])
       \/ /\ ~ RipFollows /\ ~ mem.has_base
          /\ Parsed([mem EXCEPT !.base = Cur.reg, !.has_base = TRUE])
       \/ /\ ~ RipFollows /\ mem.has_base /\ ~ mem.has_index
          /\ Parsed([mem EXCEPT !.index = Cur.reg, !.has_index = TRUE])
       \/ /\ ~ RipFollows /\ mem.has_base /\ mem.has_index
          /\ Fail("registers")

\* A register behind a sign is the index, whatever the sign and whatever was
\* the index before.
SignedRegister ==
    /\ AtTerm({"reg", "rip"}) /\ Cur.sign # "" /\ Cur.scale = 0
    /\ Parsed(Indexed(IF Cur.kind = "rip" THEN RIP ELSE Cur.reg, 1))

(* Mutant: the scale is taken as it is. *)
ScaledRegister_Unchecked ==
    /\ AtTerm({"reg"}) /\ Cur.scale > 0
    /\ Parsed(Indexed(Cur.reg, Cur.scale))

ScaledRegister ==
    /\ AtTerm({"reg"}) /\ Cur.scale > 0
    /\ \/ ~ is_valid_scale_factor(Cur.scale) /\ Fail("scale")
       \/ is_valid_scale_factor(Cur.scale) /\ Parsed(Indexed(Cur.reg, Cur.scale))

Rip ==
    /\ AtTerm({"rip"}) /\ Cur.sign = ""
    /\ Parsed([mem EXCEPT !.is_rip_relative = TRUE])

Signed(term) == IF term.sign = "-" THEN - term.num ELSE term.num

Number ==
    /\ AtTerm({"num"})
    /\ Parsed([mem EXCEPT !.displacement = @ + Signed(Cur), !.has_displacement = TRUE])

\* The $ of a hexadecimal number is a token of its own, which neither the loop nor
\* what it does behind a sign has a case for.
Dollar == AtTerm({"dollar"}) /\ Fail("token")

Label ==
    /\ AtTerm({"label"})
    /\ \/ Cur.sign = "-" /\ mem.is_rip_relative /\ Fail("label")
       \/ ~ (Cur.sign = "-" /\ mem.is_rip_relative) /\ Parsed([mem EXCEPT !.label = TRUE])

Star ==
    /\ AtTerm({"star"})
    /\ \/ ~ mem.has_index /\ Fail("star")
       \/ mem.has_index /\ ~ is_valid_scale_factor(Cur.scale) /\ Fail("scale")
       \/ mem.has_index /\ is_valid_scale_factor(Cur.scale)
          /\ Parsed([mem EXCEPT !.scale = Cur.scale])

\* [abs 0x1234], which has one term.
Abs ==
    /\ AtTerm({"abs"})
    /\ Parsed([mem EXCEPT !.displacement = Cur.num, !.has_displacement = TRUE])

CloseBracket ==
    /\ pc = "parse" /\ n > Len(terms)
    /\ \/ mem.is_rip_relative /\ (mem.has_base \/ mem.has_index) /\ Fail("rip")
       \/ /\ ~ (mem.is_rip_relative /\ (mem.has_base \/ mem.has_index))
          /\ pc' = "encode"
          /\ UNCHANGED <<terms, n, mem, error, rex, bytes, fixup>>
-----------------------------------------------------------------------------
(* The encoder.                                                             *)

\* Only an operand without registers has a fixup for its label.
FixupKind ==
    IF ~ mem.label THEN "none"
    ELSE IF mem.is_rip_relative THEN "rip" ELSE IF NoRegister(mem) THEN "abs" ELSE "none"

Encode ==
    /\ pc = "encode"
    /\ rex' = rex_bits(mem)
    /\ error' = EncoderError(mem)
    /\ pc' = IF EncoderError(mem) = "none" THEN "done" ELSE "failed"
    /\ bytes' = IF EncoderError(mem) = "none" THEN emit_modrm_sib(mem, RegOpcode) ELSE <<>>
    /\ fixup' = IF EncoderError(mem) = "none" THEN FixupKind ELSE "none"
    /\ UNCHANGED <<terms, n, mem>>

Finished == pc \in {"done", "failed"} /\ UNCHANGED vars

Next ==
    \/ FirstRegister \/ SignedRegister \/ ScaledRegister \/ Rip \/ Number \/ Dollar \/ Label \/ Star
    \/ Abs \/ CloseBracket \/ Encode \/ Finished

Spec == Init /\ [][Next]_vars
-----------------------------------------------------------------------------
(***************************************************************************)
(* The reference, in terms of addresses.  An address is the sum of         *)
(* registers with coefficients, a displacement and perhaps the instruction *)
(* pointer.  Decoded is how the processor reads the bytes, Written what    *)
(* the operand says.                                                       *)
(***************************************************************************)
Signed8(b) == IF b >= 128 THEN b - 256 ELSE b
Signed32(s) == s[1] + 256 * s[2] + 65536 * s[3] + 16777216 * Signed8(s[4])

Factors == <<1, 2, 4, 8>>

\* There is no displacement when bytes are missing or left over.
Decoded ==
    LET mod  == bytes[1] \div 64
        rm   == bytes[1] % 8
        sib  == bytes[2]
        has_sib == rm = 4
        first == IF has_sib THEN 3 ELSE 2
        no_base == IF has_sib THEN mod = 0 /\ sib % 8 = 5 ELSE mod = 0 /\ rm = 5
        base == (IF has_sib THEN sib % 8 ELSE rm) + (IF rex.b THEN 8 ELSE 0)
        index == ((sib \div 8) % 8) + (IF rex.x THEN 8 ELSE 0)
        factor == Factors[sib \div 64 + 1]
        size == IF no_base \/ mod = 2 THEN 4 ELSE mod
        tail == SubSeq(bytes, first, Len(bytes))
    IN  [regs |-> [r \in Regs |-> (IF ~ no_base /\ r = base THEN 1 ELSE 0)
                                  + (IF has_sib /\ index # 4 /\ r = index THEN factor ELSE 0)],
         disp |-> IF Len(tail) # size THEN {}
                  ELSE {CASE size = 4 -> Signed32(tail)
                          [] size = 1 -> Signed8(tail[1])
                          [] OTHER -> 0},
         rip  |-> no_base /\ ~ has_sib]

Weight(term, r) ==
    IF term.kind = "reg" /\ term.reg = r
    THEN (IF term.sign = "-" THEN -1 ELSE 1) * (IF term.scale = 0 THEN 1 ELSE term.scale)
    ELSE 0

\* The sums of the first 0, 1, 2 ... numbers of a sequence.
Totals(s) ==
    LET t[k \in 0..Len(s)] == IF k = 0 THEN 0 ELSE t[k - 1] + s[k] IN t

Weights(r) == [k \in DOMAIN terms |-> Weight(terms[k], r)]
Displacements ==
    [k \in DOMAIN terms |->
        IF terms[k].kind \in {"num", "dollar", "abs"} THEN Signed(terms[k]) ELSE 0]

Displacement == Totals(Displacements)[Len(terms)]

Written ==
    [regs |-> [r \in Regs |-> Totals(Weights(r))[Len(terms)]],
     disp |-> {Displacement},
     rip  |-> \E k \in DOMAIN terms : terms[k].kind = "rip"]

\* The address and the label the instruction refers to are those of the operand.
Kept ==
    /\ Decoded = Written
    /\ fixup = IF \A k \in DOMAIN terms : terms[k].kind # "label" THEN "none"
               ELSE IF Written.rip THEN "rip" ELSE "abs"
-----------------------------------------------------------------------------
(* Properties.                                                              *)

Of(kind) == {k \in DOMAIN terms : terms[k].kind = kind}

\* The forms of docs/ASSEMBLY_REFERENCE.md, "Addressing Modes": [base], [base +
\* index*scale], [rip] and [label], each with displacements, with or without a $,
\* and [abs number].
Documented ==
    /\ terms # <<>> /\ terms[1].sign = "" /\ \A k \in 2..Len(terms) : terms[k].sign # ""
    /\ Of("star") = {}
    /\ Of("abs") # {} => Len(terms) = 1
    /\ Cardinality(Of("label")) <= 1 /\ \A k \in Of("label") : terms[k].sign # "-"
    /\ \/ /\ terms[1].kind = "reg" /\ terms[1].scale = 0
          /\ Of("label") = {} /\ Of("rip") = {} /\ Cardinality(Of("reg")) <= 2
          /\ \A k \in Of("reg") : terms[k].sign # "-" /\ terms[k].scale \in {0, 1, 2, 4, 8}
       \/ terms[1].kind = "rip" /\ Of("rip") = {1} /\ Of("reg") = {}
       \/ Of("reg") = {} /\ Of("rip") = {}

\* The displacement is an int32_t.
IsInt32(v) == -2147483647 - 1 <= v /\ v <= 2147483647

\* rbp or r13 as the base beside an index, without a displacement, and rsp as the
\* index: the forms that emit_modrm_sib does not know about.
Unencodable ==
    /\ Cardinality(Of("reg")) = 2
    /\ \/ terms[1].reg % 8 = 5 /\ Of("num") \cup Of("dollar") = {}
       \/ \E k \in Of("reg") \ {1} : terms[k].reg = 4

\* The processor reads from a documented operand without a $ the address that was
\* written: the same registers, scale and displacement, from exactly the bytes that
\* were emitted, for every boundary of the displacement sizes and every register
\* with a meaning of its own in ModRM and SIB.  The sum of the numbers must not
\* overflow.  The documented displacements with a $, as in [rbx + $10], are left out:
\* parse_memory_operand refuses them (Dollar).
EncodesWhatIsWritten ==
    Documented /\ Of("dollar") = {} /\ ~ Unencodable /\ IsInt32(Displacement) =>
        pc # "failed" /\ (pc = "done" => Kept)

\* The parser refuses everything that the checks of emit_modrm_sib are there for,
\* also when several terms set the index, the scale or rip: no operand that was
\* read from a text fails in the encoder, after bytes have been emitted.
EncoderChecksUnreachable == error \notin {"encoder_scale", "encoder_rip"}
=============================================================================
