------------------------------- MODULE MCCodec -------------------------------
(***************************************************************************)
(* Instances of Codec: every encoder with every kind of operand it         *)
(* distinguishes, each followed by another instruction.                    *)
(***************************************************************************)
EXTENDS Codec

\* rax and rcx, the registers whose low bits mean something else in ModRM or SIB,
\* and extended registers.
SomeRegs == {0, 1, 4, 5, 9, 12}

R64 == {Reg(r, "64") : r \in SomeRegs \cup {13}}
R32 == {Reg(r, "32") : r \in {0, 1, 6, 9}}
R16 == {Reg(r, "16") : r \in {0, 10}}
R8  == {Reg(r, "8") : r \in {0, 1, 6, 9}} \cup {Reg(4, "8H")}
AnyReg == R64 \cup R32 \cup R16 \cup R8
Xmm == {Reg(r, "xmm") : r \in {16, 19, 24, 31}}

Base(r) == [NoMem EXCEPT !.base = r, !.has_base = TRUE]
Disp(mem, d) == [mem EXCEPT !.displacement = d, !.has_displacement = TRUE]
Index(mem, r, s) == [mem EXCEPT !.index = r, !.has_index = TRUE, !.scale = s]

Addresses ==
    {Base(r) : r \in {3, 4, 5, 12, 13}}
    \cup {Disp(Base(r), d) : r \in {4, 13}, d \in {-128, 128}}
    \cup {Index(Base(3), 9, 4), Index(Disp(Base(13), 16), 1, 8), Index(Disp(Base(4), -1000), 12, 2),
          Index(Base(5), 1, 1), Disp([NoMem EXCEPT !.is_rip_relative = TRUE], -70000),
          Disp(NoMem, 4096)}
Mems == {Mem(m, "default") : m \in Addresses} \cup {Mem(Disp(NoMem, 40), "fs")}
FewMems == {Mem(Base(5), "default"), Mem(Index(Disp(Base(12), 8), 13, 8), "default"),
            Mem(Base(9), "gs")}

\* Around the limits of the fields: 5, -1, 128, -1000, 2^31, 2^32, 2^40 and -2^40.
Small == {<<5, 0, 0, 0, 0, 0, 0, 0>>, <<255, 255, 255, 255, 255, 255, 255, 255>>,
          <<128, 0, 0, 0, 0, 0, 0, 0>>, <<24, 252, 255, 255, 255, 255, 255, 255>>}
Large == {<<0, 0, 0, 128, 0, 0, 0, 0>>, <<0, 0, 0, 0, 1, 0, 0, 0>>,
          <<0, 0, 0, 0, 0, 1, 0, 0>>, <<0, 0, 0, 0, 0, 255, 255, 255>>}
One == <<1, 0, 0, 0, 0, 0, 0, 0>>
Imms == {Imm(i) : i \in Small \cup Large}
FewImms == {Imm(One), Imm(<<5, 0, 0, 0, 0, 0, 0, 0>>), Imm(<<128, 0, 0, 0, 0, 0, 0, 0>>)}

Labels == {Label(<<2, 0, 0, 0, 0, 0, 0, 0>>, near) : near \in BOOLEAN}
          \cup {Label(<<128, 0, 0, 0, 0, 0, 0, 0>>, TRUE),
                Label(<<250, 255, 255, 255, 255, 255, 255, 255>>, TRUE)}

Pairs(S, T) == {<<s, t>> : s \in S, t \in T}
With(types, operands) == {Inst(t, "", o) : t \in types, o \in operands}
Cond(type, operands) == {Inst(type, c, o) : c \in {"o", "ne", "g"}, o \in operands}
One1(S) == {<<s>> : s \in S}

General ==
    With({"mov", "add", "cmp", "adc"}, Pairs(R64 \cup R32, R64 \cup R32 \cup Mems \cup Imms)
                         \cup Pairs(Mems, R64 \cup R32 \cup Imms))
    \cup With({"mov", "movzx", "xor", "test"},
              Pairs(AnyReg, AnyReg \cup FewMems \cup FewImms) \cup Pairs(FewMems, AnyReg \cup FewImms))
    \cup With({"or", "sbb", "and", "sub"}, Pairs(R64, FewMems \cup FewImms \cup {Reg(9, "64")}))
    \cup With({"mov"}, Pairs(R64 \cup R32, Labels))
    \cup With({"push", "pop"}, One1(AnyReg \cup Mems \cup Imms))
    \cup With({"inc", "dec", "not", "neg", "mul", "div", "idiv", "bswap", "imul"},
              One1(AnyReg \cup FewMems))
    \cup With({"lea"}, Pairs(AnyReg, Mems))
    \cup With({"xchg", "imul", "bsf", "bsr"}, Pairs(AnyReg, AnyReg \cup FewMems) \cup Pairs(FewMems, AnyReg))
    \cup With({"imul"}, {<<d, s, i>> : d \in R64, s \in FewMems \cup R64, i \in FewImms})
    \cup With({"rol", "rcr", "sal", "sar"},
              Pairs(AnyReg \cup FewMems, FewImms \cup {Reg(1, "8"), Reg(1, "64")})
              \cup One1(R64))
    \cup With({"bt", "bts", "btr", "btc"}, Pairs(AnyReg \cup FewMems, FewImms \cup R64 \cup {Reg(1, "8")}))
    \cup With({"shld", "shrd"},
              {<<d, s, c>> : d \in R32 \cup FewMems, s \in R64 \cup FewMems, c \in FewImms \cup {Reg(1, "8"), Reg(3, "8")}})

Flow ==
    With({"jmp", "call"}, One1(Labels \cup R64 \cup Mems))
    \cup Cond("j", One1(Labels \cup {Reg(0, "64")}))
    \cup Cond("set", One1(AnyReg \cup FewMems)) \cup Cond("cmov", Pairs(AnyReg, AnyReg \cup FewMems))
    \cup With({"ret", "int"}, {<<>>} \cup One1(FewImms))
    \cup With({"enter"}, Pairs(FewImms \cup {Imm(<<0, 0, 1, 0, 0, 0, 0, 0>>)}, FewImms))
    \cup With(DOMAIN Strict, {<<>>, <<Reg(0, "64")>>}) \cup With(DOMAIN Lenient, {<<>>})
    \cup With({"movsb", "movsw", "movsd", "movsq"}, {<<>>})

Sse ==
    With(DOMAIN SseMov, Pairs(Xmm, Xmm \cup FewMems) \cup Pairs(FewMems, Xmm)
                        \cup Pairs({Reg(9, "64")}, Xmm \cup R64) \cup Pairs(Xmm, {Reg(0, "64")}))
    \cup With({"addss", "subps", "mulsd", "divpd", "paddd", "pcmpgtq", "pxor"},
              Pairs(Xmm, Xmm \cup FewMems) \cup Pairs({Reg(0, "64")}, Xmm))
    \cup {Inst("movdqa", "", <<Mem(Base(3), "fs"), Mem(Base(3), "gs")>>),
          Inst("mov", "", <<Mem(Base(3), "fs"), Mem(Base(3), "gs")>>)}

\* Instructions written as data, as the decoder's own tests do; among them are
\* instructions this assembler does not write, and beginnings of instructions.
Data(bytes) == Inst("db", "", [k \in DOMAIN bytes |-> Imm([One EXCEPT ![1] = bytes[k]])])
Tails ==
    {Data(b) : b \in
        {<<\h0F, \hB6, \hC3>>, <<\h44, \h0F, \hB7, \hC4>>, <<\h0F, \hBE, \hC0>>, <<\h48, \h0F, \hBF, \h03>>,
         <<\h0F, \hC0, \hC1>>, <<\hF0, \h48, \h0F, \hC1, \h0B>>, <<\h0F, \hB0, \hC8>>, <<\h0F, \hB1, \hC8>>,
         <<\h0F, \h1F, \h40, \h00>>, <<\h0F, \h1F, \hC0>>, <<\h0F, \h1F, \h48>>, <<\h48, \h63, \hC8>>,
         <<\h88, \hE0>>, <<\h8A, \h03>>, <<\h80, \hC3, \h05>>, <<\h66, \h81, \hC3, \h05, \h01>>,
         <<\h66, \hF7, \hC3, \h05, \h01>>, <<\h66, \hC7, \hC3, \h05, \h01>>, <<\hC7, \hFB>>, <<\h8F, \hF8>>,
         <<\hFF, \hFB>>, <<\hF7, \hE3>>, <<\h0F, \hBA, \hC3>>, <<\hC1, \hF3, \h02>>,
         <<\h48>>, <<\h66, \h0F>>, <<\h6A>>, <<\h68, 1, 2, 3>>, <<\h75>>, <<\hE8, 0, 0, 0>>, <<\h48, \hB8, 1, 2, 3, 4, 5, 6, 7>>,
         <<\h8B>>, <<\h8B, \h04>>, <<\h8B, \h44, \h24>>, <<\h81, \hC3, 1, 2, 3>>, <<\h0F, \h84, 1, 2, 3>>}}
    \cup {Inst("dd", "", <<Imm(One)>>)}

\* Runs of prefixes as data: rows of exactly 15 bytes and longer ones, in front of
\* the shortest and of the longest instruction, and nothing but prefixes.
Run(n, prefix) == Data([k \in 1..n |-> prefix])
PrefixRuns ==
    {<<Run(n, prefix), Data(behind)>> :
        n \in {4, 5, 14, 15}, prefix \in {\h66, \hF0, \h48},
        behind \in {<<\hC3, \hC3>>, <<\hC7, \h84, \h24, 1, 2, 3, 4, 5, 6, 7, 8, \hC3>>}}
    \cup {<<Run(16, \h66)>>}

Followers == {Inst("j", "ne", <<Label(<<128, 0, 0, 0, 0, 0, 0, 0>>, TRUE)>>),
              Inst("mov", "", <<Reg(9, "64"), Mem(Index(Disp(Base(12), 8), 13, 8), "default")>>)}

Sample == (General \cup Flow \cup Sse) \X Followers \cup (Followers \X Tails) \cup PrefixRuns
=============================================================================
