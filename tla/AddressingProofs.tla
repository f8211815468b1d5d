--------------------------- MODULE AddressingProofs ---------------------------
(***************************************************************************)
(* The bytes of a memory operand, for every operand of any length: what    *)
(* the processor reads from them is the address that was written, and the  *)
(* parser refuses everything that the encoder would refuse.                *)
(***************************************************************************)
EXTENDS Addressing, TLAPS, WellFoundedInduction, SequenceTheorems, FiniteSetTheorems

-----------------------------------------------------------------------------
(* The sums of a sequence.  The recursion has a solution, which takes an   *)
(* induction; it is made with the least element of a set of naturals.      *)

\* A set of naturals that is not empty has a least element.
LEMMA LeastNat ==
    ASSUME NEW T, T \subseteq Nat, T # {}
    PROVE  \E x \in T : \A y \in T : x <= y
<1> DEFINE Less == {ss \in Nat \X Nat : ss[1] < ss[2]}
<1>1. IsWellFoundedOn(Less, Nat)
  BY NatLessThanWellFounded DEF OpToRel
<1>2. PICK x \in T : \A y \in T : ~ (<<y, x>> \in Less)
  BY <1>1, WFMin, Zenon
<1>3. \A y \in T : ~ (y < x)
  <2> TAKE y \in T
  <2>1. x \in Nat /\ y \in Nat
    OBVIOUS
  <2>2. y < x => <<y, x>> \in Less
    BY <2>1
  <2> QED
    BY <2>2, <1>2
<1> QED
  BY <1>3

\* What holds of 0 and is handed on holds up to the bound.
LEMMA Upwards ==
    ASSUME NEW N \in Nat, NEW P \in SUBSET (0..N), 0 \in P,
           \A k \in 0..N-1 : k \in P => k + 1 \in P
    PROVE  0..N \subseteq P
<1> SUFFICES ASSUME (0..N) \ P # {} PROVE FALSE
  OBVIOUS
<1>1. PICK x \in (0..N) \ P : \A y \in (0..N) \ P : x <= y
  BY LeastNat, (0..N) \ P \subseteq Nat
<1>2. x # 0 /\ x - 1 \in 0..N-1 /\ x - 1 \in P
  BY <1>1
<1> QED
  BY <1>1, <1>2

\* Totals starts with 0 and adds one number after the other.
LEMMA TotalsAdd ==
    ASSUME NEW s \in Seq(Int)
    PROVE  /\ Totals(s) \in [0..Len(s) -> Int]
           /\ Totals(s)[0] = 0
           /\ \A k \in 1..Len(s) : Totals(s)[k] = Totals(s)[k-1] + s[k]
<1> DEFINE N == Len(s)
           Sums(m) == {t \in [0..m -> Int] : t[0] = 0 /\ \A k \in 1..m : t[k] = t[k-1] + s[k]}
           P == {m \in 0..N : Sums(m) # {}}
<1>0. N \in Nat /\ \A k \in 1..N : s[k] \in Int
  OBVIOUS
<1>1. 0 \in P
  <2>1. [k \in 0..0 |-> 0] \in Sums(0)
    OBVIOUS
  <2> QED
    BY <2>1, <1>0
<1>2. \A m \in 0..N-1 : m \in P => m + 1 \in P
  <2> SUFFICES ASSUME NEW m \in 0..N-1, m \in P PROVE m + 1 \in P
    OBVIOUS
  <2>1. PICK t \in [0..m -> Int] : t[0] = 0 /\ \A k \in 1..m : t[k] = t[k-1] + s[k]
    OBVIOUS
  <2> DEFINE u == [k \in 0..m+1 |-> IF k <= m THEN t[k] ELSE t[m] + s[m+1]]
  <2>2. u \in [0..m+1 -> Int]
    BY <1>0, <2>1
  <2>3. u[0] = 0 /\ \A k \in 1..m+1 : u[k] = u[k-1] + s[k]
    BY <1>0, <2>1
  <2>4. u \in Sums(m+1)
    BY <2>2, <2>3
  <2>5. m + 1 \in 0..N
    BY <1>0
  <2> HIDE DEF u, N, Sums
  <2> QED
    BY <2>4, <2>5
<1>3. N \in P
  <2>1. P \in SUBSET (0..N)
    OBVIOUS
  <2>2. N \in 0..N
    BY <1>0
  <2> HIDE DEF P, N
  <2> QED
    BY <2>1, <2>2, <1>0, <1>1, <1>2, Upwards
<1>4. PICK t \in [0..N -> Int] : t[0] = 0 /\ \A k \in 1..N : t[k] = t[k-1] + s[k]
  BY <1>3
<1>5. t = [k \in 0..N |-> IF k = 0 THEN 0 ELSE t[k-1] + s[k]]
  BY <1>4, <1>0
<1>6. \E f : f = [k \in 0..Len(s) |-> IF k = 0 THEN 0 ELSE f[k-1] + s[k]]
  BY <1>5
<1> DEFINE T == Totals(s)
<1>7. T = [k \in 0..Len(s) |-> IF k = 0 THEN 0 ELSE T[k-1] + s[k]]
  BY <1>6, Zenon DEF Totals
<1> HIDE DEF T
<1>8. T[0] = 0
  BY <1>7
<1>9. \A k \in 1..Len(s) : T[k] = T[k-1] + s[k]
  BY <1>7, <1>0
<1>10. \A k \in 0..N : T[k] \in Int
  <2> DEFINE Q == {k \in 0..N : T[k] \in Int}
  <2>1. 0 \in Q
    BY <1>8
  <2>2. \A k \in 0..N-1 : k \in Q => k + 1 \in Q
    BY <1>9, <1>0
  <2>3. Q \in SUBSET (0..N)
    OBVIOUS
  <2> HIDE DEF Q
  <2>4. 0..N \subseteq Q
    BY <2>1, <2>2, <2>3, <1>0, Upwards
  <2> QED
    BY <2>4 DEF Q
<1> QED
  BY <1>7, <1>8, <1>9, <1>10 DEF T

-----------------------------------------------------------------------------
(* The bytes.                                                               *)

IsModRM(b, mod, rm) == b \in Nat /\ b \div 64 = mod /\ b % 8 = rm

IsSib(s, scale, index, base) ==
    s \in Nat /\ s % 8 = base /\ (s \div 8) % 8 = index % 8 /\ Factors[s \div 64 + 1] = scale

\* ModRM gives back the mode and the register it was made of.
LEMMA ModRMFields ==
    ASSUME NEW mod \in 0..3, NEW reg \in Nat, NEW rm \in 0..7
    PROVE  IsModRM(make_modrm(mod, reg, rm), mod, rm)
<1> DEFINE m == reg % 8
<1>1. m \in 0..7 /\ rm % 8 = rm
  OBVIOUS
<1> HIDE DEF m
<1>2. 64 * mod + 8 * m + rm \in Nat
  BY <1>1
<1>3. (64 * mod + 8 * m + rm) \div 64 = mod /\ (64 * mod + 8 * m + rm) % 8 = rm
  BY <1>1
<1> QED
  BY <1>1, <1>2, <1>3 DEF make_modrm, m, IsModRM

\* SIB gives back the scale, the low bits of the index and the base.
LEMMA SibFields ==
    ASSUME NEW scale \in {1, 2, 4, 8}, NEW index \in Nat, NEW base \in 0..7
    PROVE  IsSib(make_sib(scale, index, base), scale, index, base)
<1> DEFINE bits == CASE scale = 8 -> 3 [] scale = 4 -> 2 [] scale = 2 -> 1 [] OTHER -> 0
           m == index % 8
<1>1. m \in 0..7 /\ base % 8 = base
  OBVIOUS
<1>2. bits \in 0..3 /\ Factors[bits + 1] = scale
  BY DEF Factors
<1>3. make_sib(scale, index, base) = 64 * bits + 8 * m + base
  BY <1>1 DEF make_sib
<1> HIDE DEF bits, m
<1>4. 64 * bits + 8 * m + base \in Nat
  BY <1>1, <1>2
<1>5. /\ (64 * bits + 8 * m + base) % 8 = base
      /\ (64 * bits + 8 * m + base) \div 64 = bits
  BY <1>1, <1>2
<1>6. (64 * bits + 8 * m + base) \div 8 = 8 * bits + m
  BY <1>1, <1>2
<1>7. (8 * bits + m) % 8 = m
  BY <1>1, <1>2
<1> QED
  BY <1>2, <1>3, <1>4, <1>5, <1>6, <1>7 DEF m, IsSib

\* Four bytes hold every displacement of 32 bits, one byte those of 8 bits.
LEMMA Le32Value ==
    ASSUME NEW v \in Int, IsInt32(v)
    PROVE  /\ emit_le32(v) \in Seq(Int) /\ Len(emit_le32(v)) = 4
           /\ Signed32(emit_le32(v)) = v
<1> DEFINE a == v \div 256   b == v \div 65536   c == v \div 16777216
<1>0. v \in Int /\ -2147483647 - 1 <= v /\ v <= 2147483647
  BY SMT DEF IsInt32
<1>1. a \in Int /\ b \in Int /\ c \in Int
  BY SMT, <1>0
<1>2. v = 256 * a + (v % 256)
  BY SMT, <1>0
<1>3. a = 256 * b + (a % 256)
  BY SMT, <1>0
<1>4. b = 256 * c + (b % 256)
  BY SMT, <1>0
<1>5. c \in -128..127
  BY SMT, <1>0
<1>6. emit_le32(v) = <<v % 256, a % 256, b % 256, c % 256>>
  BY SMT DEF emit_le32
<1> HIDE DEF a, b, c
<1>7. Signed8(c % 256) = c
  BY SMT, <1>1, <1>5 DEF Signed8
<1> DEFINE w == v % 256  x == a % 256  y == b % 256  z == c % 256
<1>8. w \in Int /\ x \in Int /\ y \in Int /\ z \in Int
  BY SMT, <1>0, <1>1
<1>9. v = 256 * a + w /\ a = 256 * b + x /\ b = 256 * c + y /\ Signed8(z) = c
  BY SMT, <1>2, <1>3, <1>4, <1>7
<1>10. emit_le32(v) = <<w, x, y, z>>
  BY SMT, <1>6
<1> HIDE DEF w, x, y, z
<1>11. w + 256 * x + 65536 * y + 16777216 * c = v
  BY SMT, <1>0, <1>1, <1>8, <1>9
<1>12. emit_le32(v) \in Seq(Int) /\ Len(emit_le32(v)) = 4
  BY SMT, <1>8, <1>10
<1>13. Signed32(<<w, x, y, z>>) = w + 256 * x + 65536 * y + 16777216 * Signed8(z)
  BY SMT DEF Signed32
<1>14. Signed32(<<w, x, y, z>>) = v
  BY SMT, <1>1, <1>8, <1>9, <1>11, <1>13
<1> QED
  BY Zenon, <1>10, <1>12, <1>14

LEMMA Disp8Value ==
    ASSUME NEW v \in -128..127
    PROVE  disp8(v) \in Seq(Int) /\ Len(disp8(v)) = 1 /\ Signed8(disp8(v)[1]) = v
<1>1. v % 256 \in Int /\ (IF v % 256 >= 128 THEN (v % 256) - 256 ELSE v % 256) = v
  OBVIOUS
<1> QED
  BY <1>1 DEF disp8, Signed8

-----------------------------------------------------------------------------
(* How the processor reads them.                                            *)

\* The address that ModRM, SIB and the bytes behind them stand for.
Address(mod, rm, sib, tail) ==
    LET has_sib == rm = 4
        no_base == IF has_sib THEN mod = 0 /\ sib % 8 = 5 ELSE mod = 0 /\ rm = 5
        base == (IF has_sib THEN sib % 8 ELSE rm) + (IF rex.b THEN 8 ELSE 0)
        index == ((sib \div 8) % 8) + (IF rex.x THEN 8 ELSE 0)
        factor == Factors[sib \div 64 + 1]
        size == IF no_base \/ mod = 2 THEN 4 ELSE mod
    IN  [regs |-> [r \in Regs |-> (IF ~ no_base /\ r = base THEN 1 ELSE 0)
                                  + (IF has_sib /\ index # 4 /\ r = index THEN factor ELSE 0)],
         disp |-> IF Len(tail) # size THEN {}
                  ELSE {CASE size = 4 -> Signed32(tail)
                          [] size = 1 -> Signed8(tail[1])
                          [] OTHER -> 0},
         rip  |-> no_base /\ ~ has_sib]

LEMMA DecodedSib ==
    ASSUME NEW b, NEW mod, IsModRM(b, mod, 4), NEW s, NEW t \in Seq(Int),
           bytes = <<b, s>> \o t
    PROVE  Decoded = Address(mod, 4, s, t)
<1>1. bytes[1] = b /\ bytes[2] = s
  OBVIOUS
<1>2. SubSeq(bytes, 3, Len(bytes)) = t
  OBVIOUS
<1> QED
  BY <1>1, <1>2 DEF Decoded, Address, IsModRM

LEMMA DecodedPlain ==
    ASSUME NEW b, NEW mod, NEW rm, IsModRM(b, mod, rm), rm # 4, NEW t \in Seq(Int),
           bytes = <<b>> \o t
    PROVE  Decoded = Address(mod, rm, bytes[2], t)
<1>1. bytes[1] = b
  OBVIOUS
<1>2. SubSeq(bytes, 2, Len(bytes)) = t
  OBVIOUS
<1> QED
  BY <1>1, <1>2 DEF Decoded, Address, IsModRM

\* The bytes behind ModRM and SIB are size bytes that hold v.
Holds(t, size, v) ==
    /\ size \in {0, 1, 4} /\ t \in Seq(Int) /\ Len(t) = size
    /\ size = 4 => Signed32(t) = v
    /\ size = 1 => Signed8(t[1]) = v
    /\ size = 0 => v = 0

LEMMA HoldsLe32 ==
    ASSUME NEW v \in Int, IsInt32(v)
    PROVE  Holds(emit_le32(v), 4, v)
  BY Le32Value DEF Holds

LEMMA HoldsDisp8 ==
    ASSUME NEW v \in -128..127
    PROVE  Holds(disp8(v), 1, v)
<1>1. disp8(v) \in Seq(Int) /\ Len(disp8(v)) = 1 /\ Signed8(disp8(v)[1]) = v
  BY Disp8Value
<1> HIDE DEF disp8
<1> QED
  BY <1>1 DEF Holds

LEMMA HoldsNothing == Holds(<<>>, 0, 0)
  BY DEF Holds

Size(mod, no_base) == IF no_base \/ mod = 2 THEN 4 ELSE mod

\* Without a SIB byte.
PlainAddress(mod, rm, v) ==
    [regs |-> [r \in Regs |->
                 IF ~ (mod = 0 /\ rm = 5) /\ r = rm + (IF rex.b THEN 8 ELSE 0) THEN 1 ELSE 0],
     disp |-> {v},
     rip  |-> mod = 0 /\ rm = 5]

LEMMA AddressPlain ==
    ASSUME NEW mod \in 0..2, NEW rm \in 0..7, NEW s, NEW t, NEW v \in Int, rm # 4,
           Holds(t, Size(mod, mod = 0 /\ rm = 5), v)
    PROVE  Address(mod, rm, s, t) = PlainAddress(mod, rm, v)
<1> DEFINE size == IF (mod = 0 /\ rm = 5) \/ mod = 2 THEN 4 ELSE mod
           d == CASE size = 4 -> Signed32(t) [] size = 1 -> Signed8(t[1]) [] OTHER -> 0
<1>1. Len(t) = size /\ d = v
  BY DEF Holds, Size
<1> DEFINE nb == mod = 0 /\ rm = 5
           b == rm + (IF rex.b THEN 8 ELSE 0)
<1>2. Address(mod, rm, s, t) =
          [regs |-> [r \in Regs |-> (IF ~ nb /\ r = b THEN 1 ELSE 0) + 0],
           disp |-> IF Len(t) # size THEN {} ELSE {d},
           rip  |-> nb]
  BY DEF Address
<1> HIDE DEF nb, b, size, d
<1>3. \A r \in Regs : (IF ~ nb /\ r = b THEN 1 ELSE 0) + 0 = IF ~ nb /\ r = b THEN 1 ELSE 0
  OBVIOUS
<1>4. Address(mod, rm, s, t) = [regs |-> [r \in Regs |-> IF ~ nb /\ r = b THEN 1 ELSE 0],
                                disp |-> {v}, rip |-> nb]
  BY <1>1, <1>2, <1>3
<1> QED
  BY <1>4 DEF nb, b, PlainAddress

\* With one.
SibAddress(mod, scale, index, low, v) ==
    [regs |-> [r \in Regs |->
                 (IF ~ (mod = 0 /\ low = 5) /\ r = low + (IF rex.b THEN 8 ELSE 0) THEN 1 ELSE 0)
                 + (IF /\ (index % 8) + (IF rex.x THEN 8 ELSE 0) # 4
                       /\ r = (index % 8) + (IF rex.x THEN 8 ELSE 0)
                    THEN scale ELSE 0)],
     disp |-> {v},
     rip  |-> FALSE]

LEMMA AddressSib ==
    ASSUME NEW mod \in 0..2, NEW scale \in {1, 2, 4, 8}, NEW index \in Nat, NEW low \in 0..7,
           NEW s, IsSib(s, scale, index, low), NEW t, NEW v \in Int,
           Holds(t, Size(mod, mod = 0 /\ low = 5), v)
    PROVE  Address(mod, 4, s, t) = SibAddress(mod, scale, index, low, v)
<1> DEFINE size == IF (mod = 0 /\ low = 5) \/ mod = 2 THEN 4 ELSE mod
           d == CASE size = 4 -> Signed32(t) [] size = 1 -> Signed8(t[1]) [] OTHER -> 0
           i == (index % 8) + (IF rex.x THEN 8 ELSE 0)
           b == low + (IF rex.b THEN 8 ELSE 0)
           nb == mod = 0 /\ low = 5
<1>1. Len(t) = size /\ d = v
  BY DEF Holds, Size
<1>3. Address(mod, 4, s, t) =
          [regs |-> [r \in Regs |-> (IF ~ nb /\ r = b THEN 1 ELSE 0)
                                    + (IF i # 4 /\ r = i THEN scale ELSE 0)],
           disp |-> IF Len(t) # size THEN {} ELSE {d},
           rip  |-> FALSE]
  BY DEF Address, IsSib
<1> HIDE DEF size, d
<1>4. (IF Len(t) # size THEN {} ELSE {d}) = {v}
  BY <1>1
<1> QED
  BY <1>3, <1>4 DEF SibAddress

-----------------------------------------------------------------------------
(* emit_modrm_sib, decoded.                                                 *)

MemType ==
    [base : Regs, index : Regs \cup {RIP}, scale : {1, 2, 4, 8}, displacement : Int,
     has_base : BOOLEAN, has_index : BOOLEAN, has_displacement : BOOLEAN,
     is_rip_relative : BOOLEAN, label : BOOLEAN]

\* The operands that the bytes can express: an index has a base and is not rsp,
\* rbp and r13 beside an index have a displacement, rip is alone.
Encodable(m) ==
    /\ m.has_index => m.has_base /\ m.index \in Regs \ {4}
    /\ m.has_index /\ m.base % 8 = 5 => m.has_displacement
    /\ m.is_rip_relative => NoRegister(m)
    /\ ~ m.has_displacement => m.displacement = 0
    /\ IsInt32(m.displacement)

AddressOf(m) ==
    [regs |-> [r \in Regs |-> (IF m.has_base /\ r = m.base THEN 1 ELSE 0)
                              + (IF m.has_index /\ r = m.index THEN m.scale ELSE 0)],
     disp |-> {m.displacement},
     rip  |-> m.is_rip_relative]

\* The register that three bits and the bit of REX stand for.
LEMMA RegisterBits ==
    ASSUME NEW r \in Regs
    PROVE  r % 8 \in 0..7 /\ (r % 8) + (IF r >= 8 THEN 8 ELSE 0) = r
  BY DEF Regs

LEMMA DecodesRip ==
    ASSUME NEW m \in MemType, Encodable(m), m.is_rip_relative,
           bytes = emit_modrm_sib(m, RegOpcode)
    PROVE  Decoded = AddressOf(m)
<1> DEFINE b == make_modrm(0, RegOpcode, 5)
           t == emit_le32(m.displacement)
           v == m.displacement
<1>0. ~ m.has_base /\ ~ m.has_index
  BY DEF Encodable, NoRegister
<1>1. bytes = <<b>> \o t
  BY <1>0 DEF emit_modrm_sib, NoRegister, MemType
<1>2. IsModRM(b, 0, 5)
  BY ModRMFields, OpcodeTyped DEF Regs
<1>3. v \in Int /\ Holds(t, 4, v)
  BY HoldsLe32 DEF MemType, Encodable
<1>4. t \in Seq(Int)
  BY <1>3 DEF Holds
<1> HIDE DEF b, t, v
<1>6. Decoded = Address(0, 5, bytes[2], t)
  BY <1>1, <1>2, <1>4, DecodedPlain, 5 # 4, Zenon
<1>7. Address(0, 5, bytes[2], t) = PlainAddress(0, 5, v)
  BY <1>3, AddressPlain DEF Size
<1>8. AddressOf(m) = PlainAddress(0, 5, v)
  <2>1. m.is_rip_relative = TRUE
    BY DEF MemType
  <2>2. AddressOf(m).regs = [r \in Regs |-> 0]
    BY <1>0 DEF AddressOf
  <2>3. PlainAddress(0, 5, v).regs = [r \in Regs |-> 0]
    BY DEF PlainAddress
  <2>4. AddressOf(m) = [regs |-> [r \in Regs |-> 0], disp |-> {v}, rip |-> TRUE]
    BY <2>1, <2>2 DEF AddressOf, v
  <2> QED
    BY <2>3, <2>4 DEF PlainAddress
<1> QED
  BY <1>6, <1>7, <1>8, Zenon

LEMMA DecodesAbsolute ==
    ASSUME NEW m \in MemType, Encodable(m), ~ m.is_rip_relative, NoRegister(m),
           bytes = emit_modrm_sib(m, RegOpcode), rex = rex_bits(m)
    PROVE  Decoded = AddressOf(m)
<1> DEFINE b == make_modrm(0, RegOpcode, 4)
           s == make_sib(1, 4, 5)
           t == emit_le32(m.displacement)
           v == m.displacement
<1>0. ~ m.has_base /\ ~ m.has_index /\ ~ rex.x
  BY DEF NoRegister, rex_bits, MemType
<1>1. bytes = <<b, s>> \o t
  BY <1>0 DEF emit_modrm_sib, NoRegister, MemType
<1>2. IsModRM(b, 0, 4)
  BY ModRMFields, OpcodeTyped DEF Regs
<1>3. IsSib(s, 1, 4, 5)
  BY SibFields
<1>4. v \in Int /\ Holds(t, 4, v)
  BY HoldsLe32 DEF MemType, Encodable
<1>5. t \in Seq(Int)
  BY <1>4 DEF Holds
<1> HIDE DEF b, t, v, s
<1>7. Decoded = Address(0, 4, s, t)
  BY <1>1, <1>2, <1>5, DecodedSib
<1>8. Address(0, 4, s, t) = SibAddress(0, 1, 4, 5, v)
  BY <1>3, <1>4, AddressSib DEF Size
<1>9. AddressOf(m) = SibAddress(0, 1, 4, 5, v)
  <2>1. m.is_rip_relative = FALSE
    BY DEF MemType
  <2>2. AddressOf(m).regs = [r \in Regs |-> 0]
    BY <1>0 DEF AddressOf
  <2>3. SibAddress(0, 1, 4, 5, v).regs = [r \in Regs |-> 0]
    BY <1>0 DEF SibAddress
  <2>4. AddressOf(m) = [regs |-> [r \in Regs |-> 0], disp |-> {v}, rip |-> FALSE]
    BY <2>1, <2>2 DEF AddressOf, v
  <2> QED
    BY <2>3, <2>4 DEF SibAddress
<1> QED
  BY <1>7, <1>8, <1>9, Zenon

LEMMA DecodesBase ==
    ASSUME NEW m \in MemType, Encodable(m), m.has_base, ~ m.has_index,
           bytes = emit_modrm_sib(m, RegOpcode), rex = rex_bits(m)
    PROVE  Decoded = AddressOf(m)
<1> DEFINE low == m.base % 8
           v == m.displacement
           b(mod) == make_modrm(mod, RegOpcode, low)
           s == make_sib(1, 4, low)
           sib == IF low = 4 THEN <<s>> ELSE <<>>
<1>0. ~ m.is_rip_relative /\ m.has_base = TRUE /\ m.has_index = FALSE
  BY DEF Encodable, NoRegister, MemType
<1>1. /\ m.base \in Regs /\ low \in 0..7 /\ v \in Int /\ IsInt32(v)
      /\ (~ m.has_displacement => v = 0)
  BY RegisterBits DEF MemType, Encodable
<1>2. low + (IF rex.b THEN 8 ELSE 0) = m.base /\ ~ rex.x
  BY <1>0, <1>1, RegisterBits DEF rex_bits
<1>3. bytes = BaseOnly(m, RegOpcode)
  BY <1>0 DEF emit_modrm_sib, NoRegister
<1>4. \A mod \in 0..2 : IsModRM(b(mod), mod, low)
  BY <1>1, ModRMFields, OpcodeTyped DEF Regs
<1>5. IsSib(s, 1, 4, low)
  BY <1>1, SibFields
<1>6. AddressOf(m) = [regs |-> [r \in Regs |-> IF r = m.base THEN 1 ELSE 0],
                      disp |-> {v}, rip |-> FALSE]
  <2>1. \A r \in Regs : AddressOf(m).regs[r] = IF r = m.base THEN 1 ELSE 0
    BY <1>0 DEF AddressOf
  <2>2. AddressOf(m).regs = [r \in Regs |-> AddressOf(m).regs[r]]
    BY DEF AddressOf
  <2>3. AddressOf(m).regs = [r \in Regs |-> IF r = m.base THEN 1 ELSE 0]
    BY <2>1, <2>2
  <2>4. m.is_rip_relative = FALSE
    BY <1>0 DEF MemType
  <2> QED
    BY <2>3, <2>4 DEF AddressOf
\* With any mode and the displacement of its size.
<1>7. ASSUME NEW mod \in 0..2, NEW t, Holds(t, Size(mod, mod = 0 /\ low = 5), v),
             ~ (mod = 0 /\ low = 5), bytes = <<b(mod)>> \o sib \o t
      PROVE  Decoded = AddressOf(m)
  <2>1. t \in Seq(Int)
    BY <1>7 DEF Holds
  <2>2. IsModRM(b(mod), mod, low)
    BY <1>4
  <2> HIDE DEF b, low, s, v
  <2>3. CASE low = 4
    <3>1. bytes = <<b(mod), s>> \o t
      BY <1>7, <2>1, <2>3
    <3>2. Decoded = Address(mod, 4, s, t)
      BY <2>1, <2>2, <2>3, <3>1, DecodedSib
    <3>3. Address(mod, 4, s, t) = SibAddress(mod, 1, 4, 4, v)
      BY <1>1, <1>5, <1>7, <2>3, AddressSib
    <3>4. SibAddress(mod, 1, 4, 4, v) = AddressOf(m)
      <4>1. (4 % 8) + (IF rex.x THEN 8 ELSE 0) = 4
        BY <1>2
      <4>2. SibAddress(mod, 1, 4, 4, v).regs = [r \in Regs |-> IF r = m.base THEN 1 ELSE 0]
        BY <1>2, <2>3, <4>1 DEF SibAddress
      <4> QED
        BY <1>6, <4>2 DEF SibAddress
    <3> QED
      BY <3>2, <3>3, <3>4
  <2>4. CASE low # 4
    <3>1. bytes = <<b(mod)>> \o t
      BY <1>7, <2>1, <2>4
    <3>2. Decoded = Address(mod, low, bytes[2], t)
      BY <2>1, <2>2, <2>4, <3>1, DecodedPlain, Zenon
    <3>3. Address(mod, low, bytes[2], t) = PlainAddress(mod, low, v)
      BY <1>1, <1>7, <2>4, AddressPlain
    <3>4. PlainAddress(mod, low, v) = AddressOf(m)
      BY <1>2, <1>6, <1>7 DEF PlainAddress
    <3> QED
      BY <3>2, <3>3, <3>4
  <2> QED
    BY <2>3, <2>4
<1>8. CASE ~ m.has_displacement /\ low \notin {4, 5}
  <2>1. bytes = <<b(0)>>
    BY <1>3, <1>8 DEF BaseOnly
  <2>2. bytes = <<b(0)>> \o sib \o <<>>
    BY <2>1, <1>8
  <2>3. Holds(<<>>, Size(0, 0 = 0 /\ low = 5), v)
    BY <1>1, <1>8, HoldsNothing DEF Size
  <2> QED
    BY <1>7, <1>8, <2>2, <2>3
<1>9. CASE ~ m.has_displacement /\ low = 5
  <2>1. bytes = <<b(1), 0>>
    BY <1>3, <1>9 DEF BaseOnly
  <2>2. bytes = <<b(1)>> \o sib \o <<0>>
    BY <2>1, <1>9
  <2>3. Holds(<<0>>, Size(1, 1 = 0 /\ low = 5), v)
    BY <1>1, <1>9 DEF Size, Holds, Signed8
  <2>4. 1 \in 0..2
    OBVIOUS
  <2>5. ~ (1 = 0 /\ low = 5)
    OBVIOUS
  <2> HIDE DEF b, s, sib, low, v
  <2> QED
    BY <1>7, <2>4, <2>5, <2>2, <2>3
<1>10. CASE m.has_displacement /\ fits_in_int8(v)
  <2>1. bytes = <<b(1)>> \o sib \o disp8(v)
    BY <1>3, <1>10 DEF BaseOnly
  <2>2. Holds(disp8(v), Size(1, 1 = 0 /\ low = 5), v)
    BY <1>1, <1>10, HoldsDisp8 DEF Size, fits_in_int8
  <2>4. 1 \in 0..2
    OBVIOUS
  <2>5. ~ (1 = 0 /\ low = 5)
    OBVIOUS
  <2> HIDE DEF b, s, sib, low, v
  <2> QED
    BY <1>7, <2>4, <2>5, <2>1, <2>2
<1>11. CASE \/ m.has_displacement /\ ~ fits_in_int8(v)
            \/ ~ m.has_displacement /\ low = 4
  <2>1. bytes = <<b(2)>> \o sib \o emit_le32(v)
    BY <1>3, <1>11 DEF BaseOnly
  <2>2. Holds(emit_le32(v), Size(2, 2 = 0 /\ low = 5), v)
    BY <1>1, HoldsLe32 DEF Size
  <2>4. 2 \in 0..2
    OBVIOUS
  <2>5. ~ (2 = 0 /\ low = 5)
    OBVIOUS
  <2> HIDE DEF b, s, sib, low, v
  <2> QED
    BY <1>7, <2>4, <2>5, <2>1, <2>2
<1> QED
  BY <1>8, <1>9, <1>10, <1>11

LEMMA DecodesIndex ==
    ASSUME NEW m \in MemType, Encodable(m), m.has_index,
           bytes = emit_modrm_sib(m, RegOpcode), rex = rex_bits(m)
    PROVE  Decoded = AddressOf(m)
<1> DEFINE low == m.base % 8
           v == m.displacement
           b(mod) == make_modrm(mod, RegOpcode, 4)
           s == make_sib(m.scale, m.index, low)
<1>0. ~ m.is_rip_relative /\ m.has_base = TRUE /\ m.has_index = TRUE
  BY DEF Encodable, NoRegister, MemType
<1>1. /\ m.base \in Regs /\ low \in 0..7 /\ v \in Int /\ IsInt32(v)
      /\ m.index \in Regs /\ m.index # 4 /\ m.scale \in {1, 2, 4, 8}
      /\ (~ m.has_displacement => v = 0 /\ low # 5)
  BY RegisterBits DEF MemType, Encodable
<1>2. /\ low + (IF rex.b THEN 8 ELSE 0) = m.base
      /\ (m.index % 8) + (IF rex.x THEN 8 ELSE 0) = m.index
  BY <1>0, <1>1, RegisterBits DEF rex_bits
<1>3. bytes = WithIndex(m, RegOpcode)
  BY <1>0 DEF emit_modrm_sib, NoRegister
<1>4. \A mod \in 0..2 : IsModRM(b(mod), mod, 4)
  BY ModRMFields, OpcodeTyped DEF Regs
<1>5. m.index \in Nat /\ IsSib(s, m.scale, m.index, low)
  <2>1. m.index \in Nat
    BY <1>1 DEF Regs
  <2> QED
    BY <1>1, <2>1, SibFields
\* With any mode and the displacement of its size.
<1>6. ASSUME NEW mod \in 0..2, NEW t, Holds(t, Size(mod, mod = 0 /\ low = 5), v),
             ~ (mod = 0 /\ low = 5), bytes = <<b(mod), s>> \o t
      PROVE  Decoded = AddressOf(m)
  <2>1. t \in Seq(Int)
    BY <1>6 DEF Holds
  <2>2. IsModRM(b(mod), mod, 4)
    BY <1>4
  <2> HIDE DEF b, low, s, v
  <2>3. Decoded = Address(mod, 4, s, t)
    BY <1>6, <2>1, <2>2, DecodedSib
  <2>4. Address(mod, 4, s, t) = SibAddress(mod, m.scale, m.index, low, v)
    BY <1>1, <1>5, <1>6, AddressSib
  <2>5. \A r \in Regs : SibAddress(mod, m.scale, m.index, low, v).regs[r]
                        = (IF r = m.base THEN 1 ELSE 0) + (IF r = m.index THEN m.scale ELSE 0)
    BY <1>1, <1>2, <1>6 DEF SibAddress
  <2>6. \A r \in Regs : AddressOf(m).regs[r]
                        = (IF r = m.base THEN 1 ELSE 0) + (IF r = m.index THEN m.scale ELSE 0)
    BY <1>0 DEF AddressOf
  <2>7. SibAddress(mod, m.scale, m.index, low, v).regs = AddressOf(m).regs
    <3>1. SibAddress(mod, m.scale, m.index, low, v).regs =
              [r \in Regs |-> SibAddress(mod, m.scale, m.index, low, v).regs[r]]
      BY DEF SibAddress
    <3>2. AddressOf(m).regs = [r \in Regs |-> AddressOf(m).regs[r]]
      BY DEF AddressOf
    <3> QED
      BY <2>5, <2>6, <3>1, <3>2
  <2>8. m.is_rip_relative = FALSE
    BY <1>0 DEF MemType
  <2>9. SibAddress(mod, m.scale, m.index, low, v) = AddressOf(m)
    BY <2>7, <2>8 DEF SibAddress, AddressOf, v
  <2> QED
    BY <2>3, <2>4, <2>9
<1>7. CASE m.has_displacement /\ fits_in_int8(v) /\ ~ (low = 5 /\ v = 0)
  <2>1. bytes = <<b(1), s>> \o disp8(v)
    BY <1>0, <1>3, <1>7 DEF WithIndex
  <2>2. Holds(disp8(v), Size(1, 1 = 0 /\ low = 5), v)
    BY <1>1, <1>7, HoldsDisp8 DEF Size, fits_in_int8
  <2>3. 1 \in 0..2 /\ ~ (1 = 0 /\ low = 5)
    OBVIOUS
  <2> HIDE DEF b, low, s, v
  <2> QED
    BY <1>6, <2>1, <2>2, <2>3
<1>8. CASE m.has_displacement /\ ~ (fits_in_int8(v) /\ ~ (low = 5 /\ v = 0))
  <2>1. bytes = <<b(2), s>> \o emit_le32(v)
    BY <1>0, <1>3, <1>8 DEF WithIndex
  <2>2. Holds(emit_le32(v), Size(2, 2 = 0 /\ low = 5), v)
    BY <1>1, HoldsLe32 DEF Size
  <2>3. 2 \in 0..2 /\ ~ (2 = 0 /\ low = 5)
    OBVIOUS
  <2> HIDE DEF b, low, s, v
  <2> QED
    BY <1>6, <2>1, <2>2, <2>3
<1>9. CASE ~ m.has_displacement
  <2>1. bytes = <<b(0), s>> \o <<>>
    BY <1>0, <1>3, <1>9 DEF WithIndex
  <2>2. Holds(<<>>, Size(0, 0 = 0 /\ low = 5), v)
    BY <1>1, <1>9, HoldsNothing DEF Size
  <2>3. 0 \in 0..2 /\ ~ (0 = 0 /\ low = 5)
    BY <1>1, <1>9
  <2> HIDE DEF b, low, s, v
  <2> QED
    BY <1>6, <2>1, <2>2, <2>3
<1> QED
  BY <1>7, <1>8, <1>9

\* The bytes of an encodable operand stand for its address.
LEMMA DecodesMem ==
    ASSUME NEW m \in MemType, Encodable(m),
           bytes = emit_modrm_sib(m, RegOpcode), rex = rex_bits(m)
    PROVE  Decoded = AddressOf(m)
<1>1. CASE m.is_rip_relative
  BY <1>1, DecodesRip
<1>2. CASE ~ m.is_rip_relative /\ NoRegister(m)
  BY <1>2, DecodesAbsolute
<1>3. CASE m.has_index
  BY <1>3, DecodesIndex
<1>4. CASE m.has_base /\ ~ m.has_index
  BY <1>4, DecodesBase
<1> QED
  BY <1>1, <1>2, <1>3, <1>4 DEF NoRegister

-----------------------------------------------------------------------------
(* What the parser has read.                                                *)

TypeInv ==
    /\ terms \in Seq(Term) /\ n \in 1..(Len(terms) + 1) /\ mem \in MemType
    /\ pc \in {"parse", "encode", "done", "failed"}

\* The operand that reaches the encoder passes its checks, and the encoder has
\* emitted what stands in it.
CheckInv ==
    /\ EncoderChecksUnreachable
    /\ pc \in {"encode", "done"} =>
        n = Len(terms) + 1 /\ (mem.is_rip_relative => NoRegister(mem))
    /\ pc = "done" => /\ rex = rex_bits(mem)
                      /\ bytes = emit_modrm_sib(mem, RegOpcode)
                      /\ fixup = FixupKind

Before(kinds) == \E k \in 1..(n - 1) : terms[k].kind \in kinds

\* The documented operands that parse_memory_operand has a case for.
Readable == Documented /\ Of("dollar") = {}

\* The fields of mem are those of the terms that were read, and the sums so far
\* are what mem stands for.
FieldsRead ==
    /\ mem.has_displacement <=> Before({"num", "abs"})
    /\ mem.label <=> Before({"label"})
    /\ mem.is_rip_relative <=> Before({"rip"})
    /\ ~ mem.has_displacement => mem.displacement = 0

RegistersRead ==
    IF terms[1].kind = "reg"
    THEN /\ mem.has_base <=> n > 1
         /\ mem.has_base => mem.base = terms[1].reg
         /\ mem.has_index <=> \E k \in 2..(n - 1) : terms[k].kind = "reg"
         /\ \A k \in 2..(n - 1) : terms[k].kind = "reg" => mem.index = terms[k].reg
    ELSE ~ mem.has_base /\ ~ mem.has_index

SumsRead ==
    /\ mem.displacement = Totals(Displacements)[n - 1]
    /\ \A r \in Regs : AddressOf(mem).regs[r] = Totals(Weights(r))[n - 1]

ReadInv == Readable => pc # "failed" /\ FieldsRead /\ RegistersRead /\ SumsRead

AddressingInv == TypeInv /\ CheckInv /\ ReadInv

-----------------------------------------------------------------------------
(* Facts about documented operands.                                         *)

LEMMA TermTyped ==
    ASSUME TypeInv, NEW k \in 1..Len(terms)
    PROVE  terms[k] \in Term
  BY DEF TypeInv

LEMMA DocumentedTerms ==
    ASSUME TypeInv, Readable, NEW k \in 1..Len(terms)
    PROVE  /\ 1 \in 1..Len(terms)
           /\ terms[k].sign = "" <=> k = 1
           /\ terms[k].kind # "star" /\ terms[k].kind # "dollar"
           /\ terms[k].kind = "abs" => k = 1 /\ Len(terms) = 1
           /\ terms[k].kind = "rip" => k = 1
           /\ terms[k].kind = "label" => terms[k].sign # "-"
           /\ terms[1].kind = "reg" =>
                /\ terms[k].kind \in {"reg", "num"}
                /\ terms[1].scale = 0
                /\ terms[k].kind = "reg" =>
                     terms[k].sign # "-" /\ terms[k].scale \in {0, 1, 2, 4, 8}
           /\ terms[1].kind # "reg" => terms[k].kind # "reg"
<1>0. terms \in Seq(Term) /\ Len(terms) \in Nat /\ DOMAIN terms = 1..Len(terms)
  BY DEF TypeInv
<1>1. 1 \in 1..Len(terms)
  BY <1>0
<1>2. terms[k].sign = "" <=> k = 1
  <2>1. terms[1].sign = "" /\ \A j \in 2..Len(terms) : terms[j].sign # ""
    BY Zenon DEF Readable, Documented
  <2>2. k = 1 \/ k \in 2..Len(terms)
    BY <1>0
  <2> QED
    BY <2>1, <2>2
<1>3. /\ terms[k].kind # "star" /\ terms[k].kind # "dollar"
      /\ terms[k].kind = "abs" => k = 1 /\ Len(terms) = 1
  <2>1. Of("star") = {} /\ Of("dollar") = {} /\ (Of("abs") # {} => Len(terms) = 1)
    BY Zenon DEF Readable, Documented
  <2>2. terms[k].kind = "abs" => k \in Of("abs")
    BY <1>0 DEF Of
  <2>3. /\ terms[k].kind = "star" => k \in Of("star")
        /\ terms[k].kind = "dollar" => k \in Of("dollar")
    BY <1>0 DEF Of
  <2> QED
    BY <1>0, <2>1, <2>2, <2>3
<1>4. terms[k].kind = "label" => terms[k].sign # "-"
  BY <1>0 DEF Readable, Documented, Of
<1>5. terms[k].kind \in Kinds /\ terms[1].kind \in Kinds
  BY <1>1, TermTyped DEF Term
<1>6. CASE /\ terms[1].kind = "reg" /\ terms[1].scale = 0
           /\ Of("label") = {} /\ Of("rip") = {}
           /\ \A j \in Of("reg") : terms[j].sign # "-" /\ terms[j].scale \in {0, 1, 2, 4, 8}
  <2>1. terms[k].kind # "label" /\ terms[k].kind # "rip"
    BY <1>0, <1>6 DEF Of
  <2>2. terms[k].kind # "abs"
    BY <1>3, <1>6
  <2>3. terms[k].kind \in {"reg", "num"}
    BY <1>3, <1>5, <2>1, <2>2 DEF Kinds
  <2>4. terms[k].kind = "reg" => k \in Of("reg")
    BY <1>0 DEF Of
  <2> QED
    BY <1>1, <1>2, <1>3, <1>4, <1>6, <2>1, <2>3, <2>4
<1>7. CASE terms[1].kind = "rip" /\ Of("rip") = {1} /\ Of("reg") = {}
  <2>1. terms[k].kind # "reg" /\ (terms[k].kind = "rip" => k = 1)
    BY <1>0, <1>7 DEF Of
  <2> QED
    BY <1>1, <1>2, <1>3, <1>4, <1>7, <2>1
<1>8. CASE Of("reg") = {} /\ Of("rip") = {}
  <2>1. terms[k].kind # "reg" /\ terms[k].kind # "rip" /\ terms[1].kind # "reg"
    BY <1>0, <1>1, <1>8 DEF Of
  <2> QED
    BY <1>1, <1>2, <1>3, <1>4, <2>1
<1> QED
  BY <1>6, <1>7, <1>8 DEF Readable, Documented

\* There is one register behind the first at most.
LEMMA OneIndex ==
    ASSUME TypeInv, Readable, terms[1].kind = "reg",
           NEW j \in 2..Len(terms), NEW k \in 2..Len(terms),
           terms[j].kind = "reg", terms[k].kind = "reg"
    PROVE  j = k
<1> SUFFICES ASSUME j # k PROVE FALSE
  OBVIOUS
<1>0. terms \in Seq(Term) /\ Len(terms) \in Nat /\ DOMAIN terms = 1..Len(terms)
  BY DEF TypeInv
<1>1. {1, j, k} \subseteq Of("reg") /\ Of("reg") \subseteq 1..Len(terms)
  BY <1>0 DEF Of
<1>2. IsFiniteSet(Of("reg"))
  <2>1. IsFiniteSet(1..Len(terms))
    BY <1>0, FS_Interval
  <2> QED
    BY <1>1, <2>1, FS_Subset, Zenon
<1>3. Cardinality({1, j, k}) = 3
  <2>1. IsFiniteSet({j, k}) /\ Cardinality({j, k}) = 2
    <3>1. IsFiniteSet({k}) /\ Cardinality({k}) = 1
      BY FS_Singleton
    <3>2. {j, k} = {k} \cup {j} /\ j \notin {k}
      OBVIOUS
    <3>3. IsFiniteSet({k} \cup {j}) /\ Cardinality({k} \cup {j}) = Cardinality({k}) + 1
      BY <3>1, <3>2, FS_AddElement, Zenon
    <3>4. Cardinality({k} \cup {j}) = 2
      BY <3>1, <3>3, 1 + 1 = 2, Zenon
    <3> QED
      BY <3>2, <3>3, <3>4, Zenon
  <2>2. {1, j, k} = {j, k} \cup {1} /\ 1 \notin {j, k}
    OBVIOUS
  <2>3. Cardinality({j, k} \cup {1}) = Cardinality({j, k}) + 1
    BY <2>1, <2>2, FS_AddElement, Zenon
  <2>4. Cardinality({j, k} \cup {1}) = 3
    BY <2>1, <2>3, 2 + 1 = 3, Zenon
  <2> QED
    BY <2>2, <2>4, Zenon
<1>4. Cardinality(Of("reg")) <= 2
  <2>1. 1 \in Of("reg")
    BY <1>1
  <2>2. terms[1].kind # "rip"
    OBVIOUS
  <2> QED
    BY <2>1, <2>2 DEF Readable, Documented
<1>5. 3 <= Cardinality(Of("reg")) /\ Cardinality(Of("reg")) \in Nat
  BY <1>1, <1>2, <1>3, FS_Subset, FS_CardinalityType
<1> QED
  BY <1>4, <1>5

LEMMA SumsTyped ==
    ASSUME TypeInv
    PROVE  /\ Displacements \in Seq(Int) /\ Len(Displacements) = Len(terms)
           /\ \A r \in Regs : Weights(r) \in Seq(Int) /\ Len(Weights(r)) = Len(terms)
<1>0. terms \in Seq(Term) /\ Len(terms) \in Nat /\ DOMAIN terms = 1..Len(terms)
  BY DEF TypeInv
<1>1. \A k \in 1..Len(terms) : terms[k].num \in Int /\ terms[k].scale \in Nat
  BY TermTyped DEF Term
<1>2. \A k \in 1..Len(terms) : Signed(terms[k]) \in Int
  BY <1>1 DEF Signed
<1>3. \A r \in Regs, k \in 1..Len(terms) : Weight(terms[k], r) \in Int
  BY <1>1 DEF Weight
<1>4. Displacements \in [1..Len(terms) -> Int]
  BY <1>0, <1>2 DEF Displacements
<1>5. \A r \in Regs : Weights(r) \in [1..Len(terms) -> Int]
  BY <1>0, <1>3 DEF Weights
<1> QED
  BY <1>0, <1>4, <1>5

-----------------------------------------------------------------------------
(* The steps.                                                               *)

LEMMA InitAddressing == Init => AddressingInv
<1> SUFFICES ASSUME Init PROVE AddressingInv
  OBVIOUS
<1>1. TypeInv
  <2>1. terms \in Seq(Term) /\ Len(terms) \in Nat
    BY OperandsTyped DEF Init
  <2>2. mem \in MemType
    BY DEF Init, NoMem, MemType, Regs
  <2> QED
    BY <2>1, <2>2 DEF Init, TypeInv
<1>2. CheckInv
  BY DEF Init, CheckInv, EncoderChecksUnreachable
<1>3. ReadInv
  <2> SUFFICES ASSUME Readable PROVE pc # "failed" /\ FieldsRead /\ RegistersRead /\ SumsRead
    BY DEF ReadInv
  <2>1. n = 1 /\ mem = NoMem /\ pc = "parse"
    BY DEF Init
  <2>2. FieldsRead
    BY <2>1 DEF FieldsRead, Before, NoMem
  <2>3. RegistersRead
    BY <2>1 DEF RegistersRead, NoMem
  <2>4. SumsRead
    <3>1. \A r \in Regs : Totals(Weights(r))[0] = 0
      BY <1>1, SumsTyped, TotalsAdd
    <3>2. Totals(Displacements)[0] = 0
      BY <1>1, SumsTyped, TotalsAdd
    <3>3. \A r \in Regs : AddressOf(NoMem).regs[r] = 0
      BY DEF AddressOf, NoMem
    <3>4. NoMem.displacement = 0 /\ n - 1 = 0
      BY <2>1 DEF NoMem
    <3> QED
      BY <2>1, <3>1, <3>2, <3>3, <3>4 DEF SumsRead
  <2> QED
    BY <2>1, <2>2, <2>3, <2>4
<1> QED
  BY <1>1, <1>2, <1>3 DEF AddressingInv

\* What the term at hand must do to mem so that mem stands for one term more.
ReadsTerm(m) ==
    /\ m.has_displacement <=> mem.has_displacement \/ Cur.kind \in {"num", "abs"}
    /\ m.label <=> mem.label \/ Cur.kind = "label"
    /\ m.is_rip_relative <=> mem.is_rip_relative \/ Cur.kind = "rip"
    /\ ~ m.has_displacement => m.displacement = 0
    /\ m.displacement = mem.displacement + Displacements[n]
    /\ \A r \in Regs : AddressOf(m).regs[r] = AddressOf(mem).regs[r] + Weights(r)[n]
    /\ IF terms[1].kind = "reg"
       THEN /\ m.has_base /\ m.base = terms[1].reg
            /\ m.has_index <=> mem.has_index \/ (n > 1 /\ Cur.kind = "reg")
            /\ n > 1 /\ Cur.kind = "reg" => ~ mem.has_index /\ m.index = Cur.reg
            /\ mem.has_index => m.index = mem.index
       ELSE ~ m.has_base /\ ~ m.has_index

LEMMA ParsedStep ==
    ASSUME AddressingInv, pc = "parse", n <= Len(terms), NEW m \in MemType, Parsed(m),
           Readable => ReadsTerm(m)
    PROVE  AddressingInv'
<1> USE DEF Parsed
<1>0. TypeInv /\ CheckInv /\ ReadInv
  BY DEF AddressingInv
<1>1. TypeInv'
  BY <1>0 DEF TypeInv
<1>2. CheckInv'
  BY <1>0 DEF CheckInv, EncoderChecksUnreachable
<1>3. ReadInv'
  <2> SUFFICES ASSUME Readable
               PROVE  pc' # "failed" /\ FieldsRead' /\ RegistersRead' /\ SumsRead'
    BY DEF ReadInv, Readable, Documented, Of
  <2>0. n \in 1..Len(terms) /\ Len(terms) \in Nat /\ n' - 1 = n
    BY <1>0 DEF TypeInv
  <2>1. FieldsRead /\ RegistersRead /\ SumsRead /\ ReadsTerm(m)
    BY <1>0 DEF ReadInv
  <2>2. FieldsRead'
    <3>1. \A kinds : Before(kinds)' <=> Before(kinds) \/ Cur.kind \in kinds
      BY <2>0 DEF Before, Cur
    <3> QED
      BY <2>1, <3>1 DEF FieldsRead, ReadsTerm
  <2>3. RegistersRead'
    <3>1. CASE terms[1].kind # "reg"
      BY <2>1, <3>1 DEF RegistersRead, ReadsTerm
    <3>2. CASE terms[1].kind = "reg"
      <4>1. \A k \in 2..n : k \in 2..(n - 1) \/ (k = n /\ n > 1)
        BY <2>0
      <4>2. n > 1 => n \in 2..n /\ 2..(n - 1) \subseteq 2..n
        BY <2>0
      <4>3. \A k \in 2..(n - 1) : terms[k].kind = "reg" => mem.has_index /\ mem.index = terms[k].reg
        BY <2>1, <3>2 DEF RegistersRead
      <4>4. \A k \in 2..n : terms[k].kind = "reg" => m.index = terms[k].reg
        BY <2>1, <3>2, <4>1, <4>3 DEF ReadsTerm, Cur
      <4>5. m.has_index <=> \E k \in 2..n : terms[k].kind = "reg"
        <5>1. mem.has_index <=> \E k \in 2..(n - 1) : terms[k].kind = "reg"
          BY <2>1, <3>2 DEF RegistersRead
        <5>2. m.has_index <=> mem.has_index \/ (n > 1 /\ terms[n].kind = "reg")
          BY <2>1, <3>2 DEF ReadsTerm, Cur
        <5>3. (\E k \in 2..n : terms[k].kind = "reg")
              <=> (\E k \in 2..(n - 1) : terms[k].kind = "reg") \/ (n > 1 /\ terms[n].kind = "reg")
          BY <2>0
        <5> QED
          BY <5>1, <5>2, <5>3
      <4>6. m.has_base /\ m.base = terms[1].reg /\ n' > 1
        BY <2>0, <2>1, <3>2 DEF ReadsTerm
      <4> QED
        BY <2>0, <3>2, <4>4, <4>5, <4>6 DEF RegistersRead
    <3> QED
      BY <3>1, <3>2
  <2>4. SumsRead'
    <3>1. Totals(Displacements)[n] = Totals(Displacements)[n - 1] + Displacements[n]
      BY <1>0, <2>0, SumsTyped, TotalsAdd
    <3>2. \A r \in Regs : Totals(Weights(r))[n] = Totals(Weights(r))[n - 1] + Weights(r)[n]
      BY <1>0, <2>0, SumsTyped, TotalsAdd
    <3>3. m.displacement = Totals(Displacements)[n]
      BY <2>1, <3>1 DEF SumsRead, ReadsTerm
    <3>4. \A r \in Regs : AddressOf(m).regs[r] = Totals(Weights(r))[n]
      BY <2>1, <3>2 DEF SumsRead, ReadsTerm
    <3>5. Displacements' = Displacements /\ \A r \in Regs : Weights(r)' = Weights(r)
      BY DEF Displacements, Weights
    <3>6. mem' = m
      OBVIOUS
    <3> QED
      BY <2>0, <3>3, <3>4, <3>5, <3>6 DEF SumsRead
  <2> QED
    BY <2>2, <2>3, <2>4
<1> QED
  BY <1>1, <1>2, <1>3 DEF AddressingInv

LEMMA FailStep ==
    ASSUME AddressingInv, NEW e, Fail(e), e \notin {"encoder_scale", "encoder_rip"}, ~ Readable
    PROVE  AddressingInv'
<1> USE DEF Fail
<1>1. TypeInv'
  BY DEF TypeInv, AddressingInv
<1>2. CheckInv'
  BY DEF CheckInv, EncoderChecksUnreachable
<1>3. ReadInv'
  BY DEF ReadInv, Readable, Documented, Of
<1> QED
  BY <1>1, <1>2, <1>3 DEF AddressingInv

\* A term that is no register leaves the registers alone.
LEMMA KeepsRegisters ==
    ASSUME AddressingInv, pc = "parse", n <= Len(terms), Readable, NEW m \in MemType,
           Cur.kind # "reg",
           m.has_base = mem.has_base, m.base = mem.base, m.has_index = mem.has_index,
           m.index = mem.index, m.scale = mem.scale
    PROVE  /\ \A r \in Regs : AddressOf(m).regs[r] = AddressOf(mem).regs[r] + Weights(r)[n]
           /\ IF terms[1].kind = "reg"
              THEN /\ m.has_base /\ m.base = terms[1].reg
                   /\ m.has_index <=> mem.has_index \/ (n > 1 /\ Cur.kind = "reg")
                   /\ n > 1 /\ Cur.kind = "reg" => ~ mem.has_index /\ m.index = Cur.reg
                   /\ mem.has_index => m.index = mem.index
              ELSE ~ m.has_base /\ ~ m.has_index
<1>0. TypeInv /\ RegistersRead /\ n \in 1..Len(terms) /\ mem \in MemType
  BY DEF AddressingInv, ReadInv, TypeInv
<1>1. \A r \in Regs : Weights(r)[n] = 0
  BY <1>0 DEF Weights, Weight, Cur, TypeInv
<1>2. AddressOf(m).regs = AddressOf(mem).regs
  BY DEF AddressOf
<1>3. \A r \in Regs : AddressOf(mem).regs[r] \in Int
  BY <1>0 DEF AddressOf, MemType
<1>4. terms[1].kind = "reg" => n > 1
  BY <1>0 DEF Cur
<1> QED
  BY <1>0, <1>1, <1>2, <1>3, <1>4 DEF RegistersRead

LEMMA NoDisplacement ==
    ASSUME TypeInv, n <= Len(terms), Cur.kind \notin {"num", "dollar", "abs"}
    PROVE  Displacements[n] = 0
  BY DEF Displacements, TypeInv, Cur

LEMMA RipStep == ASSUME AddressingInv, Rip PROVE AddressingInv'
<1> DEFINE m == [mem EXCEPT !.is_rip_relative = TRUE]
<1>0. TypeInv /\ pc = "parse" /\ n <= Len(terms) /\ Parsed(m) /\ Cur.kind = "rip"
  BY DEF Rip, AtTerm, Cur, AddressingInv
<1>1. m \in MemType
  BY <1>0 DEF TypeInv, MemType
<1>2. ASSUME Readable PROVE ReadsTerm(m)
  <2>1. FieldsRead
    BY <1>2 DEF AddressingInv, ReadInv
  <2>2. mem \in MemType
    BY <1>0 DEF TypeInv
  <2>3. /\ m.has_base = mem.has_base /\ m.base = mem.base /\ m.has_index = mem.has_index
        /\ m.index = mem.index /\ m.scale = mem.scale /\ m.displacement = mem.displacement
        /\ m.has_displacement = mem.has_displacement /\ m.label = mem.label
        /\ m.is_rip_relative
    BY <2>2 DEF MemType
  <2>4. Displacements[n] = 0 /\ mem.displacement \in Int
    BY <1>0, <2>2, NoDisplacement DEF MemType
  <2> HIDE DEF m
  <2> QED
    BY <1>0, <1>1, <1>2, <2>1, <2>3, <2>4, KeepsRegisters DEF ReadsTerm, FieldsRead
<1> QED
  BY <1>0, <1>1, <1>2, ParsedStep

LEMMA NumberStep == ASSUME AddressingInv, Number PROVE AddressingInv'
<1> DEFINE m == [mem EXCEPT !.displacement = @ + Signed(Cur), !.has_displacement = TRUE]
<1>0. TypeInv /\ pc = "parse" /\ n <= Len(terms) /\ Parsed(m) /\ Cur.kind = "num"
  BY DEF Number, AtTerm, Cur, AddressingInv
<1>1. Cur \in Term /\ n \in 1..Len(terms)
  BY <1>0, TermTyped DEF Cur, TypeInv
<1>2. Signed(Cur) \in Int
  BY <1>1 DEF Signed, Term
<1>3. m \in MemType
  <2>1. mem \in MemType /\ mem.displacement + Signed(Cur) \in Int
    BY <1>0, <1>2 DEF TypeInv, MemType
  <2> QED
    BY <2>1 DEF MemType
<1>4. ASSUME Readable PROVE ReadsTerm(m)
  <2>1. FieldsRead
    BY <1>4 DEF AddressingInv, ReadInv
  <2>2. mem \in MemType
    BY <1>0 DEF TypeInv
  <2>3. /\ m.has_base = mem.has_base /\ m.base = mem.base /\ m.has_index = mem.has_index
        /\ m.index = mem.index /\ m.scale = mem.scale /\ m.label = mem.label
        /\ m.displacement = mem.displacement + Signed(Cur)
        /\ m.has_displacement /\ m.is_rip_relative = mem.is_rip_relative
    BY <2>2 DEF MemType
  <2>4. Displacements[n] = Signed(Cur)
    BY <1>0, <1>1 DEF Displacements, Cur, TypeInv
  <2> HIDE DEF m
  <2> QED
    BY <1>0, <1>3, <1>4, <2>1, <2>3, <2>4, KeepsRegisters DEF ReadsTerm, FieldsRead
<1> QED
  BY <1>0, <1>3, <1>4, ParsedStep

LEMMA AbsStep == ASSUME AddressingInv, Abs PROVE AddressingInv'
<1> DEFINE m == [mem EXCEPT !.displacement = Cur.num, !.has_displacement = TRUE]
<1>0. TypeInv /\ pc = "parse" /\ n <= Len(terms) /\ Parsed(m) /\ Cur.kind = "abs"
  BY DEF Abs, AtTerm, Cur, AddressingInv
<1>1. Cur \in Term /\ n \in 1..Len(terms)
  BY <1>0, TermTyped DEF Cur, TypeInv
<1>2. Cur.num \in Int
  BY <1>1 DEF Term
<1>3. m \in MemType
  BY <1>0, <1>2 DEF TypeInv, MemType
<1>4. ASSUME Readable PROVE ReadsTerm(m)
  <2>1. FieldsRead
    BY <1>4 DEF AddressingInv, ReadInv
  <2>2. mem \in MemType
    BY <1>0 DEF TypeInv
  <2>3. /\ m.has_base = mem.has_base /\ m.base = mem.base /\ m.has_index = mem.has_index
        /\ m.index = mem.index /\ m.scale = mem.scale /\ m.label = mem.label
        /\ m.displacement = Cur.num
        /\ m.has_displacement /\ m.is_rip_relative = mem.is_rip_relative
    BY <2>2 DEF MemType
  <2>4. n = 1
    BY <1>0, <1>1, <1>4, DocumentedTerms, Zenon DEF Cur
  <2>7. Cur.sign = ""
    BY <1>0, <1>1, <1>4, <2>4, DocumentedTerms, Zenon DEF Cur
  <2>5. Displacements[n] = Cur.num
    <3>1. Displacements[n] = Signed(Cur)
      BY <1>0, <1>1 DEF Displacements, Cur, TypeInv
    <3> QED
      BY <2>7, <3>1 DEF Signed
  <2>6. mem.displacement = 0
    <3>1. ~ Before({"num", "abs"})
      <4>1. 1..(n - 1) = {}
        BY <2>4
      <4> QED
        BY <4>1, Zenon DEF Before
    <3> QED
      BY <2>1, <3>1 DEF FieldsRead
  <2> HIDE DEF m
  <2> QED
    BY <1>0, <1>2, <1>3, <1>4, <2>1, <2>3, <2>5, <2>6, KeepsRegisters DEF ReadsTerm, FieldsRead
<1> QED
  BY <1>0, <1>3, <1>4, ParsedStep

LEMMA DollarStep == ASSUME AddressingInv, Dollar PROVE AddressingInv'
<1>1. Fail("token") /\ n <= Len(terms) /\ Cur.kind = "dollar" /\ TypeInv
  BY DEF Dollar, AtTerm, Cur, AddressingInv
<1>2. ~ Readable
  <2>1. n \in 1..Len(terms)
    BY <1>1 DEF TypeInv
  <2> QED
    BY <1>1, <2>1, DocumentedTerms, Zenon DEF Cur
<1> QED
  BY <1>1, <1>2, FailStep

LEMMA LabelStep == ASSUME AddressingInv, Label PROVE AddressingInv'
<1> DEFINE m == [mem EXCEPT !.label = TRUE]
<1>0. TypeInv /\ pc = "parse" /\ n <= Len(terms) /\ Cur.kind = "label"
  BY DEF Label, AtTerm, Cur, AddressingInv
<1>1. Cur \in Term /\ n \in 1..Len(terms)
  BY <1>0, TermTyped DEF Cur, TypeInv
<1>2. m \in MemType
  BY <1>0 DEF TypeInv, MemType
<1>3. ASSUME Readable PROVE ReadsTerm(m)
  <2>1. FieldsRead
    BY <1>3 DEF AddressingInv, ReadInv
  <2>2. mem \in MemType
    BY <1>0 DEF TypeInv
  <2>3. /\ m.has_base = mem.has_base /\ m.base = mem.base /\ m.has_index = mem.has_index
        /\ m.index = mem.index /\ m.scale = mem.scale /\ m.displacement = mem.displacement
        /\ m.has_displacement = mem.has_displacement /\ m.label
        /\ m.is_rip_relative = mem.is_rip_relative
    BY <2>2 DEF MemType
  <2>4. Displacements[n] = 0 /\ mem.displacement \in Int
    BY <1>0, <2>2, NoDisplacement DEF MemType
  <2> HIDE DEF m
  <2> QED
    BY <1>0, <1>2, <1>3, <2>1, <2>3, <2>4, KeepsRegisters DEF ReadsTerm, FieldsRead
<1>4. Readable => Cur.sign # "-"
  BY <1>0, <1>1, DocumentedTerms DEF Cur
<1>5. CASE Cur.sign = "-" /\ mem.is_rip_relative /\ Fail("label")
  BY <1>4, <1>5, FailStep
<1>6. CASE Parsed(m)
  BY <1>0, <1>2, <1>3, <1>6, ParsedStep
<1> QED
  BY <1>5, <1>6 DEF Label

\* What a register term does to the other fields.
LEMMA KeepsOthers ==
    ASSUME AddressingInv, pc = "parse", n <= Len(terms), Readable, NEW m,
           Cur.kind = "reg",
           m.has_displacement = mem.has_displacement, m.displacement = mem.displacement,
           m.label = mem.label, m.is_rip_relative = mem.is_rip_relative
    PROVE  /\ m.has_displacement <=> mem.has_displacement \/ Cur.kind \in {"num", "abs"}
           /\ m.label <=> mem.label \/ Cur.kind = "label"
           /\ m.is_rip_relative <=> mem.is_rip_relative \/ Cur.kind = "rip"
           /\ ~ m.has_displacement => m.displacement = 0
           /\ m.displacement = mem.displacement + Displacements[n]
<1>1. TypeInv /\ FieldsRead
  BY DEF AddressingInv, ReadInv
<1>2. Displacements[n] = 0 /\ mem.displacement \in Int
  BY <1>1, NoDisplacement DEF TypeInv, MemType
<1> QED
  BY <1>1, <1>2 DEF FieldsRead

\* A register behind the first becomes the index, once.
LEMMA IndexStep ==
    ASSUME AddressingInv, pc = "parse", n <= Len(terms), Cur.kind = "reg", n > 1,
           NEW scale \in {1, 2, 4, 8}, scale = IF Cur.scale = 0 THEN 1 ELSE Cur.scale,
           Parsed(Indexed(Cur.reg, scale))
    PROVE  AddressingInv'
<1> DEFINE m == Indexed(Cur.reg, scale)
<1>0. TypeInv /\ n \in 1..Len(terms) /\ mem \in MemType
  BY DEF AddressingInv, TypeInv
<1>1. Cur \in Term
  BY <1>0, TermTyped DEF Cur
<1>2. m \in MemType
  BY <1>0, <1>1 DEF Indexed, MemType, Term
<1>3. ASSUME Readable PROVE ReadsTerm(m)
  <2>1. RegistersRead
    BY <1>3 DEF AddressingInv, ReadInv
  <2>2. terms[1].kind = "reg" /\ Cur.sign # "-"
    BY <1>0, <1>3, DocumentedTerms DEF Cur
  <2>3. mem.has_base /\ mem.base = terms[1].reg
    BY <2>1, <2>2 DEF RegistersRead
  <2>4. ~ mem.has_index
    <3> SUFFICES ASSUME mem.has_index PROVE FALSE
      OBVIOUS
    <3>1. PICK k \in 2..(n - 1) : terms[k].kind = "reg"
      BY <2>1, <2>2 DEF RegistersRead
    <3>2. k \in 2..Len(terms) /\ n \in 2..Len(terms) /\ k # n
      BY <1>0
    <3> QED
      BY <1>0, <1>3, <2>2, <3>1, <3>2, OneIndex DEF Cur
  <2>5. /\ m.has_displacement = mem.has_displacement /\ m.displacement = mem.displacement
        /\ m.label = mem.label /\ m.is_rip_relative = mem.is_rip_relative
        /\ m.has_base = mem.has_base /\ m.base = mem.base
        /\ m.has_index = TRUE /\ m.index = Cur.reg /\ m.scale = scale
    BY <1>0 DEF Indexed, MemType
  <2>6. \A r \in Regs : AddressOf(m).regs[r] = AddressOf(mem).regs[r] + Weights(r)[n]
    <3>1. \A r \in Regs : Weights(r)[n] = IF Cur.reg = r THEN scale ELSE 0
      <4> TAKE r \in Regs
      <4>1. Weights(r)[n] = Weight(Cur, r)
        BY <1>0 DEF Weights, Cur, TypeInv
      <4>2. Weight(Cur, r) = IF Cur.reg = r THEN 1 * scale ELSE 0
        BY <2>2 DEF Weight
      <4> QED
        BY <4>1, <4>2
    <3>2. \A r \in Regs : AddressOf(mem).regs[r] = (IF r = mem.base THEN 1 ELSE 0) + 0
      BY <2>3, <2>4 DEF AddressOf
    <3>3. \A r \in Regs : AddressOf(m).regs[r] = (IF r = mem.base THEN 1 ELSE 0)
                                                 + (IF r = Cur.reg THEN scale ELSE 0)
      <4> HIDE DEF m
      <4> QED
        BY <2>3, <2>5 DEF AddressOf
    <3> TAKE r \in Regs
    <3>4. CASE r = Cur.reg
      BY <3>1, <3>2, <3>3, <3>4
    <3>5. CASE r # Cur.reg
      BY <3>1, <3>2, <3>3, <3>5
    <3> QED
      BY <3>4, <3>5
  <2> HIDE DEF m
  <2> QED
    BY <1>3, <2>2, <2>3, <2>4, <2>5, <2>6, KeepsOthers DEF ReadsTerm
<1> QED
  BY <1>2, <1>3, ParsedStep

LEMMA SignedRegisterStep == ASSUME AddressingInv, SignedRegister PROVE AddressingInv'
<1> DEFINE reg == IF Cur.kind = "rip" THEN RIP ELSE Cur.reg
           m == Indexed(reg, 1)
<1>0. /\ TypeInv /\ pc = "parse" /\ n <= Len(terms) /\ Cur.kind \in {"reg", "rip"}
      /\ Cur.sign # "" /\ Cur.scale = 0 /\ Parsed(m) /\ n \in 1..Len(terms)
  <2>1. TypeInv /\ pc = "parse" /\ n <= Len(terms)
    BY DEF SignedRegister, AtTerm, AddressingInv
  <2>5. Cur.sign # "" /\ Cur.scale = 0
    BY Zenon DEF SignedRegister
  <2>2. n \in 1..Len(terms)
    BY <2>1 DEF TypeInv
  <2>3. Cur.kind \in {"reg", "rip"}
    BY DEF SignedRegister, AtTerm, Cur
  <2>4. Parsed(m)
    BY Zenon DEF SignedRegister
  <2> QED
    BY <2>1, <2>2, <2>3, <2>4, <2>5, Zenon
<1>1. Cur \in Term
  BY <1>0, TermTyped DEF Cur
<1>2. CASE Readable
  <2>1. n > 1 /\ Cur.kind = "reg"
    <3>1. (terms[n].sign = "" <=> n = 1) /\ (terms[n].kind = "rip" => n = 1)
      BY <1>0, <1>2, DocumentedTerms, Zenon
    <3>2. n # 1
      BY <1>0, <3>1, Zenon DEF Cur
    <3>3. n \in 1..Len(terms) /\ Cur.kind \in {"reg", "rip"}
      BY <1>0, Zenon
    <3>4. n > 1
      BY <3>2, <3>3
    <3>5. Cur.kind # "rip"
      BY <3>1, <3>2, Zenon DEF Cur
    <3> QED
      BY <3>3, <3>4, <3>5
  <2>2. Parsed(Indexed(Cur.reg, 1))
    BY <1>0, <2>1
  <2> QED
    BY <1>0, <2>1, <2>2, IndexStep
<1>3. CASE ~ Readable
  <2>1. m \in MemType
    BY <1>0, <1>1 DEF Indexed, TypeInv, MemType, Term
  <2> QED
    BY <1>0, <1>3, <2>1, ParsedStep
<1> QED
  BY <1>2, <1>3

LEMMA ScaledRegisterStep == ASSUME AddressingInv, ScaledRegister PROVE AddressingInv'
<1>0. /\ TypeInv /\ pc = "parse" /\ n <= Len(terms) /\ Cur.kind = "reg"
      /\ Cur.scale > 0 /\ n \in 1..Len(terms)
  BY DEF ScaledRegister, AtTerm, Cur, AddressingInv, TypeInv
<1>1. Cur \in Term
  BY <1>0, TermTyped DEF Cur
<1>2. Readable => n > 1 /\ is_valid_scale_factor(Cur.scale)
  <2> SUFFICES ASSUME Readable PROVE n > 1 /\ is_valid_scale_factor(Cur.scale)
    OBVIOUS
  <2>1. terms[1].kind = "reg" /\ terms[1].scale = 0 /\ Cur.scale \in {0, 1, 2, 4, 8}
    BY <1>0, DocumentedTerms DEF Cur
  <2> QED
    BY <1>0, <2>1 DEF Cur, is_valid_scale_factor
<1>3. CASE ~ is_valid_scale_factor(Cur.scale) /\ Fail("scale")
  BY <1>2, <1>3, FailStep
<1>4. CASE is_valid_scale_factor(Cur.scale) /\ Parsed(Indexed(Cur.reg, Cur.scale))
  <2>1. Cur.scale \in {1, 2, 4, 8}
    BY <1>4 DEF is_valid_scale_factor
  <2>2. CASE Readable
    <3>1. Cur.scale = IF Cur.scale = 0 THEN 1 ELSE Cur.scale
      BY <2>1
    <3> QED
      BY <1>0, <1>2, <1>4, <2>1, <2>2, <3>1, IndexStep
  <2>3. CASE ~ Readable
    <3>1. Indexed(Cur.reg, Cur.scale) \in MemType
      BY <1>0, <1>1, <2>1 DEF Indexed, TypeInv, MemType, Term
    <3> QED
      BY <1>0, <1>4, <2>3, <3>1, ParsedStep
  <2> QED
    BY <2>2, <2>3
<1> QED
  BY <1>3, <1>4 DEF ScaledRegister

\* The first register of a documented operand is its first term.
LEMMA FirstRegisterStep == ASSUME AddressingInv, FirstRegister PROVE AddressingInv'
<1>0. TypeInv /\ pc = "parse" /\ n <= Len(terms) /\ Cur.kind = "reg" /\ Cur.scale = 0
  BY DEF FirstRegister, AtTerm, Cur, AddressingInv
<1>1. n \in 1..Len(terms) /\ mem \in MemType
  BY <1>0 DEF TypeInv
<1>2. Cur \in Term
  BY <1>0, <1>1, TermTyped DEF Cur
<1>3. Readable => n = 1
  BY <1>0, <1>1, DocumentedTerms, Zenon DEF Cur, FirstRegister
<1>4. ASSUME Readable PROVE ~ RipFollows /\ ~ mem.has_base /\ ~ mem.has_index
  <2>1. terms[1].kind = "reg" /\ n = 1
    BY <1>0, <1>3, <1>4 DEF Cur
  <2>2. n + 1 \in 1..Len(terms) => terms[n + 1].kind \in {"reg", "num"}
    BY <1>0, <1>4, <2>1, DocumentedTerms
  <2>3. n < Len(terms) => n + 1 \in 1..Len(terms)
    BY <1>1
  <2>4. ~ (n < Len(terms) /\ terms[n + 1].kind = "rip")
    BY <2>2, <2>3
  <2>5. ~ RipFollows
    BY <2>4, Zenon DEF RipFollows
  <2>6. RegistersRead
    BY <1>4 DEF AddressingInv, ReadInv
  <2> QED
    BY <2>1, <2>5, <2>6 DEF RegistersRead
<1>5. CASE RipFollows /\ Parsed([mem EXCEPT !.is_rip_relative = TRUE])
  <2>1. [mem EXCEPT !.is_rip_relative = TRUE] \in MemType
    BY <1>1 DEF MemType
  <2> QED
    BY <1>0, <1>4, <1>5, <2>1, ParsedStep
<1>6. CASE Parsed([mem EXCEPT !.base = Cur.reg, !.has_base = TRUE])
  <2> DEFINE m == [mem EXCEPT !.base = Cur.reg, !.has_base = TRUE]
  <2>1. m \in MemType
    BY <1>1, <1>2 DEF MemType, Term
  <2>2. ASSUME Readable PROVE ReadsTerm(m)
    <3>1. /\ m.has_displacement = mem.has_displacement /\ m.displacement = mem.displacement
          /\ m.label = mem.label /\ m.is_rip_relative = mem.is_rip_relative
          /\ m.has_index = mem.has_index /\ m.index = mem.index
          /\ m.has_base = TRUE /\ m.base = Cur.reg
      BY <1>1 DEF MemType
    <3>2. n = 1 /\ terms[1] = Cur /\ ~ mem.has_index /\ ~ mem.has_base
      BY <1>3, <1>4, <2>2 DEF Cur
    <3>3. Cur.sign # "-"
      BY <1>0, <1>1, <2>2, <3>2, DocumentedTerms, Zenon DEF Cur
    <3>4. \A r \in Regs : Weights(r)[n] = IF Cur.reg = r THEN 1 ELSE 0
      <4> TAKE r \in Regs
      <4>1. Weights(r)[n] = Weight(Cur, r)
        BY <1>0, <1>1 DEF Weights, Cur, TypeInv
      <4>2. Weight(Cur, r) = IF Cur.reg = r THEN 1 * 1 ELSE 0
        BY <1>0, <3>3 DEF Weight
      <4> QED
        BY <4>1, <4>2
    <3> HIDE DEF m
    <3>5. \A r \in Regs : AddressOf(mem).regs[r] = 0
      BY <3>2 DEF AddressOf
    <3>6. \A r \in Regs : AddressOf(m).regs[r] = (IF r = Cur.reg THEN 1 ELSE 0) + 0
      BY <3>1, <3>2 DEF AddressOf
    <3>7. \A r \in Regs : AddressOf(m).regs[r] = AddressOf(mem).regs[r] + Weights(r)[n]
      <4> TAKE r \in Regs
      <4>1. CASE r = Cur.reg
        BY <3>4, <3>5, <3>6, <4>1
      <4>2. CASE r # Cur.reg
        BY <3>4, <3>5, <3>6, <4>2
      <4> QED
        BY <4>1, <4>2
    <3> QED
      BY <1>0, <2>2, <3>1, <3>2, <3>7, KeepsOthers DEF ReadsTerm
  <2> QED
    BY <1>0, <1>6, <2>1, <2>2, ParsedStep
<1>7. CASE mem.has_base /\ Parsed([mem EXCEPT !.index = Cur.reg, !.has_index = TRUE])
  <2>1. [mem EXCEPT !.index = Cur.reg, !.has_index = TRUE] \in MemType
    BY <1>1, <1>2 DEF MemType, Term
  <2> QED
    BY <1>0, <1>4, <1>7, <2>1, ParsedStep
<1>8. CASE mem.has_base /\ Fail("registers")
  BY <1>4, <1>8, FailStep
<1> QED
  BY <1>5, <1>6, <1>7, <1>8, Zenon DEF FirstRegister

LEMMA StarStep == ASSUME AddressingInv, Star PROVE AddressingInv'
<1>0. TypeInv /\ pc = "parse" /\ n <= Len(terms) /\ Cur.kind = "star"
  BY DEF Star, AtTerm, Cur, AddressingInv
<1>1. n \in 1..Len(terms) /\ mem \in MemType
  BY <1>0 DEF TypeInv
<1>2. ~ Readable
  BY <1>0, <1>1, DocumentedTerms, Zenon DEF Cur
<1>3. CASE Fail("star") \/ Fail("scale")
  BY <1>2, <1>3, FailStep
<1>4. CASE is_valid_scale_factor(Cur.scale) /\ Parsed([mem EXCEPT !.scale = Cur.scale])
  <2>1. [mem EXCEPT !.scale = Cur.scale] \in MemType
    BY <1>1, <1>4 DEF MemType, is_valid_scale_factor
  <2> QED
    BY <1>0, <1>2, <1>4, <2>1, ParsedStep
<1> QED
  BY <1>3, <1>4 DEF Star

LEMMA CloseBracketStep == ASSUME AddressingInv, CloseBracket PROVE AddressingInv'
<1>0. TypeInv /\ CheckInv /\ ReadInv /\ pc = "parse" /\ n > Len(terms)
  BY DEF CloseBracket, AddressingInv
<1>1. CASE mem.is_rip_relative /\ (mem.has_base \/ mem.has_index) /\ Fail("rip")
  <2>1. ~ Readable
    <3> SUFFICES ASSUME Readable PROVE FALSE
      OBVIOUS
    <3>1. FieldsRead /\ RegistersRead
      BY <1>0 DEF ReadInv
    <3>2. terms[1].kind = "reg"
      BY <1>1, <3>1 DEF RegistersRead
    <3>3. PICK k \in 1..(n - 1) : terms[k].kind = "rip"
      BY <1>1, <3>1 DEF FieldsRead, Before
    <3>4. k \in 1..Len(terms)
      BY <1>0 DEF TypeInv
    <3>5. terms[k].kind \in {"reg", "num"}
      BY <1>0, <3>2, <3>4, DocumentedTerms, Zenon
    <3> QED
      BY <3>3, <3>5
  <2> QED
    BY <1>1, <2>1, FailStep
<1>2. CASE /\ ~ (mem.is_rip_relative /\ (mem.has_base \/ mem.has_index))
           /\ pc' = "encode"
           /\ UNCHANGED <<terms, n, mem, error, rex, bytes, fixup>>
  <2>1. TypeInv'
    BY <1>0, <1>2 DEF TypeInv
  <2>2. CheckInv'
    BY <1>0, <1>2 DEF CheckInv, EncoderChecksUnreachable, TypeInv, NoRegister
  <2>3. ReadInv'
    <3> SUFFICES ASSUME Readable
                 PROVE  pc' # "failed" /\ FieldsRead' /\ RegistersRead' /\ SumsRead'
      BY <1>2 DEF ReadInv, Readable, Documented, Of
    <3>1. FieldsRead /\ RegistersRead /\ SumsRead
      BY <1>0 DEF ReadInv
    <3> QED
      BY <1>2, <3>1 DEF FieldsRead, Before, RegistersRead, SumsRead, Displacements, Weights
  <2> QED
    BY <2>1, <2>2, <2>3 DEF AddressingInv
<1> QED
  BY <1>1, <1>2 DEF CloseBracket

\* The encoder finds nothing to refuse.
LEMMA EncodeStep == ASSUME AddressingInv, Encode PROVE AddressingInv'
<1>0. TypeInv /\ CheckInv /\ ReadInv /\ pc = "encode"
  BY DEF Encode, AddressingInv
<1>1. EncoderError(mem) = "none"
  <2>1. is_valid_scale_factor(mem.scale) /\ (mem.is_rip_relative => NoRegister(mem))
    BY <1>0 DEF TypeInv, MemType, CheckInv, is_valid_scale_factor
  <2> QED
    BY <2>1 DEF EncoderError, NoRegister
<1>2. /\ pc' = "done" /\ error' = "none" /\ rex' = rex_bits(mem)
      /\ bytes' = emit_modrm_sib(mem, RegOpcode) /\ fixup' = FixupKind
      /\ terms' = terms /\ n' = n /\ mem' = mem
  BY <1>1 DEF Encode
<1>3. TypeInv'
  BY <1>0, <1>2 DEF TypeInv
<1>4. CheckInv'
  BY <1>0, <1>2 DEF CheckInv, EncoderChecksUnreachable, FixupKind
<1>5. ReadInv'
  <2> SUFFICES ASSUME Readable
               PROVE  pc' # "failed" /\ FieldsRead' /\ RegistersRead' /\ SumsRead'
    BY <1>2 DEF ReadInv, Readable, Documented, Of
  <2>1. FieldsRead /\ RegistersRead /\ SumsRead
    BY <1>0 DEF ReadInv
  <2> QED
    BY <1>2, <2>1 DEF FieldsRead, Before, RegistersRead, SumsRead, Displacements, Weights
<1> QED
  BY <1>3, <1>4, <1>5 DEF AddressingInv

LEMMA NextAddressing == AddressingInv /\ [Next]_vars => AddressingInv'
<1> SUFFICES ASSUME AddressingInv, [Next]_vars PROVE AddressingInv'
  OBVIOUS
<1>1. CASE UNCHANGED vars
  <2>0. TypeInv /\ CheckInv /\ ReadInv
    BY DEF AddressingInv
  <2> USE <1>1 DEF vars
  <2>1. TypeInv'
    BY <2>0 DEF TypeInv
  <2>2. CheckInv'
    BY <2>0 DEF CheckInv, EncoderChecksUnreachable, FixupKind
  <2>3. ReadInv'
    <3> SUFFICES ASSUME Readable
                 PROVE  pc' # "failed" /\ FieldsRead' /\ RegistersRead' /\ SumsRead'
      BY DEF ReadInv, Readable, Documented, Of
    <3>1. pc # "failed" /\ FieldsRead /\ RegistersRead /\ SumsRead
      BY <2>0 DEF ReadInv
    <3> QED
      BY <3>1 DEF FieldsRead, Before, RegistersRead, SumsRead, Displacements, Weights
  <2> QED
    BY <2>1, <2>2, <2>3 DEF AddressingInv
<1>2. Finished => UNCHANGED vars
  BY DEF Finished
<1> QED
  BY <1>1, <1>2, FirstRegisterStep, SignedRegisterStep, ScaledRegisterStep, RipStep, NumberStep,
     DollarStep, LabelStep, StarStep, AbsStep, CloseBracketStep, EncodeStep DEF Next

\* The operand that the parser has made of a documented operand is encodable.
LEMMA DocumentedEncodable ==
    ASSUME AddressingInv, Readable, ~ Unencodable, IsInt32(Displacement), pc = "done"
    PROVE  Encodable(mem)
<1>0. /\ TypeInv /\ mem \in MemType /\ n - 1 = Len(terms)
      /\ FieldsRead /\ RegistersRead /\ SumsRead /\ (mem.is_rip_relative => NoRegister(mem))
  BY DEF AddressingInv, TypeInv, CheckInv, ReadInv
<1>1. terms \in Seq(Term) /\ Len(terms) \in Nat /\ DOMAIN terms = 1..Len(terms)
  BY <1>0 DEF TypeInv
<1>2. mem.displacement = Displacement
  BY <1>0 DEF SumsRead, Displacement
<1>3. ASSUME mem.has_index
      PROVE  mem.has_base /\ mem.index \in Regs \ {4} /\ (mem.base % 8 = 5 => mem.has_displacement)
  <2>1. terms[1].kind = "reg"
    BY <1>0, <1>3 DEF RegistersRead
  <2>2. PICK k \in 2..Len(terms) : terms[k].kind = "reg"
    BY <1>0, <1>3, <2>1 DEF RegistersRead
  <2>3. mem.index = terms[k].reg
    BY <1>0, <2>1, <2>2 DEF RegistersRead
  <2>4. 1 \in Of("reg") /\ k \in Of("reg") \ {1}
    BY <1>1, <2>1, <2>2 DEF Of
  <2>5. Cardinality(Of("reg")) = 2
    <3>1. Of("reg") = {1} \cup {k}
      <4>1. \A j \in Of("reg") : j = 1 \/ j \in 2..Len(terms)
        BY <1>1 DEF Of
      <4>2. \A j \in Of("reg") : j = 1 \/ j = k
        <5> TAKE j \in Of("reg")
        <5>1. terms[j].kind = "reg"
          BY DEF Of
        <5> QED
          BY <1>0, <2>1, <2>2, <4>1, <5>1, OneIndex
      <4> QED
        BY <2>4, <4>2
    <3>2. IsFiniteSet({1}) /\ Cardinality({1}) = 1
      BY FS_Singleton
    <3>3. k \notin {1}
      BY <2>2
    <3>4. Cardinality({1} \cup {k}) = Cardinality({1}) + 1
      BY <3>2, <3>3, FS_AddElement, Zenon
    <3> QED
      BY <3>1, <3>2, <3>4, 1 + 1 = 2, Zenon
  <2>6. terms[k].reg # 4 /\ (terms[1].reg % 8 = 5 => Of("num") # {})
    <3>1. Of("num") \cup Of("dollar") = Of("num")
      BY DEF Readable
    <3>2. terms[k].reg # 4 /\ (terms[1].reg % 8 = 5 => Of("num") \cup Of("dollar") # {})
      BY <2>4, <2>5, Zenon DEF Unencodable
    <3> QED
      BY <3>1, <3>2
  <2>7. mem.has_base /\ mem.base = terms[1].reg
    <3>1. n > 1
      BY <1>0, <1>1, <2>2 DEF TypeInv
    <3> QED
      BY <1>0, <2>1, <3>1 DEF RegistersRead
  <2>8. terms[k] \in Term
    BY <1>0, <2>2, TermTyped
  <2>9. Of("num") # {} => mem.has_displacement
    BY <1>0, <1>1 DEF Of, FieldsRead, Before
  <2> QED
    BY <2>3, <2>6, <2>7, <2>8, <2>9 DEF Term
<1> QED
  BY <1>0, <1>2, <1>3 DEF Encodable, FieldsRead

LEMMA AddressingCorrect == AddressingInv => EncodesWhatIsWritten
<1> SUFFICES ASSUME AddressingInv, Readable, ~ Unencodable, IsInt32(Displacement)
             PROVE  pc # "failed" /\ (pc = "done" => Kept)
  BY DEF EncodesWhatIsWritten, Readable
<1>1. pc # "failed"
  BY DEF AddressingInv, ReadInv
<1>2. ASSUME pc = "done" PROVE Kept
  <2>0. /\ TypeInv /\ mem \in MemType /\ n - 1 = Len(terms)
        /\ rex = rex_bits(mem) /\ bytes = emit_modrm_sib(mem, RegOpcode) /\ fixup = FixupKind
        /\ FieldsRead /\ RegistersRead /\ SumsRead
    BY <1>2 DEF AddressingInv, TypeInv, CheckInv, ReadInv
  <2>1. terms \in Seq(Term) /\ Len(terms) \in Nat /\ DOMAIN terms = 1..Len(terms)
    BY <2>0 DEF TypeInv
  <2>2. PICK m : m = mem
    OBVIOUS
  <2>3. Decoded = AddressOf(m)
    BY <1>2, <2>0, <2>2, DocumentedEncodable, DecodesMem
  <2>4. mem.is_rip_relative = Written.rip
    <3>1. mem.is_rip_relative \in BOOLEAN
      BY <2>0 DEF MemType
    <3>2. mem.is_rip_relative <=> \E k \in DOMAIN terms : terms[k].kind = "rip"
      BY <2>0, <2>1 DEF FieldsRead, Before
    <3>3. mem.is_rip_relative = (\E k \in DOMAIN terms : terms[k].kind = "rip")
      BY <3>1, <3>2
    <3> QED
      BY <3>3 DEF Written
  <2>5. AddressOf(mem).regs = Written.regs
    <3>1. AddressOf(mem).regs = [r \in Regs |-> AddressOf(mem).regs[r]]
      BY DEF AddressOf
    <3>2. Written.regs = [r \in Regs |-> Totals(Weights(r))[Len(terms)]]
      BY DEF Written
    <3> QED
      BY <2>0, <3>1, <3>2 DEF SumsRead
  <2>6. {mem.displacement} = Written.disp
    BY <2>0 DEF SumsRead, Written, Displacement
  <2>7. AddressOf(mem) = Written
    <3>1. AddressOf(mem) = [regs |-> AddressOf(mem).regs, disp |-> {mem.displacement},
                            rip |-> mem.is_rip_relative]
      BY DEF AddressOf
    <3>2. Written = [regs |-> Written.regs, disp |-> Written.disp, rip |-> Written.rip]
      BY DEF Written
    <3> QED
      BY <2>4, <2>5, <2>6, <3>1, <3>2, Zenon
  <2>8. fixup = IF \A k \in DOMAIN terms : terms[k].kind # "label" THEN "none"
                ELSE IF Written.rip THEN "rip" ELSE "abs"
    <3>1. mem.label <=> \E k \in DOMAIN terms : terms[k].kind = "label"
      BY <2>0, <2>1 DEF FieldsRead, Before
    <3>2. CASE ~ mem.label
      BY <2>0, <3>1, <3>2 DEF FixupKind
    <3>3. CASE mem.label
      <4>1. PICK k \in 1..Len(terms) : terms[k].kind = "label"
        BY <2>1, <3>1, <3>3
      <4>2. terms[1].kind # "reg"
        <5>1. terms[1].kind = "reg" => terms[k].kind \in {"reg", "num"}
          BY <2>0, DocumentedTerms, Zenon
        <5> QED
          BY <4>1, <5>1
      <4>3. NoRegister(mem)
        BY <2>0, <4>2 DEF RegistersRead, NoRegister
      <4>4. fixup = IF mem.is_rip_relative THEN "rip" ELSE "abs"
        BY <2>0, <3>3, <4>3 DEF FixupKind
      <4>5. ~ \A j \in DOMAIN terms : terms[j].kind # "label"
        BY <3>1, <3>3
      <4> QED
        BY <2>4, <4>4, <4>5
    <3> QED
      BY <3>2, <3>3
  <2> QED
    BY <2>2, <2>3, <2>7, <2>8 DEF Kept
<1> QED
  BY <1>1, <1>2

\* Whatever documented operand is written, with any number of displacements without
\* a $ whose sum fits, and outside the forms of Unencodable, emit_modrm_sib emits the
\* bytes from which the processor reads its address, and the label gets the fixup of
\* its kind.  A documented displacement with a $ is refused, see Dollar.
THEOREM EncodedAsWritten == Spec => []EncodesWhatIsWritten
<1>1. Spec => []AddressingInv
  BY InitAddressing, NextAddressing, PTL DEF Spec
<1> QED
  BY <1>1, AddressingCorrect, PTL

\* No operand that parse_memory_operand accepts is refused by emit_modrm_sib.
THEOREM EncoderAccepts == Spec => []EncoderChecksUnreachable
<1>1. Spec => []AddressingInv
  BY InitAddressing, NextAddressing, PTL DEF Spec
<1>2. AddressingInv => EncoderChecksUnreachable
  BY DEF AddressingInv, CheckInv
<1> QED
  BY <1>1, <1>2, PTL

=============================================================================
